-------------------------- MODULE AuditPool_proofs --------------------------
(***************************************************************************)
(* The connections of the audit pool add up, no handler waits for one      *)
(* while it holds another, and the pool implements AuditStatements, for    *)
(* any number of handlers and connections.                                 *)
(***************************************************************************)
EXTENDS AuditPool, FiniteSetTheorems, TLAPS

-----------------------------------------------------------------------------
(* The programs of the handlers.                                           *)

LEMMA Programs ==
  \A h \in Handlers :
    /\ Last(h) \in 1..3
    /\ Program[Does[h]][1] \in GivesUp
    /\ Last(h) > 1 => Program[Does[h]][1] = "start"
    /\ \A i \in 2..Last(h) : Program[Does[h]][i] \in {"list", "finish"}
  <1> SUFFICES ASSUME NEW h \in Handlers
               PROVE  /\ Last(h) \in 1..3
                      /\ Program[Does[h]][1] \in GivesUp
                      /\ Last(h) > 1 => Program[Does[h]][1] = "start"
                      /\ \A i \in 2..Last(h) : Program[Does[h]][i] \in {"list", "finish"}
    OBVIOUS
  <1>1. Does[h] \in {"proxy", "logs", "ready"}
    BY PoolAssumption DEF PoolAssumption, Program
  <1>2. CASE Does[h] = "proxy"
    <2>1. Program[Does[h]] = <<"start", "finish">>
      BY <1>2 DEF Program
    <2> QED
      BY <2>1 DEF Last, GivesUp
  <1>3. CASE Does[h] = "logs"
    <2>1. Program[Does[h]] = <<"start", "list", "finish">>
      BY <1>3 DEF Program
    <2> QED
      BY <2>1 DEF Last, GivesUp
  <1>4. CASE Does[h] = "ready"
    <2>1. Program[Does[h]] = <<"ping">>
      BY <1>4 DEF Program
    <2> QED
      BY <2>1 DEF Last, GivesUp
  <1> QED
    BY <1>1, <1>2, <1>3, <1>4

-----------------------------------------------------------------------------
(* The invariant, one handler at a time and the counters apart.            *)

Outcomes == {"none", "sent", "done", "lost"}

\* What PoolInv says of a handler at position a in state s, that holds a connection or
\* not (b) and whose statements are m.
HandlerOK(h, a, s, b, m) ==
  /\ a \in 1..(Last(h) + 1) /\ s \in States /\ b \in BOOLEAN
  /\ m \in [1..Last(h) -> Outcomes]
  /\ b <=> s \in {"dialing", "executing", "reading"}
  /\ s # "ended" => a <= Last(h)
  /\ s = "reading" => a > 1 /\ m[a] = "done"
  /\ s = "executing" => m[a] # "none"
  /\ \A i \in 1..Last(h) :
       i > a \/ (i = a /\ s \in {"away", "waiting", "dialing"}) => m[i] = "none"
  /\ a > 1 /\ s # "ended" => m[1] = "done"
  /\ \A i \in 2..Last(h) : m[i] # "none" => m[1] = "done"

HandlersOK ==
  /\ at \in [Handlers -> 1..4] /\ st \in [Handlers -> States]
  /\ held \in [Handlers -> BOOLEAN] /\ DOMAIN stmt = Handlers
  /\ \A h \in Handlers : HandlerOK(h, at[h], st[h], held[h], stmt[h])

CountersOK ==
  /\ pool \in {"opening", "open", "closing", "closed"}
  /\ free \in 0..MaxConns /\ idle \in 0..MaxConns
  /\ dialing \in 0..MaxConns /\ broken \in 0..MaxConns
  /\ NoConnectionLeaks /\ IdleOnlyOpen

LEMMA Parts == PoolInv <=> CountersOK /\ HandlersOK
  BY DEF PoolInv, CountersOK, HandlersOK, HandlerOK, TypeOK, HoldersWork, InProgram,
         UnsentAhead, StartedFirst, Outcomes

LEMMA PartsPrimed == PoolInv' <=> CountersOK' /\ HandlersOK'
  BY DEF PoolInv, CountersOK, HandlersOK, HandlerOK, TypeOK, HoldersWork, InProgram,
         UnsentAhead, StartedFirst, Outcomes, Last, States, NoConnectionLeaks,
         IdleOnlyOpen, Holders, Program

NewStatements(h, m) ==
  /\ DOMAIN stmt' = Handlers /\ stmt'[h] = m
  /\ \A g \in Handlers \ {h} : stmt'[g] = stmt[g]

\* One handler moves, the others stay as they are.
LEMMA HandlerMoves ==
  ASSUME HandlersOK, NEW h \in Handlers, NEW a, NEW s, NEW b, NEW m,
         at' = [at EXCEPT ![h] = a], st' = [st EXCEPT ![h] = s],
         held' = [held EXCEPT ![h] = b], NewStatements(h, m),
         HandlerOK(h, a, s, b, m)
  PROVE  HandlersOK'
  <1>1. a \in 1..4 /\ s \in States /\ b \in BOOLEAN
    BY Programs DEF HandlerOK
  <1>2. /\ at' \in [Handlers -> 1..4] /\ st' \in [Handlers -> States]
        /\ held' \in [Handlers -> BOOLEAN] /\ DOMAIN stmt' = Handlers
    BY <1>1 DEF HandlersOK, NewStatements
  <1>3. \A g \in Handlers : HandlerOK(g, at'[g], st'[g], held'[g], stmt'[g])
    BY DEF HandlersOK, NewStatements
  <1> QED
    BY <1>2, <1>3 DEF HandlersOK, HandlerOK, Last, Program

LEMMA HandlersStay ==
  ASSUME HandlersOK, UNCHANGED <<at, st, held, stmt>>
  PROVE  HandlersOK'
  BY DEF HandlersOK, HandlerOK, Last, Program

-----------------------------------------------------------------------------
(* The handlers that hold a connection.                                    *)

LEMMA HoldersFinite ==
  IsFiniteSet(Holders) /\ Cardinality(Holders) \in Nat
  BY PoolAssumption, FS_Subset, FS_CardinalityType DEF PoolAssumption, Holders

LEMMA HolderJoins ==
  ASSUME HandlersOK, NEW h \in Handlers, ~held[h], held' = [held EXCEPT ![h] = TRUE]
  PROVE  Cardinality(Holders') = Cardinality(Holders) + 1
  <1>1. Holders' = Holders \cup {h} /\ h \notin Holders
    BY DEF Holders, HandlersOK
  <1> QED
    BY <1>1, HoldersFinite, FS_AddElement

LEMMA HolderLeaves ==
  ASSUME HandlersOK, NEW h \in Handlers, held[h], held' = [held EXCEPT ![h] = FALSE]
  PROVE  Cardinality(Holders') = Cardinality(Holders) - 1 /\ Cardinality(Holders) > 0
  <1>1. Holders' = Holders \ {h} /\ h \in Holders
    BY DEF Holders, HandlersOK
  <1>2. Cardinality(Holders') = Cardinality(Holders) - 1
    BY <1>1, HoldersFinite, FS_RemoveElement
  <1>3. Cardinality(Holders) # 0
    BY <1>1, HoldersFinite, FS_EmptySet
  <1> QED
    BY <1>2, <1>3, HoldersFinite

LEMMA HoldersStay ==
  ASSUME HandlersOK, \/ UNCHANGED held
                     \/ \E h \in Handlers : held' = [held EXCEPT ![h] = held[h]]
  PROVE  Cardinality(Holders') = Cardinality(Holders)
  <1>1. held' = held
    BY DEF HandlersOK
  <1> QED
    BY <1>1 DEF Holders

\* The arithmetic of a step: the sum, and what it implies for the ranges.
LEMMA CountersAdd ==
  ASSUME CountersOK, pool' \in {"opening", "open", "closing", "closed"},
         free' \in Nat, idle' \in Nat, dialing' \in Nat, broken' \in Nat,
         Cardinality(Holders') \in Nat,
         free' + Cardinality(Holders') + dialing' + broken' = MaxConns,
         idle' <= free', pool' # "open" => idle' = 0,
         pool' \in {"opening", "closed"} => free' = MaxConns
  PROVE  CountersOK'
  BY PoolAssumption DEF PoolAssumption, CountersOK, NoConnectionLeaks, IdleOnlyOpen, Holders

-----------------------------------------------------------------------------
(* The steps of the pool and of the process.                               *)

LEMMA InitInv ==
  ASSUME Init
  PROVE  PoolInv
  <1>1. Holders = {}
    BY DEF Init, Holders
  <1>2. CountersOK
    BY <1>1, FS_EmptySet, PoolAssumption
       DEF Init, CountersOK, NoConnectionLeaks, IdleOnlyOpen, PoolAssumption
  <1>3. \A h \in Handlers : HandlerOK(h, at[h], st[h], held[h], stmt[h])
    BY Programs DEF Init, HandlerOK, Unsent, States, Outcomes
  <1>4. /\ at \in [Handlers -> 1..4] /\ st \in [Handlers -> States]
        /\ held \in [Handlers -> BOOLEAN] /\ DOMAIN stmt = Handlers
    BY DEF Init, States
  <1>5. HandlersOK
    BY <1>3, <1>4 DEF HandlersOK
  <1> QED
    BY <1>2, <1>5, Parts

LEMMA PoolSteps ==
  ASSUME PoolInv,
         OpenSucceeds \/ OpenFails \/ Close \/ CloseReturns \/ DialEnds
           \/ BrokenCloses \/ IdleCloses \/ UNCHANGED vars
  PROVE  PoolInv'
  <1>1. CountersOK /\ HandlersOK
    BY Parts
  <1>2. UNCHANGED <<at, st, held, stmt>>
    BY DEF OpenSucceeds, OpenFails, Close, CloseReturns, DialEnds, BrokenCloses,
           IdleCloses, vars
  <1>3. HandlersOK'
    BY <1>1, <1>2, HandlersStay
  <1>4. Cardinality(Holders') = Cardinality(Holders) /\ Cardinality(Holders) \in Nat
    BY <1>1, <1>2, HoldersStay, HoldersFinite
  <1>5. CountersOK'
    BY <1>1, <1>4, CountersAdd, PoolAssumption
       DEF OpenSucceeds, OpenFails, Close, CloseReturns, DialEnds, BrokenCloses,
           IdleCloses, vars, CountersOK, NoConnectionLeaks, IdleOnlyOpen, PoolAssumption
  <1> QED
    BY <1>3, <1>5, PartsPrimed

LEMMA RestartStep ==
  ASSUME PoolInv, Restart
  PROVE  PoolInv'
  <1>1. CountersOK /\ HandlersOK
    BY Parts
  <1>2. Holders' = {}
    BY DEF Restart, Holders
  <1>3. dialing = 0 /\ broken = 0
    BY <1>1, HoldersFinite, PoolAssumption
       DEF Restart, CountersOK, NoConnectionLeaks, IdleOnlyOpen, PoolAssumption
  <1>4. CountersOK'
    BY <1>1, <1>2, <1>3, FS_EmptySet, CountersAdd, PoolAssumption
       DEF Restart, CountersOK, IdleOnlyOpen, PoolAssumption
  <1>5. \A h \in Handlers : HandlerOK(h, at'[h], st'[h], held'[h], stmt'[h])
    BY Programs DEF Restart, HandlerOK, Unsent, States, Outcomes
  <1>6. HandlersOK'
    BY <1>5 DEF Restart, HandlersOK, States, HandlerOK, Last, Program
  <1> QED
    BY <1>4, <1>6, PartsPrimed

-----------------------------------------------------------------------------
(* The steps of a handler.                                                 *)

\* A handler that goes on after a statement, or gives up.
LEMMA GoesOn ==
  ASSUME HandlersOK, NEW h \in Handlers, NEW ok \in BOOLEAN, NEW m, Proceeds(h, ok),
         held' = [held EXCEPT ![h] = FALSE], NewStatements(h, m),
         st[h] # "ended", m \in [1..Last(h) -> Outcomes],
         \A i \in 1..Last(h) : i # at[h] => m[i] = stmt[h][i],
         ok => m[at[h]] = "done",
         at[h] > 1 => m[1] = stmt[h][1]
  PROVE  HandlersOK'
  <1> DEFINE next == IF ok \/ Op(h) \notin GivesUp THEN at[h] + 1 ELSE Last(h) + 1
             s == IF next > Last(h) THEN "ended" ELSE "away"
  <1>1. HandlerOK(h, at[h], st[h], held[h], stmt[h]) /\ Last(h) \in 1..3
    BY Programs DEF HandlersOK
  <1>2. /\ at' = [at EXCEPT ![h] = next]
        /\ st' = [st EXCEPT ![h] = s]
    BY DEF Proceeds
  <1>3. next \in 2..(Last(h) + 1) /\ next > at[h]
    BY <1>1 DEF HandlerOK
  <1>4. at[h] = 1 /\ ~ok => next = Last(h) + 1
    BY Programs DEF Op
  <1>5. s # "ended" => m[1] = "done"
    BY <1>1, <1>3, <1>4 DEF HandlerOK
  <1>6. \A i \in 2..Last(h) : m[i] # "none" => m[1] = "done"
    BY <1>1 DEF HandlerOK
  <1>7. HandlerOK(h, next, s, FALSE, m)
    <2> HIDE DEF next
    <2> QED
      BY <1>1, <1>3, <1>5, <1>6 DEF HandlerOK, States
  <1> QED
    BY <1>2, <1>7, HandlerMoves

\* What GiveBack does to the counters.
LEMMA ConnectionComesBack ==
  ASSUME CountersOK, HandlersOK, NEW h \in Handlers, held[h], GiveBack(h)
  PROVE  CountersOK'
  <1>1. Cardinality(Holders') = Cardinality(Holders) - 1 /\ Cardinality(Holders) > 0
    BY HolderLeaves DEF GiveBack
  <1>2. pool \notin {"opening", "closed"}
    BY <1>1, HoldersFinite, PoolAssumption
       DEF CountersOK, NoConnectionLeaks, IdleOnlyOpen, PoolAssumption
  <1>3. Cardinality(Holders') \in Nat
    BY <1>1, HoldersFinite
  <1>4. CASE pool = "open"
    BY <1>1, <1>3, <1>4, HoldersFinite, CountersAdd
       DEF GiveBack, CountersOK, NoConnectionLeaks, IdleOnlyOpen
  <1>5. CASE pool = "closing"
    BY <1>1, <1>3, <1>5, HoldersFinite, CountersAdd
       DEF GiveBack, CountersOK, NoConnectionLeaks, IdleOnlyOpen
  <1> QED
    BY <1>2, <1>4, <1>5 DEF CountersOK

\* A statement that ended leaves the others of its handler alone.
LEMMA StatementOf ==
  ASSUME HandlersOK, NEW h \in Handlers, NEW i \in 1..Last(h), NEW o \in Outcomes,
         stmt' = [stmt EXCEPT ![h][i] = o]
  PROVE  /\ NewStatements(h, [stmt[h] EXCEPT ![i] = o])
         /\ [stmt[h] EXCEPT ![i] = o] \in [1..Last(h) -> Outcomes]
  BY DEF HandlersOK, HandlerOK, NewStatements

LEMMA StatementsStay ==
  ASSUME HandlersOK, NEW h \in Handlers, UNCHANGED stmt
  PROVE  NewStatements(h, stmt[h]) /\ stmt[h] \in [1..Last(h) -> Outcomes]
  BY DEF HandlersOK, HandlerOK, NewStatements

LEMMA AskStep ==
  ASSUME PoolInv, NEW h \in Handlers, Ask(h)
  PROVE  PoolInv'
  <1>1. CountersOK /\ HandlersOK
    BY Parts
  <1>2. HandlerOK(h, at[h], "waiting", held[h], stmt[h])
    BY <1>1 DEF Ask, HandlersOK, HandlerOK, States
  <1>3. at' = [at EXCEPT ![h] = at[h]] /\ held' = [held EXCEPT ![h] = held[h]]
    BY <1>1 DEF Ask, HandlersOK
  <1>4. HandlersOK'
    BY <1>1, <1>2, <1>3, HandlerMoves, StatementsStay DEF Ask
  <1>5. CountersOK'
    BY <1>1 DEF Ask, CountersOK, NoConnectionLeaks, IdleOnlyOpen, Holders, poolVars
  <1> QED
    BY <1>4, <1>5, PartsPrimed

\* A statement that is sent, over a connection that was idle or was just opened.
LEMMA SendMoves ==
  ASSUME HandlersOK, NEW h \in Handlers, st[h] \in {"waiting", "dialing"}, Send(h),
         UNCHANGED at, held' = [held EXCEPT ![h] = TRUE]
  PROVE  HandlersOK'
  <1>1. HandlerOK(h, at[h], st[h], held[h], stmt[h]) /\ at[h] \in 1..Last(h)
    BY Programs DEF HandlersOK, HandlerOK
  <1> DEFINE m == [stmt[h] EXCEPT ![at[h]] = "sent"]
  <1>2. NewStatements(h, m) /\ m \in [1..Last(h) -> Outcomes]
    BY <1>1, StatementOf DEF Send, Outcomes
  <1>3. HandlerOK(h, at[h], "executing", TRUE, m)
    BY <1>1, <1>2, Programs DEF HandlerOK, States
  <1>4. at' = [at EXCEPT ![h] = at[h]]
    BY DEF HandlersOK
  <1> QED
    BY <1>2, <1>3, <1>4, HandlerMoves DEF Send

LEMMA TakeIdleStep ==
  ASSUME PoolInv, NEW h \in Handlers, TakeIdle(h)
  PROVE  PoolInv'
  <1>1. CountersOK /\ HandlersOK
    BY Parts
  <1>2. HandlersOK'
    BY <1>1, SendMoves DEF TakeIdle
  <1>3. ~held[h]
    BY <1>1 DEF TakeIdle, HandlersOK, HandlerOK
  <1>4. Cardinality(Holders') = Cardinality(Holders) + 1 /\ Cardinality(Holders) \in Nat
    BY <1>1, <1>3, HolderJoins, HoldersFinite DEF TakeIdle
  <1>5. CountersOK'
    BY <1>1, <1>4, CountersAdd DEF TakeIdle, CountersOK, NoConnectionLeaks, IdleOnlyOpen
  <1> QED
    BY <1>2, <1>5, PartsPrimed

LEMMA DialStep ==
  ASSUME PoolInv, NEW h \in Handlers, Dial(h)
  PROVE  PoolInv'
  <1>1. CountersOK /\ HandlersOK
    BY Parts
  <1>2. ~held[h] /\ HandlerOK(h, at[h], "dialing", TRUE, stmt[h])
    BY <1>1 DEF Dial, HandlersOK, HandlerOK, States
  <1>3. at' = [at EXCEPT ![h] = at[h]]
    BY <1>1 DEF Dial, HandlersOK
  <1>4. HandlersOK'
    BY <1>1, <1>2, <1>3, HandlerMoves, StatementsStay DEF Dial
  <1>5. Cardinality(Holders') = Cardinality(Holders) + 1 /\ Cardinality(Holders) \in Nat
    BY <1>1, <1>2, HolderJoins, HoldersFinite DEF Dial
  <1>6. CountersOK'
    BY <1>1, <1>5, CountersAdd DEF Dial, CountersOK, NoConnectionLeaks, IdleOnlyOpen
  <1> QED
    BY <1>4, <1>6, PartsPrimed

LEMMA DialSucceedsStep ==
  ASSUME PoolInv, NEW h \in Handlers, DialSucceeds(h)
  PROVE  PoolInv'
  <1>1. CountersOK /\ HandlersOK
    BY Parts
  <1>2. held' = [held EXCEPT ![h] = TRUE]
    BY <1>1 DEF DialSucceeds, HandlersOK, HandlerOK
  <1>3. HandlersOK'
    BY <1>1, <1>2, SendMoves DEF DialSucceeds
  <1>4. CountersOK'
    BY <1>1 DEF DialSucceeds, CountersOK, NoConnectionLeaks, IdleOnlyOpen, Holders, poolVars
  <1> QED
    BY <1>3, <1>4, PartsPrimed

\* A handler that is refused, cannot open a connection or gives up.
LEMMA FailsMoves ==
  ASSUME HandlersOK, NEW h \in Handlers, st[h] # "ended", Proceeds(h, FALSE),
         held' = [held EXCEPT ![h] = FALSE], UNCHANGED stmt
  PROVE  HandlersOK'
  <1>1. \A i \in 1..Last(h) : i # at[h] => stmt[h][i] = stmt[h][i]
    OBVIOUS
  <1> QED
    BY <1>1, GoesOn, StatementsStay

LEMMA DialFailsStep ==
  ASSUME PoolInv, NEW h \in Handlers, DialFails(h)
  PROVE  PoolInv'
  <1>1. CountersOK /\ HandlersOK
    BY Parts
  <1>2. HandlersOK'
    BY <1>1, FailsMoves DEF DialFails
  <1>3. held[h]
    BY <1>1 DEF DialFails, HandlersOK, HandlerOK
  <1>4. /\ Cardinality(Holders') = Cardinality(Holders) - 1 /\ Cardinality(Holders) > 0
        /\ Cardinality(Holders) \in Nat
    BY <1>1, <1>3, HolderLeaves, HoldersFinite DEF DialFails
  <1>5. CountersOK'
    BY <1>1, <1>4, CountersAdd, PoolAssumption
       DEF DialFails, CountersOK, NoConnectionLeaks, IdleOnlyOpen, PoolAssumption
  <1> QED
    BY <1>2, <1>5, PartsPrimed

LEMMA RefusedStep ==
  ASSUME PoolInv, NEW h \in Handlers, Refused(h)
  PROVE  PoolInv'
  <1>1. CountersOK /\ HandlersOK
    BY Parts
  <1>2. held' = [held EXCEPT ![h] = FALSE]
    BY <1>1 DEF Refused, HandlersOK, HandlerOK
  <1>3. HandlersOK'
    BY <1>1, <1>2, FailsMoves DEF Refused
  <1>4. CountersOK'
    BY <1>1 DEF Refused, CountersOK, NoConnectionLeaks, IdleOnlyOpen, Holders, poolVars
  <1> QED
    BY <1>3, <1>4, PartsPrimed

LEMMA GiveUpStep ==
  ASSUME PoolInv, NEW h \in Handlers, GiveUp(h)
  PROVE  PoolInv'
  <1>1. CountersOK /\ HandlersOK
    BY Parts
  <1>2. HandlersOK'
    BY <1>1, FailsMoves DEF GiveUp
  <1>3. CASE st[h] = "waiting"
    <2>1. held' = held
      BY <1>1, <1>3 DEF GiveUp, HandlersOK, HandlerOK
    <2>2. CountersOK'
      BY <1>1, <1>3, <2>1 DEF GiveUp, CountersOK, NoConnectionLeaks, IdleOnlyOpen, Holders
    <2> QED
      BY <1>2, <2>2, PartsPrimed
  <1>4. CASE st[h] \in {"dialing", "executing", "reading"}
    <2>1. held[h]
      BY <1>1, <1>4 DEF HandlersOK, HandlerOK
    <2>2. /\ Cardinality(Holders') = Cardinality(Holders) - 1 /\ Cardinality(Holders) > 0
          /\ Cardinality(Holders) \in Nat
      BY <1>1, <2>1, HolderLeaves, HoldersFinite DEF GiveUp
    <2>3. CountersOK'
      BY <1>1, <1>4, <2>2, CountersAdd
         DEF GiveUp, CountersOK, NoConnectionLeaks, IdleOnlyOpen
    <2> QED
      BY <1>2, <2>3, PartsPrimed
  <1> QED
    BY <1>3, <1>4 DEF GiveUp

LEMMA SucceedsStep ==
  ASSUME PoolInv, NEW h \in Handlers, Succeeds(h) \/ ListReturns(h)
  PROVE  PoolInv'
  <1>1. CountersOK /\ HandlersOK
    BY Parts
  <1>2. held[h] /\ stmt[h][at[h]] = "done" /\ st[h] # "ended"
    BY <1>1 DEF Succeeds, ListReturns, HandlersOK, HandlerOK
  <1>3. GiveBack(h) /\ Proceeds(h, TRUE) /\ UNCHANGED stmt
    BY DEF Succeeds, ListReturns
  <1>4. CountersOK'
    BY <1>1, <1>2, <1>3, ConnectionComesBack
  <1>5. held' = [held EXCEPT ![h] = FALSE]
    BY <1>3 DEF GiveBack
  <1>6. HandlersOK'
    BY <1>1, <1>2, <1>3, <1>5, GoesOn, StatementsStay
  <1> QED
    BY <1>4, <1>6, PartsPrimed

LEMMA RejectedStep ==
  ASSUME PoolInv, NEW h \in Handlers, Rejected(h)
  PROVE  PoolInv'
  <1>1. CountersOK /\ HandlersOK
    BY Parts
  <1>2. HandlerOK(h, at[h], st[h], held[h], stmt[h])
    BY <1>1 DEF HandlersOK
  <1>3. held[h] /\ at[h] \in 1..Last(h)
    BY <1>2, Programs DEF Rejected, HandlerOK
  <1>4. CountersOK'
    BY <1>1, <1>3, ConnectionComesBack DEF Rejected
  <1> DEFINE m == [stmt[h] EXCEPT ![at[h]] = "lost"]
  <1>5. NewStatements(h, m) /\ m \in [1..Last(h) -> Outcomes]
    BY <1>1, <1>3, StatementOf DEF Rejected, Outcomes
  <1>6. /\ \A i \in 1..Last(h) : i # at[h] => m[i] = stmt[h][i]
        /\ at[h] > 1 => m[1] = stmt[h][1]
    BY <1>2, <1>3, Programs DEF HandlerOK
  <1>7. HandlersOK'
    <2> HIDE DEF m
    <2> QED
      BY <1>1, <1>5, <1>6, GoesOn DEF Rejected, GiveBack
  <1> QED
    BY <1>4, <1>7, PartsPrimed

LEMMA RowsArriveStep ==
  ASSUME PoolInv, NEW h \in Handlers, RowsArrive(h)
  PROVE  PoolInv'
  <1>1. CountersOK /\ HandlersOK
    BY Parts
  <1>2. HandlerOK(h, at[h], st[h], held[h], stmt[h])
    BY <1>1 DEF HandlersOK
  <1>3. at[h] # 1
    BY Programs DEF RowsArrive, Op, GivesUp
  <1>4. HandlerOK(h, at[h], "reading", held[h], stmt[h])
    BY <1>2, <1>3 DEF RowsArrive, HandlerOK, States
  <1>5. at' = [at EXCEPT ![h] = at[h]] /\ held' = [held EXCEPT ![h] = held[h]]
    BY <1>1 DEF RowsArrive, HandlersOK
  <1>6. HandlersOK'
    BY <1>1, <1>4, <1>5, HandlerMoves, StatementsStay DEF RowsArrive
  <1>7. CountersOK'
    BY <1>1 DEF RowsArrive, CountersOK, NoConnectionLeaks, IdleOnlyOpen, Holders, poolVars
  <1> QED
    BY <1>6, <1>7, PartsPrimed

LEMMA RenewStep ==
  ASSUME PoolInv, NEW h \in Handlers, Renew(h)
  PROVE  PoolInv'
  <1>1. CountersOK /\ HandlersOK
    BY Parts
  <1>2. held' = [held EXCEPT ![h] = FALSE]
    BY <1>1 DEF Renew, HandlersOK, HandlerOK
  <1>3. HandlerOK(h, 1, "away", FALSE, Unsent(h))
    BY Programs DEF HandlerOK, Unsent, States, Outcomes
  <1>4. NewStatements(h, Unsent(h))
    BY <1>1 DEF Renew, HandlersOK, NewStatements
  <1>5. HandlersOK'
    BY <1>1, <1>2, <1>3, <1>4, HandlerMoves DEF Renew
  <1>6. CountersOK'
    BY <1>1 DEF Renew, CountersOK, NoConnectionLeaks, IdleOnlyOpen, Holders, poolVars
  <1> QED
    BY <1>5, <1>6, PartsPrimed

\* Postgres performs or loses a statement that was sent.
LEMMA PostgresStep ==
  ASSUME PoolInv, NEW h \in Handlers, NEW i \in 1..Last(h), Perform(h, i) \/ Lose(h, i)
  PROVE  PoolInv'
  <1>1. CountersOK /\ HandlersOK
    BY Parts
  <1>2. HandlerOK(h, at[h], st[h], held[h], stmt[h])
    BY <1>1 DEF HandlersOK
  <1>3. UNCHANGED <<pool, free, idle, dialing, broken, at, st, held>> /\ stmt[h][i] = "sent"
    BY DEF Perform, Lose, poolVars
  <1>4. PICK o \in {"done", "lost"} : stmt' = [stmt EXCEPT ![h][i] = o]
    BY DEF Perform, Lose
  <1> DEFINE m == [stmt[h] EXCEPT ![i] = o]
  <1>5. NewStatements(h, m) /\ m \in [1..Last(h) -> Outcomes]
    BY <1>1, <1>4, StatementOf DEF Outcomes
  <1>6. HandlerOK(h, at[h], st[h], held[h], m)
    BY <1>2, <1>3, <1>5, Programs DEF HandlerOK
  <1>7. /\ at' = [at EXCEPT ![h] = at[h]] /\ st' = [st EXCEPT ![h] = st[h]]
        /\ held' = [held EXCEPT ![h] = held[h]]
    BY <1>1, <1>3 DEF HandlersOK
  <1>8. HandlersOK'
    <2> HIDE DEF m
    <2> QED
      BY <1>1, <1>5, <1>6, <1>7, HandlerMoves
  <1>9. CountersOK'
    BY <1>1, <1>3 DEF CountersOK, NoConnectionLeaks, IdleOnlyOpen, Holders
  <1> QED
    BY <1>8, <1>9, PartsPrimed

-----------------------------------------------------------------------------
(* The theorems.                                                           *)

LEMMA StepInv ==
  ASSUME PoolInv, [Next]_vars
  PROVE  PoolInv'
  <1>1. CASE OpenSucceeds \/ OpenFails \/ Close \/ CloseReturns \/ DialEnds
               \/ BrokenCloses \/ IdleCloses \/ UNCHANGED vars
    BY <1>1, PoolSteps
  <1>2. CASE Restart
    BY <1>2, RestartStep
  <1>3. CASE \E h \in Handlers : Statement(h)
    <2> PICK h \in Handlers : Statement(h)
      BY <1>3
    <2> QED
      BY AskStep, TakeIdleStep, DialStep, DialSucceedsStep, DialFailsStep, RefusedStep,
         SucceedsStep, RejectedStep, RowsArriveStep, GiveUpStep, RenewStep DEF Statement
  <1>4. CASE \E h \in Handlers : \E i \in 1..Last(h) : Perform(h, i) \/ Lose(h, i)
    BY <1>4, PostgresStep
  <1> QED
    BY <1>1, <1>2, <1>3, <1>4 DEF Next

\* The inductive invariant of the pool, for any number of handlers and connections.
THEOREM PoolInvariant == Spec => []PoolInv
  <1>1. Init => PoolInv
    BY InitInv
  <1>2. PoolInv /\ [Next]_vars => PoolInv'
    BY StepInv
  <1> QED
    BY <1>1, <1>2, PTL DEF Spec

\* Every variable of the pool and of its handlers keeps its type.
THEOREM PoolTypes == Spec => []TypeOK
  <1>1. PoolInv => TypeOK
    BY DEF PoolInv
  <1> QED
    BY <1>1, PoolInvariant, PTL

\* Whatever fails, times out or is closed: no connection is lost or given back twice.
THEOREM ConnectionsAddUp == Spec => []NoConnectionLeaks
  <1>1. PoolInv => NoConnectionLeaks
    BY DEF PoolInv
  <1> QED
    BY <1>1, PoolInvariant, PTL

\* No handler waits for a connection while it holds one.
THEOREM NobodyHoldsAndWaits == Spec => []NoHoldAndWait
  <1>1. PoolInv => NoHoldAndWait
    BY DEF PoolInv, HoldersWork, NoHoldAndWait
  <1> QED
    BY <1>1, PoolInvariant, PTL

-----------------------------------------------------------------------------
(* The pool implements AuditStatements.                                    *)

Waits == [h \in Handlers |-> st[h] \notin {"away", "ended"}]
IssuedOf(m) == {i \in DOMAIN m : m[i] # "none"}
PerformedOf(m) == {i \in DOMAIN m : m[i] = "done"}
Issued == [h \in Handlers |-> IssuedOf(stmt[h])]
Performed == [h \in Handlers |-> PerformedOf(stmt[h])]

LEMMA WaitsChange ==
  ASSUME HandlersOK, NEW h \in Handlers, NEW s, st' = [st EXCEPT ![h] = s]
  PROVE  /\ s \notin {"away", "ended"} => Waits' = [Waits EXCEPT ![h] = TRUE]
         /\ s \in {"away", "ended"} => Waits' = [Waits EXCEPT ![h] = FALSE]
  BY DEF Waits, HandlersOK

LEMMA StatementsChange ==
  ASSUME NEW h \in Handlers, NEW m, NewStatements(h, m)
  PROVE  /\ Issued' = [Issued EXCEPT ![h] = IssuedOf(m)]
         /\ Performed' = [Performed EXCEPT ![h] = PerformedOf(m)]
  <1>1. \A g \in Handlers : Issued'[g] = [Issued EXCEPT ![h] = IssuedOf(m)][g]
    BY DEF Issued, NewStatements
  <1>2. \A g \in Handlers : Performed'[g] = [Performed EXCEPT ![h] = PerformedOf(m)][g]
    BY DEF Performed, NewStatements
  <1> QED
    BY <1>1, <1>2 DEF Issued, Performed

\* A statement sent is one more issued, a statement performed one more performed.
LEMMA SentIsIssued ==
  ASSUME HandlersOK, NEW h \in Handlers, NEW i \in 1..Last(h), stmt[h][i] = "none",
         stmt' = [stmt EXCEPT ![h][i] = "sent"]
  PROVE  /\ Issued' = [Issued EXCEPT ![h] = @ \cup {i}] /\ UNCHANGED Performed
         /\ i \notin Issued[h]
  <1> DEFINE m == [stmt[h] EXCEPT ![i] = "sent"]
  <1>1. NewStatements(h, m) /\ m \in [1..Last(h) -> Outcomes] /\ stmt[h] \in [1..Last(h) -> Outcomes]
    BY StatementOf DEF Outcomes, HandlersOK, HandlerOK
  <1>2. IssuedOf(m) = Issued[h] \cup {i} /\ i \notin Issued[h]
    BY <1>1 DEF Issued, IssuedOf
  <1>3. PerformedOf(m) = Performed[h]
    BY <1>1 DEF Performed, PerformedOf
  <1>4. Performed = [Performed EXCEPT ![h] = Performed[h]]
    BY DEF Performed
  <1>5. /\ Issued' = [Issued EXCEPT ![h] = Issued[h] \cup {i}]
        /\ Performed' = [Performed EXCEPT ![h] = Performed[h]]
    <2> HIDE DEF m
    <2> QED
      BY <1>1, <1>2, <1>3, StatementsChange
  <1> QED
    BY <1>2, <1>3, <1>4, <1>5

LEMMA DoneIsPerformed ==
  ASSUME HandlersOK, NEW h \in Handlers, NEW i \in 1..Last(h), stmt[h][i] = "sent",
         stmt' = [stmt EXCEPT ![h][i] = "done"]
  PROVE  /\ Performed' = [Performed EXCEPT ![h] = @ \cup {i}] /\ UNCHANGED Issued
         /\ i \in Issued[h] \ Performed[h]
  <1> DEFINE m == [stmt[h] EXCEPT ![i] = "done"]
  <1>1. NewStatements(h, m) /\ m \in [1..Last(h) -> Outcomes] /\ stmt[h] \in [1..Last(h) -> Outcomes]
    BY StatementOf DEF Outcomes, HandlersOK, HandlerOK
  <1>2. PerformedOf(m) = Performed[h] \cup {i}
    BY <1>1 DEF Performed, PerformedOf
  <1>3. IssuedOf(m) = Issued[h] /\ i \in Issued[h] \ Performed[h]
    BY <1>1 DEF Performed, Issued, PerformedOf, IssuedOf
  <1>4. Issued = [Issued EXCEPT ![h] = Issued[h]]
    BY DEF Issued
  <1>5. /\ Issued' = [Issued EXCEPT ![h] = Issued[h]]
        /\ Performed' = [Performed EXCEPT ![h] = Performed[h] \cup {i}]
    <2> HIDE DEF m
    <2> QED
      BY <1>1, <1>2, <1>3, StatementsChange
  <1> QED
    BY <1>2, <1>3, <1>4, <1>5

LEMMA LostIsUnseen ==
  ASSUME HandlersOK, NEW h \in Handlers, NEW i \in 1..Last(h), stmt[h][i] = "sent",
         stmt' = [stmt EXCEPT ![h][i] = "lost"]
  PROVE  UNCHANGED <<Issued, Performed>>
  <1> DEFINE m == [stmt[h] EXCEPT ![i] = "lost"]
  <1>1. NewStatements(h, m) /\ m \in [1..Last(h) -> Outcomes] /\ stmt[h] \in [1..Last(h) -> Outcomes]
    BY StatementOf DEF Outcomes, HandlersOK, HandlerOK
  <1>2. PerformedOf(m) = Performed[h]
    BY <1>1 DEF Performed, PerformedOf
  <1>3. IssuedOf(m) = Issued[h]
    BY <1>1 DEF Issued, IssuedOf
  <1>4. Issued = [Issued EXCEPT ![h] = Issued[h]] /\ Performed = [Performed EXCEPT ![h] = Performed[h]]
    BY DEF Issued, Performed
  <1>5. /\ Issued' = [Issued EXCEPT ![h] = Issued[h]]
        /\ Performed' = [Performed EXCEPT ![h] = Performed[h]]
    <2> HIDE DEF m
    <2> QED
      BY <1>1, <1>2, <1>3, StatementsChange
  <1> QED
    BY <1>2, <1>3, <1>4, <1>5

LEMMA StatementsUnseen ==
  ASSUME UNCHANGED stmt
  PROVE  UNCHANGED <<Issued, Performed>>
  BY DEF Issued, Performed

\* The steps of AuditStatements, over what it sees of the pool.
LEMMA Seen ==
  ASSUME NEW h \in Handlers
  PROVE  /\ Promise!Begin(h) <=>
              /\ ~Waits[h] /\ ~(at[h] > Last(h))
              /\ Waits' = [Waits EXCEPT ![h] = TRUE]
              /\ UNCHANGED <<at, Issued, Performed>>
         /\ Promise!Issue(h) <=>
              /\ Waits[h] /\ at[h] \notin Issued[h]
              /\ Issued' = [Issued EXCEPT ![h] = @ \cup {at[h]}]
              /\ UNCHANGED <<at, Waits, Performed>>
         /\ Promise!ReportDone(h) <=>
              /\ Waits[h] /\ at[h] \in Performed[h]
              /\ at' = [at EXCEPT ![h] = @ + 1]
              /\ Waits' = [Waits EXCEPT ![h] = FALSE]
              /\ UNCHANGED <<Issued, Performed>>
         /\ Promise!ReportFailed(h) <=>
              /\ Waits[h]
              /\ at' = [at EXCEPT ![h] = IF Op(h) \in GivesUp THEN Last(h) + 1 ELSE @ + 1]
              /\ Waits' = [Waits EXCEPT ![h] = FALSE]
              /\ UNCHANGED <<Issued, Performed>>
  <1>1. Promise!Begin(h) <=>
              /\ ~Waits[h] /\ ~(at[h] > Last(h))
              /\ Waits' = [Waits EXCEPT ![h] = TRUE]
              /\ UNCHANGED <<at, Issued, Performed>>
    BY DEF Promise!Begin, Promise!Over, Waits, Issued, Performed, IssuedOf, PerformedOf, Last
  <1>2. Promise!Issue(h) <=>
              /\ Waits[h] /\ at[h] \notin Issued[h]
              /\ Issued' = [Issued EXCEPT ![h] = @ \cup {at[h]}]
              /\ UNCHANGED <<at, Waits, Performed>>
    BY DEF Promise!Issue, Waits, Issued, Performed, IssuedOf, PerformedOf
  <1>3. Promise!ReportDone(h) <=>
              /\ Waits[h] /\ at[h] \in Performed[h]
              /\ at' = [at EXCEPT ![h] = @ + 1]
              /\ Waits' = [Waits EXCEPT ![h] = FALSE]
              /\ UNCHANGED <<Issued, Performed>>
    BY DEF Promise!ReportDone, Waits, Issued, Performed, IssuedOf, PerformedOf
  <1>4. Promise!ReportFailed(h) <=>
              /\ Waits[h]
              /\ at' = [at EXCEPT ![h] = IF Op(h) \in GivesUp THEN Last(h) + 1 ELSE @ + 1]
              /\ Waits' = [Waits EXCEPT ![h] = FALSE]
              /\ UNCHANGED <<Issued, Performed>>
    BY DEF Promise!ReportFailed, Waits, Issued, Performed, IssuedOf, PerformedOf, Op, Last
  <1> QED
    BY <1>1, <1>2, <1>3, <1>4

\* A step of a handler is one of its steps there, or is not seen.
LEMMA HandlerIsSeen ==
  ASSUME PoolInv, NEW h \in Handlers, Statement(h), ~Renew(h)
  PROVE  \/ Promise!Begin(h) \/ Promise!Issue(h)
         \/ Promise!ReportDone(h) \/ Promise!ReportFailed(h)
         \/ UNCHANGED <<at, Waits, Issued, Performed>>
  <1>1. HandlersOK /\ HandlerOK(h, at[h], st[h], held[h], stmt[h]) /\ Last(h) \in 1..3
    BY Parts, Programs DEF HandlersOK
  <1>2. Waits[h] = (st[h] \notin {"away", "ended"})
    BY DEF Waits
  <1>3. CASE Ask(h)
    <2>1. Waits' = [Waits EXCEPT ![h] = TRUE]
      BY <1>1, <1>3 DEF Ask, Waits, HandlersOK
    <2>2. ~(at[h] > Last(h))
      BY <1>1, <1>3 DEF Ask, HandlerOK
    <2> QED
      BY <1>2, <1>3, <2>1, <2>2, StatementsUnseen, Seen DEF Ask
  <1>4. CASE TakeIdle(h) \/ DialSucceeds(h)
    <2>1. Send(h) /\ UNCHANGED at /\ st[h] \in {"waiting", "dialing"}
      BY <1>4 DEF TakeIdle, DialSucceeds
    <2>2. at[h] \in 1..Last(h) /\ stmt[h][at[h]] = "none"
      BY <1>1, <2>1 DEF HandlerOK
    <2>3. /\ Issued' = [Issued EXCEPT ![h] = @ \cup {at[h]}] /\ UNCHANGED Performed
          /\ at[h] \notin Issued[h]
      BY <1>1, <2>1, <2>2, SentIsIssued DEF Send
    <2>4. Waits' = [Waits EXCEPT ![h] = TRUE]
      BY <1>1, <2>1 DEF Send, Waits, HandlersOK
    <2>5. UNCHANGED Waits
      BY <1>2, <2>1, <2>4 DEF Waits
    <2> QED
      BY <1>2, <2>1, <2>3, <2>5, Seen
  <1>5. CASE Dial(h) \/ RowsArrive(h)
    <2>1. Waits' = [Waits EXCEPT ![h] = TRUE] /\ Waits[h] = TRUE
      BY <1>1, <1>2, <1>5, WaitsChange DEF Dial, RowsArrive
    <2>2. UNCHANGED Waits
      BY <2>1 DEF Waits
    <2> QED
      BY <1>5, <2>2, StatementsUnseen DEF Dial, RowsArrive
  <1>6. CASE DialFails(h) \/ Refused(h) \/ GiveUp(h)
    <2>1. Proceeds(h, FALSE) /\ UNCHANGED stmt /\ Waits[h]
      BY <1>2, <1>6 DEF DialFails, Refused, GiveUp
    <2>2. /\ at' = [at EXCEPT ![h] = IF Op(h) \in GivesUp THEN Last(h) + 1 ELSE @ + 1]
          /\ Waits' = [Waits EXCEPT ![h] = FALSE]
      BY <1>1, <2>1, WaitsChange DEF Proceeds, HandlersOK
    <2> QED
      BY <2>1, <2>2, StatementsUnseen, Seen
  <1>7. CASE Rejected(h)
    <2>1. Proceeds(h, FALSE) /\ Waits[h]
      BY <1>2, <1>7 DEF Rejected
    <2>2. /\ at' = [at EXCEPT ![h] = IF Op(h) \in GivesUp THEN Last(h) + 1 ELSE @ + 1]
          /\ Waits' = [Waits EXCEPT ![h] = FALSE]
      BY <1>1, <2>1, WaitsChange DEF Proceeds, HandlersOK
    <2>3. at[h] \in 1..Last(h)
      BY <1>1, <1>7 DEF Rejected, HandlerOK
    <2>4. UNCHANGED <<Issued, Performed>>
      BY <1>1, <1>7, <2>3, LostIsUnseen DEF Rejected
    <2> QED
      BY <2>1, <2>2, <2>4, Seen
  <1>8. CASE Succeeds(h) \/ ListReturns(h)
    <2>1. Proceeds(h, TRUE) /\ UNCHANGED stmt /\ Waits[h]
      BY <1>2, <1>8 DEF Succeeds, ListReturns
    <2>4. st[h] # "ended" /\ stmt[h][at[h]] = "done"
      BY <1>1, <1>8 DEF Succeeds, ListReturns, HandlerOK
    <2>5. at[h] \in DOMAIN stmt[h]
      BY <1>1, <2>4 DEF HandlerOK
    <2>2. at[h] \in Performed[h]
      BY <2>4, <2>5 DEF Performed, PerformedOf
    <2>3. at' = [at EXCEPT ![h] = @ + 1] /\ Waits' = [Waits EXCEPT ![h] = FALSE]
      BY <1>1, <2>1, WaitsChange DEF Proceeds, HandlersOK
    <2> QED
      BY <2>1, <2>2, <2>3, StatementsUnseen, Seen
  <1> QED
    BY <1>3, <1>4, <1>5, <1>6, <1>7, <1>8 DEF Statement

LEMMA InitIsSeen ==
  ASSUME Init
  PROVE  Promise!StatementsInit
  <1>1. Waits = [h \in Handlers |-> FALSE]
    BY DEF Init, Waits
  <1>2. \A h \in Handlers : Issued[h] = {} /\ Performed[h] = {}
    BY DEF Init, Unsent, Issued, Performed, IssuedOf, PerformedOf
  <1>3. Issued = [h \in Handlers |-> {}] /\ Performed = [h \in Handlers |-> {}]
    BY <1>2 DEF Issued, Performed
  <1> QED
    BY <1>1, <1>3
       DEF Init, Promise!StatementsInit, Waits, Issued, Performed, IssuedOf, PerformedOf

LEMMA RestartIsSeen ==
  ASSUME Restart
  PROVE  Promise!RenewAll
  <1>1. Waits' = [h \in Handlers |-> FALSE]
    BY DEF Restart, Waits
  <1>2. \A h \in Handlers : Issued'[h] = {} /\ Performed'[h] = {}
    BY DEF Restart, Unsent, Issued, Performed, IssuedOf, PerformedOf
  <1>3. Issued' = [h \in Handlers |-> {}] /\ Performed' = [h \in Handlers |-> {}]
    BY <1>2 DEF Issued, Performed
  <1> QED
    BY <1>1, <1>3 DEF Restart, Promise!RenewAll, Promise!StatementsInit, Waits, Issued,
                      Performed, IssuedOf, PerformedOf

LEMMA RenewIsSeen ==
  ASSUME PoolInv, NEW h \in Handlers, Renew(h)
  PROVE  Promise!Renew(h)
  <1>1. HandlersOK
    BY Parts
  <1>2. Waits' = [Waits EXCEPT ![h] = FALSE]
    BY <1>1 DEF Renew, Waits, HandlersOK
  <1>3. NewStatements(h, Unsent(h))
    BY <1>1 DEF Renew, HandlersOK, NewStatements
  <1>4. IssuedOf(Unsent(h)) = {} /\ PerformedOf(Unsent(h)) = {}
    BY DEF IssuedOf, PerformedOf, Unsent
  <1>5. Issued' = [Issued EXCEPT ![h] = {}] /\ Performed' = [Performed EXCEPT ![h] = {}]
    BY <1>3, <1>4, StatementsChange
  <1> QED
    BY <1>2, <1>5
       DEF Renew, Promise!Renew, Waits, Issued, Performed, IssuedOf, PerformedOf

\* A record is completed only once it is open.
LEMMA PerformIsSeen ==
  ASSUME PoolInv, NEW h \in Handlers, NEW i \in 1..Last(h), Perform(h, i)
  PROVE  Promise!Perform(h, i)
  <1>1. HandlersOK /\ HandlerOK(h, at[h], st[h], held[h], stmt[h]) /\ Last(h) \in 1..3
    BY Parts, Programs DEF HandlersOK
  <1>2. /\ Performed' = [Performed EXCEPT ![h] = @ \cup {i}] /\ UNCHANGED Issued
        /\ i \in Issued[h] \ Performed[h]
    BY <1>1, DoneIsPerformed DEF Perform
  <1>3. UNCHANGED <<at, Waits>>
    BY DEF Perform, Waits
  <1>4. ASSUME Program[Does[h]][i] = "finish"
        PROVE  \E j \in Performed[h] : Program[Does[h]][j] = "start"
    <2>1. i \in 2..Last(h)
      BY <1>1, <1>4, Programs DEF GivesUp
    <2>2. stmt[h][1] = "done" /\ 1 \in DOMAIN stmt[h]
      BY <1>1, <2>1 DEF HandlerOK, Perform
    <2>3. 1 \in Performed[h]
      BY <2>2 DEF Performed, PerformedOf
    <2>4. Program[Does[h]][1] = "start"
      BY <1>1, <2>1, Programs
    <2> QED
      BY <2>3, <2>4
  <1> QED
    BY <1>2, <1>3, <1>4
       DEF Promise!Perform, Waits, Issued, Performed, IssuedOf, PerformedOf

LEMMA UnseenStutters ==
  ASSUME UNCHANGED <<at, Waits, Issued, Performed>>
  PROVE  UNCHANGED Promise!statementVars
  BY DEF Promise!statementVars, Waits, Issued, Performed, IssuedOf, PerformedOf

LEMMA StepIsSeen ==
  ASSUME PoolInv, [Next]_vars
  PROVE  [Promise!StatementsNext]_(Promise!statementVars)
  <1>1. CASE OpenSucceeds \/ OpenFails \/ Close \/ CloseReturns \/ DialEnds
               \/ BrokenCloses \/ IdleCloses \/ UNCHANGED vars
    <2>1. UNCHANGED <<at, st, stmt>>
      BY <1>1 DEF OpenSucceeds, OpenFails, Close, CloseReturns, DialEnds, BrokenCloses,
                  IdleCloses, vars
    <2> QED
      BY <2>1, UnseenStutters DEF Waits, Issued, Performed
  <1>2. CASE Restart
    BY <1>2, RestartIsSeen DEF Promise!StatementsNext
  <1>3. CASE \E h \in Handlers : Statement(h)
    <2> PICK h \in Handlers : Statement(h)
      BY <1>3
    <2>1. CASE Renew(h)
      BY <2>1, RenewIsSeen DEF Promise!StatementsNext
    <2>2. CASE ~Renew(h)
      BY <2>2, HandlerIsSeen, UnseenStutters DEF Promise!StatementsNext
    <2> QED
      BY <2>1, <2>2
  <1>4. CASE \E h \in Handlers : \E i \in 1..Last(h) : Perform(h, i) \/ Lose(h, i)
    <2> PICK h \in Handlers : \E i \in 1..Last(h) : Perform(h, i) \/ Lose(h, i)
      BY <1>4
    <2> PICK i \in 1..Last(h) : Perform(h, i) \/ Lose(h, i)
      OBVIOUS
    <2>1. CASE Perform(h, i)
      BY <2>1, PerformIsSeen DEF Promise!StatementsNext, Last
    <2>2. CASE Lose(h, i)
      <3>1. UNCHANGED <<Issued, Performed>>
        BY <2>2, LostIsUnseen, Parts DEF Lose
      <3> QED
        BY <2>2, <3>1, UnseenStutters DEF Lose, Waits
    <2> QED
      BY <2>1, <2>2
  <1> QED
    BY <1>1, <1>2, <1>3, <1>4 DEF Next

\* The pool keeps the contract the call pipeline relies on: reported done is performed,
\* a statement is performed at most once, and a record is completed only once open.
THEOREM PoolImplementsStatements == Spec => ImplementsStatements
  <1>1. Init => Promise!StatementsInit
    BY InitIsSeen
  <1>2. PoolInv /\ [Next]_vars => [Promise!StatementsNext]_(Promise!statementVars)
    BY StepIsSeen
  <1> QED
    BY <1>1, <1>2, PoolInvariant, PTL DEF Spec, ImplementsStatements, Promise!StatementsSpec
=============================================================================
