----------------------------- MODULE AuditPool -----------------------------
(***************************************************************************)
(* The connections of PostgresAuditSink (audit.go, audit_logs.go) and the  *)
(* handlers that share them.  Every Start, Finish, log query and Ping      *)
(* takes a connection of a pool of MaxConns, waits for one under the same  *)
(* timeout that bounds the statement, and gives it back.  A statement      *)
(* whose context ends costs its connection, which counts against the pool  *)
(* until it is closed; Postgres may perform the statement all the same.    *)
(* The pool itself is pgxpool and Postgres is Postgres: both are external  *)
(* and modelled from how the sink depends on them.                         *)
(***************************************************************************)
EXTENDS Integers, Sequences, FiniteSets

CONSTANTS
  Handlers,  \* the handlers that may run at a time
  Does,      \* Does[h]: the kind of the calls it handles
  MaxConns   \* the size of the pool, 4 in the code

\* The statements of a proxied call, of an audit log call and of /ready.
Program ==
  [ proxy |-> <<"start", "finish">>,
    logs  |-> <<"start", "list", "finish">>,
    ready |-> <<"ping">> ]

ASSUME PoolAssumption ==
  /\ MaxConns \in Nat \ {0}
  /\ IsFiniteSet(Handlers)
  /\ Does \in [Handlers -> DOMAIN Program]

VARIABLES
  pool,      \* "opening", "open", "closing" or "closed"
  free,      \* the connections the pool may still hand out or open
  idle,      \* the open connections nobody uses
  dialing,   \* those being opened for a caller that gave up
  broken,    \* those being closed after a cancelled statement
  at,        \* at[h]: the position of h in its program
  st,        \* st[h]: what h does there
  held,      \* held[h]: h holds a connection
  stmt       \* stmt[h]: what became of each of its statements

poolVars == <<pool, free, idle, dialing, broken>>
vars == <<pool, free, idle, dialing, broken, at, st, held, stmt>>

States == {"away", "waiting", "dialing", "executing", "reading", "ended"}

Op(h) == Program[Does[h]][at[h]]
Last(h) == Len(Program[Does[h]])
Unsent(h) == [i \in 1..Last(h) |-> "none"]

Init ==
  /\ pool = "opening"
  /\ free = MaxConns /\ idle = 0 /\ dialing = 0 /\ broken = 0
  /\ at = [h \in Handlers |-> 1]
  /\ st = [h \in Handlers |-> "away"]
  /\ held = [h \in Handlers |-> FALSE]
  /\ stmt = [h \in Handlers |-> Unsent(h)]

-----------------------------------------------------------------------------
(* NewPostgresAuditSink pings the database before anything is served.      *)

OpenSucceeds ==
  /\ pool = "opening"
  /\ pool' = "open" /\ idle' = 1
  /\ UNCHANGED <<free, dialing, broken, at, st, held, stmt>>

\* The ping failed; the pool is closed, perhaps with a connection to dispose of.
OpenFails ==
  /\ pool = "opening"
  /\ pool' = "closing"
  /\ \E c \in {0, 1} : broken' = c /\ free' = free - c
  /\ UNCHANGED <<idle, dialing, at, st, held, stmt>>

-----------------------------------------------------------------------------
(* A statement: wait for a connection, open one if none is idle, execute.  *)

\* A call begins only in a process that serves; one that began goes on.
Ask(h) ==
  /\ st[h] = "away"
  /\ at[h] = 1 => pool = "open"
  /\ st' = [st EXCEPT ![h] = "waiting"]
  /\ UNCHANGED <<poolVars, at, held, stmt>>

Send(h) ==
  /\ st' = [st EXCEPT ![h] = "executing"]
  /\ stmt' = [stmt EXCEPT ![h][at[h]] = "sent"]

TakeIdle(h) ==
  /\ st[h] = "waiting" /\ pool = "open" /\ free > 0 /\ idle > 0
  /\ idle' = idle - 1 /\ free' = free - 1
  /\ held' = [held EXCEPT ![h] = TRUE]
  /\ Send(h)
  /\ UNCHANGED <<pool, dialing, broken, at>>

Dial(h) ==
  /\ st[h] = "waiting" /\ pool = "open" /\ free > 0 /\ idle = 0
  /\ free' = free - 1
  /\ held' = [held EXCEPT ![h] = TRUE]
  /\ st' = [st EXCEPT ![h] = "dialing"]
  /\ UNCHANGED <<pool, idle, dialing, broken, at, stmt>>

DialSucceeds(h) ==
  /\ st[h] = "dialing" /\ pool = "open"
  /\ Send(h)
  /\ UNCHANGED <<poolVars, at, held>>

\* Where a failed statement leaves its handler: a call that could not be recorded
\* is refused and a probe is answered, a failed log query is still recorded.
GivesUp == {"start", "ping"}

Proceeds(h, ok) ==
  LET next == IF ok \/ Op(h) \notin GivesUp THEN at[h] + 1 ELSE Last(h) + 1
  IN  /\ at' = [at EXCEPT ![h] = next]
      /\ st' = [st EXCEPT ![h] = IF next > Last(h) THEN "ended" ELSE "away"]

\* The connection goes back to the pool, or is closed when the pool was.
GiveBack(h) ==
  /\ held' = [held EXCEPT ![h] = FALSE]
  /\ IF pool = "open"
       THEN idle' = idle + 1 /\ free' = free + 1 /\ UNCHANGED broken
       ELSE broken' = broken + 1 /\ UNCHANGED <<idle, free>>
  /\ UNCHANGED <<pool, dialing>>

DialFails(h) ==
  /\ st[h] = "dialing"
  /\ held' = [held EXCEPT ![h] = FALSE]
  /\ free' = free + 1
  /\ Proceeds(h, FALSE)
  /\ UNCHANGED <<pool, idle, dialing, broken, stmt>>

\* A closed pool hands out nothing.
Refused(h) ==
  /\ st[h] = "waiting" /\ pool \in {"closing", "closed"} /\ free > 0
  /\ Proceeds(h, FALSE)
  /\ UNCHANGED <<poolVars, held, stmt>>

\* Faulty variant: the error of Exec, or its count of rows, is not looked at.
SucceedsUnchecked(h) ==
  /\ st[h] = "executing" /\ Op(h) # "list"
  /\ GiveBack(h)
  /\ Proceeds(h, TRUE)
  /\ UNCHANGED stmt

Succeeds(h) ==
  /\ st[h] = "executing" /\ Op(h) # "list" /\ stmt[h][at[h]] = "done"
  /\ GiveBack(h)
  /\ Proceeds(h, TRUE)
  /\ UNCHANGED stmt

\* Postgres refuses the statement (a constraint, a value it cannot store), or
\* Finish found no row; the connection is sound.
Rejected(h) ==
  /\ st[h] = "executing" /\ stmt[h][at[h]] = "sent"
  /\ stmt' = [stmt EXCEPT ![h][at[h]] = "lost"]
  /\ GiveBack(h)
  /\ Proceeds(h, FALSE)

RowsArrive(h) ==
  /\ st[h] = "executing" /\ Op(h) = "list" /\ stmt[h][at[h]] = "done"
  /\ st' = [st EXCEPT ![h] = "reading"]
  /\ UNCHANGED <<poolVars, at, held, stmt>>

\* Faulty variant: rows is closed only when every row could be read.
ListReturnsUnclosed(h) ==
  /\ st[h] = "reading"
  /\ \/ GiveBack(h)
     \/ UNCHANGED <<poolVars, held>>
  /\ Proceeds(h, TRUE)
  /\ UNCHANGED stmt

\* The rows were read, or one could not be: both ways rows.Close is deferred and
\* the handler goes on to record its answer.
ListReturns(h) ==
  /\ st[h] = "reading"
  /\ GiveBack(h)
  /\ Proceeds(h, TRUE)
  /\ UNCHANGED stmt

\* Faulty variant: the timeout bounds the wait for a connection only.
GiveUpWaiting(h) ==
  /\ st[h] \in {"waiting", "dialing"}
  /\ held' = [held EXCEPT ![h] = FALSE]
  /\ dialing' = IF st[h] = "dialing" THEN dialing + 1 ELSE dialing
  /\ Proceeds(h, FALSE)
  /\ UNCHANGED <<pool, free, idle, broken, stmt>>

\* Faulty variant: a caller that gives up forgets the connection it holds.
GiveUpLeaking(h) ==
  /\ st[h] \in {"waiting", "dialing", "executing", "reading"}
  /\ held' = [held EXCEPT ![h] = FALSE]
  /\ Proceeds(h, FALSE)
  /\ UNCHANGED <<poolVars, stmt>>

\* AUDIT_WRITE_TIMEOUT ran out, the client left or the connection broke.
GiveUp(h) ==
  /\ st[h] \in {"waiting", "dialing", "executing", "reading"}
  /\ held' = [held EXCEPT ![h] = FALSE]
  /\ dialing' = IF st[h] = "dialing" THEN dialing + 1 ELSE dialing
  /\ broken' = IF st[h] \in {"executing", "reading"} THEN broken + 1 ELSE broken
  /\ Proceeds(h, FALSE)
  /\ UNCHANGED <<pool, free, idle, stmt>>

-----------------------------------------------------------------------------
(* Postgres and the pool's own goroutines.                                 *)

\* Also long after the handler gave up, and of a process that is gone.
Perform(h, i) ==
  /\ stmt[h][i] = "sent"
  /\ stmt' = [stmt EXCEPT ![h][i] = "done"]
  /\ UNCHANGED <<poolVars, at, st, held>>

\* A statement is lost only with the connection of a handler that gave it up.
Lose(h, i) ==
  /\ stmt[h][i] = "sent"
  /\ ~(st[h] = "executing" /\ i = at[h])
  /\ stmt' = [stmt EXCEPT ![h][i] = "lost"]
  /\ UNCHANGED <<poolVars, at, st, held>>

\* pgxpool bounds both: the dial by its connect timeout, the close by 15 seconds.
DialEnds ==
  /\ dialing > 0
  /\ dialing' = dialing - 1 /\ free' = free + 1
  /\ idle' \in IF pool = "open" THEN {idle, idle + 1} ELSE {idle}
  /\ UNCHANGED <<pool, broken, at, st, held, stmt>>

BrokenCloses ==
  /\ broken > 0
  /\ broken' = broken - 1 /\ free' = free + 1
  /\ UNCHANGED <<pool, idle, dialing, at, st, held, stmt>>

\* An idle connection is dropped: its age, the server, or the check before use.
IdleCloses ==
  /\ idle > 0
  /\ idle' = idle - 1
  /\ UNCHANGED <<pool, free, dialing, broken, at, st, held, stmt>>

-----------------------------------------------------------------------------
(* The process: run's deferred Close, the exit and the next process.       *)

\* The shutdown is over; handlers it could not wait for may still be running.
Close ==
  /\ pool = "open"
  /\ pool' = "closing" /\ idle' = 0
  /\ UNCHANGED <<free, dialing, broken, at, st, held, stmt>>

CloseReturns ==
  /\ pool = "closing" /\ free = MaxConns
  /\ pool' = "closed"
  /\ UNCHANGED <<free, idle, dialing, broken, at, st, held, stmt>>

\* The next process; the calls of the one before concern other rows from here on.
Restart ==
  /\ pool = "closed"
  /\ pool' = "opening"
  /\ at' = [h \in Handlers |-> 1]
  /\ st' = [h \in Handlers |-> "away"]
  /\ held' = [h \in Handlers |-> FALSE]
  /\ stmt' = [h \in Handlers |-> Unsent(h)]
  /\ UNCHANGED <<free, idle, dialing, broken>>

\* The place of a call that ended is taken by another, bounded to when nothing of
\* the old one is on its way.
Renew(h) ==
  /\ st[h] = "ended" /\ pool = "open"
  /\ \A i \in DOMAIN stmt[h] : stmt[h][i] # "sent"
  /\ at' = [at EXCEPT ![h] = 1]
  /\ st' = [st EXCEPT ![h] = "away"]
  /\ stmt' = [stmt EXCEPT ![h] = Unsent(h)]
  /\ UNCHANGED <<poolVars, held>>

Statement(h) ==
  \/ Ask(h) \/ TakeIdle(h) \/ Dial(h) \/ DialSucceeds(h) \/ DialFails(h)
  \/ Refused(h) \/ Succeeds(h) \/ Rejected(h) \/ RowsArrive(h)
  \/ ListReturns(h) \/ GiveUp(h) \/ Renew(h)

Next ==
  \/ OpenSucceeds \/ OpenFails \/ Close \/ CloseReturns \/ Restart
  \/ DialEnds \/ BrokenCloses \/ IdleCloses
  \/ \E h \in Handlers :
       \/ Statement(h)
       \/ \E i \in 1..Last(h) : Perform(h, i) \/ Lose(h, i)

\* Every wait of a handler is bounded by the write timeout, what happens between
\* two statements by REQUEST_TIMEOUT, and the pool closes what it must; Postgres
\* may hang for ever.
Fairness ==
  /\ WF_vars(DialEnds) /\ WF_vars(BrokenCloses) /\ WF_vars(CloseReturns)
  /\ \A h \in Handlers : WF_vars(GiveUp(h)) /\ WF_vars(at[h] > 1 /\ Ask(h))

Spec == Init /\ [][Next]_vars /\ Fairness

-----------------------------------------------------------------------------
(* Properties.                                                             *)

TypeOK ==
  /\ pool \in {"opening", "open", "closing", "closed"}
  /\ free \in 0..MaxConns /\ idle \in 0..MaxConns
  /\ dialing \in 0..MaxConns /\ broken \in 0..MaxConns
  /\ at \in [Handlers -> 1..4]
  /\ \A h \in Handlers : at[h] <= Last(h) + 1
  /\ st \in [Handlers -> States]
  /\ held \in [Handlers -> BOOLEAN]
  /\ DOMAIN stmt = Handlers
  /\ \A h \in Handlers :
       stmt[h] \in [1..Last(h) -> {"none", "sent", "done", "lost"}]

Holders == {h \in Handlers : held[h]}

\* No path through the sink (success, failure, timeout, a closed pool) loses a
\* connection or gives one back twice, and the idle ones never exceed what the pool
\* may hand out, so that no more than MaxConns are open.
NoConnectionLeaks ==
  /\ free + Cardinality(Holders) + dialing + broken = MaxConns
  /\ idle <= free

\* A handler that waits for a connection holds none: two handlers never wait for
\* each other, even when every connection is taken by a log query.
NoHoldAndWait == \A h \in Handlers : held[h] => st[h] \in {"dialing", "executing", "reading"}

\* The pool keeps the promise the pipeline relies on (AuditStatements): reported
\* done is performed, at most once, and a record is completed only once open.
Promise == INSTANCE AuditStatements WITH
  Caller <- Handlers,
  Statements <- [h \in Handlers |-> Program[Does[h]]],
  step <- at,
  waits <- [h \in Handlers |-> st[h] \notin {"away", "ended"}],
  issued <- [h \in Handlers |-> {i \in DOMAIN stmt[h] : stmt[h][i] # "none"}],
  performed <- [h \in Handlers |-> {i \in DOMAIN stmt[h] : stmt[h][i] = "done"}]

ImplementsStatements == Promise!StatementsSpec

\* What the proofs need besides: who holds a connection, when the pool has an idle one,
\* where a handler stands in its program and what became of its statements.
HoldersWork == \A h \in Handlers : held[h] <=> st[h] \in {"dialing", "executing", "reading"}

IdleOnlyOpen ==
  /\ pool # "open" => idle = 0
  /\ pool \in {"opening", "closed"} => free = MaxConns

InProgram(h) ==
  /\ st[h] # "ended" => at[h] <= Last(h)
  /\ st[h] = "reading" => at[h] > 1 /\ stmt[h][at[h]] = "done"
  /\ st[h] = "executing" => stmt[h][at[h]] # "none"

UnsentAhead(h) ==
  \A i \in 1..Last(h) :
    i > at[h] \/ (i = at[h] /\ st[h] \in {"away", "waiting", "dialing"}) =>
      stmt[h][i] = "none"

StartedFirst(h) ==
  /\ at[h] > 1 /\ st[h] # "ended" => stmt[h][1] = "done"
  /\ \A i \in 2..Last(h) : stmt[h][i] # "none" => stmt[h][1] = "done"

\* The invariant of the proofs, kept by every step by itself: connections add up
\* because who holds one is known by what it does, and a record is completed only once
\* open because a handler passes its start only when that was performed.
PoolInv ==
  /\ TypeOK /\ NoConnectionLeaks
  /\ HoldersWork /\ IdleOnlyOpen
  /\ \A h \in Handlers : InProgram(h) /\ UnsentAhead(h) /\ StartedFirst(h)

\* Whatever Postgres does, every wait ends: a handler that asked for a connection
\* leaves the sink, since the timeout runs from before the wait to after the last row; a
\* pool whose connections are all taken by statements that hang gets them back; and
\* Close, which waits for those in use, returns.
WaitsEnd ==
  /\ \A h \in Handlers : st[h] = "waiting" ~> st[h] \in {"away", "ended"}
  /\ free = 0 ~> free > 0
  /\ pool = "closing" ~> pool = "closed"
=============================================================================
