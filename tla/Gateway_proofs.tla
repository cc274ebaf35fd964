--------------------------- MODULE Gateway_proofs ---------------------------
(***************************************************************************)
(* Proofs about the gateway for every set of calls, users, administrators  *)
(* and upstream statuses, with or without an audit sink.                   *)
(*                                                                         *)
(* CallInv(r) speaks of one call.  A step of another call leaves alone all *)
(* it mentions, so a step is looked at for the call that takes it; of the  *)
(* process only its end touches a call, and then only its pc.  GatewayInv  *)
(* follows, from it the safety properties, and from it too that an audited *)
(* gateway implements AuditedCalls: of its steps only those of Postgres,   *)
(* of the upstream service and of the writing of an answer are seen, and   *)
(* each of them is the step of AuditedCalls it should be.                  *)
(***************************************************************************)
EXTENDS AuditedGateway, TLAPS

-----------------------------------------------------------------------------
(* Types.                                                                  *)

\* The entries and calls the handlers build are well formed.
LEMMA EntryTypes ==
  /\ NewEntry \in Entry
  /\ NoRow \in Entry
  /\ \A e \in Entry : Completed(e) \in Entry
  /\ \A e \in Entry : InsertOf(e) \in Calls /\ UpdateOf(e) \in Calls
  /\ \A u \in Users : ForwardAs(u) \in Calls
  BY DEF NewEntry, NoRow, Entry, AuthResults, Completed, InsertOf, UpdateOf, ForwardAs, Calls

\* So are the copies of an entry they fill in.
LEMMA EntryUpdates ==
  /\ \A e \in Entry, o \in Outcomes : [e EXCEPT !.outcome = o] \in Entry
  /\ \A e \in Entry, o \in Outcomes : [e EXCEPT !.url = TRUE, !.outcome = o] \in Entry
  /\ \A e \in Entry, a \in AuthResults, o \in Outcomes :
       [e EXCEPT !.auth = a, !.outcome = o] \in Entry
  /\ \A e \in Entry, a \in AuthResults, u \in Users :
       [e EXCEPT !.auth = a, !.user = u] \in Entry
  /\ \A e \in Entry, a \in AuthResults, u \in Users, o \in Outcomes :
       [e EXCEPT !.auth = a, !.user = u, !.outcome = o] \in Entry
  <1>1. \A e \in Entry, o \in Outcomes : [e EXCEPT !.outcome = o] \in Entry
    BY DEF Entry
  <1>2. \A e \in Entry, o \in Outcomes : [e EXCEPT !.url = TRUE, !.outcome = o] \in Entry
    BY DEF Entry
  <1>3. \A e \in Entry, a \in AuthResults, o \in Outcomes :
          [e EXCEPT !.auth = a, !.outcome = o] \in Entry
    BY DEF Entry
  <1>4. \A e \in Entry, a \in AuthResults, u \in Users :
          [e EXCEPT !.auth = a, !.user = u] \in Entry
    BY DEF Entry
  <1>5. \A e \in Entry, a \in AuthResults, u \in Users, o \in Outcomes :
          [e EXCEPT !.auth = a, !.user = u, !.outcome = o] \in Entry
    BY DEF Entry
  <1> QED
    BY <1>1, <1>2, <1>3, <1>4, <1>5

\* The outcomes and results the handlers name.
LEMMA OutcomeNames ==
  /\ ErrorCodes \subseteq Outcomes
  /\ UpstreamStatuses \subseteq Outcomes
  /\ "ok" \in Outcomes
  BY DEF Outcomes

\* Completing an audit keeps the types of what it assigns.
LEMMA FinishAuditTypes ==
  ASSUME TypeOK, NEW r \in Requests, NEW e \in Entry, FinishAudit(r, e)
  PROVE  /\ pc' \in [Requests -> Stages]
         /\ entry' \in [Requests -> Entry]
         /\ wire' \in [Requests -> SUBSET Calls]
  <1>1. Completed(e) \in Entry /\ UpdateOf(Completed(e)) \in Calls
    BY EntryTypes
  <1>2. entry' \in [Requests -> Entry]
    BY <1>1 DEF FinishAudit, TypeOK
  <1>3. CASE SinkAccepts(r) /\ Goto(r, "finishing") /\ Ask(r, UpdateOf(Completed(e)))
    BY <1>1, <1>2, <1>3 DEF Goto, Ask, TypeOK, Stages, InHandler
  <1>4. CASE ~SinkAccepts(r) /\ Goto(r, "replying") /\ UNCHANGED wire
    BY <1>2, <1>4 DEF Goto, TypeOK, Stages, InHandler
  <1> QED
    BY <1>3, <1>4 DEF FinishAudit

\* So does what a handler does once its audit is open,
LEMMA AdmitTypes ==
  ASSUME TypeOK, NEW r \in Requests, NEW k, NEW b, Admit(r, k, b)
  PROVE  /\ pc' \in [Requests -> Stages]
         /\ entry' \in [Requests -> Entry]
         /\ wire' \in [Requests -> SUBSET Calls]
  <1>1. \A o \in ErrorCodes : [entry[r] EXCEPT !.outcome = o] \in Entry
    BY EntryUpdates, OutcomeNames DEF TypeOK
  <1>2. \A a \in AuthResults, o \in ErrorCodes :
          [entry[r] EXCEPT !.auth = a, !.outcome = o] \in Entry
    BY EntryUpdates, OutcomeNames DEF TypeOK
  <1>3. CASE Answer(r, "invalid_request_body") \/ Answer(r, "request_too_large")
    BY <1>1, <1>3, FinishAuditTypes DEF Answer, ErrorCodes
  <1>4. CASE Deny(r, "route_not_found", "not_found") \/ Deny(r, "missing_session", "unauthorized")
    BY <1>2, <1>4, FinishAuditTypes DEF Deny, AuthResults, ErrorCodes
  <1>5. CASE Goto(r, "verifying") /\ UNCHANGED <<entry, wire>>
    BY <1>5 DEF Goto, TypeOK, Stages, InHandler
  <1> QED
    BY <1>3, <1>4, <1>5 DEF Admit

\* and the start of the audit itself.
LEMMA StartAuditTypes ==
  ASSUME TypeOK, NEW r \in Requests, NEW k, NEW b, StartAudit(r, k, b)
  PROVE  /\ pc' \in [Requests -> Stages]
         /\ entry' \in [Requests -> Entry]
         /\ wire' \in [Requests -> SUBSET Calls]
  <1>1. CASE Goto(r, "starting") /\ Ask(r, InsertOf(entry[r])) /\ UNCHANGED entry
    <2>1. InsertOf(entry[r]) \in Calls
      BY EntryTypes DEF TypeOK
    <2> QED
      BY <1>1, <2>1 DEF Goto, Ask, TypeOK, Stages, InHandler
  <1>2. CASE Goto(r, "refusing") /\ UNCHANGED <<entry, wire>>
    BY <1>2 DEF Goto, TypeOK, Stages, InHandler
  <1>3. CASE Admit(r, k, b)
    BY <1>3, AdmitTypes
  <1> QED
    BY <1>1, <1>2, <1>3 DEF StartAudit

LEMMA TypeOKInit ==
  ASSUME Init
  PROVE  TypeOK
  <1>1. proc \in {"running", "draining", "closing", "exited"} /\ drained \in BOOLEAN
    BY DEF Init
  <1>2. pc \in [Requests -> Stages] /\ kind \in [Requests -> Kinds]
    BY DEF Init, Stages, Kinds
  <1>3. body \in [Requests -> Bodies] /\ gone \in [Requests -> BOOLEAN]
    BY DEF Init, Bodies
  <1>4. entry \in [Requests -> Entry] /\ rows \in [Requests -> Entry]
    BY EntryTypes DEF Init
  <1>5. wire \in [Requests -> SUBSET Calls]
    BY DEF Init
  <1>6. effect \in [Requests -> Users \cup {NoUser}]
    BY DEF Init
  <1>7. reply \in [Requests -> Outcomes \cup {"none", "audit_unavailable"}]
    BY DEF Init
  <1>8. audited \in BOOLEAN
    BY AuditAssumption DEF Init
  <1> QED
    BY <1>1, <1>2, <1>3, <1>4, <1>5, <1>6, <1>7, <1>8 DEF TypeOK

LEMMA TypeOKHandler ==
  ASSUME TypeOK, NEW r \in Requests, Handler(r)
  PROVE  TypeOK'
  <1>1. CASE \E k \in Kinds : Arrive(r, k)
    <2> PICK k \in Kinds : Arrive(r, k)
      BY <1>1
    <2>1. kind' \in [Requests -> Kinds]
      BY DEF Arrive, TypeOK
    <2>2. /\ pc' \in [Requests -> Stages]
          /\ entry' \in [Requests -> Entry]
          /\ wire' \in [Requests -> SUBSET Calls]
      BY StartAuditTypes DEF Arrive, Goto, TypeOK, Stages, InHandler
    <2> QED
      BY <2>1, <2>2 DEF Arrive, TypeOK
  <1>2. CASE \E b \in Bodies : ReadBody(r, b)
    BY <1>2, StartAuditTypes DEF ReadBody, TypeOK
  <1>3. CASE StartSucceeds(r)
    BY <1>3, AdmitTypes DEF StartSucceeds, TypeOK
  <1>4. CASE StartFails(r)
    BY <1>4 DEF StartFails, Goto, TypeOK, Stages, InHandler
  <1>5. CASE \E u \in Users : VerifySucceeds(r, u)
    <2> PICK u \in Users : VerifySucceeds(r, u)
      BY <1>5
    <2>2. [entry[r] EXCEPT !.auth = "authenticated", !.user = u] \in Entry
      BY EntryUpdates DEF TypeOK, AuthResults
    <2>3. [entry[r] EXCEPT !.auth = "forbidden", !.user = u, !.outcome = "forbidden"] \in Entry
      BY EntryUpdates, OutcomeNames DEF TypeOK, AuthResults, ErrorCodes
    <2>4. /\ pc' \in [Requests -> Stages]
          /\ entry' \in [Requests -> Entry]
          /\ wire' \in [Requests -> SUBSET Calls]
      <3>1. CASE Forward(r, u)
        <4>1. ForwardAs(u) \in Calls
          BY EntryTypes
        <4> QED
          BY <3>1, <4>1, <2>2 DEF Forward, Goto, Ask, TypeOK, Stages, InHandler
      <3>2. CASE Serve(r, u)
        <4> DEFINE e == [entry[r] EXCEPT !.auth = "authenticated", !.user = u]
        <4>1. [e EXCEPT !.outcome = "invalid_input"] \in Entry
          BY <2>2, EntryUpdates, OutcomeNames DEF ErrorCodes
        <4>2. [e EXCEPT !.outcome = "audit_log_unavailable"] \in Entry
          BY <2>2, EntryUpdates, OutcomeNames DEF ErrorCodes
        <4>3. CASE FinishAudit(r, [e EXCEPT !.outcome = "invalid_input"])
          BY <4>3, <4>1, FinishAuditTypes
        <4>4. CASE FinishAudit(r, [e EXCEPT !.outcome = "audit_log_unavailable"])
          BY <4>4, <4>2, FinishAuditTypes
        <4>5. CASE entry' = [entry EXCEPT ![r] = e] /\ Goto(r, "working") /\ UNCHANGED wire
          BY <4>5, <2>2 DEF Goto, TypeOK, Stages, InHandler
        <4> QED
          BY <3>2, <4>3, <4>4, <4>5 DEF Serve
      <3>3. CASE FinishAudit(r, [entry[r] EXCEPT !.auth = "forbidden", !.user = u,
                                                 !.outcome = "forbidden"])
        BY <3>3, <2>3, FinishAuditTypes
      <3> QED
        BY <3>1, <3>2, <3>3 DEF VerifySucceeds
    <2> QED
      BY <2>4 DEF VerifySucceeds, TypeOK
  <1>6. CASE VerifyFails(r)
    <2>1. \A a \in AuthResults, o \in ErrorCodes :
            [entry[r] EXCEPT !.auth = a, !.outcome = o] \in Entry
      BY EntryUpdates, OutcomeNames DEF TypeOK
    <2>2. /\ pc' \in [Requests -> Stages]
          /\ entry' \in [Requests -> Entry]
          /\ wire' \in [Requests -> SUBSET Calls]
      BY <1>6, <2>1, FinishAuditTypes DEF VerifyFails, Deny, AuthResults, ErrorCodes
    <2> QED
      BY <1>6, <2>2 DEF VerifyFails, TypeOK
  <1>7. CASE \E s \in UpstreamStatuses : ForwardSucceeds(r, s)
    <2> PICK s \in UpstreamStatuses : ForwardSucceeds(r, s)
      BY <1>7
    <2>1. [entry[r] EXCEPT !.url = TRUE, !.outcome = s] \in Entry
      BY EntryUpdates, OutcomeNames DEF TypeOK
    <2> QED
      BY <2>1, FinishAuditTypes DEF ForwardSucceeds, TypeOK
  <1>8. CASE ForwardFails(r)
    <2>1. [entry[r] EXCEPT !.outcome = "upstream_unavailable"] \in Entry
      BY EntryUpdates, OutcomeNames DEF TypeOK, ErrorCodes
    <2> QED
      BY <1>8, <2>1, FinishAuditTypes DEF ForwardFails, Answer, TypeOK
  <1>9. CASE ReadReturns(r)
    <2> PICK o \in ReadOutcomes(r) : Answer(r, o)
      BY <1>9 DEF ReadReturns
    <2>0. o \in Outcomes
      BY OutcomeNames DEF ReadOutcomes, ErrorCodes
    <2>1. [entry[r] EXCEPT !.outcome = o] \in Entry
      BY <2>0, EntryUpdates DEF TypeOK
    <2> QED
      BY <1>9, <2>1, FinishAuditTypes DEF ReadReturns, Answer, TypeOK
  <1>10. CASE FinishReturns(r)
    BY <1>10 DEF FinishReturns, Goto, TypeOK, Stages, InHandler
  <1>11. CASE Reply(r)
    <2>1. entry[r].outcome \in Outcomes \cup {"none"}
      BY DEF TypeOK, Entry
    <2>2. reply' \in [Requests -> Outcomes \cup {"none", "audit_unavailable"}]
      BY <1>11, <2>1 DEF Reply, TypeOK
    <2> QED
      BY <1>11, <2>2 DEF Reply, Goto, TypeOK, Stages
  <1> QED
    BY <1>1, <1>2, <1>3, <1>4, <1>5, <1>6, <1>7, <1>8, <1>9, <1>10, <1>11 DEF Handler

LEMMA TypeOKEnvironment ==
  ASSUME TypeOK, NEW r \in Requests, Environment(r)
  PROVE  TypeOK'
  <1>1. CASE Disconnect(r)
    BY <1>1 DEF Disconnect, TypeOK
  <1>2. CASE Insert(r)
    <2> PICK call \in wire[r] : call.op = "insert" /\ Settle(r, call)
                                /\ rows' = [rows EXCEPT ![r] = call.row]
      BY <1>2 DEF Insert
    <2>1. call.row \in Entry
      BY DEF TypeOK, Calls
    <2>2. wire' \in [Requests -> SUBSET Calls]
      BY DEF Settle, TypeOK
    <2> QED
      BY <1>2, <2>1, <2>2 DEF Insert, TypeOK
  <1>3. CASE Update(r)
    <2> PICK call \in wire[r] :
          /\ call.op = "update" /\ Settle(r, call)
          /\ rows' = [rows EXCEPT ![r] = IF @.status = "absent" THEN @ ELSE call.row]
      BY <1>3 DEF Update
    <2>1. call.row \in Entry
      BY DEF TypeOK, Calls
    <2>2. wire' \in [Requests -> SUBSET Calls]
      BY DEF Settle, TypeOK
    <2> QED
      BY <1>3, <2>1, <2>2 DEF Update, TypeOK
  <1>4. CASE Execute(r)
    <2> PICK call \in wire[r] : call.op = "forward" /\ Settle(r, call)
                                /\ effect' = [effect EXCEPT ![r] = call.user]
      BY <1>4 DEF Execute
    <2>1. call.user \in Users
      BY DEF TypeOK, Calls
    <2>2. wire' \in [Requests -> SUBSET Calls]
      BY DEF Settle, TypeOK
    <2> QED
      BY <1>4, <2>1, <2>2 DEF Execute, TypeOK
  <1> QED
    BY <1>1, <1>2, <1>3, <1>4 DEF Environment

LEMMA TypeOKProcess ==
  ASSUME TypeOK, Process
  PROVE  TypeOK'
  <1>1. CASE Stop
    <2>1. pc' \in [Requests -> Stages]
      BY <1>1 DEF Stop, TypeOK, Stages
    <2> QED
      BY <1>1, <2>1 DEF Stop, TypeOK
  <1> QED
    BY <1>1 DEF Process, Sigterm, ShutdownReturns, ListenFails, Exit, Crash, Restart, TypeOK

LEMMA TypeOKStutter ==
  ASSUME TypeOK, UNCHANGED vars
  PROVE  TypeOK'
  BY DEF vars, TypeOK

(***************************************************************************)
(* Every variable keeps its type.                                          *)
(***************************************************************************)
THEOREM TypeCorrect == Spec => []TypeOK
  <1>1. Init => TypeOK
    BY TypeOKInit
  <1>2. TypeOK /\ [Next]_vars => TypeOK'
    BY TypeOKHandler, TypeOKEnvironment, TypeOKProcess, TypeOKStutter DEF Next
  <1> QED
    BY <1>1, <1>2, PTL DEF Spec

-----------------------------------------------------------------------------
(* Steps of other calls.                                                   *)

\* The configuration is read once, by loadConfig: no step changes it.
LEMMA SinkStays ==
  ASSUME [Next]_vars
  PROVE  audited' = audited
  <1>1. ASSUME NEW r \in Requests, Handler(r) \/ Environment(r)
        PROVE  audited' = audited
    BY <1>1
    DEF Handler, Environment, Arrive, ReadBody, StartSucceeds, StartFails, VerifySucceeds,
        VerifyFails, ForwardSucceeds, ForwardFails, ReadReturns, FinishReturns, Reply,
        Disconnect, Insert, Update, Execute
  <1>2. Process \/ UNCHANGED vars => audited' = audited
    BY DEF Process, Sigterm, ShutdownReturns, ListenFails, Exit, Crash, Stop, Restart, vars
  <1> QED
    BY <1>1, <1>2 DEF Next

SameCall(q) ==
  /\ audited' = audited
  /\ pc'[q] = pc[q] /\ kind'[q] = kind[q] /\ entry'[q] = entry[q] /\ rows'[q] = rows[q]
  /\ wire'[q] = wire[q] /\ effect'[q] = effect[q] /\ reply'[q] = reply[q]

LEMMA SameCallKeepsInv ==
  ASSUME NEW q \in Requests, CallInv(q), SameCall(q)
  PROVE  CallInv(q)'
  BY DEF SameCall, CallInv, EntryFollowsHandler, NothingBeforeStart, RowFollowsEntry,
         RowBeforeProgress, InFlight, EffectFollowsEntry, ReplyFollowsEntry, AdminsOnly

LEMMA FinishAuditOthers ==
  ASSUME TypeOK, NEW r \in Requests, NEW q \in Requests, q # r, NEW e, FinishAudit(r, e)
  PROVE  pc'[q] = pc[q] /\ entry'[q] = entry[q] /\ wire'[q] = wire[q]
  BY DEF FinishAudit, Goto, Ask, TypeOK

LEMMA AdmitOthers ==
  ASSUME TypeOK, NEW r \in Requests, NEW q \in Requests, q # r, NEW k, NEW b, Admit(r, k, b)
  PROVE  pc'[q] = pc[q] /\ entry'[q] = entry[q] /\ wire'[q] = wire[q]
  <1>1. CASE Goto(r, "verifying") /\ UNCHANGED <<entry, wire>>
    BY <1>1 DEF Goto, TypeOK
  <1> QED
    BY <1>1, FinishAuditOthers DEF Admit, Answer, Deny

LEMMA StartAuditOthers ==
  ASSUME TypeOK, NEW r \in Requests, NEW q \in Requests, q # r, NEW k, NEW b,
         StartAudit(r, k, b)
  PROVE  pc'[q] = pc[q] /\ entry'[q] = entry[q] /\ wire'[q] = wire[q]
  BY AdmitOthers DEF StartAudit, Goto, Ask, TypeOK

\* A handler touches nothing of another call.
LEMMA HandlerOthers ==
  ASSUME TypeOK, NEW r \in Requests, NEW q \in Requests, q # r, Handler(r)
  PROVE  SameCall(q)
  <1> USE DEF SameCall
  <1>1. CASE \E k \in Kinds : Arrive(r, k)
    <2> PICK k \in Kinds : Arrive(r, k)
      BY <1>1
    <2>1. pc'[q] = pc[q] /\ entry'[q] = entry[q] /\ wire'[q] = wire[q]
      BY StartAuditOthers DEF Arrive, Goto, TypeOK
    <2> QED
      BY <2>1 DEF Arrive, TypeOK
  <1>2. CASE \E b \in Bodies : ReadBody(r, b)
    BY <1>2, StartAuditOthers DEF ReadBody
  <1>3. CASE StartSucceeds(r)
    BY <1>3, AdmitOthers DEF StartSucceeds
  <1>4. CASE StartFails(r) \/ FinishReturns(r)
    BY <1>4 DEF StartFails, FinishReturns, Goto, TypeOK
  <1>5. CASE \E u \in Users : VerifySucceeds(r, u)
    <2> PICK u \in Users : VerifySucceeds(r, u)
      BY <1>5
    <2>1. Forward(r, u) => pc'[q] = pc[q] /\ entry'[q] = entry[q] /\ wire'[q] = wire[q]
      BY DEF Forward, Goto, Ask, TypeOK
    <2>2. Serve(r, u) => pc'[q] = pc[q] /\ entry'[q] = entry[q] /\ wire'[q] = wire[q]
      BY FinishAuditOthers DEF Serve, Goto, TypeOK
    <2> QED
      BY <2>1, <2>2, FinishAuditOthers DEF VerifySucceeds
  <1>6. CASE VerifyFails(r)
    BY <1>6, FinishAuditOthers DEF VerifyFails, Deny
  <1>7. CASE \E s \in UpstreamStatuses : ForwardSucceeds(r, s)
    BY <1>7, FinishAuditOthers DEF ForwardSucceeds
  <1>8. CASE ForwardFails(r) \/ ReadReturns(r)
    BY <1>8, FinishAuditOthers DEF ForwardFails, ReadReturns, Answer
  <1>9. CASE Reply(r)
    BY <1>9 DEF Reply, Goto, TypeOK
  <1> QED
    BY <1>1, <1>2, <1>3, <1>4, <1>5, <1>6, <1>7, <1>8, <1>9 DEF Handler

\* Nor does what the other parties do for it.
LEMMA EnvironmentOthers ==
  ASSUME TypeOK, NEW r \in Requests, NEW q \in Requests, q # r, Environment(r)
  PROVE  SameCall(q)
  BY DEF Environment, Disconnect, Insert, Update, Execute, Settle, SameCall, TypeOK

-----------------------------------------------------------------------------
(* Steps of the call itself.                                               *)

\* The record a handler completes: what it may have been before.
LEMMA FinishAuditKeepsInv ==
  ASSUME TypeOK, NEW r \in Requests, CallInv(r), NEW e \in Entry, FinishAudit(r, e),
         pc[r] \in {"idle", "reading", "starting", "verifying", "working"},
         pc[r] \in {"idle", "reading"} => ~audited,
         pc[r] = "starting" => rows[r].status # "absent",
         e.outcome \in Outcomes,
         entry[r] = NewEntry \/ (e.user = entry[r].user /\ e.auth = entry[r].auth),
         kind'[r] # "proxy" /\ e.outcome \in {"ok", "invalid_input"} => e.user \in Admins,
         audited' = audited, rows' = rows, effect' = effect, reply' = reply
  PROVE  CallInv(r)'
  <1> DEFINE new == Completed(e)
  <1>1. /\ entry[r] \in Entry /\ rows[r] \in Entry
        /\ entry'[r] = new
        /\ pc'[r] \in {"finishing", "replying"}
    BY DEF FinishAudit, Goto, TypeOK
  <1>2. /\ new.status = "complete" /\ new.auth = e.auth /\ new.user = e.user
        /\ new.outcome = e.outcome
    BY DEF Completed, Entry
  <1>3. e.outcome \notin {"none", "audit_unavailable"}
    BY StatusAssumption DEF Outcomes, ErrorCodes
  <1>4. /\ NewEntry.status = "started" /\ NewEntry.user = NoUser
        /\ NewEntry.auth = "not_checked" /\ NoRow.status = "absent"
    BY DEF NewEntry, NoRow
  <1>5. entry[r].status = "started" /\ reply[r] = "none"
    BY <1>4 DEF CallInv, EntryFollowsHandler, ReplyFollowsEntry
  <1>6. rows[r].status # "complete"
    BY <1>5 DEF CallInv, RowFollowsEntry
  <1>7. audited => rows[r].status # "absent"
    BY <1>4 DEF CallInv, RowBeforeProgress, EntryFollowsHandler
  <1>8. SinkAccepts(r) => rows[r] = NewEntry
    BY <1>1, <1>6, <1>7 DEF SinkAccepts, CallInv, RowFollowsEntry, Entry
  <1>9. \A call \in wire[r] : call.op \notin {"insert", "update"}
    <2> SUFFICES ASSUME NEW call \in wire[r]
                 PROVE  call.op \notin {"insert", "update"}
      OBVIOUS
    <2>1. call.op # "update"
      BY <1>5 DEF CallInv, InFlight
    <2>2. CASE pc[r] \in {"idle", "reading"}
      BY <2>2 DEF CallInv, NothingBeforeStart
    <2>3. CASE pc[r] = "starting"
      BY <1>4, <2>1, <2>3 DEF CallInv, InFlight
    <2>4. CASE pc[r] = "verifying"
      BY <2>1, <2>4 DEF CallInv, InFlight
    <2>5. CASE pc[r] = "working"
      BY <1>4, <2>1, <2>5 DEF CallInv, InFlight, EntryFollowsHandler
    <2> QED
      BY <2>2, <2>3, <2>4, <2>5
  <1>10. effect[r] # NoUser => e.user = effect[r] /\ e.auth = "authenticated"
    BY <1>4 DEF CallInv, EffectFollowsEntry
  <1>11. \A call \in wire[r] : call.op = "forward" =>
           call.user = e.user /\ e.auth = "authenticated" /\ effect[r] = NoUser
    BY <1>4 DEF CallInv, InFlight
  <1>12. InFlight(r)'
    <2>1. CASE SinkAccepts(r) /\ Ask(r, UpdateOf(new))
      <3>1. wire'[r] = wire[r] \cup {UpdateOf(new)}
        BY <2>1 DEF Ask, TypeOK
      <3> QED
        BY <1>1, <1>2, <1>8, <1>9, <1>11, <2>1, <3>1 DEF InFlight, UpdateOf
    <2>2. CASE UNCHANGED wire
      BY <1>1, <1>2, <1>9, <1>11, <2>2 DEF InFlight
    <2> QED
      BY <2>1, <2>2 DEF FinishAudit
  <1>13. EntryFollowsHandler(r)' /\ NothingBeforeStart(r)'
    BY <1>1, <1>2, <1>3 DEF EntryFollowsHandler, NothingBeforeStart
  <1>14. RowFollowsEntry(r)'
    BY <1>6 DEF CallInv, RowFollowsEntry
  <1>15. RowBeforeProgress(r)'
    BY <1>7 DEF RowBeforeProgress
  <1>16. EffectFollowsEntry(r)' /\ ReplyFollowsEntry(r)'
    BY <1>1, <1>2, <1>5, <1>10 DEF EffectFollowsEntry, ReplyFollowsEntry
  <1>17. AdminsOnly(r)'
    BY <1>1, <1>2 DEF AdminsOnly
  <1> QED
    BY <1>12, <1>13, <1>14, <1>15, <1>16, <1>17 DEF CallInv

\* The entry and the row as the code first writes them.
LEMMA InitialEntries ==
  /\ NewEntry.status = "started" /\ NewEntry.user = NoUser
  /\ NewEntry.auth = "not_checked" /\ NewEntry.outcome = "none"
  /\ NoRow.status = "absent"
  BY DEF NewEntry, NoRow

LEMMA AdmitKeepsInv ==
  ASSUME TypeOK, NEW r \in Requests, CallInv(r), NEW k, NEW b, Admit(r, k, b),
         pc[r] \in {"idle", "reading", "starting"},
         pc[r] \in {"idle", "reading"} => ~audited,
         pc[r] = "starting" => rows[r].status # "absent",
         audited' = audited, rows' = rows, effect' = effect, reply' = reply
  PROVE  CallInv(r)'
  <1>1. entry[r] = NewEntry /\ entry[r] \in Entry
    BY DEF CallInv, EntryFollowsHandler, TypeOK
  <1>2. ASSUME NEW o \in ErrorCodes, o # "invalid_input", Answer(r, o)
        PROVE  CallInv(r)'
    <2> DEFINE e == [entry[r] EXCEPT !.outcome = o]
    <2>1. e \in Entry /\ o \in Outcomes
      BY <1>1, EntryUpdates, OutcomeNames
    <2>2. e.outcome = o /\ o # "ok"
      BY <1>1 DEF Entry, ErrorCodes
    <2> HIDE DEF e
    <2> QED
      BY <1>1, <1>2, <2>1, <2>2, FinishAuditKeepsInv DEF Answer, e
  <1>3. ASSUME NEW a \in AuthResults, NEW o \in ErrorCodes, o # "invalid_input", Deny(r, a, o)
        PROVE  CallInv(r)'
    <2> DEFINE e == [entry[r] EXCEPT !.auth = a, !.outcome = o]
    <2>1. e \in Entry /\ o \in Outcomes
      BY <1>1, EntryUpdates, OutcomeNames
    <2>2. e.outcome = o /\ o # "ok"
      BY <1>1 DEF Entry, ErrorCodes
    <2> HIDE DEF e
    <2> QED
      BY <1>1, <1>3, <2>1, <2>2, FinishAuditKeepsInv DEF Deny, e
  <1>4. CASE Goto(r, "verifying") /\ UNCHANGED <<entry, wire>>
    <2>1. pc'[r] = "verifying" /\ entry'[r] = NewEntry /\ wire'[r] = wire[r]
      BY <1>1, <1>4 DEF Goto, TypeOK
    <2>2. audited => rows[r].status # "absent"
      OBVIOUS
    <2>3. \A call \in wire[r] : call.op # "insert"
      BY InitialEntries DEF CallInv, NothingBeforeStart, InFlight
    <2>4. EntryFollowsHandler(r)' /\ NothingBeforeStart(r)' /\ RowFollowsEntry(r)'
      BY <1>1, <2>1, InitialEntries
      DEF CallInv, EntryFollowsHandler, NothingBeforeStart, RowFollowsEntry
    <2>5. RowBeforeProgress(r)' /\ EffectFollowsEntry(r)' /\ AdminsOnly(r)'
      BY <1>1, <2>1, <2>2, InitialEntries
      DEF CallInv, RowBeforeProgress, EffectFollowsEntry, AdminsOnly
    <2>6. InFlight(r)' /\ ReplyFollowsEntry(r)'
      BY <1>1, <2>1, <2>3 DEF CallInv, InFlight, ReplyFollowsEntry
    <2> QED
      BY <2>4, <2>5, <2>6 DEF CallInv
  <1> QED
    BY <1>2, <1>3, <1>4 DEF Admit, ErrorCodes, AuthResults

LEMMA StartAuditKeepsInv ==
  ASSUME TypeOK, NEW r \in Requests, CallInv(r), NEW k, NEW b, StartAudit(r, k, b),
         pc[r] \in {"idle", "reading"},
         audited' = audited, rows' = rows, effect' = effect, reply' = reply
  PROVE  CallInv(r)'
  <1>1. /\ entry[r] = NewEntry /\ rows[r] = NoRow /\ wire[r] = {}
        /\ effect[r] = NoUser /\ reply[r] = "none"
    BY InitialEntries DEF CallInv, EntryFollowsHandler, NothingBeforeStart,
                          EffectFollowsEntry, ReplyFollowsEntry
  <1>2. ASSUME pc'[r] \in {"starting", "refusing"}, entry'[r] = NewEntry,
               wire'[r] \subseteq {InsertOf(NewEntry)}
        PROVE  CallInv(r)'
    <2>1. EntryFollowsHandler(r)' /\ NothingBeforeStart(r)' /\ RowFollowsEntry(r)'
      BY <1>1, <1>2, InitialEntries DEF EntryFollowsHandler, NothingBeforeStart, RowFollowsEntry
    <2>2. RowBeforeProgress(r)' /\ EffectFollowsEntry(r)' /\ AdminsOnly(r)'
      BY <1>1, <1>2, InitialEntries DEF RowBeforeProgress, EffectFollowsEntry, AdminsOnly
    <2>3. InFlight(r)' /\ ReplyFollowsEntry(r)'
      BY <1>1, <1>2 DEF InFlight, InsertOf, ReplyFollowsEntry
    <2> QED
      BY <2>1, <2>2, <2>3 DEF CallInv
  <1>3. CASE Goto(r, "starting") /\ Ask(r, InsertOf(entry[r])) /\ UNCHANGED entry
    BY <1>1, <1>2, <1>3 DEF Goto, Ask, TypeOK
  <1>4. CASE Goto(r, "refusing") /\ UNCHANGED <<entry, wire>>
    BY <1>1, <1>2, <1>4 DEF Goto, TypeOK
  <1>5. CASE ~audited /\ Admit(r, k, b)
    BY <1>5, AdmitKeepsInv
  <1> QED
    BY <1>3, <1>4, <1>5 DEF StartAudit

\* The verifier named a user: nothing ran yet, and the entry will name it.
LEMMA VerifySucceedsKeepsInv ==
  ASSUME TypeOK, NEW r \in Requests, CallInv(r), NEW u \in Users, VerifySucceeds(r, u)
  PROVE  CallInv(r)'
  <1>1. /\ pc[r] = "verifying" /\ entry[r] = NewEntry /\ entry[r] \in Entry
        /\ kind'[r] = kind[r] /\ rows' = rows /\ effect' = effect
        /\ reply' = reply /\ audited' = audited
    BY DEF VerifySucceeds, CallInv, EntryFollowsHandler, TypeOK
  <1>2. effect[r] = NoUser /\ reply[r] = "none" /\ wire[r] \cap Calls = wire[r]
    BY <1>1, InitialEntries DEF CallInv, EffectFollowsEntry, ReplyFollowsEntry, TypeOK
  <1>3. wire[r] = {}
    <2> SUFFICES ASSUME NEW call \in wire[r] PROVE FALSE
      OBVIOUS
    <2>1. call.op \in {"insert", "update", "forward"}
      BY <1>2 DEF Calls
    <2> QED
      BY <1>1, <2>1, InitialEntries DEF CallInv, InFlight
  <1> DEFINE e == [entry[r] EXCEPT !.auth = "authenticated", !.user = u]
  <1>4. e \in Entry
    BY <1>1, EntryUpdates DEF AuthResults
  <1>5. /\ e.status = "started" /\ e.auth = "authenticated"
        /\ e.user = u /\ e.outcome = "none"
    BY <1>1, InitialEntries DEF Entry
  <1>6. audited => rows[r].status # "absent"
    BY <1>1 DEF CallInv, RowBeforeProgress
  <1>7. ASSUME pc'[r] = "working", entry'[r] = e, wire'[r] \subseteq {ForwardAs(u)},
               kind[r] # "proxy" => u \in Admins
        PROVE  CallInv(r)'
    <2>1. EntryFollowsHandler(r)' /\ NothingBeforeStart(r)'
      BY <1>5, <1>7 DEF EntryFollowsHandler, NothingBeforeStart
    <2>2. RowFollowsEntry(r)'
      BY <1>1, InitialEntries DEF CallInv, RowFollowsEntry
    <2>3. RowBeforeProgress(r)' /\ EffectFollowsEntry(r)' /\ AdminsOnly(r)'
      BY <1>1, <1>2, <1>5, <1>6, <1>7 DEF RowBeforeProgress, EffectFollowsEntry, AdminsOnly
    <2>4. InFlight(r)' /\ ReplyFollowsEntry(r)'
      BY <1>1, <1>2, <1>5, <1>7 DEF InFlight, ForwardAs, ReplyFollowsEntry
    <2> QED
      BY <2>1, <2>2, <2>3, <2>4 DEF CallInv
  <1>8. CASE kind[r] = "proxy" /\ Forward(r, u)
    <2>1. entry'[r] = e
      BY <1>8 DEF Forward, TypeOK
    <2>2. pc'[r] = "working" /\ wire'[r] = {ForwardAs(u)}
      BY <1>3, <1>8 DEF Forward, Goto, Ask, TypeOK
    <2> QED
      BY <1>7, <1>8, <2>1, <2>2
  <1>9. CASE kind[r] # "proxy" /\ u \in Admins /\ Serve(r, u)
    <2>1. ASSUME NEW o \in {"invalid_input", "audit_log_unavailable"},
                 FinishAudit(r, [e EXCEPT !.outcome = o])
          PROVE  CallInv(r)'
      <3> DEFINE f == [e EXCEPT !.outcome = o]
      <3>1. f \in Entry /\ o \in Outcomes
        BY <1>4, EntryUpdates, OutcomeNames DEF ErrorCodes
      <3>2. f.outcome = o /\ f.user = u
        BY <1>4, <1>5 DEF Entry
      <3> HIDE DEF f, e
      <3> QED
        BY <1>1, <1>9, <2>1, <3>1, <3>2, FinishAuditKeepsInv DEF f
    <2>2. CASE entry' = [entry EXCEPT ![r] = e] /\ Goto(r, "working") /\ UNCHANGED wire
      <3>1. pc'[r] = "working" /\ entry'[r] = e /\ wire'[r] = {}
        BY <1>3, <2>2 DEF Goto, TypeOK
      <3> QED
        BY <1>7, <1>9, <3>1
    <2> QED
      BY <1>9, <2>1, <2>2 DEF Serve
  <1>10. CASE FinishAudit(r, [entry[r] EXCEPT !.auth = "forbidden", !.user = u,
                                              !.outcome = "forbidden"])
    <2> DEFINE f == [entry[r] EXCEPT !.auth = "forbidden", !.user = u, !.outcome = "forbidden"]
    <2>1. f \in Entry /\ "forbidden" \in Outcomes
      BY <1>1, EntryUpdates, OutcomeNames DEF AuthResults, ErrorCodes
    <2>2. f.outcome = "forbidden"
      BY <1>1 DEF Entry
    <2> HIDE DEF f
    <2> QED
      BY <1>1, <1>10, <2>1, <2>2, FinishAuditKeepsInv DEF f
  <1> QED
    BY <1>8, <1>9, <1>10 DEF VerifySucceeds

\* The work is done, or given up: its user and authentication stay.
LEMMA WorkKeepsInv ==
  ASSUME TypeOK, NEW r \in Requests, CallInv(r), pc[r] = "working",
         NEW o \in Outcomes, NEW url \in BOOLEAN,
         FinishAudit(r, [entry[r] EXCEPT !.url = url, !.outcome = o]),
         kind' = kind, audited' = audited, rows' = rows, effect' = effect, reply' = reply
  PROVE  CallInv(r)'
  <1> DEFINE e == [entry[r] EXCEPT !.url = url, !.outcome = o]
  <1>1. entry[r] \in Entry
    BY DEF TypeOK
  <1>2. /\ e \in Entry /\ e.outcome = o
        /\ e.user = entry[r].user /\ e.auth = entry[r].auth
    BY <1>1 DEF Entry
  <1>3. kind[r] # "proxy" => e.user \in Admins
    BY <1>2 DEF CallInv, AdminsOnly
  <1> HIDE DEF e
  <1> QED
    BY <1>2, <1>3, FinishAuditKeepsInv DEF e

LEMMA AnswerIsWork ==
  ASSUME TypeOK, NEW r \in Requests, NEW o, Answer(r, o)
  PROVE  /\ entry[r].url \in BOOLEAN
         /\ FinishAudit(r, [entry[r] EXCEPT !.url = entry[r].url, !.outcome = o])
  <1>1. entry[r] \in Entry
    BY DEF TypeOK
  <1>2. [entry[r] EXCEPT !.url = entry[r].url, !.outcome = o] = [entry[r] EXCEPT !.outcome = o]
    BY <1>1 DEF Entry
  <1> QED
    BY <1>1, <1>2 DEF Answer, Entry

LEMMA HandlerKeepsInv ==
  ASSUME TypeOK, NEW r \in Requests, CallInv(r), Handler(r)
  PROVE  CallInv(r)'
  <1>1. CASE \E k \in Kinds : Arrive(r, k)
    <2> PICK k \in Kinds : Arrive(r, k)
      BY <1>1
    <2>1. CASE Goto(r, "reading") /\ UNCHANGED <<entry, wire>>
      <3>1. pc'[r] = "reading" /\ pc[r] = "idle"
        BY <2>1 DEF Arrive, Goto, TypeOK
      <3>2. entry[r] = NewEntry /\ rows[r] = NoRow /\ wire[r] = {}
        BY <3>1 DEF CallInv, EntryFollowsHandler, NothingBeforeStart
      <3> QED
        BY <2>1, <3>1, <3>2, InitialEntries
        DEF Arrive, CallInv, EntryFollowsHandler, NothingBeforeStart, RowFollowsEntry,
            RowBeforeProgress, InFlight, EffectFollowsEntry, ReplyFollowsEntry, AdminsOnly
    <2>2. CASE StartAudit(r, k, "ok")
      BY <2>2, StartAuditKeepsInv DEF Arrive
    <2> QED
      BY <2>1, <2>2 DEF Arrive
  <1>2. CASE \E b \in Bodies : ReadBody(r, b)
    BY <1>2, StartAuditKeepsInv DEF ReadBody
  <1>3. CASE StartSucceeds(r)
    BY <1>3, AdmitKeepsInv DEF StartSucceeds
  <1>4. CASE StartFails(r)
    <2>1. pc[r] = "starting" /\ pc'[r] = "refusing"
      BY <1>4 DEF StartFails, Goto, TypeOK
    <2> QED
      BY <1>4, <2>1, InitialEntries
      DEF StartFails, CallInv, EntryFollowsHandler, NothingBeforeStart, RowFollowsEntry,
          RowBeforeProgress, InFlight, EffectFollowsEntry, ReplyFollowsEntry, AdminsOnly
  <1>5. CASE \E u \in Users : VerifySucceeds(r, u)
    BY <1>5, VerifySucceedsKeepsInv
  <1>6. CASE VerifyFails(r)
    <2>1. entry[r] = NewEntry /\ entry[r] \in Entry /\ pc[r] = "verifying"
      BY <1>6 DEF VerifyFails, CallInv, EntryFollowsHandler, TypeOK
    <2>2. ASSUME NEW a \in AuthResults, NEW o \in {"unauthorized", "auth_unavailable"},
                 Deny(r, a, o)
          PROVE  CallInv(r)'
      <3> DEFINE e == [entry[r] EXCEPT !.auth = a, !.outcome = o]
      <3>1. e \in Entry /\ o \in Outcomes
        BY <2>1, EntryUpdates, OutcomeNames DEF ErrorCodes
      <3>2. e.outcome = o
        BY <2>1 DEF Entry
      <3> HIDE DEF e
      <3> QED
        BY <1>6, <2>1, <2>2, <3>1, <3>2, FinishAuditKeepsInv DEF VerifyFails, Deny, e
    <2> QED
      BY <1>6, <2>2 DEF VerifyFails, AuthResults
  <1>7. CASE \E s \in UpstreamStatuses : ForwardSucceeds(r, s)
    BY <1>7, OutcomeNames, WorkKeepsInv DEF ForwardSucceeds
  <1>8. CASE ForwardFails(r)
    BY <1>8, OutcomeNames, AnswerIsWork, WorkKeepsInv DEF ForwardFails, ErrorCodes
  <1>9. CASE ReadReturns(r)
    <2> PICK o \in ReadOutcomes(r) : Answer(r, o)
      BY <1>9 DEF ReadReturns
    <2>1. o \in Outcomes
      BY OutcomeNames DEF ReadOutcomes, ErrorCodes
    <2> QED
      BY <1>9, <2>1, AnswerIsWork, WorkKeepsInv DEF ReadReturns
  <1>10. CASE FinishReturns(r)
    <2>1. pc[r] = "finishing" /\ pc'[r] = "replying"
      BY <1>10 DEF FinishReturns, Goto, TypeOK
    <2> QED
      BY <1>10, <2>1
      DEF FinishReturns, CallInv, EntryFollowsHandler, NothingBeforeStart, RowFollowsEntry,
          RowBeforeProgress, InFlight, EffectFollowsEntry, ReplyFollowsEntry, AdminsOnly
  <1>11. CASE Reply(r)
    <2>1. pc[r] \in {"replying", "refusing"} /\ pc'[r] = "done"
      BY <1>11 DEF Reply, Goto, TypeOK
    <2>2. reply[r] = "none"
      BY <2>1 DEF CallInv, ReplyFollowsEntry
    <2>3. \/ reply'[r] = "none"
          \/ pc[r] = "refusing" /\ reply'[r] = "audit_unavailable"
          \/ pc[r] = "replying" /\ reply'[r] = entry[r].outcome
      BY <1>11, <2>2 DEF Reply, TypeOK
    <2>4. pc[r] = "replying" => entry[r].outcome \notin {"none", "audit_unavailable"}
      <3>1. entry[r].outcome \in Outcomes \cup {"none"}
        BY DEF TypeOK, Entry
      <3> QED
        BY <3>1, StatusAssumption DEF Outcomes, ErrorCodes, CallInv, EntryFollowsHandler
    <2>5. ReplyFollowsEntry(r)'
      BY <1>11, <2>1, <2>3, <2>4 DEF Reply, CallInv, EntryFollowsHandler, ReplyFollowsEntry
    <2> QED
      BY <1>11, <2>1, <2>5
      DEF Reply, CallInv, EntryFollowsHandler, NothingBeforeStart, RowFollowsEntry,
          RowBeforeProgress, InFlight, EffectFollowsEntry, AdminsOnly
  <1> QED
    BY <1>1, <1>2, <1>3, <1>4, <1>5, <1>6, <1>7, <1>8, <1>9, <1>10, <1>11 DEF Handler

LEMMA EnvironmentKeepsInv ==
  ASSUME TypeOK, NEW r \in Requests, CallInv(r), Environment(r)
  PROVE  CallInv(r)'
  <1>1. CASE Disconnect(r)
    BY <1>1, SameCallKeepsInv DEF Disconnect, SameCall
  <1>2. CASE Insert(r)
    <2> PICK call \in wire[r] : call.op = "insert" /\ Settle(r, call)
                                /\ rows' = [rows EXCEPT ![r] = call.row]
      BY <1>2 DEF Insert
    <2>1. call = InsertOf(NewEntry) /\ entry[r] = NewEntry
      <3>1. call \in Calls
        BY DEF TypeOK
      <3> QED
        BY <3>1 DEF Calls, InsertOf, CallInv, InFlight
    <2>2. \A other \in wire[r] : other = call
      <3> SUFFICES ASSUME NEW other \in wire[r] PROVE other = call
        OBVIOUS
      <3>1. other \in Calls
        BY DEF TypeOK
      <3>2. other.op = "insert" /\ other.row = NewEntry
        BY <2>1, <3>1, InitialEntries DEF Calls, CallInv, InFlight
      <3> QED
        BY <2>1, <3>1, <3>2 DEF Calls, InsertOf
    <2>3. wire'[r] = {} /\ rows'[r] = NewEntry
      BY <2>1, <2>2 DEF Settle, TypeOK, InsertOf
    <2>4. pc[r] \notin {"idle", "reading"}
      BY DEF CallInv, NothingBeforeStart
    <2> QED
      BY <1>2, <2>1, <2>3, <2>4, InitialEntries
      DEF Insert, CallInv, EntryFollowsHandler, NothingBeforeStart, RowFollowsEntry,
          RowBeforeProgress, InFlight, EffectFollowsEntry, ReplyFollowsEntry, AdminsOnly
  <1>3. CASE Update(r)
    <2> PICK call \in wire[r] :
          /\ call.op = "update" /\ Settle(r, call)
          /\ rows' = [rows EXCEPT ![r] = IF @.status = "absent" THEN @ ELSE call.row]
      BY <1>3 DEF Update
    <2>1. call.row = entry[r] /\ entry[r].status = "complete" /\ rows[r] = NewEntry
      BY DEF CallInv, InFlight
    <2>2. \A other \in wire[r] : other # call => other.op = "forward"
      <3> SUFFICES ASSUME NEW other \in wire[r], other # call PROVE other.op = "forward"
        OBVIOUS
      <3>1. other \in Calls /\ call \in Calls
        BY DEF TypeOK
      <3> QED
        BY <2>1, <3>1, InitialEntries DEF Calls, CallInv, InFlight
    <2>3. /\ \A other \in wire'[r] : other \in wire[r] /\ other.op = "forward"
          /\ rows'[r] = entry[r]
      BY <2>1, <2>2, InitialEntries DEF Settle, TypeOK
    <2>4. pc[r] \notin {"idle", "reading"}
      BY DEF CallInv, NothingBeforeStart
    <2> QED
      BY <1>3, <2>1, <2>3, <2>4, InitialEntries
      DEF Update, CallInv, EntryFollowsHandler, NothingBeforeStart, RowFollowsEntry,
          RowBeforeProgress, InFlight, EffectFollowsEntry, ReplyFollowsEntry, AdminsOnly
  <1>4. CASE Execute(r)
    <2> PICK call \in wire[r] : call.op = "forward" /\ Settle(r, call)
                                /\ effect' = [effect EXCEPT ![r] = call.user]
      BY <1>4 DEF Execute
    <2>1. call.user = entry[r].user /\ entry[r].auth = "authenticated"
      BY DEF CallInv, InFlight
    <2>2. \A other \in wire'[r] : other \in wire[r] /\ other.op # "forward"
      <3> SUFFICES ASSUME NEW other \in wire'[r]
                   PROVE  other \in wire[r] /\ other.op # "forward"
        OBVIOUS
      <3>1. other \in wire[r] /\ other # call
        BY DEF Settle, TypeOK
      <3>2. other \in Calls /\ call \in Calls
        BY <3>1 DEF TypeOK
      <3> QED
        BY <2>1, <3>1, <3>2 DEF Calls, CallInv, InFlight
    <2>3. effect'[r] = entry[r].user
      BY <2>1 DEF TypeOK
    <2> QED
      BY <1>4, <2>1, <2>2, <2>3
      DEF Execute, CallInv, EntryFollowsHandler, NothingBeforeStart, RowFollowsEntry,
          RowBeforeProgress, InFlight, EffectFollowsEntry, ReplyFollowsEntry, AdminsOnly
  <1> QED
    BY <1>1, <1>2, <1>3, <1>4 DEF Environment

\* Of the process only its end touches a call: its handler is gone.
LEMMA ProcessKeepsInv ==
  ASSUME TypeOK, NEW q \in Requests, CallInv(q), Process
  PROVE  CallInv(q)'
  <1>1. CASE Stop
    <2>1. pc'[q] \in {"killed", pc[q]} /\ (pc'[q] = "killed" => pc[q] \in InHandler \cup {"killed"})
      BY <1>1 DEF Stop, Busy, TypeOK
    <2>2. CASE pc'[q] = pc[q]
      BY <1>1, <2>2, SameCallKeepsInv DEF Stop, SameCall
    <2>3. CASE pc'[q] = "killed" /\ pc[q] \in InHandler
      BY <1>1, <2>3
      DEF Stop, InHandler, CallInv, EntryFollowsHandler, NothingBeforeStart, RowFollowsEntry,
          RowBeforeProgress, InFlight, EffectFollowsEntry, ReplyFollowsEntry, AdminsOnly
    <2> QED
      BY <2>1, <2>2, <2>3
  <1>2. CASE ~Stop
    BY <1>2, SameCallKeepsInv
    DEF Process, Sigterm, ShutdownReturns, ListenFails, Exit, Crash, Restart, SameCall
  <1> QED
    BY <1>1, <1>2

-----------------------------------------------------------------------------
(* The invariant, and what follows from it.                                *)

LEMMA InvInit ==
  ASSUME Init
  PROVE  GatewayInv
  <1>1. TypeOK
    BY TypeOKInit
  <1>2. ASSUME NEW q \in Requests PROVE CallInv(q)
    <2>1. /\ pc[q] = "idle" /\ entry[q] = NewEntry /\ rows[q] = NoRow /\ wire[q] = {}
          /\ effect[q] = NoUser /\ reply[q] = "none" /\ kind[q] = "proxy"
      BY DEF Init
    <2> QED
      BY <2>1, InitialEntries
      DEF CallInv, EntryFollowsHandler, NothingBeforeStart, RowFollowsEntry,
          RowBeforeProgress, InFlight, EffectFollowsEntry, ReplyFollowsEntry, AdminsOnly
  <1> QED
    BY <1>1, <1>2 DEF GatewayInv

LEMMA InvStep ==
  ASSUME GatewayInv, [Next]_vars
  PROVE  GatewayInv'
  <1>1. TypeOK'
    BY TypeOKHandler, TypeOKEnvironment, TypeOKProcess, TypeOKStutter DEF Next, GatewayInv
  <1>2. ASSUME NEW q \in Requests PROVE CallInv(q)'
    <2>1. TypeOK /\ CallInv(q)
      BY DEF GatewayInv
    <2>2. CASE \E r \in Requests : Handler(r) \/ Environment(r)
      <3> PICK r \in Requests : Handler(r) \/ Environment(r)
        BY <2>2
      <3>1. CASE r = q
        BY <2>1, <3>1, HandlerKeepsInv, EnvironmentKeepsInv
      <3>2. CASE r # q
        BY <2>1, <3>2, HandlerOthers, EnvironmentOthers, SameCallKeepsInv
      <3> QED
        BY <3>1, <3>2
    <2>3. CASE Process
      BY <2>1, <2>3, ProcessKeepsInv
    <2>4. CASE UNCHANGED vars
      BY <2>1, <2>4, SameCallKeepsInv DEF vars, SameCall
    <2> QED
      BY <2>2, <2>3, <2>4 DEF Next
  <1> QED
    BY <1>1, <1>2 DEF GatewayInv

(***************************************************************************)
(* GatewayInv holds in every reachable state, audited or not.              *)
(***************************************************************************)
THEOREM GatewayInvariant == Spec => []GatewayInv
  <1>1. Init => GatewayInv
    BY InvInit
  <1>2. GatewayInv /\ [Next]_vars => GatewayInv'
    BY InvStep
  <1> QED
    BY <1>1, <1>2, PTL DEF Spec

(***************************************************************************)
(* Fail closed: no audited call is verified, forwarded or executed without *)
(* its row, whatever arrives late and wherever the process dies.           *)
(***************************************************************************)
THEOREM NothingUnaudited == Spec => []FailClosed
  <1>1. ASSUME GatewayInv PROVE FailClosed
    <2> SUFFICES ASSUME audited, NEW r \in Requests,
                        pc[r] \in {"verifying", "working"} \/ Forwarded(r) \/ effect[r] # NoUser
                 PROVE  rows[r].status # "absent"
      BY DEF FailClosed
    <2>1. CallInv(r)
      BY <1>1 DEF GatewayInv
    <2>2. pc[r] = "verifying" \/ entry[r].auth = "authenticated"
      BY <2>1 DEF CallInv, EntryFollowsHandler, InFlight, EffectFollowsEntry, Forwarded, ForwardAs
    <2> QED
      BY <2>1, <2>2, InitialEntries DEF CallInv, RowBeforeProgress
  <1> QED
    BY <1>1, GatewayInvariant, PTL

(***************************************************************************)
(* A call answered 503 audit_unavailable is never executed upstream, even  *)
(* if the insert that timed out is executed after that answer.             *)
(***************************************************************************)
THEOREM RefusalIsFinal == Spec => []RefusedIsNeverServed
  <1>1. GatewayInv => RefusedIsNeverServed
    BY InitialEntries
    DEF GatewayInv, RefusedIsNeverServed, CallInv, ReplyFollowsEntry, InFlight,
        EffectFollowsEntry, Forwarded, ForwardAs
  <1> QED
    BY <1>1, GatewayInvariant, PTL

(***************************************************************************)
(* A complete row holds the outcome its client received.                   *)
(***************************************************************************)
THEOREM CompleteRowsAreTruthful == Spec => []TruthfulRecord
  <1>1. GatewayInv => TruthfulRecord
    BY InitialEntries DEF GatewayInv, TruthfulRecord, CallInv, ReplyFollowsEntry, RowFollowsEntry
  <1> QED
    BY <1>1, GatewayInvariant, PTL

(***************************************************************************)
(* A complete row of an executed call names the user it was executed as.   *)
(***************************************************************************)
THEOREM ExecutedCallsAreAttributed == Spec => []Attribution
  <1>1. GatewayInv => Attribution
    BY DEF GatewayInv, Attribution, CallInv, EffectFollowsEntry, RowFollowsEntry
  <1> QED
    BY <1>1, GatewayInvariant, PTL

(***************************************************************************)
(* Only configured administrators are answered by the admin endpoints.     *)
(***************************************************************************)
THEOREM AdminEndpointsServeAdmins == Spec => []OnlyAdminsAreServed
  <1>1. GatewayInv => OnlyAdminsAreServed
    BY DEF GatewayInv, OnlyAdminsAreServed, CallInv, ReplyFollowsEntry, AdminsOnly
  <1> QED
    BY <1>1, GatewayInvariant, PTL

(***************************************************************************)
(* Rows only advance: absent, started, complete, then never change.        *)
(***************************************************************************)
THEOREM RowsOnlyAdvance == Spec => RecordsOnlyAdvance
  <1> DEFINE Advance == \A r \in Requests :
       rows'[r] # rows[r] =>
         <<rows[r].status, rows'[r].status>> \in
           {<<"absent", "started">>, <<"started", "complete">>}
  <1>1. ASSUME GatewayInv, [Next]_vars PROVE [Advance]_vars
    <2> SUFFICES ASSUME NEW q \in Requests, rows'[q] # rows[q]
                 PROVE  \/ rows[q].status = "absent" /\ rows'[q].status = "started"
                        \/ rows[q].status = "started" /\ rows'[q].status = "complete"
      OBVIOUS
    <2>1. CallInv(q) /\ TypeOK
      BY <1>1 DEF GatewayInv
    <2>2. PICK r \in Requests : Handler(r) \/ Environment(r)
      BY <1>1 DEF Next, vars, Process, Sigterm, ShutdownReturns, ListenFails, Exit, Crash, Stop, Restart
    <2>3. r = q
      BY <2>1, <2>2, HandlerOthers, EnvironmentOthers DEF SameCall
    <2>4. Insert(q) \/ Update(q)
      BY <2>2, <2>3
      DEF Handler, Arrive, ReadBody, StartSucceeds, StartFails, VerifySucceeds, VerifyFails,
          ForwardSucceeds, ForwardFails, ReadReturns, FinishReturns, Reply,
          Environment, Disconnect, Execute
    <2>5. CASE Insert(q)
      <3> PICK call \in wire[q] : call.op = "insert" /\ rows' = [rows EXCEPT ![q] = call.row]
        BY <2>5 DEF Insert
      <3>1. rows[q] = NoRow /\ rows'[q] = NewEntry
        BY <2>1 DEF CallInv, InFlight, TypeOK
      <3> QED
        BY <3>1, InitialEntries
    <2>6. CASE Update(q)
      <3> PICK call \in wire[q] :
            /\ call.op = "update"
            /\ rows' = [rows EXCEPT ![q] = IF @.status = "absent" THEN @ ELSE call.row]
        BY <2>6 DEF Update
      <3>1. /\ call.row = entry[q] /\ entry[q].status = "complete"
            /\ rows[q] = NewEntry
        BY <2>1 DEF CallInv, InFlight
      <3>2. rows'[q] = entry[q]
        BY <2>1, <3>1, InitialEntries DEF TypeOK
      <3> QED
        BY <3>1, <3>2, InitialEntries
    <2> QED
      BY <2>4, <2>5, <2>6
  <1> QED
    BY <1>1, GatewayInvariant, PTL DEF Spec, RecordsOnlyAdvance

-----------------------------------------------------------------------------
(* The shutdown.                                                           *)

Quiet == drained => Busy = {}

\* A handler runs only while there is no drained shutdown.
LEMMA QuietStep ==
  ASSUME TypeOK, Quiet, [Next]_vars
  PROVE  Quiet'
  <1>1. CASE \E r \in Requests : Handler(r)
    <2> PICK r \in Requests : Handler(r)
      BY <1>1
    <2>1. ~drained
      <3>1. CASE \E k \in Kinds : Arrive(r, k)
        BY <3>1 DEF Arrive, AcceptsCalls
      <3>2. CASE ~ \E k \in Kinds : Arrive(r, k)
        <4>1. r \in Busy
          BY <3>2 DEF Handler, ReadBody, StartSucceeds, StartFails, VerifySucceeds, VerifyFails,
                      ForwardSucceeds, ForwardFails, ReadReturns, FinishReturns, Reply,
                      Busy, InHandler
        <4> QED
          BY <4>1 DEF Quiet
      <3> QED
        BY <3>1, <3>2
    <2>2. drained' = drained
      BY DEF Handler, Arrive, ReadBody, StartSucceeds, StartFails, VerifySucceeds, VerifyFails,
             ForwardSucceeds, ForwardFails, ReadReturns, FinishReturns, Reply
    <2> QED
      BY <2>1, <2>2 DEF Quiet
  <1>2. CASE \E r \in Requests : Environment(r)
    BY <1>2 DEF Environment, Disconnect, Insert, Update, Execute, Quiet, Busy
  <1>3. CASE Stop
    <2>1. Busy' = {}
      BY <1>3 DEF Stop, Busy, InHandler, TypeOK
    <2> QED
      BY <2>1 DEF Quiet
  <1>4. CASE Process /\ ~Stop
    BY <1>4 DEF Process, Sigterm, ShutdownReturns, ListenFails, Exit, Crash, Restart, Quiet, Busy
  <1>5. CASE UNCHANGED vars
    BY <1>5 DEF vars, Quiet, Busy
  <1> QED
    BY <1>1, <1>2, <1>3, <1>4, <1>5 DEF Next

(***************************************************************************)
(* A shutdown that reported success killed no call.                        *)
(***************************************************************************)
THEOREM DrainedShutdownKillsNothing == Spec => GracefulStop
  <1> DEFINE Graceful == \A r \in Requests : drained /\ pc'[r] = "killed" => pc[r] = "killed"
  <1>1. Init => Quiet
    BY DEF Init, Quiet
  <1>2. TypeOK /\ Quiet /\ [Next]_vars => Quiet'
    BY QuietStep
  <1>3. ASSUME TypeOK, Quiet, [Next]_vars PROVE [Graceful]_vars
    <2> SUFFICES ASSUME NEW q \in Requests, drained, pc'[q] = "killed", pc[q] # "killed"
                 PROVE  FALSE
      OBVIOUS
    <2>1. Busy = {}
      BY <1>3 DEF Quiet
    <2>2. CASE Stop
      BY <2>1, <2>2 DEF Stop, TypeOK
    <2>3. CASE \E r \in Requests : Handler(r)
      BY <2>1, <2>3
      DEF Handler, Arrive, AcceptsCalls, ReadBody, StartSucceeds, StartFails, VerifySucceeds,
          VerifyFails, ForwardSucceeds, ForwardFails, ReadReturns, FinishReturns, Reply,
          Busy, InHandler
    <2>4. CASE (\E r \in Requests : Environment(r)) \/ (Process /\ ~Stop) \/ UNCHANGED vars
      BY <2>4
      DEF Environment, Disconnect, Insert, Update, Execute, Process, Sigterm, ShutdownReturns,
          ListenFails, Exit, Crash, Restart, vars
    <2> QED
      BY <1>3, <2>2, <2>3, <2>4 DEF Next
  <1> QED
    BY <1>1, <1>2, <1>3, TypeCorrect, PTL DEF Spec, GracefulStop

-----------------------------------------------------------------------------
(* Without a sink.                                                         *)

\* Completing an audit without a sink only fills in the entry.
LEMMA FinishWithoutSink ==
  ASSUME ~audited, TypeOK, NEW r \in Requests, Transparent(r), NEW e \in Entry,
         FinishAudit(r, e), rows' = rows, effect' = effect, reply' = reply,
         e.outcome \in UpstreamStatuses => effect[r] # NoUser
  PROVE  Transparent(r)'
  <1>1. ~SinkAccepts(r)
    BY DEF SinkAccepts
  <1>2. pc'[r] = "replying" /\ wire' = wire /\ entry'[r] = Completed(e)
    BY <1>1 DEF FinishAudit, Goto, TypeOK
  <1>3. Completed(e).outcome = e.outcome
    BY DEF Completed, Entry
  <1> QED
    BY <1>2, <1>3 DEF Transparent

\* The gateway's own answers are not those of an upstream.
LEMMA OwnOutcomes ==
  /\ \A o \in ErrorCodes \cup {"ok"} : o \notin UpstreamStatuses /\ o \in Outcomes
  /\ "none" \notin UpstreamStatuses /\ "audit_unavailable" \notin UpstreamStatuses
  BY StatusAssumption, OutcomeNames DEF ErrorCodes

LEMMA AnswerWithoutSink ==
  ASSUME ~audited, TypeOK, NEW r \in Requests, Transparent(r),
         NEW o \in ErrorCodes \cup {"ok"}, NEW a \in AuthResults,
         Answer(r, o) \/ Deny(r, a, o),
         audited' = audited, rows' = rows, effect' = effect, reply' = reply
  PROVE  Transparent(r)'
  <1>1. entry[r] \in Entry /\ o \in Outcomes /\ o \notin UpstreamStatuses
    BY OwnOutcomes DEF TypeOK
  <1>2. CASE Answer(r, o)
    <2> DEFINE e == [entry[r] EXCEPT !.outcome = o]
    <2>1. e \in Entry /\ e.outcome = o
      BY <1>1, EntryUpdates DEF Entry
    <2> HIDE DEF e
    <2> QED
      BY <1>1, <1>2, <2>1, FinishWithoutSink DEF Answer, e
  <1>3. CASE Deny(r, a, o)
    <2> DEFINE e == [entry[r] EXCEPT !.auth = a, !.outcome = o]
    <2>1. e \in Entry /\ e.outcome = o
      BY <1>1, EntryUpdates DEF Entry
    <2> HIDE DEF e
    <2> QED
      BY <1>1, <1>3, <2>1, FinishWithoutSink DEF Deny, e
  <1> QED
    BY <1>2, <1>3

LEMMA StartWithoutSink ==
  ASSUME ~audited, TypeOK, NEW r \in Requests, Transparent(r), NEW k, NEW b,
         StartAudit(r, k, b) \/ Admit(r, k, b),
         audited' = audited, rows' = rows, effect' = effect, reply' = reply
  PROVE  Transparent(r)'
  <1>1. Admit(r, k, b)
    BY DEF StartAudit, SinkAccepts
  <1>2. CASE Goto(r, "verifying") /\ UNCHANGED <<entry, wire>>
    BY <1>2 DEF Goto, TypeOK, Transparent
  <1>3. CASE Answer(r, "invalid_request_body") \/ Answer(r, "request_too_large")
    BY <1>3, AnswerWithoutSink DEF ErrorCodes, AuthResults
  <1>4. CASE Deny(r, "route_not_found", "not_found") \/ Deny(r, "missing_session", "unauthorized")
    BY <1>4, AnswerWithoutSink DEF ErrorCodes, AuthResults
  <1> QED
    BY <1>1, <1>2, <1>3, <1>4 DEF Admit

LEMMA VerifyWithoutSink ==
  ASSUME ~audited, TypeOK, NEW r \in Requests, Transparent(r), NEW u \in Users,
         VerifySucceeds(r, u)
  PROVE  Transparent(r)'
  <1>1. rows' = rows /\ effect' = effect /\ reply' = reply /\ entry[r] \in Entry
    BY DEF VerifySucceeds, TypeOK
  <1>2. ASSUME NEW a \in AuthResults, NEW o \in {"invalid_input", "audit_log_unavailable",
                                                "forbidden"},
               FinishAudit(r, [entry[r] EXCEPT !.auth = a, !.user = u, !.outcome = o])
        PROVE  Transparent(r)'
    <2> DEFINE e == [entry[r] EXCEPT !.auth = a, !.user = u, !.outcome = o]
    <2>1. o \in Outcomes /\ o \notin UpstreamStatuses
      BY OwnOutcomes DEF ErrorCodes
    <2>2. e \in Entry /\ e.outcome = o
      BY <1>1, <2>1, EntryUpdates DEF Entry
    <2> HIDE DEF e
    <2> QED
      BY <1>1, <1>2, <2>1, <2>2, FinishWithoutSink DEF e
  <1> DEFINE served == [entry[r] EXCEPT !.auth = "authenticated", !.user = u]
  <1>3. served.outcome = entry[r].outcome
    BY <1>1 DEF Entry
  <1>4. \A o : [served EXCEPT !.outcome = o]
                = [entry[r] EXCEPT !.auth = "authenticated", !.user = u, !.outcome = o]
    OBVIOUS
  <1> HIDE DEF served
  <1>5. CASE Forward(r, u)
    <2>1. entry'[r] = served /\ pc'[r] = "working" /\ wire'[r] = wire[r] \cup {ForwardAs(u)}
      BY <1>5 DEF Forward, Goto, Ask, TypeOK, served
    <2> QED
      BY <1>1, <1>3, <2>1 DEF Transparent, ForwardAs
  <1>6. CASE Serve(r, u)
    <2>1. CASE entry' = [entry EXCEPT ![r] = served] /\ Goto(r, "working") /\ UNCHANGED wire
      <3>1. entry'[r] = served /\ pc'[r] = "working"
        BY <2>1 DEF Goto, TypeOK
      <3> QED
        BY <1>1, <1>3, <2>1, <3>1 DEF Transparent
    <2>2. CASE \E o \in {"invalid_input", "audit_log_unavailable"} :
                 FinishAudit(r, [served EXCEPT !.outcome = o])
      BY <1>2, <1>4, <2>2 DEF AuthResults
    <2> QED
      BY <1>6, <2>1, <2>2 DEF Serve, served
  <1>7. CASE FinishAudit(r, [entry[r] EXCEPT !.auth = "forbidden", !.user = u,
                                             !.outcome = "forbidden"])
    BY <1>2, <1>7 DEF AuthResults
  <1> QED
    BY <1>5, <1>6, <1>7 DEF VerifySucceeds

LEMMA HandlerStaysTransparent ==
  ASSUME ~audited, TypeOK, NEW r \in Requests, Transparent(r), Handler(r)
  PROVE  Transparent(r)'
  <1>1. CASE \E k \in Kinds : Arrive(r, k)
    <2> PICK k \in Kinds : Arrive(r, k)
      BY <1>1
    <2>1. CASE Goto(r, "reading") /\ UNCHANGED <<entry, wire>>
      BY <2>1 DEF Arrive, Goto, TypeOK, Transparent
    <2>2. CASE StartAudit(r, k, "ok")
      BY <2>2, StartWithoutSink DEF Arrive
    <2> QED
      BY <2>1, <2>2 DEF Arrive
  <1>2. CASE \E b \in Bodies : ReadBody(r, b)
    BY <1>2, StartWithoutSink DEF ReadBody
  <1>3. CASE StartSucceeds(r)
    BY <1>3, StartWithoutSink DEF StartSucceeds
  <1>4. CASE StartFails(r)
    BY <1>4 DEF StartFails, Transparent
  <1>5. CASE \E u \in Users : VerifySucceeds(r, u)
    BY <1>5, VerifyWithoutSink
  <1>6. CASE VerifyFails(r)
    BY <1>6, AnswerWithoutSink DEF VerifyFails, ErrorCodes, AuthResults
  <1>7. CASE \E s \in UpstreamStatuses : ForwardSucceeds(r, s)
    <2> PICK s \in UpstreamStatuses : ForwardSucceeds(r, s)
      BY <1>7
    <2> DEFINE e == [entry[r] EXCEPT !.url = TRUE, !.outcome = s]
    <2>1. e \in Entry
      BY EntryUpdates, OutcomeNames DEF TypeOK
    <2> HIDE DEF e
    <2> QED
      BY <2>1, FinishWithoutSink DEF ForwardSucceeds, e
  <1>8. CASE ForwardFails(r)
    BY <1>8, AnswerWithoutSink DEF ForwardFails, ErrorCodes, AuthResults
  <1>9. CASE ReadReturns(r)
    BY <1>9, AnswerWithoutSink DEF ReadReturns, ReadOutcomes, ErrorCodes, AuthResults
  <1>10. CASE FinishReturns(r)
    BY <1>10 DEF FinishReturns, Transparent
  <1>11. CASE Reply(r)
    <2>1. pc[r] = "replying" /\ pc'[r] = "done"
      BY <1>11 DEF Reply, Goto, TypeOK, Transparent
    <2>2. reply'[r] = reply[r] \/ reply'[r] = entry[r].outcome
      BY <1>11, <2>1 DEF Reply, TypeOK
    <2>3. entry[r].outcome # "audit_unavailable"
      <3>1. entry[r].outcome \in Outcomes \cup {"none"}
        BY DEF TypeOK, Entry
      <3> QED
        BY <3>1, OwnOutcomes DEF Outcomes, ErrorCodes
    <2> QED
      BY <1>11, <2>1, <2>2, <2>3 DEF Reply, Transparent
  <1> QED
    BY <1>1, <1>2, <1>3, <1>4, <1>5, <1>6, <1>7, <1>8, <1>9, <1>10, <1>11 DEF Handler

\* With nothing but forwards on the wire Postgres has nothing to execute.
LEMMA EnvironmentStaysTransparent ==
  ASSUME TypeOK, NEW r \in Requests, Transparent(r), Environment(r)
  PROVE  Transparent(r)'
  <1>1. CASE Disconnect(r)
    BY <1>1 DEF Disconnect, Transparent
  <1>2. CASE Insert(r) \/ Update(r)
    BY <1>2 DEF Insert, Update, Transparent
  <1>3. CASE Execute(r)
    <2> PICK call \in wire[r] :
          /\ call.op = "forward" /\ Settle(r, call)
          /\ effect' = [effect EXCEPT ![r] = call.user]
      BY <1>3 DEF Execute
    <2>1. call.user # NoUser
      BY UsersAssumption DEF TypeOK, Calls
    <2>2. effect'[r] # NoUser /\ wire'[r] \subseteq wire[r]
      BY <2>1 DEF Settle, TypeOK
    <2> QED
      BY <1>3, <2>2 DEF Execute, Transparent
  <1> QED
    BY <1>1, <1>2, <1>3 DEF Environment

(***************************************************************************)
(* A gateway without AUDIT_DATABASE_URL asks nothing of Postgres, refuses  *)
(* nobody for want of a record and passes on only what the upstream did.   *)
(***************************************************************************)
THEOREM NilSinkIsTransparent == Spec => []UnauditedIsTransparent
  <1>1. Init => UnauditedIsTransparent
    <2> SUFFICES ASSUME Init, NEW r \in Requests
                 PROVE  Transparent(r)
      BY DEF UnauditedIsTransparent
    <2>1. /\ rows[r] = NoRow /\ wire[r] = {} /\ pc[r] = "idle" /\ reply[r] = "none"
          /\ entry[r].outcome = "none"
      BY InitialEntries DEF Init
    <2> QED
      BY <2>1, OwnOutcomes DEF Transparent
  <1>2. TypeOK /\ UnauditedIsTransparent /\ [Next]_vars => UnauditedIsTransparent'
    <2> SUFFICES ASSUME TypeOK, UnauditedIsTransparent, [Next]_vars, ~audited,
                        NEW q \in Requests
                 PROVE  Transparent(q)'
      BY SinkStays DEF UnauditedIsTransparent
    <2>1. Transparent(q)
      BY DEF UnauditedIsTransparent
    <2>2. SameCall(q) => Transparent(q)'
      BY <2>1 DEF SameCall, Transparent
    <2>3. CASE \E r \in Requests : Handler(r) \/ Environment(r)
      <3> PICK r \in Requests : Handler(r) \/ Environment(r)
        BY <2>3
      <3>1. CASE r = q
        BY <2>1, <3>1, HandlerStaysTransparent, EnvironmentStaysTransparent
      <3>2. CASE r # q
        BY <2>2, <3>2, HandlerOthers, EnvironmentOthers
      <3> QED
        BY <3>1, <3>2
    <2>4. CASE Process
      <3>1. pc'[q] \in {pc[q], "killed"}
        BY <2>4 DEF Process, Sigterm, ShutdownReturns, ListenFails, Exit, Crash, Stop,
             Restart, TypeOK
      <3>2. UNCHANGED <<entry, rows, wire, effect, reply>>
        BY <2>4 DEF Process, Sigterm, ShutdownReturns, ListenFails, Exit, Crash, Stop, Restart
      <3> QED
        BY <2>1, <3>1, <3>2 DEF Transparent
    <2>5. CASE UNCHANGED vars
      BY <2>2, <2>5 DEF vars, SameCall
    <2> QED
      BY <2>3, <2>4, <2>5 DEF Next
  <1> QED
    BY <1>1, <1>2, TypeCorrect, PTL DEF Spec

-----------------------------------------------------------------------------
(* The refinement of AuditedCalls.                                         *)

Record == [r \in Requests |-> RecordOf(rows[r])]

\* The three forms of a row, as AuditedCalls sees them.
LEMMA RecordForms ==
  /\ RecordOf(NoRow) = Promise!NoRecord
  /\ RecordOf(NewEntry) = Promise!OpenRecord
  /\ \A row \in Entry : row.status = "complete" =>
       RecordOf(row) = Promise!Closed(row.user, row.outcome)
  <1>1. RecordOf(NoRow) = Promise!NoRecord
    BY InitialEntries DEF RecordOf, Promise!NoRecord
  <1>2. RecordOf(NewEntry) = Promise!OpenRecord
    BY InitialEntries DEF RecordOf, Promise!OpenRecord, Promise!NoRecord
  <1>3. \A row \in Entry : row.status = "complete" =>
          RecordOf(row) = Promise!Closed(row.user, row.outcome)
    BY DEF RecordOf, Promise!Closed
  <1> QED
    BY <1>1, <1>2, <1>3

\* One row changed, one record changes.
LEMMA RecordUpdate ==
  ASSUME TypeOK, NEW r \in Requests, NEW row, rows' = [rows EXCEPT ![r] = row]
  PROVE  Record' = [Record EXCEPT ![r] = RecordOf(row)]
  <1>1. \A q \in Requests : Record'[q] = [Record EXCEPT ![r] = RecordOf(row)][q]
    BY DEF Record, TypeOK
  <1> QED
    BY <1>1 DEF Record

LEMMA RecordStates ==
  /\ Promise!NoRecord.state = "none"
  /\ Promise!OpenRecord.state = "open"
  /\ \A u, o : Promise!Closed(u, o).state = "closed" /\ Promise!Closed(u, o).user = u
               /\ Promise!Closed(u, o).outcome = o
  BY DEF Promise!NoRecord, Promise!OpenRecord, Promise!Closed

LEMMA InsertOpens ==
  ASSUME GatewayInv, NEW r \in Requests, Insert(r)
  PROVE  Promise!Open(r)
  <1>1. CallInv(r) /\ TypeOK
    BY DEF GatewayInv
  <1> PICK call \in wire[r] : call.op = "insert" /\ rows' = [rows EXCEPT ![r] = call.row]
    BY DEF Insert
  <1>2. call.row = NewEntry /\ rows[r] = NoRow
    BY <1>1 DEF CallInv, InFlight
  <1>3. Record[r] = Promise!NoRecord
    BY <1>2, RecordForms DEF Record
  <1>4. Record' = [Record EXCEPT ![r] = Promise!OpenRecord]
    BY <1>1, <1>2, RecordUpdate, RecordForms
  <1> QED
    BY <1>3, <1>4 DEF Insert, Promise!Open, Record

LEMMA UpdateCloses ==
  ASSUME GatewayInv, NEW r \in Requests, Update(r)
  PROVE  \E u \in Users \cup {NoUser}, o \in Outcomes : Promise!Close(r, u, o)
  <1>1. CallInv(r) /\ TypeOK
    BY DEF GatewayInv
  <1> PICK call \in wire[r] :
        /\ call.op = "update"
        /\ rows' = [rows EXCEPT ![r] = IF @.status = "absent" THEN @ ELSE call.row]
    BY DEF Update
  <1>2. call.row = entry[r] /\ entry[r].status = "complete" /\ rows[r] = NewEntry
    BY <1>1 DEF CallInv, InFlight
  <1>3. rows' = [rows EXCEPT ![r] = entry[r]]
    BY <1>1, <1>2, InitialEntries DEF TypeOK
  <1> DEFINE u == entry[r].user
             o == entry[r].outcome
  <1>4. u \in Users \cup {NoUser} /\ o \in Outcomes
    BY <1>1, <1>2 DEF TypeOK, Entry, CallInv, EntryFollowsHandler
  <1>5. Record[r] = Promise!OpenRecord
    BY <1>2, RecordForms DEF Record
  <1>6. Record' = [Record EXCEPT ![r] = Promise!Closed(u, o)]
    <2>1. entry[r] \in Entry
      BY <1>1 DEF TypeOK
    <2>2. RecordOf(entry[r]) = Promise!Closed(u, o)
      BY <1>2, <2>1, RecordForms
    <2>3. Record' = [Record EXCEPT ![r] = RecordOf(entry[r])]
      BY <1>1, <1>3, RecordUpdate
    <2> QED
      BY <2>2, <2>3
  <1>7. effect[r] \in {NoUser, u} /\ reply[r] \in {"none", o}
    BY <1>1, <1>2, InitialEntries DEF CallInv, EffectFollowsEntry, ReplyFollowsEntry
  <1>8. Promise!Close(r, u, o)
    BY <1>5, <1>6, <1>7 DEF Update, Promise!Close, Record
  <1> QED
    BY <1>4, <1>8

LEMMA ExecuteRuns ==
  ASSUME audited, GatewayInv, NEW r \in Requests, Execute(r)
  PROVE  \E u \in Users : Promise!Run(r, u)
  <1>1. CallInv(r) /\ TypeOK
    BY DEF GatewayInv
  <1> PICK call \in wire[r] : call.op = "forward" /\ effect' = [effect EXCEPT ![r] = call.user]
    BY DEF Execute
  <1>2. /\ call.user \in Users /\ call.user = entry[r].user
        /\ entry[r].auth = "authenticated" /\ effect[r] = NoUser
    BY <1>1 DEF TypeOK, Calls, CallInv, InFlight
  <1>3. rows[r].status \in {"started", "complete"}
    BY <1>1, <1>2, InitialEntries DEF CallInv, RowBeforeProgress, TypeOK, Entry
  <1>4. reply[r] # "audit_unavailable"
    BY <1>1, <1>2, InitialEntries DEF CallInv, ReplyFollowsEntry
  <1>5. /\ Record[r].state \in {"open", "closed"}
        /\ Record[r].state = "closed" => Record[r].user = call.user
    <2>1. CASE rows[r].status = "started"
      BY <1>1, <2>1, RecordForms, RecordStates DEF CallInv, RowFollowsEntry, Record
    <2>2. CASE rows[r].status = "complete"
      BY <1>1, <1>2, <2>2, RecordForms, RecordStates DEF CallInv, RowFollowsEntry, Record, TypeOK
    <2> QED
      BY <1>3, <2>1, <2>2
  <1>6. Promise!Run(r, call.user)
    BY <1>2, <1>4, <1>5 DEF Execute, Promise!Run, Record
  <1> QED
    BY <1>2, <1>6

LEMMA ReplyTells ==
  ASSUME audited, GatewayInv, NEW r \in Requests, Reply(r)
  PROVE  Promise!Refuse(r) \/ (\E o \in Outcomes : Promise!Tell(r, o))
         \/ UNCHANGED <<Record, effect, reply>>
  <1>1. CallInv(r) /\ TypeOK
    BY DEF GatewayInv
  <1>2. reply[r] = "none" /\ UNCHANGED <<Record, effect>>
    BY <1>1 DEF Reply, CallInv, ReplyFollowsEntry, Record
  <1>3. CASE pc[r] = "refusing" /\ reply' = [reply EXCEPT ![r] = "audit_unavailable"]
    <2>1. entry[r] = NewEntry /\ effect[r] = NoUser
      BY <1>1, <1>3, InitialEntries DEF CallInv, EntryFollowsHandler, EffectFollowsEntry
    <2>2. rows[r] \in {NoRow, NewEntry}
      BY <1>1, <2>1, InitialEntries DEF CallInv, RowFollowsEntry, TypeOK, Entry
    <2>3. Record[r].state \in {"none", "open"}
      BY <2>2, RecordForms, RecordStates DEF Record
    <2> QED
      BY <1>2, <1>3, <2>1, <2>3 DEF Promise!Refuse, Record
  <1>4. CASE pc[r] = "replying" /\ reply' = [reply EXCEPT ![r] = entry[r].outcome]
    <2> DEFINE o == entry[r].outcome
    <2>1. entry[r].status = "complete" /\ o \in Outcomes
      BY <1>1, <1>4 DEF TypeOK, Entry, CallInv, EntryFollowsHandler
    <2>2. rows[r].status \in {"started", "complete"}
      BY <1>1, <2>1, InitialEntries DEF CallInv, RowBeforeProgress, TypeOK, Entry
    <2>3. /\ Record[r].state \in {"open", "closed"}
          /\ Record[r].state = "closed" => Record[r].outcome = o
      <3>1. CASE rows[r].status = "started"
        BY <1>1, <3>1, RecordForms, RecordStates DEF CallInv, RowFollowsEntry, Record
      <3>2. CASE rows[r].status = "complete"
        BY <1>1, <3>2, RecordForms, RecordStates DEF CallInv, RowFollowsEntry, Record, TypeOK
      <3> QED
        BY <2>2, <3>1, <3>2
    <2>4. Promise!Tell(r, o)
      BY <1>2, <1>4, <2>3 DEF Promise!Tell, Record
    <2> QED
      BY <2>1, <2>4
  <1>5. CASE UNCHANGED reply
    BY <1>2, <1>5
  <1> QED
    BY <1>3, <1>4, <1>5 DEF Reply

(***************************************************************************)
(* Every behaviour of an audited gateway is one AuditedCalls allows.       *)
(***************************************************************************)
THEOREM GatewayImplementsAuditedCalls == Spec /\ audited => ImplementsAuditedCalls
  <1>1. Init => Promise!CallsInit
    BY RecordForms DEF Init, Promise!CallsInit
  <1>2. ASSUME audited, GatewayInv, [Next]_vars
        PROVE  [Promise!CallsNext]_(Promise!callVars)
    <2>1. ASSUME NEW r \in Requests, Insert(r) \/ Update(r) \/ Execute(r) \/ Reply(r)
          PROVE  Promise!CallsNext \/ UNCHANGED <<Record, effect, reply>>
      BY <1>2, <2>1, InsertOpens, UpdateCloses, ExecuteRuns, ReplyTells DEF Promise!CallsNext
    <2>2. ASSUME NEW r \in Requests, Handler(r) \/ Disconnect(r), ~Reply(r)
          PROVE  UNCHANGED <<Record, effect, reply>>
      BY <2>2
      DEF Handler, Arrive, ReadBody, StartSucceeds, StartFails, VerifySucceeds, VerifyFails,
          ForwardSucceeds, ForwardFails, ReadReturns, FinishReturns, Disconnect, Record
    <2>3. Process \/ UNCHANGED vars => UNCHANGED <<Record, effect, reply>>
      BY DEF vars, Process, Sigterm, ShutdownReturns, ListenFails, Exit, Crash, Stop, Restart,
             Record
    <2>4. Promise!CallsNext \/ UNCHANGED <<Record, effect, reply>>
      BY <1>2, <2>1, <2>2, <2>3 DEF Next, Environment
    <2> QED
      BY <2>4 DEF Promise!callVars, Record
  <1>3. audited /\ [Next]_vars => audited'
    BY SinkStays
  <1> QED
    BY <1>1, <1>2, <1>3, GatewayInvariant, PTL DEF Spec, ImplementsAuditedCalls, Promise!CallsSpec
=============================================================================
