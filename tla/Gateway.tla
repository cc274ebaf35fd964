------------------------------ MODULE Gateway ------------------------------
(***************************************************************************)
(* The life of every business call the gateway accepts, from its arrival   *)
(* to its answer: handleProxy (server.go) and the administrative handlers  *)
(* (admin_audit.go, player_support.go), the audit sink they write through  *)
(* (audit.go) and the process that runs them (main.go).                    *)
(*                                                                         *)
(* A handler is a sequence of blocking calls to other parties: Postgres,   *)
(* the Supabase verifier, an upstream service.  Each call is bounded by a  *)
(* timeout of the gateway, and what was asked may still happen after the   *)
(* gateway stopped waiting; such work stays in wire[r].  The client may    *)
(* leave at any time, which cancels the context of every later call, and   *)
(* the process may be stopped or killed between any two steps.             *)
(***************************************************************************)

CONSTANTS
  Requests,         \* the inbound calls; each is the request id of its own
  Users,            \* the users the verifier knows
  Admins,           \* AUDIT_LOG_ADMIN_USER_IDS
  UpstreamStatuses, \* the statuses an upstream service answers with
  AuditChoices,     \* whether AUDIT_DATABASE_URL may be set, or unset
  NoUser            \* no user id

ASSUME UsersAssumption == NoUser \notin Users
ASSUME AdminsAssumption == Admins \subseteq Users
ASSUME AuditAssumption == AuditChoices \subseteq BOOLEAN

Kinds == {"proxy", "audit", "support"}

Bodies == {"ok", "unreadable", "too_large"}

AuthResults == {"not_checked", "route_not_found", "missing_session",
                "invalid_session", "auth_verification_failed",
                "forbidden", "authenticated"}

(***************************************************************************)
(* What the client is answered: an error code of the gateway, "ok" for a   *)
(* payload of its own, or the status of the upstream service passed on.    *)
(* "invalid_input" stands for every 400 of an administrative handler,      *)
(* "not_found" for every 404, "pull_replay_unavailable" for both 502s of   *)
(* the replay.                                                             *)
(***************************************************************************)
ErrorCodes == {"invalid_request_body", "request_too_large", "not_found",
               "unauthorized", "auth_unavailable", "forbidden",
               "invalid_input", "audit_log_unavailable",
               "pull_replay_unavailable", "upstream_unavailable"}

Outcomes == ErrorCodes \cup {"ok"} \cup UpstreamStatuses

ASSUME StatusAssumption ==
  UpstreamStatuses \cap (ErrorCodes \cup {"none", "ok", "audit_unavailable"}) = {}

VARIABLES
  audited,  \* AUDIT_DATABASE_URL is set, so there is an audit sink
  proc,     \* the process: "running", "draining", "closing" or "exited"
  drained,  \* server.Shutdown returned without an error
  pc,       \* where the handler of a call is
  kind,     \* which handler serves the call
  body,     \* what reading the request body gave
  gone,     \* the context of the call is cancelled: its client has left
  entry,    \* the handler's AuditEntry
  rows,     \* the table audit.http_api_calls
  wire,     \* what another party was asked to do and did not do yet
  effect,   \* the X-User-Id under which the upstream service ran the call
  reply     \* the answer the client received

vars == <<audited, proc, drained, pc, kind, body, gone, entry, rows, wire, effect, reply>>

(***************************************************************************)
(* "verifying", "working" wait for the verifier and for the handler's own  *)
(* work, "starting", "finishing" for the audit sink.  "replying" writes    *)
(* the audited answer, "refusing" the answer of a failed audit start.      *)
(***************************************************************************)
InHandler == {"reading", "starting", "verifying", "working", "finishing",
              "replying", "refusing"}

Stages == InHandler \cup {"idle", "done", "killed"}

Entry == [status  : {"absent", "started", "complete"},
          auth    : AuthResults,
          user    : Users \cup {NoUser},
          url     : BOOLEAN,
          outcome : Outcomes \cup {"none"}]

NewEntry == [status |-> "started", auth |-> "not_checked", user |-> NoUser,
             url |-> FALSE, outcome |-> "none"]

NoRow == [NewEntry EXCEPT !.status = "absent"]

(***************************************************************************)
(* What a handler asks of another party.  An entry is passed by value, so  *)
(* a statement executed late writes the entry as it was when it was sent.  *)
(***************************************************************************)
InsertOf(e) == [op |-> "insert", row |-> e]
UpdateOf(e) == [op |-> "update", row |-> e]
ForwardAs(u) == [op |-> "forward", user |-> u]

Calls == [op : {"insert", "update"}, row : Entry] \cup [op : {"forward"}, user : Users]

Init ==
  /\ audited \in AuditChoices
  /\ proc = "running"
  /\ drained = FALSE
  /\ pc = [r \in Requests |-> "idle"]
  /\ kind = [r \in Requests |-> "proxy"]
  /\ body = [r \in Requests |-> "ok"]
  /\ gone = [r \in Requests |-> FALSE]
  /\ entry = [r \in Requests |-> NewEntry]
  /\ rows = [r \in Requests |-> NoRow]
  /\ wire = [r \in Requests |-> {}]
  /\ effect = [r \in Requests |-> NoUser]
  /\ reply = [r \in Requests |-> "none"]

-----------------------------------------------------------------------------
(* The audit sink, as the handlers call it.                                *)

\* Faulty variant: the handlers do not look whether there is a sink.
SinkAlwaysAccepts(r) == proc \in {"running", "draining"} /\ ~gone[r]

\* A sink whose pool is closed, and a cancelled context, fail at once.
SinkAccepts(r) == audited /\ proc \in {"running", "draining"} /\ ~gone[r]

Goto(r, stage) == pc' = [pc EXCEPT ![r] = stage]

Ask(r, call) == wire' = [wire EXCEPT ![r] = @ \cup {call}]

Completed(e) == [e EXCEPT !.status = "complete"]

\* The entry is completed and Finish called; a call without a sink is answered.
FinishAudit(r, e) ==
  /\ entry' = [entry EXCEPT ![r] = Completed(e)]
  /\ \/ SinkAccepts(r) /\ Goto(r, "finishing") /\ Ask(r, UpdateOf(Completed(e)))
     \/ ~SinkAccepts(r) /\ Goto(r, "replying") /\ UNCHANGED wire

Answer(r, outcome) == FinishAudit(r, [entry[r] EXCEPT !.outcome = outcome])

Deny(r, result, outcome) ==
  FinishAudit(r, [entry[r] EXCEPT !.auth = result, !.outcome = outcome])

(***************************************************************************)
(* What the handler does once its audit record is open, up to the call of  *)
(* the verifier: body, route and session are looked at only now.           *)
(***************************************************************************)
Admit(r, k, b) ==
  \/ b = "unreadable" /\ Answer(r, "invalid_request_body")
  \/ b = "too_large" /\ Answer(r, "request_too_large")
  \/ b = "ok" /\ k = "proxy" /\ Deny(r, "route_not_found", "not_found")
  \/ b = "ok" /\ Deny(r, "missing_session", "unauthorized")
  \/ b = "ok" /\ Goto(r, "verifying") /\ UNCHANGED <<entry, wire>>

StartAudit(r, k, b) ==
  \/ SinkAccepts(r) /\ Goto(r, "starting") /\ Ask(r, InsertOf(entry[r])) /\ UNCHANGED entry
  \/ /\ audited /\ ~SinkAccepts(r)
     /\ Goto(r, "refusing")
     /\ UNCHANGED <<entry, wire>>
  \/ ~audited /\ Admit(r, k, b)

-----------------------------------------------------------------------------
(* The handlers.                                                           *)

\* Shutdown ends a connection only when it is idle, so a call may still begin
\* on a fresh one; a listener that failed leaves its connections in service.
AcceptsCalls == proc # "exited" /\ ~drained

\* A proxied call first has its body read, an administrative one does not.
Arrive(r, k) ==
  /\ AcceptsCalls
  /\ pc[r] = "idle"
  /\ kind' = [kind EXCEPT ![r] = k]
  /\ \/ k = "proxy" /\ Goto(r, "reading") /\ UNCHANGED <<entry, wire>>
     \/ k # "proxy" /\ StartAudit(r, k, "ok")
  /\ UNCHANGED <<audited, proc, drained, body, gone, rows, effect, reply>>

ReadBody(r, b) ==
  /\ pc[r] = "reading"
  /\ body' = [body EXCEPT ![r] = b]
  /\ StartAudit(r, "proxy", b)
  /\ UNCHANGED <<audited, proc, drained, kind, gone, rows, effect, reply>>

StartSucceeds(r) ==
  /\ pc[r] = "starting"
  /\ rows[r].status # "absent"
  /\ ~gone[r]
  /\ Admit(r, kind[r], body[r])
  /\ UNCHANGED <<audited, proc, drained, kind, body, gone, rows, effect, reply>>

\* Faulty variant: the call goes on without its audit record.
StartFailsOpen(r) ==
  /\ pc[r] = "starting"
  /\ Admit(r, kind[r], body[r])
  /\ UNCHANGED <<audited, proc, drained, kind, body, gone, rows, effect, reply>>

\* An error, a timeout or a cancellation; the insert may still be executed.
StartFails(r) ==
  /\ pc[r] = "starting"
  /\ Goto(r, "refusing")
  /\ UNCHANGED <<audited, proc, drained, kind, body, gone, entry, rows, wire, effect, reply>>

\* Faulty variant: the entry is not told whose call it is.
ForwardUnattributed(r, u) ==
  /\ entry' = [entry EXCEPT ![r].auth = "authenticated"]
  /\ Goto(r, "working")
  /\ Ask(r, ForwardAs(u))

Forward(r, u) ==
  /\ entry' = [entry EXCEPT ![r].auth = "authenticated", ![r].user = u]
  /\ Goto(r, "working")
  /\ Ask(r, ForwardAs(u))

(***************************************************************************)
(* An administrator's call: its parameters are parsed, then the log store  *)
(* or the upstream services are read.  The log store is the audit sink.    *)
(***************************************************************************)
Serve(r, u) ==
  LET e == [entry[r] EXCEPT !.auth = "authenticated", !.user = u] IN
  \/ FinishAudit(r, [e EXCEPT !.outcome = "invalid_input"])
  \/ /\ kind[r] = "audit" => SinkAccepts(r)
     /\ entry' = [entry EXCEPT ![r] = e]
     /\ Goto(r, "working")
     /\ UNCHANGED wire
  \/ /\ kind[r] = "audit" /\ ~SinkAccepts(r)
     /\ FinishAudit(r, [e EXCEPT !.outcome = "audit_log_unavailable"])

\* Faulty variant: the handler goes on after answering "forbidden".
VerifySucceedsForAnyone(r, u) ==
  /\ pc[r] = "verifying"
  /\ ~gone[r]
  /\ \/ kind[r] = "proxy" /\ Forward(r, u)
     \/ kind[r] # "proxy" /\ Serve(r, u)
  /\ UNCHANGED <<audited, proc, drained, kind, body, gone, rows, effect, reply>>

VerifySucceeds(r, u) ==
  /\ pc[r] = "verifying"
  /\ ~gone[r]
  /\ \/ kind[r] = "proxy" /\ Forward(r, u)
     \/ kind[r] # "proxy" /\ u \in Admins /\ Serve(r, u)
     \/ /\ kind[r] # "proxy" /\ u \notin Admins
        /\ FinishAudit(r, [entry[r] EXCEPT !.auth = "forbidden", !.user = u,
                                           !.outcome = "forbidden"])
  /\ UNCHANGED <<audited, proc, drained, kind, body, gone, rows, effect, reply>>

VerifyFails(r) ==
  /\ pc[r] = "verifying"
  /\ \/ ~gone[r] /\ Deny(r, "invalid_session", "unauthorized")
     \/ Deny(r, "auth_verification_failed", "auth_unavailable")
  /\ UNCHANGED <<audited, proc, drained, kind, body, gone, rows, effect, reply>>

\* The whole response was read; it is passed on as it came.
ForwardSucceeds(r, s) ==
  /\ pc[r] = "working"
  /\ kind[r] = "proxy"
  /\ effect[r] # NoUser
  /\ ~gone[r]
  /\ FinishAudit(r, [entry[r] EXCEPT !.url = TRUE, !.outcome = s])
  /\ UNCHANGED <<audited, proc, drained, kind, body, gone, rows, effect, reply>>

\* An error, a timeout or a cancellation; the upstream may still serve it.
ForwardFails(r) ==
  /\ pc[r] = "working"
  /\ kind[r] = "proxy"
  /\ Answer(r, "upstream_unavailable")
  /\ UNCHANGED <<audited, proc, drained, kind, body, gone, rows, effect, reply>>

\* The log store fails once the context is cancelled; the fan-out of the player
\* support page answers whatever its reads gave, a pull replay may find nothing.
ReadOutcomes(r) ==
  {o \in {"ok", "not_found", "audit_log_unavailable", "pull_replay_unavailable"} :
     /\ o = "pull_replay_unavailable" => kind[r] = "support"
     /\ o = "audit_log_unavailable" => kind[r] = "audit"
     /\ kind[r] = "audit" /\ gone[r] => o = "audit_log_unavailable"}

ReadReturns(r) ==
  /\ pc[r] = "working"
  /\ kind[r] # "proxy"
  /\ \E o \in ReadOutcomes(r) : Answer(r, o)
  /\ UNCHANGED <<audited, proc, drained, kind, body, gone, rows, effect, reply>>

\* Faulty variant: a Finish that failed answers 503 in place of the outcome.
FinishReturnsRefusing(r) ==
  /\ pc[r] = "finishing"
  /\ Goto(r, IF rows[r].status = "complete" THEN "replying" ELSE "refusing")
  /\ UNCHANGED <<audited, proc, drained, kind, body, gone, entry, rows, wire, effect, reply>>

\* Faulty variant: a Finish that failed is followed by an audited error.
FinishReturnsTwice(r) ==
  /\ pc[r] = "finishing"
  /\ \/ Goto(r, "replying") /\ UNCHANGED <<entry, wire>>
     \/ Answer(r, "upstream_unavailable")
  /\ UNCHANGED <<audited, proc, drained, kind, body, gone, rows, effect, reply>>

\* Faulty variant: Finish waits for Postgres however long it takes.
FinishReturnsUntimed(r) ==
  /\ pc[r] = "finishing"
  /\ rows[r].status = "complete"
  /\ Goto(r, "replying")
  /\ UNCHANGED <<audited, proc, drained, kind, body, gone, entry, rows, wire, effect, reply>>

\* Finish returned: its error, if any, is logged and the answer goes out.
FinishReturns(r) ==
  /\ pc[r] = "finishing"
  /\ Goto(r, "replying")
  /\ UNCHANGED <<audited, proc, drained, kind, body, gone, entry, rows, wire, effect, reply>>

\* Faulty variant: the handler does not return after the refusal.
ReplyAndGoOn(r) ==
  /\ pc[r] \in {"replying", "refusing"}
  /\ reply' = [reply EXCEPT ![r] = IF pc[r] = "replying" THEN entry[r].outcome
                                                        ELSE "audit_unavailable"]
  /\ Goto(r, IF pc[r] = "replying" THEN "done" ELSE "verifying")
  /\ UNCHANGED <<audited, proc, drained, kind, body, gone, entry, rows, wire, effect>>

\* The answer may be lost on its way to the client.
Reply(r) ==
  /\ \/ pc[r] = "replying" /\ ~gone[r] /\ reply' = [reply EXCEPT ![r] = entry[r].outcome]
     \/ pc[r] = "refusing" /\ ~gone[r] /\ reply' = [reply EXCEPT ![r] = "audit_unavailable"]
     \/ pc[r] \in {"replying", "refusing"} /\ UNCHANGED reply
  /\ Goto(r, "done")
  /\ UNCHANGED <<audited, proc, drained, kind, body, gone, entry, rows, wire, effect>>

-----------------------------------------------------------------------------
(* The other parties.                                                      *)

\* net/http notices that a client left only once the body has been read.
Disconnect(r) ==
  /\ pc[r] \in InHandler \ {"reading"}
  /\ body[r] # "unreadable"
  /\ ~gone[r]
  /\ gone' = [gone EXCEPT ![r] = TRUE]
  /\ UNCHANGED <<audited, proc, drained, pc, kind, body, entry, rows, wire, effect, reply>>

Settle(r, call) == wire' = [wire EXCEPT ![r] = @ \ {call}]

\* The schema takes no empty body encoding, and a body that could not be read leaves
\* its AuditBody empty: such a call cannot be recorded.
SchemaAccepts(r) == body[r] # "unreadable"

\* Postgres executes a statement, perhaps after the gateway gave it up.
Insert(r) == \E call \in wire[r] :
  /\ SchemaAccepts(r)
  /\ call.op = "insert"
  /\ Settle(r, call)
  /\ rows' = [rows EXCEPT ![r] = call.row]
  /\ UNCHANGED <<audited, proc, drained, pc, kind, body, gone, entry, effect, reply>>

\* An update of a row that is not there affects none.
Update(r) == \E call \in wire[r] :
  /\ call.op = "update"
  /\ Settle(r, call)
  /\ rows' = [rows EXCEPT ![r] = IF @.status = "absent" THEN @ ELSE call.row]
  /\ UNCHANGED <<audited, proc, drained, pc, kind, body, gone, entry, effect, reply>>

\* The upstream service executes the call, perhaps after the gateway gave up.
Execute(r) == \E call \in wire[r] :
  /\ call.op = "forward"
  /\ Settle(r, call)
  /\ effect' = [effect EXCEPT ![r] = call.user]
  /\ UNCHANGED <<audited, proc, drained, pc, kind, body, gone, entry, rows, reply>>

-----------------------------------------------------------------------------
(* The process.                                                            *)

Busy == {r \in Requests : pc[r] \in InHandler}

HoldsConnection(r) ==
  \/ pc[r] \in {"starting", "finishing"}
  \/ pc[r] = "working" /\ kind[r] = "audit"

Sigterm ==
  /\ proc = "running"
  /\ proc' = "draining"
  /\ UNCHANGED <<audited, drained, pc, kind, body, gone, entry, rows, wire, effect, reply>>

\* Faulty variant: the shutdown reports success whatever is still running.
ShutdownReturnsEarly ==
  /\ proc = "draining"
  /\ proc' = "closing"
  /\ drained' = TRUE
  /\ UNCHANGED <<audited, pc, kind, body, gone, entry, rows, wire, effect, reply>>

\* Faulty variant: the shutdown has no deadline.
ShutdownReturnsUntimed ==
  /\ proc = "draining"
  /\ proc' = "closing"
  /\ Busy = {}
  /\ drained' = TRUE
  /\ UNCHANGED <<audited, pc, kind, body, gone, entry, rows, wire, effect, reply>>

\* server.Shutdown returns: every handler is done, or its ten seconds are up.
ShutdownReturns ==
  /\ proc = "draining"
  /\ proc' = "closing"
  /\ \/ Busy = {} /\ drained' = TRUE
     \/ Busy # {} /\ UNCHANGED drained
  /\ UNCHANGED <<audited, pc, kind, body, gone, entry, rows, wire, effect, reply>>

\* ListenAndServe fails: run returns without a shutdown.
ListenFails ==
  /\ proc = "running"
  /\ proc' = "closing"
  /\ UNCHANGED <<audited, drained, pc, kind, body, gone, entry, rows, wire, effect, reply>>

Stop ==
  /\ proc' = "exited"
  /\ pc' = [r \in Requests |-> IF r \in Busy THEN "killed" ELSE pc[r]]
  /\ UNCHANGED <<audited, drained, kind, body, gone, entry, rows, wire, effect, reply>>

\* Closing the pool waits for the connections in use, then the process ends.
Exit ==
  /\ proc = "closing"
  /\ ~ \E r \in Requests : HoldsConnection(r)
  /\ Stop

Crash == proc # "exited" /\ Stop

Restart ==
  /\ proc = "exited"
  /\ proc' = "running"
  /\ drained' = FALSE
  /\ UNCHANGED <<audited, pc, kind, body, gone, entry, rows, wire, effect, reply>>

-----------------------------------------------------------------------------

Handler(r) ==
  \/ \E k \in Kinds : Arrive(r, k)
  \/ \E b \in Bodies : ReadBody(r, b)
  \/ StartSucceeds(r) \/ StartFails(r)
  \/ (\E u \in Users : VerifySucceeds(r, u)) \/ VerifyFails(r)
  \/ (\E s \in UpstreamStatuses : ForwardSucceeds(r, s)) \/ ForwardFails(r)
  \/ ReadReturns(r)
  \/ FinishReturns(r)
  \/ Reply(r)

Environment(r) == Disconnect(r) \/ Insert(r) \/ Update(r) \/ Execute(r)

Process == Sigterm \/ ShutdownReturns \/ ListenFails \/ Exit \/ Crash \/ Restart

Next == (\E r \in Requests : Handler(r) \/ Environment(r)) \/ Process

Spec == Init /\ [][Next]_vars

(***************************************************************************)
(* Every call of another party is bounded by a timeout: AuditWriteTimeout  *)
(* for the sink, the Timeout of the two HTTP clients, ten seconds for the  *)
(* shutdown.  So the handler's side of each of them is fair.  Nothing else *)
(* is: a body may never arrive and an answer may never be read (main.go    *)
(* sets neither a ReadTimeout nor a WriteTimeout), Postgres and the        *)
(* upstream may never execute what they were asked.                        *)
(***************************************************************************)
Fairness ==
  /\ \A r \in Requests :
       /\ WF_vars(StartSucceeds(r) \/ StartFails(r))
       /\ WF_vars((\E u \in Users : VerifySucceeds(r, u)) \/ VerifyFails(r))
       /\ WF_vars(ForwardFails(r) \/ ReadReturns(r))
       /\ WF_vars(FinishReturns(r))
  /\ WF_vars(ShutdownReturns)
  /\ WF_vars(Exit)

FairSpec == Spec /\ Fairness

-----------------------------------------------------------------------------
(* What the gateway promises.                                              *)

TypeOK ==
  /\ audited \in BOOLEAN
  /\ proc \in {"running", "draining", "closing", "exited"}
  /\ drained \in BOOLEAN
  /\ pc \in [Requests -> Stages]
  /\ kind \in [Requests -> Kinds]
  /\ body \in [Requests -> Bodies]
  /\ gone \in [Requests -> BOOLEAN]
  /\ entry \in [Requests -> Entry]
  /\ rows \in [Requests -> Entry]
  /\ wire \in [Requests -> SUBSET Calls]
  /\ effect \in [Requests -> Users \cup {NoUser}]
  /\ reply \in [Requests -> Outcomes \cup {"none", "audit_unavailable"}]

Forwarded(r) == \E u \in Users : ForwardAs(u) \in wire[r]

(***************************************************************************)
(* Fail closed (README.md:44, startAuditOrFail): once auditing is          *)
(* configured no call is verified, forwarded or executed upstream unless   *)
(* its audit record is in the table, whatever fails, times out, is         *)
(* executed late or is cut short by a crash.                               *)
(***************************************************************************)
FailClosed == audited =>
  \A r \in Requests :
    pc[r] \in {"verifying", "working"} \/ Forwarded(r) \/ effect[r] # NoUser
      => rows[r].status # "absent"

(***************************************************************************)
(* A client told 503 audit_unavailable was not and will never be served,   *)
(* even when the insert that timed out is executed after the answer.       *)
(***************************************************************************)
RefusedIsNeverServed ==
  \A r \in Requests :
    reply[r] = "audit_unavailable" => effect[r] = NoUser /\ ~Forwarded(r)

(***************************************************************************)
(* A record marked complete tells the truth: the outcome it holds is the   *)
(* one the client received, if it received any (writeAuditedError,         *)
(* finishAudit and the write that follows it).                             *)
(***************************************************************************)
TruthfulRecord ==
  \A r \in Requests :
    rows[r].status = "complete" /\ reply[r] # "none" => reply[r] = rows[r].outcome

(***************************************************************************)
(* A call executed upstream under a user id was made by that user: a       *)
(* complete record of it names the same user and says "authenticated".     *)
(***************************************************************************)
Attribution ==
  \A r \in Requests :
    rows[r].status = "complete" /\ effect[r] # NoUser =>
      rows[r].user = effect[r] /\ rows[r].auth = "authenticated"

(***************************************************************************)
(* Only a configured administrator is answered by an administrative        *)
(* endpoint (authorizeAuditLogAdmin); anyone else is answered an error.    *)
(***************************************************************************)
OnlyAdminsAreServed ==
  \A r \in Requests :
    kind[r] # "proxy" /\ reply[r] \in {"ok", "invalid_input"} => entry[r].user \in Admins

(***************************************************************************)
(* The table only gains information: a record is never taken back, and     *)
(* once complete it never changes, whatever statements arrive late.        *)
(***************************************************************************)
RecordsOnlyAdvance ==
  [][\A r \in Requests :
       rows'[r] # rows[r] =>
         <<rows[r].status, rows'[r].status>> \in
           {<<"absent", "started">>, <<"started", "complete">>}]_vars

(***************************************************************************)
(* A shutdown that reported success cut no call short: a call is killed    *)
(* only by a crash or by a shutdown that ran out of its ten seconds.       *)
(***************************************************************************)
GracefulStop ==
  [][\A r \in Requests : drained /\ pc'[r] = "killed" => pc[r] = "killed"]_vars

(***************************************************************************)
(* Once its body is read every call reaches its answer, or is killed with  *)
(* the process, even when Postgres, the verifier and the upstream all      *)
(* hang.  How long its client takes to read the answer has no bound.       *)
(***************************************************************************)
CallsReachTheirAnswer ==
  \A r \in Requests :
    pc[r] \in InHandler \ {"reading"} ~> pc[r] \in {"replying", "refusing", "done", "killed"}

(***************************************************************************)
(* A shutdown always completes, even while a client never finishes its     *)
(* body or never reads its answer, and closing the pool never waits for    *)
(* ever.                                                                   *)
(***************************************************************************)
ShutdownCompletes == proc \in {"draining", "closing"} ~> proc = "exited"

\* A call nothing was asked of Postgres for, and whose upstream answer, if it has one,
\* is that of a call the upstream executed.
Transparent(r) ==
  /\ rows[r] = NoRow /\ \A call \in wire[r] : call.op = "forward"
  /\ pc[r] \notin {"starting", "finishing", "refusing"}
  /\ reply[r] # "audit_unavailable"
  /\ UpstreamStatuses \cap {entry[r].outcome, reply[r]} # {} => effect[r] # NoUser

(***************************************************************************)
(* Without AUDIT_DATABASE_URL nothing is recorded, no call waits for or is *)
(* refused for want of a record, and the answer of an upstream is passed   *)
(* on only if it executed the call (startAuditOrFail and finishAudit with  *)
(* a nil sink).                                                            *)
(***************************************************************************)
UnauditedIsTransparent == ~audited => \A r \in Requests : Transparent(r)

-----------------------------------------------------------------------------
(* What the documentation promises and the code does not keep.             *)

(***************************************************************************)
(* README.md:31: the request and the response of every business call are   *)
(* written to the table.  finishAudit logs the error of Finish and goes on *)
(* (server.go:394), so a client can be answered and the record stay        *)
(* "started": the context is cancelled, the pool closed, the write late.   *)
(***************************************************************************)
AnsweredIsRecorded ==
  \A r \in Requests :
    reply[r] \in Outcomes =>
      rows[r].status = "complete" \/ \E call \in wire[r] : call.op = "update"

(***************************************************************************)
(* README.md:37: the record holds the upstream URL.  It is set only when   *)
(* the upstream answered in time (server.go:298); the record of a call the *)
(* upstream executed but that timed out says nothing of where it went.     *)
(***************************************************************************)
ExecutedRecordNamesUpstream ==
  \A r \in Requests :
    rows[r].status = "complete" /\ effect[r] # NoUser => rows[r].url
=============================================================================
