--------------------------- MODULE AuditedGateway ---------------------------
(***************************************************************************)
(* The gateway implements AuditedCalls: its table is the record, the call  *)
(* the upstream executed is the run, the answer is the answer.             *)
(***************************************************************************)
EXTENDS Gateway

RecordOf(row) ==
  CASE row.status = "absent"   -> [state |-> "none", user |-> NoUser, outcome |-> "none"]
    [] row.status = "started"  -> [state |-> "open", user |-> NoUser, outcome |-> "none"]
    [] row.status = "complete" -> [state |-> "closed", user |-> row.user, outcome |-> row.outcome]

Promise == INSTANCE AuditedCalls WITH
  Call <- Requests, Principal <- Users, Result <- Outcomes,
  Refusal <- "audit_unavailable", Nobody <- NoUser, Nothing <- "none",
  record <- [r \in Requests |-> RecordOf(rows[r])],
  ranAs <- effect,
  answer <- reply

(***************************************************************************)
(* Every step of an audited gateway, a late statement, a crash and a       *)
(* restart included, is a step AuditedCalls allows or changes nothing of   *)
(* what it speaks of (startAuditOrFail, finishAudit, handleProxy).         *)
(***************************************************************************)
ImplementsAuditedCalls == Promise!CallsSpec

-----------------------------------------------------------------------------
(***************************************************************************)
(* Why the promises hold: the inductive invariant, one call at a time.     *)
(***************************************************************************)

\* Until its verification a call has no other entry than the initial one.
EntryFollowsHandler(r) ==
  /\ entry[r].status \in {"started", "complete"}
  /\ entry[r].status = "complete" => entry[r].outcome # "none"
  /\ pc[r] \in {"idle", "reading", "starting", "refusing", "verifying"} =>
       entry[r] = NewEntry
  /\ pc[r] = "working" =>
       /\ entry[r].status = "started"
       /\ entry[r].auth = "authenticated"
  /\ pc[r] \in {"finishing", "replying"} => entry[r].status = "complete"

\* A call that did not start its audit has left no trace.
NothingBeforeStart(r) ==
  pc[r] \in {"idle", "reading"} => rows[r] = NoRow /\ wire[r] = {}

\* A row is missing, or as Start wrote it, or the whole completed entry.
RowFollowsEntry(r) ==
  /\ rows[r].status = "absent" => rows[r] = NoRow
  /\ rows[r].status = "started" => rows[r] = NewEntry
  /\ rows[r].status = "complete" => rows[r] = entry[r]

\* Whatever got beyond the start of its audit has a row.
RowBeforeProgress(r) ==
  audited /\ (pc[r] = "verifying" \/ entry[r] # NewEntry) =>
    rows[r].status # "absent"

\* A late statement is the one the table still waits for, a late forward
\* belongs to the user of the entry.
InFlight(r) ==
  \A call \in wire[r] :
    /\ call.op = "insert" =>
         /\ call.row = NewEntry /\ entry[r] = NewEntry /\ rows[r] = NoRow
         /\ pc[r] # "verifying"
    /\ call.op = "update" =>
         call.row = entry[r] /\ entry[r].status = "complete" /\ rows[r] = NewEntry
    /\ call.op = "forward" =>
         /\ call.user = entry[r].user /\ entry[r].auth = "authenticated"
         /\ effect[r] = NoUser

EffectFollowsEntry(r) ==
  effect[r] # NoUser => entry[r].user = effect[r] /\ entry[r].auth = "authenticated"

\* An answer is the outcome of the entry, or the refusal of an untouched one.
ReplyFollowsEntry(r) ==
  /\ reply[r] # "none" => pc[r] = "done"
  /\ reply[r] = "audit_unavailable" => entry[r] = NewEntry
  /\ reply[r] \notin {"none", "audit_unavailable"} =>
       entry[r].status = "complete" /\ entry[r].outcome = reply[r]

AdminsOnly(r) ==
  kind[r] # "proxy" /\ (pc[r] = "working" \/ entry[r].outcome \in {"ok", "invalid_input"}) =>
    entry[r].user \in Admins

CallInv(r) ==
  /\ EntryFollowsHandler(r)
  /\ NothingBeforeStart(r)
  /\ RowFollowsEntry(r)
  /\ RowBeforeProgress(r)
  /\ InFlight(r)
  /\ EffectFollowsEntry(r)
  /\ ReplyFollowsEntry(r)
  /\ AdminsOnly(r)

(***************************************************************************)
(* At every step of every call its handler, its entry, its row, what was   *)
(* asked of Postgres and of the upstream and not done yet, the execution   *)
(* and the answer fit together (handleProxy and the administrative         *)
(* handlers from startAuditOrFail to the final write).                     *)
(***************************************************************************)
GatewayInv == TypeOK /\ \A r \in Requests : CallInv(r)
=============================================================================
