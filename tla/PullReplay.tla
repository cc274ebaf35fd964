----------------------------- MODULE PullReplay -----------------------------
(***************************************************************************)
(* The replay of one pull for an administrator                             *)
(* (handlePlayerSupportPullReplay): the gacha service tells the operation, *)
(* and once its pull event exists two goroutines read the evidence of it,  *)
(* the spend from the asset service and the delivery from the backpack.    *)
(* The pull itself goes on in those services meanwhile.  A caller that     *)
(* leaves makes the pending reads fail, which they may do at any time.     *)
(***************************************************************************)
EXTENDS Naturals, FiniteSets

CONSTANTS
  Operations,  \* the pull operations
  Routed       \* the services that have a route (routeByName)

Evidence == {"asset_spend", "backpack_delivery"}

ServiceOf(x) == IF x = "asset_spend" THEN "assets" ELSE "backpack"

ASSUME RoutedAssumption == Routed \subseteq {"gacha", "assets", "backpack"}

VARIABLES
  pulled,     \* what the services hold of each operation
  asked,      \* the operation the administrator asks for
  before,     \* what they held of it when the call arrived
  stage,      \* "idle", "operation", "evidence" or "answered"
  operation,  \* the operation gacha told
  reading,    \* the goroutines that still read
  workers,    \* the WaitGroup
  section,    \* what each read became
  failed,     \* the reads that told nothing
  answer      \* the code and the partial mark the client is answered

vars == <<pulled, asked, before, stage, operation, reading, workers, section,
          failed, answer>>

Parts == {"operation", "event"} \cup Evidence

NoAnswer == [code |-> "none", partial |-> FALSE]

NotApplicable == [x \in Evidence |-> "not_applicable"]

Init ==
  /\ pulled = [o \in Operations |-> {}]
  /\ asked \in Operations
  /\ before = {}
  /\ stage = "idle"
  /\ operation = asked
  /\ reading = {} /\ workers = 0
  /\ section = NotApplicable
  /\ failed = {}
  /\ answer = NoAnswer

-----------------------------------------------------------------------------

\* The services: gacha knows the event of an operation it has; nothing is assumed
\* of the order in which the others hear of it.
Progress(o, part) ==
  /\ part \notin pulled[o]
  /\ part = "event" => "operation" \in pulled[o]
  /\ pulled' = [pulled EXCEPT ![o] = @ \cup {part}]
  /\ UNCHANGED <<asked, before, stage, operation, reading, workers, section, failed, answer>>

\* A call whose parameters are UUIDs, admitted by authorizeAuditLogAdmin.
Ask(o) ==
  /\ stage \in {"idle", "answered"} /\ reading = {}
  /\ stage' = "operation"
  /\ asked' = o /\ operation' = o
  /\ before' = pulled[o]
  /\ section' = NotApplicable
  /\ failed' = {}
  /\ answer' = NoAnswer
  /\ UNCHANGED <<pulled, reading, workers>>

Reply(code, partial) ==
  /\ stage' = "answered"
  /\ answer' = [code |-> code, partial |-> partial]

\* No route, no answer, an unreadable one, or a status other than 2xx and 404.
OperationFails ==
  /\ stage = "operation"
  /\ Reply("pull_replay_unavailable", FALSE)
  /\ UNCHANGED <<pulled, asked, before, operation, reading, workers, section, failed>>

OperationGarbled ==
  /\ stage = "operation"
  /\ "gacha" \in Routed
  /\ Reply("invalid_pull_replay", FALSE)
  /\ UNCHANGED <<pulled, asked, before, operation, reading, workers, section, failed>>

OperationMissing ==
  /\ stage = "operation"
  /\ "gacha" \in Routed
  /\ "operation" \notin pulled[asked]
  /\ Reply("pull_operation_not_found", FALSE)
  /\ UNCHANGED <<pulled, asked, before, operation, reading, workers, section, failed>>

Told(o) ==
  /\ stage = "operation"
  /\ "gacha" \in Routed
  /\ "operation" \in pulled[o]
  /\ operation' = o

StartReading(n) == workers' = n /\ reading' = Evidence

\* Faulty variant: the id of the operation is not compared.
TakeOperationUnchecked(o) ==
  /\ Told(o)
  /\ stage' = "evidence"
  /\ IF "event" \in pulled[o] THEN StartReading(2) ELSE UNCHANGED <<workers, reading>>
  /\ UNCHANGED <<pulled, asked, before, section, failed, answer>>

\* Faulty variant: the goroutines are counted even when they are not started.
TakeOperationWaiting(o) ==
  /\ Told(o)
  /\ IF o # asked
       THEN Reply("invalid_pull_replay", FALSE) /\ UNCHANGED <<workers, reading>>
       ELSE /\ stage' = "evidence" /\ workers' = 2
            /\ reading' = IF "event" \in pulled[o] THEN Evidence ELSE {}
            /\ UNCHANGED answer
  /\ UNCHANGED <<pulled, asked, before, section, failed>>

\* Faulty variant: only one of the two goroutines is counted.
TakeOperationShort(o) ==
  /\ Told(o)
  /\ stage' = "evidence"
  /\ IF "event" \in pulled[o] THEN StartReading(1) ELSE UNCHANGED <<workers, reading>>
  /\ UNCHANGED <<pulled, asked, before, section, failed, answer>>

\* Gacha tells an operation; another one than asked for is refused.
TakeOperation(o) ==
  /\ Told(o)
  /\ \/ o # asked /\ Reply("invalid_pull_replay", FALSE) /\ UNCHANGED <<workers, reading>>
     \/ /\ o = asked
        /\ stage' = "evidence" /\ UNCHANGED answer
        /\ IF "event" \in pulled[o] THEN StartReading(2) ELSE UNCHANGED <<workers, reading>>
  /\ UNCHANGED <<pulled, asked, before, section, failed>>

\* What the service of x can say: what it holds, or nothing that helps.
Says(x) ==
  {"silence"} \cup
  IF ServiceOf(x) \notin Routed THEN {}
  ELSE {"other", "garbled", IF x \in pulled[operation] THEN "found" ELSE "404"}

\* Faulty variant: a service that fails is shown as one that holds nothing.
SectionOfFailure(said) == IF said = "found" THEN "ok" ELSE "not_found"

\* loadPlayerSupportReplayEvidence.
SectionOf(said) ==
  CASE said = "found" -> "ok"
    [] said = "404"   -> "not_found"
    [] OTHER          -> "unavailable"

\* A goroutine reads, sends its section and is done: the channel holds both.
Read(x, said) ==
  /\ x \in reading
  /\ said \in Says(x)
  /\ section' = [section EXCEPT ![x] = SectionOf(said)]
  /\ failed' = IF said \in {"found", "404"} THEN failed ELSE failed \cup {x}
  /\ reading' = reading \ {x}
  /\ workers' = workers - 1
  /\ UNCHANGED <<pulled, asked, before, stage, operation, answer>>

\* workers.Wait returns and the sections are put together.
Assemble ==
  /\ stage = "evidence" /\ workers = 0
  /\ Reply("ok", \E x \in Evidence : section[x] = "unavailable")
  /\ UNCHANGED <<pulled, asked, before, operation, reading, workers, section, failed>>

Next ==
  \/ \E o \in Operations : Ask(o) \/ TakeOperation(o) \/ \E part \in Parts : Progress(o, part)
  \/ OperationFails \/ OperationGarbled \/ OperationMissing
  \/ \E x \in Evidence : \E said \in Says(x) : Read(x, said)
  \/ Assemble

Spec == Init /\ [][Next]_vars

(***************************************************************************)
(* The Timeout of the HTTP client ends each read; nobody has to ask, and   *)
(* the services need not make progress.                                    *)
(***************************************************************************)
FairSpec ==
  /\ Spec
  /\ WF_vars(OperationFails) /\ WF_vars(Assemble)
  /\ \A x \in Evidence : WF_vars(Read(x, "silence"))

-----------------------------------------------------------------------------

TypeOK ==
  /\ pulled \in [Operations -> SUBSET Parts]
  /\ asked \in Operations /\ operation \in Operations
  /\ before \subseteq Parts
  /\ stage \in {"idle", "operation", "evidence", "answered"}
  /\ reading \subseteq Evidence /\ failed \subseteq Evidence
  /\ workers \in 0 .. Cardinality(Evidence)
  /\ section \in [Evidence -> {"not_applicable", "not_found", "unavailable", "ok"}]
  /\ answer \in [code : {"none", "ok", "pull_replay_unavailable", "invalid_pull_replay",
                         "pull_operation_not_found"},
                 partial : BOOLEAN]

Shown == stage = "answered" /\ answer.code = "ok"

(***************************************************************************)
(* The replay shown is of the operation asked for, and evidence shown as   *)
(* present is held by its service for that very operation                  *)
(* (player_support.go:431, the comparison of the operation ids).           *)
(***************************************************************************)
EvidenceBelongsToOperation == Shown =>
  /\ operation = asked
  /\ \A x \in Evidence : section[x] = "ok" => x \in pulled[asked]

(***************************************************************************)
(* What the services held when the call arrived is never shown as absent,  *)
(* whatever fails and however far the pull gets during the reads: a        *)
(* failure shows as "unavailable" (loadPlayerSupportReplayEvidence).  And   *)
(* the replay is marked partial exactly when a read it needed told nothing;*)
(* what is not applicable does not make it partial.                        *)
(***************************************************************************)
ReplayIsTruthful ==
  /\ stage = "answered" /\ answer.code = "pull_operation_not_found"
       => "operation" \notin before
  /\ Shown =>
       /\ \A x \in Evidence :
            /\ section[x] = "not_found" => x \notin before
            /\ section[x] = "not_applicable" => "event" \notin before
       /\ answer.partial <=> failed # {}

(***************************************************************************)
(* What the proofs need besides: the WaitGroup counts the goroutines that  *)
(* read, the handler has evidence of the operation asked for only, and     *)
(* each section says of the services, now and when the call arrived, what  *)
(* a read could learn of them.                                             *)
(***************************************************************************)
HandlerFollows ==
  /\ workers = Cardinality(reading)
  /\ reading # {} => stage = "evidence" /\ "event" \in pulled[asked]
  /\ stage = "idle" => before = {}
  /\ before \subseteq pulled[asked]
  /\ stage = "operation" => section = NotApplicable
  /\ stage = "evidence" \/ Shown => operation = asked

SectionFollows(x) ==
  /\ x \in reading => section[x] = "not_applicable"
  /\ section[x] = "ok" => x \in pulled[asked]
  /\ section[x] = "not_found" => x \notin before
  /\ section[x] = "unavailable" <=> x \in failed
  /\ (stage = "evidence" \/ Shown) /\ section[x] = "not_applicable" =>
       x \in reading \/ "event" \notin before

\* The invariant of the proofs, kept by every step by itself.
ReplayInv ==
  /\ TypeOK /\ HandlerFollows
  /\ \A x \in Evidence : SectionFollows(x)
  /\ Shown => (answer.partial <=> failed # {})
  /\ stage = "answered" /\ answer.code = "pull_operation_not_found"
       => "operation" \notin before

(***************************************************************************)
(* Every replay asked for is answered, even when each service hangs and    *)
(* when there is nothing to read.                                          *)
(***************************************************************************)
ReplayIsAnswered == stage \in {"operation", "evidence"} ~> stage = "answered"
=============================================================================
