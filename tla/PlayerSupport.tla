--------------------------- MODULE PlayerSupport ---------------------------
(***************************************************************************)
(* The player support page (loadPlayerSupport, player_support.go): one     *)
(* goroutine per section reads an upstream service and sends its section   *)
(* to a buffered channel; the handler waits for all of them, closes the    *)
(* channel and assembles what it holds.                                    *)
(***************************************************************************)
EXTENDS Naturals, FiniteSets, Sequences

CONSTANTS
  Sections,     \* the sections of the page
  MayBeMissing, \* those for which a 404 means "not_found" (allowNotFound)
  Routed        \* those whose service has a route (routeByName)

ASSUME SectionsAssumption ==
  IsFiniteSet(Sections) /\ MayBeMissing \subseteq Sections /\ Routed \subseteq Sections

(***************************************************************************)
(* What a service answers: whether its body could be read within the       *)
(* limit, its status, and whether the body is the JSON that is expected.   *)
(***************************************************************************)
Responses == [read : BOOLEAN, status : {"2xx", "404", "other"}, json : BOOLEAN]

Unavailable(code) == [status |-> "unavailable", code |-> code]
NotFound == [status |-> "not_found", code |-> "none"]
Ok == [status |-> "ok", code |-> "none"]
Empty == [status |-> "empty", code |-> "none"]

Codes == {"route_unavailable", "upstream_unavailable", "upstream_response_unavailable",
          "upstream_http", "invalid_upstream_response"}

SectionValues == {NotFound, Ok, Empty} \cup {Unavailable(c) : c \in Codes}

VARIABLES
  worker,   \* where the goroutine of a section is
  section,  \* the section its goroutine made of the answer
  heard,    \* the answer the service gave it, if it gave one
  pending,  \* the WaitGroup
  results,  \* the channel
  closed,   \* the channel is closed
  handler,  \* where the handler is
  page,     \* the response being assembled
  gone      \* the context of the call is cancelled

vars == <<worker, section, heard, pending, results, closed, handler, page, gone>>

Capacity == Cardinality(Sections)

Silence == [read |-> FALSE, status |-> "none", json |-> FALSE]

Blank == [partial |-> FALSE, sections |-> [s \in Sections |-> Empty]]

Init ==
  /\ worker = [s \in Sections |-> "idle"]
  /\ section = [s \in Sections |-> Empty]
  /\ heard = [s \in Sections |-> Silence]
  /\ pending = 0
  /\ results = << >>
  /\ closed = FALSE
  /\ handler = "idle"
  /\ page = Blank
  /\ gone = FALSE

-----------------------------------------------------------------------------

\* Faulty variant: the WaitGroup counts one goroutine less.
BeginShort ==
  /\ handler = "idle"
  /\ handler' = "waiting"
  /\ pending' = Cardinality(Sections) - 1
  /\ worker' = [s \in Sections |-> "asking"]
  /\ UNCHANGED <<section, heard, results, closed, page, gone>>

\* workers.Add and the loop that starts the goroutines.
Begin ==
  /\ handler = "idle"
  /\ handler' = "waiting"
  /\ pending' = Cardinality(Sections)
  /\ worker' = [s \in Sections |-> "asking"]
  /\ UNCHANGED <<section, heard, results, closed, page, gone>>

Hold(s, value) ==
  /\ worker' = [worker EXCEPT ![s] = "holding"]
  /\ section' = [section EXCEPT ![s] = value]

\* loadPlayerSupportUpstream, once the service answered.
SectionOf(s, a) ==
  IF ~a.read THEN Unavailable("upstream_response_unavailable")
  ELSE CASE a.status = "404" /\ s \in MayBeMissing -> NotFound
         [] a.status = "2xx" /\ a.json             -> Ok
         [] a.status = "2xx" /\ ~a.json            -> Unavailable("invalid_upstream_response")
         [] OTHER                                  -> Unavailable("upstream_http")

NoRoute(s) ==
  /\ worker[s] = "asking"
  /\ s \notin Routed
  /\ Hold(s, Unavailable("route_unavailable"))
  /\ UNCHANGED <<heard, pending, results, closed, handler, page, gone>>

Answered(s, a) ==
  /\ worker[s] = "asking"
  /\ s \in Routed
  /\ gone => ~a.read
  /\ Hold(s, SectionOf(s, a))
  /\ heard' = [heard EXCEPT ![s] = a]
  /\ UNCHANGED <<pending, results, closed, handler, page, gone>>

\* The client's Timeout, a refused connection, or the caller left.
Fails(s) ==
  /\ worker[s] = "asking"
  /\ s \in Routed
  /\ Hold(s, Unavailable("upstream_unavailable"))
  /\ UNCHANGED <<heard, pending, results, closed, handler, page, gone>>

\* Faulty variant: the channel has room for one section less.
SendTight(s) ==
  /\ worker[s] = "holding"
  /\ Len(results) < Capacity - 1
  /\ results' = Append(results, [name |-> s, section |-> section[s]])
  /\ worker' = [worker EXCEPT ![s] = "sent"]
  /\ UNCHANGED <<section, heard, pending, closed, handler, page, gone>>

\* A send on a full channel waits.
Send(s) ==
  /\ worker[s] = "holding"
  /\ Len(results) < Capacity
  /\ results' = Append(results, [name |-> s, section |-> section[s]])
  /\ worker' = [worker EXCEPT ![s] = "sent"]
  /\ UNCHANGED <<section, heard, pending, closed, handler, page, gone>>

WorkerDone(s) ==
  /\ worker[s] = "sent"
  /\ worker' = [worker EXCEPT ![s] = "done"]
  /\ pending' = pending - 1
  /\ UNCHANGED <<section, heard, results, closed, handler, page, gone>>

\* Faulty variant: one goroutine is not waited for.
WaitReturnsEarly ==
  /\ handler = "waiting"
  /\ pending <= 1
  /\ closed' = TRUE
  /\ handler' = "collecting"
  /\ UNCHANGED <<worker, section, heard, pending, results, page, gone>>

\* workers.Wait, then close(results).
WaitReturns ==
  /\ handler = "waiting"
  /\ pending = 0
  /\ closed' = TRUE
  /\ handler' = "collecting"
  /\ UNCHANGED <<worker, section, heard, pending, results, page, gone>>

\* Faulty variant: the last section decides whether the page is partial.
CollectLast ==
  /\ handler = "collecting"
  /\ results # << >>
  /\ page' = [page EXCEPT !.partial = Head(results).section.status = "unavailable",
                          !.sections[Head(results).name] = Head(results).section]
  /\ results' = Tail(results)
  /\ UNCHANGED <<worker, section, heard, pending, closed, handler, gone>>

Collect ==
  /\ handler = "collecting"
  /\ results # << >>
  /\ page' = [page EXCEPT !.partial = @ \/ Head(results).section.status = "unavailable",
                          !.sections[Head(results).name] = Head(results).section]
  /\ results' = Tail(results)
  /\ UNCHANGED <<worker, section, heard, pending, closed, handler, gone>>

\* The range over the closed channel ends when it is empty.
Finish ==
  /\ handler = "collecting"
  /\ results = << >>
  /\ closed
  /\ handler' = "done"
  /\ UNCHANGED <<worker, section, heard, pending, results, closed, page, gone>>

Disconnect ==
  /\ handler # "idle"
  /\ ~gone
  /\ gone' = TRUE
  /\ UNCHANGED <<worker, section, heard, pending, results, closed, handler, page>>

\* The next page is assembled from nothing.
Again ==
  /\ handler = "done"
  /\ handler' = "idle"
  /\ worker' = [s \in Sections |-> "idle"]
  /\ section' = [s \in Sections |-> Empty]
  /\ heard' = [s \in Sections |-> Silence]
  /\ page' = Blank
  /\ closed' = FALSE
  /\ gone' = FALSE
  /\ UNCHANGED <<pending, results>>

Work(s) ==
  \/ NoRoute(s) \/ Fails(s) \/ Send(s) \/ WorkerDone(s)
  \/ \E a \in Responses : Answered(s, a)

Next ==
  \/ Begin \/ WaitReturns \/ Collect \/ Finish \/ Disconnect \/ Again
  \/ \E s \in Sections : Work(s)

Spec == Init /\ [][Next]_vars

(***************************************************************************)
(* The goroutines are scheduled, and the HTTP client gives up after its    *)
(* Timeout (Fails); a service need not answer.                             *)
(***************************************************************************)
FairSpec ==
  /\ Spec
  /\ \A s \in Sections : WF_vars(NoRoute(s) \/ Fails(s)) /\ WF_vars(Send(s)) /\ WF_vars(WorkerDone(s))
  /\ WF_vars(WaitReturns) /\ WF_vars(Collect) /\ WF_vars(Finish)

-----------------------------------------------------------------------------

TypeOK ==
  /\ worker \in [Sections -> {"idle", "asking", "holding", "sent", "done"}]
  /\ section \in [Sections -> SectionValues]
  /\ heard \in [Sections -> Responses \cup {Silence}]
  /\ pending \in 0 .. Cardinality(Sections)
  /\ results \in Seq([name : Sections, section : SectionValues])
  /\ closed \in BOOLEAN
  /\ handler \in {"idle", "waiting", "collecting", "done"}
  /\ page \in [partial : BOOLEAN, sections : [Sections -> SectionValues]]
  /\ gone \in BOOLEAN

(***************************************************************************)
(* The channel is closed only when no goroutine will send to it any more:  *)
(* a send on a closed channel would take the whole gateway down.           *)
(***************************************************************************)
NeverSendsOnClosed == closed => \A s \in Sections : worker[s] \in {"sent", "done"}

(***************************************************************************)
(* A finished page holds for every section what its own goroutine made of  *)
(* the answer of its own service, in whatever order they arrived.          *)
(***************************************************************************)
PageIsComplete == handler = "done" =>
  \A s \in Sections : page.sections[s] # Empty /\ page.sections[s] = section[s]

\* The service answered what the page can show.
Told(s) ==
  /\ heard[s].read
  /\ \/ heard[s].status = "2xx" /\ heard[s].json
     \/ heard[s].status = "404" /\ s \in MayBeMissing

(***************************************************************************)
(* A finished page is marked partial exactly when a section is missing     *)
(* because its service failed, was not understood or has no route.         *)
(***************************************************************************)
PartialIsTruthful ==
  handler = "done" => (page.partial <=> \E s \in Sections : ~Told(s))

(***************************************************************************)
(* What the proofs need besides: the WaitGroup counts the goroutines that  *)
(* are not done, the handler's stage says how far all of them are, a       *)
(* section is unavailable exactly when its service told nothing, and what  *)
(* was sent is in the channel or on the page.                              *)
(***************************************************************************)
Working == {s \in Sections : worker[s] \in {"asking", "holding", "sent"}}

WaitGroupCounts == pending = Cardinality(Working)

HandlerFollows ==
  /\ closed <=> handler \in {"collecting", "done"}
  /\ \A s \in Sections :
       /\ handler = "idle" <=> worker[s] = "idle"
       /\ closed => worker[s] = "done"
  /\ handler \in {"idle", "done"} => results = << >>

SectionFollows(s) ==
  /\ worker[s] \in {"idle", "asking"} => heard[s] = Silence
  /\ worker[s] \in {"holding", "sent", "done"} =>
       section[s] # Empty /\ (section[s].status = "unavailable" <=> ~Told(s))

InChannel(s) == \E i \in DOMAIN results : results[i].name = s

SentIsKept(s) ==
  /\ InChannel(s) => worker[s] \in {"sent", "done"}
  /\ worker[s] \in {"sent", "done"} => InChannel(s) \/ page.sections[s] = section[s]
  /\ page.sections[s] # Empty =>
       page.sections[s] = section[s] /\ worker[s] \in {"sent", "done"}

\* The invariant of the proofs, kept by every step by itself.
PageInv ==
  /\ TypeOK /\ WaitGroupCounts /\ HandlerFollows
  /\ \A s \in Sections : SectionFollows(s) /\ SentIsKept(s)
  /\ \A i \in DOMAIN results : results[i].section = section[results[i].name]
  /\ page.partial <=> \E s \in Sections : page.sections[s].status = "unavailable"

(***************************************************************************)
(* The page is answered even when every service hangs and the caller left: *)
(* neither the channel nor the WaitGroup can hold the handler for ever.    *)
(***************************************************************************)
PageIsAnswered == handler = "waiting" ~> handler = "done"
=============================================================================
