---------------------------- MODULE AuditedCalls ----------------------------
(***************************************************************************)
(* What an audited gateway promises about each call, with nothing of how   *)
(* it does it: its audit record is opened before it may run, it runs at    *)
(* most once and as the user the record will name, the record is closed at *)
(* most once, the client is told at most one outcome and the closed record *)
(* holds that outcome.  A call that was refused never runs, although its   *)
(* record may still be opened afterwards.                                  *)
(***************************************************************************)

CONSTANTS
  Call,     \* the calls
  Principal,\* the users a call may run as
  Result,   \* the outcomes of a call that has a record
  Refusal,  \* the outcome of a call whose record could not be opened
  Nobody,   \* no user
  Nothing   \* no outcome

VARIABLES
  record,  \* what the audit table says of a call
  ranAs,   \* the user as whom the call was executed, or Nobody
  answer   \* what the client was told, or Nothing

callVars == <<record, ranAs, answer>>

NoRecord == [state |-> "none", user |-> Nobody, outcome |-> Nothing]
OpenRecord == [NoRecord EXCEPT !.state = "open"]
Closed(u, o) == [state |-> "closed", user |-> u, outcome |-> o]

CallsInit ==
  /\ record = [c \in Call |-> NoRecord]
  /\ ranAs = [c \in Call |-> Nobody]
  /\ answer = [c \in Call |-> Nothing]

Open(c) ==
  /\ record[c] = NoRecord
  /\ record' = [record EXCEPT ![c] = OpenRecord]
  /\ UNCHANGED <<ranAs, answer>>

\* A call may run after its client was answered, and after its record closed.
Run(c, u) ==
  /\ record[c].state \in {"open", "closed"}
  /\ record[c].state = "closed" => record[c].user = u
  /\ ranAs[c] = Nobody
  /\ answer[c] # Refusal
  /\ ranAs' = [ranAs EXCEPT ![c] = u]
  /\ UNCHANGED <<record, answer>>

Close(c, u, o) ==
  /\ record[c] = OpenRecord
  /\ ranAs[c] \in {Nobody, u}
  /\ answer[c] \in {Nothing, o}
  /\ record' = [record EXCEPT ![c] = Closed(u, o)]
  /\ UNCHANGED <<ranAs, answer>>

Tell(c, o) ==
  /\ record[c].state \in {"open", "closed"}
  /\ record[c].state = "closed" => record[c].outcome = o
  /\ answer[c] = Nothing
  /\ answer' = [answer EXCEPT ![c] = o]
  /\ UNCHANGED <<record, ranAs>>

Refuse(c) ==
  /\ record[c].state \in {"none", "open"}
  /\ ranAs[c] = Nobody
  /\ answer[c] = Nothing
  /\ answer' = [answer EXCEPT ![c] = Refusal]
  /\ UNCHANGED <<record, ranAs>>

CallsNext == \E c \in Call :
  \/ Open(c)
  \/ \E u \in Principal : Run(c, u)
  \/ \E u \in Principal \cup {Nobody}, o \in Result : Close(c, u, o)
  \/ \E o \in Result : Tell(c, o)
  \/ Refuse(c)

CallsSpec == CallsInit /\ [][CallsNext]_callVars
=============================================================================
