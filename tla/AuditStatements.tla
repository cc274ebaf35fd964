-------------------------- MODULE AuditStatements --------------------------
(***************************************************************************)
(* What the handlers may rely on when they use the audit database, with    *)
(* nothing of connections and pools: a handler issues the statements of    *)
(* its program one at a time, Postgres performs a statement at most once   *)
(* and only after it was issued, perhaps after the handler was told that   *)
(* it failed, and a statement that was reported done was performed.  A     *)
(* record is therefore completed only after it was opened.                 *)
(***************************************************************************)
EXTENDS Naturals, Sequences

CONSTANTS
  Caller,          \* the handlers
  Statements,      \* Statements[c]: the statements a handler issues in turn
  GivesUp          \* the statements whose failure ends their handler

VARIABLES
  step,       \* step[c]: the position in its program
  waits,      \* waits[c]: it waits for the answer of that statement
  issued,     \* issued[c]: the positions Postgres was asked for
  performed   \* performed[c]: the positions Postgres performed

statementVars == <<step, waits, issued, performed>>

Over(c) == step[c] > Len(Statements[c])

StatementsInit ==
  /\ step = [c \in Caller |-> 1]
  /\ waits = [c \in Caller |-> FALSE]
  /\ issued = [c \in Caller |-> {}]
  /\ performed = [c \in Caller |-> {}]

Begin(c) ==
  /\ ~waits[c] /\ ~Over(c)
  /\ waits' = [waits EXCEPT ![c] = TRUE]
  /\ UNCHANGED <<step, issued, performed>>

Issue(c) ==
  /\ waits[c] /\ step[c] \notin issued[c]
  /\ issued' = [issued EXCEPT ![c] = @ \cup {step[c]}]
  /\ UNCHANGED <<step, waits, performed>>

Perform(c, i) ==
  /\ i \in issued[c] \ performed[c]
  /\ Statements[c][i] = "finish" =>
       \E j \in performed[c] : Statements[c][j] = "start"
  /\ performed' = [performed EXCEPT ![c] = @ \cup {i}]
  /\ UNCHANGED <<step, waits, issued>>

ReportDone(c) ==
  /\ waits[c] /\ step[c] \in performed[c]
  /\ step' = [step EXCEPT ![c] = @ + 1]
  /\ waits' = [waits EXCEPT ![c] = FALSE]
  /\ UNCHANGED <<issued, performed>>

ReportFailed(c) ==
  /\ waits[c]
  /\ step' = [step EXCEPT ![c] =
       IF Statements[c][@] \in GivesUp THEN Len(Statements[c]) + 1 ELSE @ + 1]
  /\ waits' = [waits EXCEPT ![c] = FALSE]
  /\ UNCHANGED <<issued, performed>>

\* The handler takes another call, or its process starts again.
Renew(c) ==
  /\ step' = [step EXCEPT ![c] = 1]
  /\ waits' = [waits EXCEPT ![c] = FALSE]
  /\ issued' = [issued EXCEPT ![c] = {}]
  /\ performed' = [performed EXCEPT ![c] = {}]

RenewAll == StatementsInit'

StatementsNext ==
  \/ RenewAll
  \/ \E c \in Caller :
       \/ Begin(c) \/ Issue(c) \/ ReportDone(c) \/ ReportFailed(c) \/ Renew(c)
       \/ \E i \in 1..Len(Statements[c]) : Perform(c, i)

StatementsSpec == StatementsInit /\ [][StatementsNext]_statementVars
=============================================================================
