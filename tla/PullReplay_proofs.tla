-------------------------- MODULE PullReplay_proofs --------------------------
(***************************************************************************)
(* The replay of a pull shows evidence of the operation asked for only,    *)
(* never a failure as absence, and says truthfully whether it is partial,  *)
(* for any operations, any services with a route and any progress of the   *)
(* pulls during the reads.                                                 *)
(***************************************************************************)
EXTENDS PullReplay, FiniteSetTheorems, TLAPS

LEMMA EvidenceIsTwo ==
  /\ Cardinality({}) = 0
  /\ IsFiniteSet(Evidence) /\ Cardinality(Evidence) = 2
  <1>1. Cardinality({}) = 0 /\ IsFiniteSet({})
    BY FS_EmptySet
  <1>2. Cardinality({"asset_spend"}) = 1 /\ IsFiniteSet({"asset_spend"})
    BY <1>1, FS_AddElement, {} \cup {"asset_spend"} = {"asset_spend"}
  <1>3. Evidence = {"asset_spend"} \cup {"backpack_delivery"}
    BY DEF Evidence
  <1> QED
    BY <1>1, <1>2, <1>3, FS_AddElement

LEMMA ReadingLeaves ==
  ASSUME TypeOK, HandlerFollows, NEW x \in reading,
         reading' = reading \ {x}, workers' = workers - 1
  PROVE  workers' = Cardinality(reading') /\ workers' \in 0 .. Cardinality(Evidence)
  <1>1. reading \in SUBSET Evidence /\ reading' \in SUBSET Evidence
    BY DEF TypeOK
  <1>2. IsFiniteSet(reading) /\ IsFiniteSet(reading')
    BY <1>1, EvidenceIsTwo, FS_Subset
  <1>3. Cardinality(reading') = Cardinality(reading) - 1
    BY <1>2, FS_RemoveElement
  <1>4. /\ Cardinality(reading) \in Nat /\ Cardinality(reading') \in Nat
        /\ Cardinality(reading') <= Cardinality(Evidence)
    BY <1>1, <1>2, EvidenceIsTwo, FS_Subset, FS_CardinalityType
  <1> QED
    BY <1>3, <1>4, EvidenceIsTwo DEF HandlerFollows

-----------------------------------------------------------------------------
(* The steps.                                                              *)

LEMMA InitInv ==
  ASSUME Init
  PROVE  ReplayInv
  <1> USE DEF Init
  <1>1. TypeOK
    BY EvidenceIsTwo DEF TypeOK, NotApplicable, NoAnswer
  <1>2. HandlerFollows
    BY EvidenceIsTwo DEF HandlerFollows, Shown
  <1> QED
    BY <1>1, <1>2 DEF ReplayInv, SectionFollows, NotApplicable, Shown

\* What was true of the services at the arrival of a call is so afterwards.
LEMMA ProgressStep ==
  ASSUME ReplayInv, NEW o \in Operations, NEW part \in Parts, Progress(o, part)
  PROVE  ReplayInv'
  <1> USE DEF ReplayInv, Progress
  <1>1. \A p \in Operations : pulled[p] \subseteq pulled'[p]
    BY DEF TypeOK
  <1>2. TypeOK'
    BY DEF TypeOK
  <1>3. HandlerFollows'
    BY <1>1 DEF TypeOK, HandlerFollows, Shown
  <1>4. \A x \in Evidence : SectionFollows(x)'
    BY <1>1 DEF TypeOK, SectionFollows, Shown
  <1> QED
    BY <1>2, <1>3, <1>4 DEF Shown

LEMMA AskStep ==
  ASSUME ReplayInv, NEW o \in Operations, Ask(o)
  PROVE  ReplayInv'
  <1> USE DEF ReplayInv, Ask
  <1>1. TypeOK'
    BY DEF TypeOK, NotApplicable, NoAnswer
  <1>2. HandlerFollows'
    BY DEF HandlerFollows, Shown
  <1>3. \A x \in Evidence : SectionFollows(x)'
    BY DEF SectionFollows, NotApplicable, Shown
  <1> QED
    BY <1>1, <1>2, <1>3 DEF Shown

\* A replay that is answered without evidence shows none.
LEMMA OperationStep ==
  ASSUME ReplayInv, OperationFails \/ OperationGarbled \/ OperationMissing
  PROVE  ReplayInv'
  <1> USE DEF ReplayInv, OperationFails, OperationGarbled, OperationMissing, Reply
  <1>1. PICK code \in {"pull_replay_unavailable", "invalid_pull_replay",
                       "pull_operation_not_found"} :
          stage = "operation" /\ stage' = "answered"
          /\ answer' = [code |-> code, partial |-> FALSE]
    OBVIOUS
  <1>2. TypeOK'
    BY <1>1 DEF TypeOK
  <1>3. HandlerFollows'
    BY <1>1 DEF HandlerFollows, Shown
  <1>4. \A x \in Evidence : SectionFollows(x)'
    BY <1>1 DEF SectionFollows, Shown
  <1> QED
    BY <1>1, <1>2, <1>3, <1>4 DEF Shown, HandlerFollows

LEMMA TakeOperationStep ==
  ASSUME ReplayInv, NEW o \in Operations, TakeOperation(o)
  PROVE  ReplayInv'
  <1> USE DEF ReplayInv, TakeOperation, Told, Reply, StartReading
  <1>1. reading = {} /\ workers = 0
    BY EvidenceIsTwo DEF HandlerFollows
  <1>2. TypeOK'
    <2>1. CASE o # asked
      <3>1. /\ stage' = "answered" /\ operation' = o
            /\ answer' = [code |-> "invalid_pull_replay", partial |-> FALSE]
            /\ UNCHANGED <<pulled, asked, before, reading, workers, section, failed>>
        BY <2>1
      <3> HIDE DEF TakeOperation, Told, Reply
      <3> QED
        BY <3>1 DEF TypeOK
    <2>2. CASE o = asked
      <3>1. reading' \subseteq Evidence /\ workers' \in 0 .. Cardinality(Evidence)
        BY EvidenceIsTwo, <1>1, <2>2
      <3> QED
        BY <2>2, <3>1 DEF TypeOK
    <2> QED
      BY <2>1, <2>2
  <1>3. HandlerFollows'
    BY EvidenceIsTwo, <1>1 DEF HandlerFollows, Shown
  <1>4. \A x \in Evidence : SectionFollows(x)'
    BY <1>1 DEF SectionFollows, HandlerFollows, NotApplicable, Shown
  <1> QED
    BY <1>2, <1>3, <1>4 DEF Shown

LEMMA ReadStep ==
  ASSUME ReplayInv, NEW x \in Evidence, NEW said \in Says(x), Read(x, said)
  PROVE  ReplayInv'
  <1> USE DEF ReplayInv, Read
  <1>1. SectionOf(said) \in {"not_found", "unavailable", "ok"}
    BY DEF SectionOf
  <1>2. workers' = Cardinality(reading') /\ workers' \in 0 .. Cardinality(Evidence)
    BY ReadingLeaves
  <1>3. TypeOK'
    BY <1>1, <1>2 DEF TypeOK
  <1>4. HandlerFollows'
    BY <1>2 DEF HandlerFollows, Shown
  <1>5. operation = asked /\ stage = "evidence"
    BY DEF HandlerFollows
  <1>6. /\ SectionOf(said) = "ok" => x \in pulled[asked]
        /\ SectionOf(said) = "not_found" => x \notin pulled[asked]
        /\ SectionOf(said) = "unavailable" <=> said \notin {"found", "404"}
    BY <1>5 DEF SectionOf, Says
  <1>7. SectionFollows(x)'
    <2>1. section'[x] = SectionOf(said)
      BY DEF TypeOK
    <2>2. x \notin failed
      BY DEF SectionFollows
    <2>3. x \in failed' <=> said \notin {"found", "404"}
      BY <2>2
    <2>4. x \notin pulled[asked] => x \notin before
      BY DEF HandlerFollows
    <2> QED
      BY <1>1, <1>6, <2>1, <2>3, <2>4 DEF SectionFollows
  <1>8. ASSUME NEW y \in Evidence, y # x
        PROVE  SectionFollows(y)'
    BY <1>5, <1>8 DEF TypeOK, SectionFollows, Shown
  <1> QED
    BY <1>3, <1>4, <1>5, <1>7, <1>8 DEF Shown

LEMMA AssembleStep ==
  ASSUME ReplayInv, Assemble
  PROVE  ReplayInv'
  <1> USE DEF ReplayInv, Assemble, Reply
  <1>1. reading = {}
    <2>1. reading \in SUBSET Evidence
      BY DEF TypeOK
    <2> QED
      BY <2>1, EvidenceIsTwo, FS_Subset, FS_EmptySet DEF HandlerFollows
  <1>2. TypeOK'
    BY DEF TypeOK
  <1>3. HandlerFollows'
    BY <1>1 DEF HandlerFollows, Shown
  <1>4. \A x \in Evidence : SectionFollows(x)'
    BY <1>1 DEF SectionFollows, Shown
  <1>5. (\E x \in Evidence : section[x] = "unavailable") <=> failed # {}
    BY DEF TypeOK, SectionFollows
  <1> QED
    BY <1>2, <1>3, <1>4, <1>5 DEF Shown

-----------------------------------------------------------------------------
(* The theorems.                                                           *)

\* The inductive invariant of the replay.
THEOREM ReplayInvariant == Spec => []ReplayInv
  <1>1. Init => ReplayInv
    BY InitInv
  <1>2. ASSUME ReplayInv, UNCHANGED vars
        PROVE  ReplayInv'
    BY <1>2 DEF ReplayInv, TypeOK, HandlerFollows, SectionFollows, Shown, vars
  <1>3. ReplayInv /\ [Next]_vars => ReplayInv'
    BY <1>2, ProgressStep, AskStep, OperationStep, TakeOperationStep, ReadStep, AssembleStep
    DEF Next
  <1> QED
    BY <1>1, <1>3, PTL DEF Spec

\* Evidence shown is of the operation asked for and held by its service.
THEOREM EvidenceBelongs == Spec => []EvidenceBelongsToOperation
  <1>1. ReplayInv => EvidenceBelongsToOperation
    BY DEF ReplayInv, HandlerFollows, SectionFollows, EvidenceBelongsToOperation
  <1> QED
    BY <1>1, ReplayInvariant, PTL

\* A failure is never shown as absence, and a replay is partial exactly when one
\* happened.
THEOREM ReplaysAreTruthful == Spec => []ReplayIsTruthful
  <1>1. ReplayInv => ReplayIsTruthful
    <2> SUFFICES ASSUME ReplayInv
                 PROVE  ReplayIsTruthful
      OBVIOUS
    <2>1. Shown => reading = {}
      BY DEF ReplayInv, HandlerFollows, Shown
    <2> QED
      BY <2>1 DEF ReplayInv, SectionFollows, ReplayIsTruthful
  <1> QED
    BY <1>1, ReplayInvariant, PTL
=============================================================================
