------------------------ MODULE PlayerSupport_proofs ------------------------
(***************************************************************************)
(* The player support page is assembled from every section, says           *)
(* truthfully whether it is partial and never closes its channel under a   *)
(* goroutine, for any finite set of sections.                              *)
(***************************************************************************)
EXTENDS PlayerSupport, FiniteSetTheorems, SequenceTheorems, TLAPS

Message == [name : Sections, section : SectionValues]

-----------------------------------------------------------------------------
(* The goroutines the WaitGroup counts.                                    *)

LEMMA WorkingFinite ==
  /\ IsFiniteSet(Working) /\ Cardinality(Working) \in 0 .. Cardinality(Sections)
  /\ Cardinality(Sections) \in Nat
  <1>1. Working \in SUBSET Sections
    BY DEF Working
  <1> QED
    BY <1>1, SectionsAssumption, FS_Subset, FS_CardinalityType DEF SectionsAssumption

\* The goroutine of a section goes on, before it is done.
LEMMA WorkingStay ==
  ASSUME TypeOK, NEW s \in Sections, worker[s] \in {"asking", "holding", "sent"},
         NEW w \in {"asking", "holding", "sent"}, worker' = [worker EXCEPT ![s] = w]
  PROVE  Working' = Working
  BY DEF Working, TypeOK

LEMMA WorkingLeaves ==
  ASSUME TypeOK, WaitGroupCounts, NEW s \in Sections, WorkerDone(s)
  PROVE  WaitGroupCounts' /\ pending' \in 0 .. Cardinality(Sections)
  <1>1. Working' = Working \ {s} /\ s \in Working
    BY DEF Working, TypeOK, WorkerDone
  <1>2. Cardinality(Working') = Cardinality(Working) - 1
    BY <1>1, WorkingFinite, FS_RemoveElement
  <1>3. Cardinality(Working) # 0
    BY <1>1, WorkingFinite, FS_EmptySet
  <1> QED
    BY <1>2, <1>3, WorkingFinite DEF WaitGroupCounts, WorkerDone

-----------------------------------------------------------------------------
(* The steps.                                                              *)

LEMMA InitInv ==
  ASSUME Init
  PROVE  PageInv
  <1> USE DEF Init
  <1>a. results \in Seq(Message) /\ pending \in 0 .. Cardinality(Sections)
    BY WorkingFinite, EmptySeq
  <1>b. Empty \in SectionValues
    BY DEF SectionValues
  <1>c. page \in [partial : BOOLEAN, sections : [Sections -> SectionValues]]
    BY <1>b DEF Blank
  <1>1. TypeOK
    BY <1>a, <1>b, <1>c DEF TypeOK, Message
  <1>2. Working = {}
    BY DEF Init, Working
  <1>3. WaitGroupCounts
    BY <1>2, FS_EmptySet DEF Init, WaitGroupCounts
  <1> QED
    BY <1>1, <1>3 DEF Init, PageInv, HandlerFollows, SectionFollows, SentIsKept, InChannel,
       Blank, Empty

LEMMA BeginStep ==
  ASSUME PageInv, Begin
  PROVE  PageInv'
  <1>1. Working' = Sections
    BY DEF Begin, Working
  <1>2. TypeOK' /\ WaitGroupCounts'
    BY <1>1, WorkingFinite DEF PageInv, TypeOK, WaitGroupCounts, Begin
  <1>3. HandlerFollows'
    BY DEF PageInv, TypeOK, HandlerFollows, Begin
  <1>4. \A s \in Sections : SectionFollows(s)' /\ SentIsKept(s)'
    BY DEF PageInv, HandlerFollows, SectionFollows, SentIsKept, InChannel, Begin, Told
  <1> QED
    BY <1>2, <1>3, <1>4 DEF PageInv, Begin

\* The goroutine of s makes a section of what it got.
LEMMA HoldStep ==
  ASSUME PageInv, NEW s \in Sections, worker[s] = "asking",
         NEW value \in SectionValues \ {Empty}, Hold(s, value),
         NEW a \in Responses \cup {Silence}, heard' = [heard EXCEPT ![s] = a],
         value.status = "unavailable" <=> ~Told(s)',
         UNCHANGED <<pending, results, closed, handler, page, gone>>
  PROVE  PageInv'
  <1> USE DEF PageInv, Hold
  <1>1. TypeOK'
    BY DEF TypeOK
  <1>2. WaitGroupCounts'
    BY WorkingStay DEF WaitGroupCounts
  <1>3. HandlerFollows'
    BY DEF TypeOK, HandlerFollows
  <1>4. ~InChannel(s) /\ page.sections[s] = Empty
    BY DEF SentIsKept
  <1>5. ASSUME NEW t \in Sections
        PROVE  SectionFollows(t)' /\ SentIsKept(t)'
    <2>1. CASE t = s
      BY <1>4, <2>1 DEF TypeOK, SectionFollows, SentIsKept, InChannel
    <2>2. CASE t # s
      BY <2>2 DEF TypeOK, SectionFollows, SentIsKept, InChannel, Told
    <2> QED
      BY <2>1, <2>2
  <1>6. \A i \in DOMAIN results : results[i].name \in Sections \ {s}
    <2>1. results \in Seq(Message)
      BY DEF TypeOK, Message
    <2>2. \A i \in DOMAIN results : results[i] \in Message
      BY <2>1, ElementOfSeq, LenProperties
    <2> QED
      BY <1>4, <2>2 DEF InChannel, Message
  <1>7. (\A i \in DOMAIN results : results[i].section = section[results[i].name])'
    BY <1>6 DEF TypeOK
  <1> QED
    BY <1>1, <1>2, <1>3, <1>5, <1>7

LEMMA NoRouteStep ==
  ASSUME PageInv, NEW s \in Sections, NoRoute(s) \/ Fails(s)
  PROVE  PageInv'
  <1>1. PICK c \in Codes : worker[s] = "asking" /\ Hold(s, Unavailable(c))
    BY DEF NoRoute, Fails, Codes
  <1>2. heard[s] = Silence /\ heard' = [heard EXCEPT ![s] = Silence]
    BY <1>1 DEF PageInv, SectionFollows, TypeOK, NoRoute, Fails
  <1>3. ~Told(s)'
    BY <1>2 DEF Told, Silence, PageInv, TypeOK
  <1>4. Unavailable(c) \in SectionValues \ {Empty} /\ Unavailable(c).status = "unavailable"
    BY DEF Unavailable, SectionValues, Empty
  <1>5. UNCHANGED <<pending, results, closed, handler, page, gone>>
    BY DEF NoRoute, Fails
  <1> QED
    BY <1>1, <1>2, <1>3, <1>4, <1>5, HoldStep

\* A section is unavailable exactly when its service did not tell what it can show.
LEMMA SectionOfTold ==
  ASSUME NEW s \in Sections, NEW a \in Responses
  PROVE  /\ SectionOf(s, a) \in SectionValues \ {Empty}
         /\ SectionOf(s, a).status = "unavailable" <=>
              ~ /\ a.read
                /\ \/ a.status = "2xx" /\ a.json
                   \/ a.status = "404" /\ s \in MayBeMissing
  BY DEF SectionOf, SectionValues, Responses, Unavailable, NotFound, Ok, Empty, Codes

LEMMA AnsweredStep ==
  ASSUME PageInv, NEW s \in Sections, NEW a \in Responses, Answered(s, a)
  PROVE  PageInv'
  <1>1. heard'[s] = a
    BY DEF Answered, PageInv, TypeOK
  <1>2. SectionOf(s, a) \in SectionValues \ {Empty}
        /\ (SectionOf(s, a).status = "unavailable" <=> ~Told(s)')
    BY <1>1, SectionOfTold DEF Told
  <1> QED
    BY <1>2, HoldStep DEF Answered

\* The section of s goes into the channel.
LEMMA SendStep ==
  ASSUME PageInv, NEW s \in Sections, Send(s)
  PROVE  PageInv'
  <1> DEFINE m == [name |-> s, section |-> section[s]]
  <1> USE DEF PageInv, Send
  <1>1. m \in Message /\ results \in Seq(Message)
    BY DEF TypeOK, Message
  <1>2. /\ results' \in Seq(Message) /\ results' # << >>
        /\ DOMAIN results = 1 .. Len(results)
        /\ DOMAIN results' = 1 .. (Len(results) + 1)
        /\ \A i \in 1 .. Len(results) : results'[i] = results[i]
        /\ results'[Len(results) + 1] = m
        /\ Len(results) \in Nat
    BY <1>1, AppendProperties, LenProperties
  <1> HIDE DEF m
  <1>m. m.name = s /\ m.section = section[s]
    BY DEF m
  <1>3. TypeOK'
    BY <1>2 DEF TypeOK, Message
  <1>4. WaitGroupCounts'
    BY WorkingStay DEF WaitGroupCounts
  <1>5. handler = "waiting" /\ ~closed
    BY DEF TypeOK, HandlerFollows
  <1>6. HandlerFollows'
    BY <1>5 DEF TypeOK, HandlerFollows
  <1>7. \A t \in Sections : InChannel(t)' <=> t = s \/ InChannel(t)
    <2> SUFFICES ASSUME NEW t \in Sections
                 PROVE  InChannel(t)' <=> t = s \/ InChannel(t)
      OBVIOUS
    <2>1. t = s => InChannel(t)'
      BY <1>2, <1>m DEF InChannel
    <2>2. InChannel(t) => InChannel(t)'
      BY <1>2 DEF InChannel
    <2>3. InChannel(t)' => t = s \/ InChannel(t)
      BY <1>2, <1>m DEF InChannel
    <2> QED
      BY <2>1, <2>2, <2>3
  <1>8. \A t \in Sections : SectionFollows(t)' /\ SentIsKept(t)'
    BY <1>7 DEF TypeOK, SectionFollows, SentIsKept, Told
  <1>9. (\A i \in DOMAIN results : results[i].section = section[results[i].name])'
    BY <1>2, <1>m
  <1> QED
    BY <1>3, <1>4, <1>6, <1>8, <1>9

LEMMA WorkerDoneStep ==
  ASSUME PageInv, NEW s \in Sections, WorkerDone(s)
  PROVE  PageInv'
  <1> USE DEF PageInv
  <1>1. WaitGroupCounts' /\ TypeOK'
    BY WorkingLeaves DEF WorkerDone, TypeOK
  <1>2. HandlerFollows'
    BY DEF TypeOK, HandlerFollows, WorkerDone
  <1>3. \A t \in Sections : SectionFollows(t)' /\ SentIsKept(t)'
    BY DEF TypeOK, SectionFollows, SentIsKept, InChannel, Told, WorkerDone
  <1> QED
    BY <1>1, <1>2, <1>3 DEF WorkerDone

\* No goroutine is left when Wait returns, because all of them were counted.
LEMMA WaitReturnsStep ==
  ASSUME PageInv, WaitReturns
  PROVE  PageInv'
  <1> USE DEF PageInv, WaitReturns
  <1>1. Working = {}
    BY WorkingFinite, FS_EmptySet DEF WaitGroupCounts
  <1>2. \A s \in Sections : worker[s] = "done"
    BY <1>1 DEF Working, TypeOK, HandlerFollows
  <1>3. TypeOK' /\ WaitGroupCounts'
    BY DEF TypeOK, WaitGroupCounts, Working
  <1>4. HandlerFollows'
    BY <1>2 DEF HandlerFollows
  <1>5. \A s \in Sections : SectionFollows(s)' /\ SentIsKept(s)'
    BY DEF SectionFollows, SentIsKept, InChannel, Told
  <1> QED
    BY <1>3, <1>4, <1>5

\* The head of the channel goes onto the page.
LEMMA CollectStep ==
  ASSUME PageInv, Collect
  PROVE  PageInv'
  <1> DEFINE m == Head(results)
  <1> USE DEF PageInv, Collect
  <1>1. results \in Seq(Message)
    BY DEF TypeOK, Message
  <1>2. /\ results' \in Seq(Message) /\ m \in Message /\ m = results[1]
        /\ Len(results) \in Nat \ {0}
        /\ DOMAIN results = 1 .. Len(results)
        /\ DOMAIN results' = 1 .. (Len(results) - 1)
        /\ \A i \in DOMAIN results' : results'[i] = results[i + 1]
    BY <1>1, HeadTailProperties, LenProperties, EmptySeq
  <1>3. PICK s \in Sections : s = m.name /\ m.section = section[s] /\ InChannel(s)
    BY <1>2 DEF Message, InChannel
  <1>4. /\ page' = [page EXCEPT !.partial = @ \/ section[s].status = "unavailable",
                                !.sections[s] = section[s]]
    BY <1>3
  <1> HIDE DEF m
  <1>5. page'.sections = [page.sections EXCEPT ![s] = section[s]]
        /\ page'.partial = (page.partial \/ section[s].status = "unavailable")
    BY <1>4 DEF TypeOK
  <1>6. TypeOK'
    <2> DEFINE partial == page.partial \/ section[s].status = "unavailable"
               sections == [page.sections EXCEPT ![s] = section[s]]
    <2>1. partial \in BOOLEAN /\ sections \in [Sections -> SectionValues]
      BY DEF TypeOK
    <2>3. page' = [partial |-> partial, sections |-> sections]
      BY <1>4 DEF TypeOK
    <2>2. page' \in [partial : BOOLEAN, sections : [Sections -> SectionValues]]
      <3> HIDE DEF partial, sections
      <3> QED
        BY <2>1, <2>3
    <2> QED
      BY <1>2, <2>2 DEF TypeOK, Message
  <1>7. WaitGroupCounts' /\ HandlerFollows'
    BY DEF WaitGroupCounts, Working, HandlerFollows
  <1>8. \A t \in Sections :
          /\ InChannel(t)' => InChannel(t)
          /\ InChannel(t) => t = s \/ InChannel(t)'
    <2> SUFFICES ASSUME NEW t \in Sections
                 PROVE  /\ InChannel(t)' => InChannel(t)
                        /\ InChannel(t) => t = s \/ InChannel(t)'
      OBVIOUS
    <2>1. InChannel(t)' => InChannel(t)
      BY <1>2 DEF InChannel
    <2>2. ASSUME InChannel(t), t # s
          PROVE  InChannel(t)'
      <3>1. PICK i \in DOMAIN results : results[i].name = t
        BY <2>2 DEF InChannel
      <3>2. i # 1
        BY <1>2, <1>3, <2>2, <3>1
      <3>3. i - 1 \in DOMAIN results' /\ results'[i - 1] = results[i]
        BY <1>2, <3>2
      <3> QED
        BY <3>1, <3>3 DEF InChannel
    <2> QED
      BY <2>1, <2>2
  <1>9. \A t \in Sections : SectionFollows(t)' /\ SentIsKept(t)'
    BY <1>3, <1>5, <1>8 DEF TypeOK, SectionFollows, SentIsKept, Told
  <1>10. (\A i \in DOMAIN results : results[i].section = section[results[i].name])'
    BY <1>2
  <1>11. (page.partial <=> \E t \in Sections : page.sections[t].status = "unavailable")'
    <2>1. \A t \in Sections : t # s => page'.sections[t] = page.sections[t]
      BY <1>5 DEF TypeOK
    <2>2. page'.sections[s] = section[s]
      BY <1>5 DEF TypeOK
    <2>3. page.sections[s].status = "unavailable" => section[s].status = "unavailable"
      BY DEF SentIsKept, Empty
    <2> QED
      BY <1>5, <2>1, <2>2, <2>3
  <1> QED
    BY <1>6, <1>7, <1>9, <1>10, <1>11

LEMMA FinishStep ==
  ASSUME PageInv, Finish \/ Disconnect \/ UNCHANGED vars
  PROVE  PageInv'
  <1> USE DEF PageInv, vars
  <1>1. TypeOK' /\ WaitGroupCounts'
    BY DEF TypeOK, WaitGroupCounts, Working, Finish, Disconnect
  <1>2. HandlerFollows'
    BY DEF HandlerFollows, Finish, Disconnect
  <1>3. \A s \in Sections : SectionFollows(s)' /\ SentIsKept(s)'
    BY DEF SectionFollows, SentIsKept, InChannel, Told, Finish, Disconnect
  <1> QED
    BY <1>1, <1>2, <1>3 DEF Finish, Disconnect

LEMMA AgainStep ==
  ASSUME PageInv, Again
  PROVE  PageInv'
  <1> USE DEF PageInv, Again
  <1>1. results = << >> /\ Working = {} /\ Working' = {}
    BY DEF HandlerFollows, Working
  <1>2. TypeOK' /\ WaitGroupCounts'
    BY <1>1 DEF TypeOK, WaitGroupCounts, SectionValues, Blank
  <1> QED
    BY <1>1, <1>2 DEF HandlerFollows, SectionFollows, SentIsKept, InChannel, Blank, Empty

-----------------------------------------------------------------------------
(* The theorems.                                                           *)

\* The inductive invariant of the page, for any finite set of sections.
THEOREM PageInvariant == Spec => []PageInv
  <1>1. Init => PageInv
    BY InitInv
  <1>2. PageInv /\ [Next]_vars => PageInv'
    BY BeginStep, WaitReturnsStep, CollectStep, FinishStep, AgainStep, NoRouteStep,
       AnsweredStep, SendStep, WorkerDoneStep DEF Next, Work
  <1> QED
    BY <1>1, <1>2, PTL DEF Spec

\* No goroutine can send on the closed channel, which would end the process.
THEOREM ChannelClosesLast == Spec => []NeverSendsOnClosed
  <1>1. PageInv => NeverSendsOnClosed
    BY DEF PageInv, HandlerFollows, NeverSendsOnClosed
  <1> QED
    BY <1>1, PageInvariant, PTL

\* A finished page lacks no section and mixes up none.
THEOREM PagesAreComplete == Spec => []PageIsComplete
  <1>1. PageInv => PageIsComplete
    BY DEF PageInv, HandlerFollows, SectionFollows, SentIsKept, InChannel, PageIsComplete
  <1> QED
    BY <1>1, PageInvariant, PTL

\* A finished page is marked partial exactly when a service told nothing it can show.
THEOREM PartialMarksAreTruthful == Spec => []PartialIsTruthful
  <1>1. PageInv => PartialIsTruthful
    BY DEF PageInv, HandlerFollows, SectionFollows, SentIsKept, InChannel, PartialIsTruthful
  <1> QED
    BY <1>1, PageInvariant, PTL
=============================================================================
