--------------------------- MODULE Passage_proofs ---------------------------
(***************************************************************************)
(* What the gateway forwards, answers and logs of any exchange: the        *)
(* upstream hears who calls from the gateway alone, one request id follows *)
(* a call, a request passes whole or not at all, and only a call whose row *)
(* the table cannot hold is refused for it.                                *)
(***************************************************************************)
EXTENDS Passage, OrderLemmas, SequenceTheorems, TLAPS

-----------------------------------------------------------------------------
(* Headers.                                                                *)

LEMMA OwnHeadersId ==
  /\ OwnHeaders["X-Request-Id"] = <<"gateway id">>
  /\ Get(OwnHeaders, "X-Request-Id") = "gateway id"
  <1>1. OwnHeaders["X-Request-Id"] = <<"gateway id">>
    BY DEF OwnHeaders, Set, NoHeaders, Names, Trusted
  <1>2. Get(OwnHeaders, "X-Request-Id") = "gateway id"
    BY DEF Get, OwnHeaders, Set, NoHeaders, Names, Trusted
  <1> QED
    BY <1>1, <1>2

\* A value that is added goes behind the one that is there.
LEMMA HeadStays ==
  ASSUME NEW S, NEW t \in Seq(S), NEW v
  PROVE  <<v>> \o t # <<>> /\ Head(<<v>> \o t) = v
  <1> DEFINE T == S \cup {v}
  <1>1. t \in Seq(T)
    <2>1. \A i \in 1 .. Len(t) : t[i] \in T
      BY ElementOfSeq
    <2>2. t \in [1 .. Len(t) -> T] /\ Len(t) \in Nat
      BY <2>1, LenProperties
    <2> QED
      BY <2>2
  <1>2. <<v>> \in Seq(T) /\ Len(<<v>>) = 1 /\ <<v>>[1] = v
    OBVIOUS
  <1> HIDE DEF T
  <1>3. Len(t) \in Nat
    BY LenProperties
  <1>4. /\ <<v>> \o t \in Seq(T) /\ Len(<<v>> \o t) = 1 + Len(t)
        /\ (<<v>> \o t)[1] = <<v>>[1]
    BY <1>1, <1>2, <1>3, ConcatProperties
  <1> QED
    BY <1>2, <1>3, <1>4

\* A header of the response is added behind the gateway's own.
LEMMA ReplyKeepsId ==
  ASSUME NEW h \in [Names -> Seq(STRING)]
  PROVE  /\ ReplyHeaders(OwnHeaders, h)["X-Request-Id"] = <<"gateway id">> \o h["X-Request-Id"]
         /\ Get(ReplyHeaders(OwnHeaders, h), "X-Request-Id") = "gateway id"
  <1> DEFINE theirs == h["X-Request-Id"]
             both == ReplyHeaders(OwnHeaders, h)["X-Request-Id"]
  <1>1. "X-Request-Id" \in Names
    BY DEF Names, Trusted
  <1>2. OwnHeaders["X-Request-Id"] = <<"gateway id">>
    BY <1>1 DEF OwnHeaders, Set, NoHeaders
  <1>3. theirs \in Seq(STRING)
    BY <1>1
  <1>4. both = <<"gateway id">> \o theirs
    BY <1>1, <1>2 DEF ReplyHeaders, AddAll, DroppedFromResponse, HopByHop
  <1>5. both # <<>> /\ Head(both) = "gateway id"
    <2> HIDE DEF theirs, both
    <2> QED
      BY <1>3, <1>4, HeadStays
  <1> QED
    BY <1>4, <1>5 DEF Get

\* Every trusted header of a forwarded call is the gateway's, the credentials and the
\* headers of the connection are gone and the rest is the client's.
ForwardedFrom(h, user, f) ==
  /\ f["X-Internal-Token"] = <<"internal token">>
  /\ f["X-User-Id"] = <<user>>
  /\ f["X-Request-Id"] = <<"gateway id">>
  /\ f["X-Request-Accepted-At"] = <<"now">>
  /\ f["X-Forwarded-For"] = <<ForwardedFor(h, "peer")>>
  /\ f["X-Forwarded-Host"] = <<"request host">>
  /\ f["X-Forwarded-Proto"] = <<"http">>
  /\ \A n \in HopByHop \cup {"Authorization", "Cookie"} : f[n] = <<>>
  /\ \A n \in Names \ (HopByHop \cup Trusted \cup {"Authorization", "Cookie"}) : f[n] = h[n]

LEMMA ForwardedHeaders ==
  ASSUME NEW h \in [Names -> Seq(STRING)], NEW user
  PROVE  ForwardedFrom(h, user,
                       ForwardHeaders(h, user, "gateway id", "internal token", "peer"))
  <1> DEFINE copied == AddAll(NoHeaders, h, DroppedFromRequest)
             f == ForwardHeaders(h, user, "gateway id", "internal token", "peer")
  <1>1. \A n \in Names : copied[n] = IF n \in DroppedFromRequest THEN <<>> ELSE h[n]
    <2> SUFFICES ASSUME NEW n \in Names
                 PROVE  copied[n] = IF n \in DroppedFromRequest THEN <<>> ELSE h[n]
      OBVIOUS
    <2>1. h[n] \in Seq(STRING)
      OBVIOUS
    <2>2. <<>> \o h[n] = h[n]
      BY <2>1, ConcatEmptySeq
    <2> QED
      BY <2>2 DEF AddAll, NoHeaders
  <1>2. ForwardedFrom(h, user, f)
    BY <1>1 DEF ForwardedFrom, ForwardHeaders, SetForwardedHeaders, Set, Names, Trusted,
       HopByHop, DroppedFromRequest, AddAll
  <1> QED
    BY <1>2

LEMMA PeerEndsTheChain ==
  ASSUME NEW h, NEW peer
  PROVE  Last(ForwardedFor(h, peer)) = peer
  BY DEF ForwardedFor, Last

-----------------------------------------------------------------------------
(* Bodies.                                                                 *)

LEMMA CutIsPrefix ==
  ASSUME NEW b \in Seq(Bytes), NEW n \in Nat
  PROVE  /\ Cut(b, n) \in Seq(Bytes) /\ Len(Cut(b, n)) = Min2(n, Len(b))
         /\ \A i \in 1 .. Len(Cut(b, n)) : Cut(b, n)[i] = b[i]
         /\ Range(Cut(b, n)) \subseteq Range(b)
         /\ Len(b) <= n => Cut(b, n) = b
  <1> DEFINE k == Min2(n, Len(b))
  <1>1. Len(b) \in Nat /\ DOMAIN b = 1 .. Len(b) /\ \A i \in 1 .. Len(b) : b[i] \in Bytes
    BY LenProperties, ElementOfSeq
  <1>2. k \in 0 .. Len(b) /\ (Len(b) <= n => k = Len(b))
    <2> DEFINE len == Len(b)
    <2>1. len \in Nat
      BY <1>1
    <2> HIDE DEF len
    <2>2. Min2(n, len) \in 0 .. len /\ (len <= n => Min2(n, len) = len)
      BY <2>1 DEF Min2
    <2> QED
      BY <2>2 DEF len
  <1> HIDE DEF k
  <1>3. /\ SubSeq(b, 1, k) \in Seq(Bytes) /\ Len(SubSeq(b, 1, k)) = k
        /\ \A i \in 1 .. k : SubSeq(b, 1, k)[i] = b[i]
    <2>1. k \in Nat /\ \A i \in 1 .. k : b[i] \in Bytes
      <3> DEFINE len == Len(b)
      <3>1. len \in Nat /\ k \in 0 .. len /\ \A i \in 1 .. len : b[i] \in Bytes
        BY <1>1, <1>2
      <3> HIDE DEF len
      <3> QED
        BY <3>1
    <2>2. /\ SubSeq(b, 1, k) \in Seq(Bytes)
          /\ Len(SubSeq(b, 1, k)) = IF 1 <= k THEN k - 1 + 1 ELSE 0
          /\ \A i \in 1 .. k - 1 + 1 : SubSeq(b, 1, k)[i] = b[1 + i - 1]
      <3>1. 1 \in Int /\ k \in Int
        BY <2>1
      <3> QED
        BY <2>1, <3>1, SubSeqProperties
    <2>3. k - 1 + 1 = k /\ (IF 1 <= k THEN k - 1 + 1 ELSE 0) = k
      BY <2>1
    <2>4. \A i \in 1 .. k : 1 + i - 1 = i
      BY <2>1
    <2> QED
      BY <2>2, <2>3, <2>4
  <1>4. Cut(b, n) = SubSeq(b, 1, k)
    BY DEF Cut, k
  <1>5. Range(Cut(b, n)) \subseteq Range(b)
    <2>1. DOMAIN Cut(b, n) = 1 .. k
      BY <1>3, <1>4, LenProperties
    <2>2. \A i \in 1 .. k : i \in DOMAIN b /\ Cut(b, n)[i] = b[i]
      <3> SUFFICES ASSUME NEW i \in 1 .. k
                   PROVE  i \in DOMAIN b /\ Cut(b, n)[i] = b[i]
        OBVIOUS
      <3>1. i \in 1 .. Len(b)
        <4> DEFINE len == Len(b)
        <4>1. len \in Nat /\ k \in 0 .. len
          BY <1>1, <1>2
        <4> HIDE DEF len
        <4>2. i \in 1 .. len
          BY <4>1
        <4> QED
          BY <4>2 DEF len
      <3> QED
        BY <1>1, <1>3, <1>4, <3>1
    <2> QED
      BY <2>1, <2>2 DEF Range
  <1>6. Len(b) <= n => Cut(b, n) = b
    BY <1>2, <1>3, <1>4, SeqEqual
  <1> QED
    BY <1>2, <1>3, <1>4, <1>5, <1>6 DEF k

\* What is kept of a body is its start, and less than all of it exactly when it is
\* longer than the limit.
LEMMA CutIsStart ==
  ASSUME NEW b \in Seq(Bytes), NEW n \in Nat
  PROVE  IsPrefix(Cut(b, n), b) /\ (Cut(b, n) # b <=> Len(b) > n)
  <1> DEFINE p == Cut(b, n)
             k == Len(p)
             len == Len(b)
  <1>1. p \in Seq(Bytes) /\ k = Min2(n, len) /\ \A i \in 1 .. k : p[i] = b[i]
    BY CutIsPrefix
  <1>2. len \in Nat /\ k \in Nat /\ \A i \in 1 .. len : b[i] \in Bytes
    BY <1>1, LenProperties, ElementOfSeq
  <1> HIDE DEF p, k, len
  <1>3. k \in 0 .. len /\ (k # len <=> len > n)
    BY <1>1, <1>2 DEF Min2
  <1>4. SubSeq(p, 1, k) = p
    BY <1>1 DEF k
  <1>5. SubSeq(b, 1, k) = p
    <2>1. k - 1 + 1 = k /\ (IF 1 <= k THEN k - 1 + 1 ELSE 0) = k /\ 1 \in Int /\ k \in Int
      BY <1>2
    <2>2. \A i \in 1 .. k : b[i] \in Bytes
      BY <1>1, <1>2, <1>3
    <2>3. /\ SubSeq(b, 1, k) \in Seq(Bytes)
          /\ Len(SubSeq(b, 1, k)) = IF 1 <= k THEN k - 1 + 1 ELSE 0
          /\ \A i \in 1 .. k - 1 + 1 : SubSeq(b, 1, k)[i] = b[1 + i - 1]
      BY <2>1, <2>2, SubSeqProperties
    <2>4. \A i \in 1 .. k : 1 + i - 1 = i
      BY <1>2
    <2>5. Len(SubSeq(b, 1, k)) = Len(p) /\ \A i \in 1 .. k : SubSeq(b, 1, k)[i] = p[i]
      BY <1>1, <2>1, <2>3, <2>4 DEF k
    <2> QED
      BY <1>1, <2>3, <2>5, SeqEqual DEF k
  <1>6. p # b <=> k # len
    <2>1. k = len => p = b
      BY <1>1, SeqEqual DEF k, len
    <2> QED
      BY <2>1 DEF k, len
  <1>7. Len(p) <= Len(b)
    BY <1>2, <1>3 DEF k, len
  <1> QED
    BY <1>3, <1>4, <1>5, <1>6, <1>7 DEF IsPrefix, p, k, len

\* A body of which some is kept is recorded as it is.
LEMMA KeptIsHonest ==
  ASSUME NEW b \in Seq(Bytes), NEW n \in Nat, NEW json \in BOOLEAN, NEW truncated, NEW size,
         truncated <=> Len(b) > n
  PROVE  IsHonest(NewAuditBody(Cut(b, n), json, truncated, size), b, json)
  <1> DEFINE r == NewAuditBody(Cut(b, n), json, truncated, size)
  <1>1. r.bytes = Cut(b, n) /\ r.truncated = truncated /\ (r.json => json /\ ~truncated)
    BY DEF NewAuditBody
  <1> HIDE DEF r
  <1>2. IsPrefix(r.bytes, b) /\ (r.bytes # b <=> Len(b) > n)
    BY <1>1, CutIsStart
  <1> QED
    BY <1>1, <1>2 DEF IsHonest, r

\* Two cuts in a row are one, the shorter.
LEMMA CutTwice ==
  ASSUME NEW b \in Seq(Bytes), NEW m \in Nat, NEW n \in Nat
  PROVE  Cut(Cut(b, m), n) = Cut(b, Min2(n, m))
  <1> DEFINE one == Cut(b, m)
             two == Cut(one, n)
             k == Min2(n, m)
             short == Cut(b, k)
             len == Len(b)
  <1>1. k \in Nat /\ len \in Nat
    BY LenProperties DEF Min2
  <1>2. one \in Seq(Bytes) /\ Len(one) = Min2(m, len) /\ \A i \in 1 .. Len(one) : one[i] = b[i]
    BY CutIsPrefix
  <1>3. /\ two \in Seq(Bytes) /\ Len(two) = Min2(n, Len(one))
        /\ \A i \in 1 .. Len(two) : two[i] = one[i]
    BY <1>2, CutIsPrefix
  <1>4. /\ short \in Seq(Bytes) /\ Len(short) = Min2(k, len)
        /\ \A i \in 1 .. Len(short) : short[i] = b[i]
    BY <1>1, CutIsPrefix
  <1> HIDE DEF one, two, short, len
  <1>5. Min2(n, Min2(m, len)) = Min2(k, len) /\ Min2(k, len) <= Min2(m, len) /\ Min2(m, len) \in Nat
        /\ Min2(k, len) \in Nat
    BY <1>1 DEF Min2
  <1>6. Len(two) = Len(short) /\ Len(two) <= Len(one) /\ Len(one) \in Nat /\ Len(two) \in Nat
    BY <1>2, <1>3, <1>4, <1>5
  <1>7. \A i \in 1 .. Len(two) : two[i] = short[i]
    <2> DEFINE l == Len(two)
               r == Len(one)
    <2>1. \A i \in 1 .. l : i \in 1 .. r
      <3> HIDE DEF l, r
      <3> QED
        BY <1>6 DEF l, r
    <2> QED
      BY <1>2, <1>3, <1>4, <1>6, <2>1
  <1> QED
    BY <1>3, <1>4, <1>6, <1>7, SeqEqual DEF one, two, short, k

\* The request is read up to one byte too many, passed up to the one limit and recorded
\* up to the other: the record says of all three what is missing.
LEMMA RequestRecorded ==
  ASSUME NEW b \in Seq(Bytes), NEW json \in BOOLEAN, NEW n \in Nat,
         MaxBodyBytes < MaxInt, MaxBodyBytes \in Nat, MaxInt \in Nat
  PROVE  LET r == Recorded(ReadRequest(b).body, json, ReadRequest(b).size, n) IN
         /\ IsHonest(r, b, json)
         /\ ~ReadRequest(b).tooLarge => r.size = Len(b)
  <1> DEFINE max == MaxBodyBytes
             len == Len(b)
             read == Cut(b, max + 1)
             body == Cut(read, max)
             kept == Cut(body, n)
             size == Len(read)
             k == Min2(n, max)
             truncated == Len(body) > n \/ size > Len(kept)
             r == NewAuditBody(kept, json, truncated, size)
  <1>1. ReadRequest(b) = [body |-> body, size |-> size, tooLarge |-> size > max]
    BY DEF ReadRequest, Limited, Plus1
  <1>2. Recorded(ReadRequest(b).body, json, ReadRequest(b).size, n) = r
    <2>1. ReadRequest(b).body = body /\ ReadRequest(b).size = size
      BY <1>1
    <2> HIDE DEF body, size
    <2> QED
      BY <2>1 DEF Recorded
  <1>3. len \in Nat /\ k \in Nat /\ max + 1 \in Nat /\ Min2(max, max + 1) = max
    BY LenProperties DEF Min2
  <1>4. body = Cut(b, max) /\ kept = Cut(b, k)
    <2>1. body = Cut(b, max)
      BY <1>3, CutTwice
    <2> QED
      BY <2>1, CutTwice
  <1>5. /\ size = Min2(max + 1, len) /\ Len(body) = Min2(max, len) /\ Len(kept) = Min2(k, len)
    <2>1. Len(Cut(b, max + 1)) = Min2(max + 1, len)
      BY <1>3, CutIsPrefix
    <2>2. Len(Cut(b, max)) = Min2(max, len)
      BY CutIsPrefix
    <2>3. Len(Cut(b, k)) = Min2(k, len)
      BY <1>3, CutIsPrefix
    <2> QED
      BY <1>4, <2>1, <2>2, <2>3
  <1>6. truncated <=> len > k
    <2> HIDE DEF len, size, body, kept
    <2> QED
      BY <1>3, <1>5 DEF Min2
  <1>7. IsHonest(r, b, json)
    <2> HIDE DEF truncated, size, k, kept
    <2> QED
      BY <1>3, <1>4, <1>6, KeptIsHonest
  <1>8. ~ReadRequest(b).tooLarge => r.size = len
    <2>1. r.size = size
      BY DEF NewAuditBody
    <2>2. ReadRequest(b).tooLarge <=> size > max
      <3>1. ReadRequest(b).tooLarge = (size > max)
        BY <1>1
      <3> HIDE DEF size, max
      <3> QED
        BY <3>1, Zenon
    <2>3. ~(size > max) => size = len
      <3> HIDE DEF size, len
      <3> QED
        BY <1>3, <1>5 DEF Min2
    <2> QED
      BY <2>1, <2>2, <2>3
  <1> QED
    BY <1>2, <1>7, <1>8

\* The record of a request has every header but the credentials.
LEMMA RecordedHeaders ==
  ASSUME NEW h \in [Names -> Seq(STRING)]
  PROVE  Present(Sanitized(h, DroppedFromRequestRecord)) = Present(h) \ Credentials
  <1>1. \A n \in Names : <<>> \o h[n] = h[n]
    BY ConcatEmptySeq
  <1>2. \A n \in Names : Sanitized(h, DroppedFromRequestRecord)[n]
                           = IF n \in DroppedFromRequestRecord THEN <<>> ELSE h[n]
    BY <1>1 DEF Sanitized, AddAll, NoHeaders
  <1>3. DroppedFromRequestRecord = Credentials
    BY DEF DroppedFromRequestRecord, Credentials
  <1> QED
    BY <1>2, <1>3 DEF Present

\* A request that is not refused for its size was read whole: one byte more than the
\* limit is asked for.
LEMMA RequestWhole ==
  ASSUME NEW b \in Seq(Bytes), MaxBodyBytes < MaxInt, MaxBodyBytes \in Nat, MaxInt \in Nat
  PROVE  ~ReadRequest(b).tooLarge =>
           ReadRequest(b).body = b /\ Len(b) <= MaxBodyBytes
  <1>1. Plus1(MaxBodyBytes) = MaxBodyBytes + 1
    BY DEF Plus1
  <1>2. Limited(b, Plus1(MaxBodyBytes)) = Cut(b, MaxBodyBytes + 1)
    BY <1>1 DEF Limited
  <1>3. Len(b) \in Nat
    BY LenProperties
  <1>4. ~ReadRequest(b).tooLarge => Len(Cut(b, MaxBodyBytes + 1)) <= MaxBodyBytes
    <2>1. Len(Cut(b, MaxBodyBytes + 1)) \in Nat
      BY CutIsPrefix, LenProperties
    <2>2. ReadRequest(b).tooLarge <=> (Len(Cut(b, MaxBodyBytes + 1)) > MaxBodyBytes)
      BY <1>2 DEF ReadRequest
    <2> DEFINE size == Len(Cut(b, MaxBodyBytes + 1))
    <2> HIDE DEF size
    <2>3. ~(size > MaxBodyBytes) => size <= MaxBodyBytes
      BY <2>1 DEF size
    <2> QED
      BY <2>2, <2>3 DEF size
  <1>5. ~ReadRequest(b).tooLarge => Len(b) <= MaxBodyBytes
    BY <1>3, <1>4, CutIsPrefix DEF Min2
  <1>6. Len(b) <= MaxBodyBytes => Cut(b, MaxBodyBytes + 1) = b /\ Cut(b, MaxBodyBytes) = b
    BY <1>3, CutIsPrefix
  <1> QED
    BY <1>2, <1>5, <1>6 DEF ReadRequest

\* What is kept of a body is not longer than the body.
LEMMA CutIsShorter ==
  ASSUME NEW b \in Seq(Bytes), NEW n \in Nat
  PROVE  Len(Cut(b, n)) \in Nat /\ Len(b) \in Nat /\ Len(Cut(b, n)) <= Len(b)
  <1> DEFINE len == Len(b)
  <1>1. len \in Nat /\ Len(Cut(b, n)) = Min2(n, len)
    BY CutIsPrefix, LenProperties
  <1> HIDE DEF len
  <1>2. Min2(n, len) \in Nat /\ Min2(n, len) <= len
    BY <1>1 DEF Min2
  <1> QED
    BY <1>1, <1>2 DEF len

\* What the table refuses of the body of a request.
LEMMA UnstorableBody ==
  ASSUME NEW x, IsExchange(x), limit \in Nat, ~Storable(RequestRecord(x).body),
         MaxBodyBytes \in Nat, MaxInt \in Nat
  PROVE  \/ x.broken \/ "0" \in Range(x.bytes) \/ (x.json /\ "u" \in Range(x.bytes))
         \/ Len(x.bytes) > MaxSize \/ \E e \in DOMAIN MaxText : Len(x.bytes) > MaxText[e]
  <1> SUFFICES ASSUME ~x.broken, Len(x.bytes) <= MaxSize,
                      \A e \in DOMAIN MaxText : Len(x.bytes) <= MaxText[e]
               PROVE  "0" \in Range(x.bytes) \/ (x.json /\ "u" \in Range(x.bytes))
    <2> DEFINE len == Len(x.bytes)
    <2>1. len \in Nat
      BY LenProperties DEF IsExchange
    <2>2. MaxSize \in Nat /\ \A e \in DOMAIN MaxText : MaxText[e] \in Nat
      BY LimitAssumption DEF LimitAssumption
    <2> HIDE DEF len
    <2>3. ~(len > MaxSize) => len <= MaxSize
      BY <2>1, <2>2
    <2>4. \A e \in DOMAIN MaxText : ~(len > MaxText[e]) => len <= MaxText[e]
      BY <2>1, <2>2
    <2> QED
      BY <2>3, <2>4 DEF IsExchange, len
  <1> DEFINE n == Plus1(MaxBodyBytes)
             m == IF n < 0 THEN 0 ELSE n
             read == Cut(x.bytes, m)
             body == Cut(read, MaxBodyBytes)
             kept == Cut(body, limit)
             r == RequestRecord(x).body
  <1>1. n \in Int /\ m \in Nat
    BY DEF Plus1
  <1>2. x.bytes \in Seq(Bytes)
    BY DEF IsExchange
  <1>3. read \in Seq(Bytes) /\ Range(read) \subseteq Range(x.bytes)
    BY <1>1, <1>2, CutIsPrefix
  <1>4. body \in Seq(Bytes) /\ Range(body) \subseteq Range(read)
    BY <1>3, CutIsPrefix
  <1>5. Range(kept) \subseteq Range(body)
    BY <1>4, CutIsPrefix
  <1>6. /\ r = Recorded(ReadRequest(x.bytes).body, x.json, ReadRequest(x.bytes).size, limit)
        /\ ReadRequest(x.bytes).body = body /\ ReadRequest(x.bytes).size = Len(read)
    BY DEF RequestRecord, ReadRequest, Limited
  <1>7. Len(read) <= Len(x.bytes) /\ Len(kept) <= Len(x.bytes)
    <2> DEFINE l0 == Len(x.bytes)
               l1 == Len(read)
               l2 == Len(body)
               l3 == Len(kept)
    <2>1. l1 \in Nat /\ l0 \in Nat /\ l1 <= l0
      BY <1>1, <1>2, CutIsShorter
    <2>2. l2 \in Nat /\ l2 <= l1
      BY <1>3, CutIsShorter
    <2>3. l3 \in Nat /\ l3 <= l2
      BY <1>4, CutIsShorter
    <2> HIDE DEF l0, l1, l2, l3
    <2>4. l1 <= l0 /\ l3 <= l0
      BY <2>1, <2>2, <2>3
    <2> QED
      BY <2>4 DEF l0, l1, l3
  <1> HIDE DEF n, m, read, body, kept, r
  <1>8. /\ r.bytes = kept /\ r.size = Len(read) /\ (r.json => x.json)
        /\ r.encoding \in {"utf8", "base64"}
    <2>1. \E truncated : r = NewAuditBody(kept, x.json, truncated, Len(read))
      BY <1>6 DEF Recorded, kept
    <2>2. PICK truncated : r = NewAuditBody(kept, x.json, truncated, Len(read))
      BY <2>1
    <2> DEFINE d == NewAuditBody(kept, x.json, truncated, Len(read))
    <2>3. d.bytes = kept /\ d.size = Len(read) /\ d.encoding \in {"utf8", "base64"}
      BY DEF NewAuditBody
    <2>4. d.json => x.json
      BY DEF NewAuditBody
    <2> HIDE DEF d
    <2> QED
      BY <2>2, <2>3, <2>4 DEF d
  <1>9. Len(r.bytes) <= MaxText[r.encoding] /\ r.size <= MaxSize
    <2>1. MaxSize \in Nat /\ MaxText \in [{"utf8", "base64"} -> Nat]
      BY LimitAssumption DEF LimitAssumption
    <2>2. \A a, b, c \in Nat : a <= b /\ b <= c => a <= c
      OBVIOUS
    <2>3. Len(x.bytes) \in Nat /\ Len(read) \in Nat /\ Len(kept) \in Nat
      BY <1>1, <1>2, <1>3, <1>4, CutIsShorter DEF read, kept
    <2>4. MaxText[r.encoding] \in Nat /\ Len(x.bytes) <= MaxText[r.encoding]
      BY <1>8, <2>1
    <2> QED
      BY <1>7, <1>8, <2>1, <2>2, <2>3, <2>4
  <1>10. "0" \in Range(r.bytes) \/ (r.json /\ "u" \in Range(r.bytes))
    BY <1>8, <1>9 DEF Storable, r
  <1> QED
    BY <1>3, <1>4, <1>5, <1>8, <1>10

\* What the table refuses of a request.
LEMMA UnstorableRequest ==
  ASSUME NEW x, IsExchange(x), limit \in Nat, ~StorableRow(RequestRecord(x)),
         MaxBodyBytes \in Nat, MaxInt \in Nat
  PROVE  UnfitRequest(x)
  <1> DEFINE r == RequestRecord(x)
  <1>1. r.path = x.pathText /\ r.query = x.query /\ r.clientId = ClientRequestID(x)
    BY DEF RequestRecord
  <1>2. CASE ~Storable(r.body)
    BY <1>2, UnstorableBody DEF UnfitRequest
  <1>3. CASE ~IsText(r.path) \/ r.path.long \/ ~IsText(r.query)
    BY <1>1, <1>3 DEF UnfitRequest
  <1>4. CASE ~IsText(r.clientId)
    <2>1. IsText(Blank)
      BY DEF IsText, Blank
    <2> QED
      BY <1>1, <1>4, <2>1 DEF UnfitRequest, ClientRequestID
  <1> HIDE DEF r
  <1> QED
    BY <1>2, <1>3, <1>4 DEF StorableRow, r

-----------------------------------------------------------------------------
(* The session of a call.                                                  *)

\* No two sessions have the same text, and none an empty one.
LEMMA TextsDiffer ==
  ASSUME NEW s \in Sessions, NEW t \in Sessions, TextOf(s) = TextOf(t)
  PROVE  s = t
  <1>1. Pieces[s] \in Nat \ {0} /\ Pieces[t] \in Nat \ {0}
    BY SessionAssumption DEF SessionAssumption
  <1>2. TextOf(s)[1] = <<s, 1>> /\ TextOf(t)[1] = <<t, 1>>
    BY <1>1 DEF TextOf
  <1> QED
    BY <1>2

LEMMA TextNotEmpty ==
  ASSUME NEW s \in Sessions
  PROVE  TextOf(s) # <<>>
  <1>1. Pieces[s] \in Nat \ {0}
    BY SessionAssumption DEF SessionAssumption
  <1>2. 1 \in DOMAIN TextOf(s)
    BY <1>1 DEF TextOf
  <1>3. 1 \notin DOMAIN <<>>
    OBVIOUS
  <1> QED
    BY <1>2, <1>3

\* The text of a session gives its token, and nothing else gives one.
LEMMA DecodeText ==
  ASSUME NEW s \in Sessions \ Tokenless
  PROVE  DecodeSessionAccessToken(TextOf(s)) = s
  <1> DEFINE t == CHOOSE u \in Sessions \ Tokenless : TextOf(s) = TextOf(u)
  <1>1. t \in Sessions \ Tokenless /\ TextOf(s) = TextOf(t)
    OBVIOUS
  <1>2. DecodeSessionAccessToken(TextOf(s)) = t
    BY DEF DecodeSessionAccessToken
  <1> QED
    BY <1>1, <1>2, TextsDiffer

LEMMA DecodeType ==
  ASSUME NEW value
  PROVE  DecodeSessionAccessToken(value) \in (Sessions \ Tokenless) \cup {NoToken}
  BY DEF DecodeSessionAccessToken

\* Whatever the cookies are, a call has a token of a session or none.
LEMMA TokenType ==
  ASSUME NEW authorization, NEW cookies,
         authorization.token \in (Sessions \ Tokenless) \cup {NoToken}
  PROVE  ExtractAccessToken(authorization, cookies) \in (Sessions \ Tokenless) \cup {NoToken}
  <1>1. \A values, base : AccessTokenFromCookie(values, base)
                            \in (Sessions \ Tokenless) \cup {NoToken}
    BY DecodeType DEF AccessTokenFromCookie
  <1>2. \A values, names : FirstToken(values, names) \in (Sessions \ Tokenless) \cup {NoToken}
    BY <1>1 DEF FirstToken
  <1> QED
    BY <1>1, <1>2 DEF ExtractAccessToken, BearerToken, AccessTokenFromCookies

\* The pieces of a text, one after the other, are the text.
LEMMA FlattenPieces ==
  ASSUME NEW s, NEW p \in Nat \ {0}
  PROVE  FlattenSeq([i \in 1 .. p |-> << <<s, i>> >>]) = [k \in 1 .. p |-> <<s, k>>]
  <1> DEFINE q == [i \in 1 .. p |-> << <<s, i>> >>]
             text(n) == [k \in 1 .. n |-> <<s, k>>]
             S == {<<s, k>> : k \in Nat}
             flat == CHOOSE f : f = [i \in 1 .. p |-> IF i = 1 THEN q[i] ELSE f[i - 1] \o q[i]]
             g == [i \in 1 .. p |-> text(i)]
  <1>1. Len(q) = p
    OBVIOUS
  <1>2. FlattenSeq(q) = flat[p]
    <2> HIDE DEF q
    <2> QED
      BY <1>1 DEF FlattenSeq
  <1>3. \A n \in Nat : text(n) \in Seq(S) /\ Len(text(n)) = n
    OBVIOUS
  <1>4. text(1) = << <<s, 1>> >>
    OBVIOUS
  <1>5. \A n \in Nat : text(n) \o << <<s, n + 1>> >> = text(n + 1)
    <2> SUFFICES ASSUME NEW n \in Nat
                 PROVE  text(n) \o << <<s, n + 1>> >> = text(n + 1)
      OBVIOUS
    <2> DEFINE new == << <<s, n + 1>> >>
    <2>1. new \in Seq(S) /\ Len(new) = 1 /\ new[1] = <<s, n + 1>>
      OBVIOUS
    <2>2. \A i \in 1 .. n : text(n)[i] = <<s, i>>
      OBVIOUS
    <2>3. \A i \in 1 .. n + 1 : text(n + 1)[i] = <<s, i>>
      OBVIOUS
    <2>4. /\ text(n) \in Seq(S) /\ Len(text(n)) = n
          /\ text(n + 1) \in Seq(S) /\ Len(text(n + 1)) = n + 1
      BY <1>3
    <2> DEFINE old == text(n)
               both == old \o new
    <2> HIDE DEF new, text, S, old
    <2>5. /\ both \in Seq(S) /\ Len(both) = n + 1
          /\ \A i \in 1 .. n + 1 : both[i] = IF i <= n THEN old[i] ELSE new[i - n]
      <3>1. old \in Seq(S) /\ new \in Seq(S) /\ Len(old) = n /\ Len(new) = 1
        BY <2>1, <2>4 DEF old
      <3>2. /\ old \o new \in Seq(S) /\ Len(old \o new) = Len(old) + Len(new)
            /\ \A i \in 1 .. Len(old) + Len(new) :
                 (old \o new)[i] = IF i <= Len(old) THEN old[i] ELSE new[i - Len(old)]
        BY <3>1, ConcatProperties
      <3> HIDE DEF both
      <3>3. both = old \o new
        BY DEF both
      <3> QED
        BY <3>1, <3>2, <3>3
    <2> HIDE DEF both
    <2>6. \A i \in 1 .. n + 1 : both[i] = <<s, i>>
      <3> SUFFICES ASSUME NEW i \in 1 .. n + 1
                   PROVE  both[i] = <<s, i>>
        OBVIOUS
      <3>1. CASE i <= n
        BY <2>2, <2>5, <3>1 DEF old
      <3>2. CASE ~(i <= n)
        <4>1. i = n + 1 /\ i - n = 1
          BY <3>2
        <4> QED
          BY <2>1, <2>5, <3>2, <4>1
      <3> QED
        BY <3>1, <3>2
    <2>7. both = text(n + 1)
      <3>1. Len(both) = Len(text(n + 1)) /\ \A i \in 1 .. Len(both) : both[i] = text(n + 1)[i]
        BY <2>3, <2>4, <2>5, <2>6
      <3> QED
        BY <2>4, <2>5, <3>1, SeqEqual
    <2> QED
      BY <2>7 DEF both, old, new
  <1>6. g = [i \in 1 .. p |-> IF i = 1 THEN q[i] ELSE g[i - 1] \o q[i]]
    <2>1. \A i \in 1 .. p : g[i] = IF i = 1 THEN q[i] ELSE g[i - 1] \o q[i]
      <3> SUFFICES ASSUME NEW i \in 1 .. p, i # 1
                   PROVE  text(i) = text(i - 1) \o << <<s, i>> >>
        <4>1. g[1] = q[1]
          <5>1. g[1] = text(1) /\ q[1] = << <<s, 1>> >>
            OBVIOUS
          <5> HIDE DEF g, q, text
          <5> QED
            BY <1>4, <5>1
        <4>2. \A i \in 1 .. p : i # 1 => i - 1 \in 1 .. p
          OBVIOUS
        <4>3. \A i \in 1 .. p : g[i] = text(i) /\ q[i] = << <<s, i>> >>
          OBVIOUS
        <4> HIDE DEF g, q, text
        <4> QED
          BY <4>1, <4>2, <4>3
      <3>1. i - 1 \in Nat /\ i - 1 + 1 = i
        OBVIOUS
      <3> HIDE DEF text
      <3> QED
        BY <1>5, <3>1
    <2> HIDE DEF q, text
    <2> QED
      BY <2>1
  <1> HIDE DEF g
  <1>7. flat = [i \in 1 .. p |-> IF i = 1 THEN q[i] ELSE flat[i - 1] \o q[i]]
    BY <1>6
  <1> HIDE DEF flat
  <1>8. \A i \in 1 .. p : flat[i] = g[i]
    <2> DEFINE wrong == {i \in 1 .. p : flat[i] # g[i]}
    <2> SUFFICES ASSUME wrong # {}
                 PROVE  FALSE
      OBVIOUS
    <2>1. wrong \in SUBSET Nat
      OBVIOUS
    <2>2. PICK m \in wrong : \A k \in wrong : m <= k
      <3> HIDE DEF wrong
      <3> QED
        BY <2>1, LeastNatural
    <2>3. CASE m = 1
      BY <1>6, <1>7, <2>2, <2>3
    <2>4. CASE m # 1
      <3>1. m - 1 \in 1 .. p /\ ~(m <= m - 1)
        BY <2>2, <2>4
      <3>2. flat[m - 1] = g[m - 1]
        BY <2>2, <3>1
      <3>3. m \in 1 .. p /\ flat[m] = flat[m - 1] \o q[m] /\ g[m] = g[m - 1] \o q[m]
        BY <1>6, <1>7, <2>2, <2>4
      <3> QED
        BY <2>2, <3>2, <3>3
    <2> QED
      BY <2>3, <2>4
  <1>9. flat[p] = text(p)
    BY <1>8 DEF g
  <1> QED
    BY <1>2, <1>9

\* Of its cookies, each with a name of its own, the call finds exactly those of the jar.
LEMMA JarValues ==
  ASSUME IsFiniteSet(DOMAIN jar)
  PROVE  /\ DOMAIN ValuesOf(Cookies) = DOMAIN jar
         /\ \A n \in DOMAIN jar : ValuesOf(Cookies)[n] = jar[n]
  <1> DEFINE D == DOMAIN jar
             cookie == [n \in D |-> [name |-> n, value |-> jar[n]]]
             S == {[name |-> n, value |-> jar[n]] : n \in D}
             m == Cardinality(S)
             list == CHOOSE f \in [1 .. m -> S] : IsInjective(f)
  <1>1. cookie \in Surjection(D, S)
    BY DEF Surjection
  <1>2. IsFiniteSet(S) /\ m \in Nat
    BY <1>1, FS_Surjection, FS_CardinalityType
  <1>3. Cookies = list
    BY DEF Cookies, SetToSeq
  <1>4. PICK f : f \in Bijection(1 .. m, S)
    <2>1. IsFiniteSet(1 .. m) /\ Cardinality(1 .. m) = m
      <3> HIDE DEF m
      <3> QED
        BY <1>2, FS_Interval
    <2>2. ExistsBijection(1 .. m, S)
      BY <1>2, <2>1, FS_SameCardinalityBij
    <2> QED
      BY <2>2 DEF ExistsBijection
  <1>5. f \in [1 .. m -> S] /\ IsInjective(f)
    BY <1>4 DEF Bijection, Injection
  <1> HIDE DEF m, S
  <1>6. list \in [1 .. m -> S] /\ IsInjective(list)
    BY <1>5
  <1> HIDE DEF list
  <1>7. list \in Surjection(1 .. m, S)
    <2>1. list \in Injection(1 .. m, S)
      BY <1>6 DEF Injection
    <2>2. IsFiniteSet(1 .. m) /\ Cardinality(1 .. m) = m
      BY <1>2, FS_Interval
    <2> QED
      BY <1>2, <2>1, <2>2, FS_Injection DEF m
  <1>8. /\ DOMAIN list = 1 .. m /\ \A i \in 1 .. m : list[i] \in S
        /\ \A c \in S : \E i \in 1 .. m : list[i] = c
    BY <1>6, <1>7 DEF Surjection
  <1>9. \A c \in S : c.name \in D /\ c.value = jar[c.name]
    BY DEF S
  <1>10. \A n \in D : \E c \in S : c.name = n
    <2>1. \A n \in D : [name |-> n, value |-> jar[n]] \in S
      BY DEF S
    <2>2. \A n : [name |-> n, value |-> jar[n]].name = n
      OBVIOUS
    <2> HIDE DEF S
    <2> QED
      BY <2>1, <2>2
  <1>11. \A c, d \in S : c.name = d.name => c = d
    <2>1. \A c \in S : c = [name |-> c.name, value |-> jar[c.name]]
      BY DEF S
    <2> QED
      BY <2>1
  <1>12. {list[i].name : i \in DOMAIN list} = D
    <2>1. \A i \in DOMAIN list : list[i].name \in D
      BY <1>8, <1>9
    <2>2. \A n \in D : \E i \in DOMAIN list : list[i].name = n
      BY <1>8, <1>10
    <2> QED
      BY <2>1, <2>2
  <1> DEFINE latest(n, i) == /\ list[i].name = n
                             /\ \A j \in DOMAIN list : list[j].name = n => j <= i
  <1>13. \A n \in D : \E i \in DOMAIN list : latest(n, i)
    <2> SUFFICES ASSUME NEW n \in D
                 PROVE  \E i \in DOMAIN list : latest(n, i)
      OBVIOUS
    <2>1. PICK i \in 1 .. m : list[i].name = n
      BY <1>8, <1>10
    <2>2. \A j \in 1 .. m : list[j].name = n => j = i
      <3> SUFFICES ASSUME NEW j \in 1 .. m, list[j].name = n
                   PROVE  j = i
        OBVIOUS
      <3>1. list[j] = list[i]
        BY <1>8, <1>11, <2>1
      <3> QED
        BY <1>6, <1>8, <3>1 DEF IsInjective
    <2>3. i <= i
      BY <1>2
    <2> QED
      BY <1>8, <2>1, <2>2, <2>3
  <1> DEFINE pick(n) == CHOOSE i \in DOMAIN list : latest(n, i)
  <1>14. \A n \in D : pick(n) \in DOMAIN list /\ list[pick(n)].name = n
    <2> SUFFICES ASSUME NEW n \in D
                 PROVE  pick(n) \in DOMAIN list /\ latest(n, pick(n))
      OBVIOUS
    <2>1. \E i \in DOMAIN list : latest(n, i)
      BY <1>13
    <2> HIDE DEF latest
    <2> QED
      BY <2>1
  <1>15. ValuesOf(list) = [n \in {list[i].name : i \in DOMAIN list} |-> list[pick(n)].value]
    BY DEF ValuesOf
  <1> HIDE DEF pick, D
  <1>16. \A n \in D : list[pick(n)].value = jar[n]
    BY <1>8, <1>9, <1>14
  <1> QED
    BY <1>3, <1>12, <1>15, <1>16 DEF D

\* The chunks of the stored session are counted and joined to its text.
LEMMA JoinedText ==
  ASSUME NEW values, NEW s \in Sessions, NEW base, IsFiniteSet(DOMAIN values),
         \A k \in 1 .. Pieces[s] : /\ Name(base, k - 1) \in DOMAIN values
                                   /\ values[Name(base, k - 1)] = << <<s, k>> >>,
         Name(base, Pieces[s]) \notin DOMAIN values
  PROVE  JoinedChunks(values, base) = TextOf(s)
  <1> DEFINE p == Pieces[s]
             max == Cardinality(DOMAIN values)
             counts(n) == /\ \A i \in 0 .. (n - 1) : Name(base, i) \in DOMAIN values
                          /\ Name(base, n) \notin DOMAIN values
  <1>1. p \in Nat \ {0} /\ max \in Nat
    BY FS_CardinalityType, SessionAssumption DEF SessionAssumption
  <1>2. \A i \in 0 .. (p - 1) : Name(base, i) \in DOMAIN values
    <2>1. \A i \in 0 .. (p - 1) : i + 1 \in 1 .. p /\ i + 1 - 1 = i
      BY <1>1
    <2> QED
      BY <2>1
  <1>3. p \in 0 .. max
    <2> DEFINE f == [k \in 1 .. p |-> Name(base, k - 1)]
    <2>1. f \in [1 .. p -> DOMAIN values]
      OBVIOUS
    <2>2. \A j, k \in 1 .. p : f[j] = f[k] => j = k
      <3>1. \A j, k \in 1 .. p : f[j] = f[k] => f[j].chunk = j - 1 /\ f[j].chunk = k - 1
        BY DEF Name
      <3> HIDE DEF f, p
      <3> QED
        BY <1>1, <3>1
    <2>3. f \in Injection(1 .. p, DOMAIN values)
      BY <2>1, <2>2 DEF Injection, IsInjective
    <2> HIDE DEF f, p
    <2>4. Cardinality(1 .. p) = p /\ Cardinality(1 .. p) <= max
      BY <1>1, <2>3, FS_Injection, FS_Interval
    <2> HIDE DEF max
    <2> QED
      BY <1>1, <2>4
  <1>4. counts(p)
    BY <1>2
  <1>5. \A n \in 0 .. max : counts(n) => n = p
    <2> SUFFICES ASSUME NEW n \in 0 .. max, counts(n), n # p
                 PROVE  FALSE
      OBVIOUS
    <2>1. n \in Nat
      BY <1>1
    <2>2. CASE n < p
      <3>1. n \in 0 .. (p - 1)
        BY <1>1, <2>1, <2>2
      <3> QED
        BY <1>2, <3>1
    <2>3. CASE p < n
      <3>1. p \in 0 .. (n - 1)
        BY <1>1, <2>1, <2>3
      <3> QED
        BY <3>1
    <2> QED
      BY <1>1, <2>1, <2>2, <2>3
  <1>6. ChunkCount(values, base) = p
    <2>1. ChunkCount(values, base) = CHOOSE n \in 0 .. max : counts(n)
      BY DEF ChunkCount
    <2> HIDE DEF counts, max
    <2> QED
      BY <1>3, <1>4, <1>5, <2>1
  <1>7. [i \in 1 .. p |-> values[Name(base, i - 1)]] = [i \in 1 .. p |-> << <<s, i>> >>]
    OBVIOUS
  <1> HIDE DEF p
  <1>8. FlattenSeq([i \in 1 .. p |-> << <<s, i>> >>]) = [k \in 1 .. p |-> <<s, k>>]
    BY <1>1, FlattenPieces
  <1> QED
    BY <1>6, <1>7, <1>8 DEF JoinedChunks, TextOf, p

\* The cookies of a session have a name of their own each and are not empty.
LEMMA CookiesDiffer ==
  ASSUME NEW s \in Sessions \cup {NoToken}
  PROVE  /\ \A c \in CookiesOf(s) : c.name.base = PreferredName /\ c.value # <<>>
         /\ \A c, d \in CookiesOf(s) : c.name = d.name => c = d
  <1>1. CASE s = NoToken
    BY <1>1 DEF CookiesOf
  <1>2. CASE s # NoToken /\ Pieces[s] = 1
    BY <1>2, TextNotEmpty DEF CookiesOf, Name
  <1>3. CASE s # NoToken /\ Pieces[s] # 1
    <2> DEFINE p == Pieces[s]
               cookie(k) == [name |-> Name(PreferredName, k - 1), value |-> <<TextOf(s)[k]>>]
    <2>1. CookiesOf(s) = {cookie(k) : k \in 1 .. p}
      BY <1>3 DEF CookiesOf
    <2>2. p \in Nat
      BY <1>3, SessionAssumption DEF SessionAssumption
    <2>3. \A k \in 1 .. p : /\ cookie(k).name.base = PreferredName /\ cookie(k).name.chunk = k - 1
                            /\ cookie(k).value # <<>>
      BY DEF Name
    <2> HIDE DEF cookie, p
    <2>4. \A j, k \in 1 .. p : cookie(j).name = cookie(k).name => j = k
      BY <2>2, <2>3
    <2> QED
      BY <2>1, <2>3, <2>4
  <1> QED
    BY <1>1, <1>2, <1>3

\* A settled jar gives the stored session, whatever else is in it.
LEMMA SettledToken ==
  ASSUME JarFollows, Settled, session \in Sessions \ Tokenless,
         NEW authorization, authorization.scheme = "none"
  PROVE  ExtractAccessToken(authorization, Cookies) = session
  <1> DEFINE s == session
             values == ValuesOf(Cookies)
             P == PreferredName
  <1>1. s \in Sessions /\ s # NoToken /\ Pieces[s] \in Nat \ {0} /\ PreferredName # NoName
    BY SessionAssumption, PassageAssumption DEF SessionAssumption, PassageAssumption
  <1>2. /\ DOMAIN values = DOMAIN jar /\ \A n \in DOMAIN jar : values[n] = jar[n]
        /\ IsFiniteSet(DOMAIN values)
    BY JarValues DEF JarFollows
  <1> HIDE DEF values
  <1>3. \A c \in CookiesOf(s) : c.name \in DOMAIN values /\ values[c.name] = c.value
    BY <1>2 DEF JarFollows, Settled
  <1>4. Pieces[s] # 1 =>
          Name(P, Whole) \notin DOMAIN values /\ Name(P, Pieces[s]) \notin DOMAIN values
    BY <1>1, <1>2 DEF Settled
  <1>5. CombineCookieChunks(values, P) = TextOf(s)
    <2>1. CASE Pieces[s] = 1
      <3>1. CookiesOf(s) = {[name |-> Name(P, Whole), value |-> TextOf(s)]}
        BY <1>1, <2>1 DEF CookiesOf
      <3> QED
        BY <1>1, <1>3, <3>1, TextNotEmpty DEF CombineCookieChunks
    <2>2. CASE Pieces[s] # 1
      <3> DEFINE p == Pieces[s]
                 cookie(k) == [name |-> Name(P, k - 1), value |-> <<TextOf(s)[k]>>]
      <3>1. CookiesOf(s) = {cookie(k) : k \in 1 .. p}
        BY <1>1, <2>2 DEF CookiesOf
      <3>2. \A k \in 1 .. p : cookie(k).name = Name(P, k - 1) /\ cookie(k).value = << <<s, k>> >>
        BY DEF TextOf
      <3> HIDE DEF cookie
      <3>3. \A k \in 1 .. p : /\ Name(P, k - 1) \in DOMAIN values
                              /\ values[Name(P, k - 1)] = << <<s, k>> >>
        BY <1>3, <3>1, <3>2
      <3>4. Name(P, Whole) \notin DOMAIN values /\ Name(P, p) \notin DOMAIN values
        BY <1>4, <2>2
      <3>5. JoinedChunks(values, P) = TextOf(s)
        BY <1>1, <1>2, <3>3, <3>4, JoinedText
      <3> QED
        BY <3>4, <3>5 DEF CombineCookieChunks
    <2> QED
      BY <2>1, <2>2
  <1>6. AccessTokenFromCookie(values, P) = s
    BY <1>5, DecodeText DEF AccessTokenFromCookie
  <1>7. AccessTokenFromCookies(Cookies) = s
    BY <1>1, <1>6 DEF AccessTokenFromCookies, values
  <1> QED
    BY <1>7 DEF ExtractAccessToken, BearerToken

-----------------------------------------------------------------------------
(* The cookies of the browser.                                             *)

\* The cookies and the session they come from.
JarOK ==
  /\ \A n \in DOMAIN jar : /\ n.base \in Range(AuthCookieNames) \cup {PreferredName}
                           /\ jar[n] # <<>>
  /\ session \in (Sessions \ Others) \cup {NoToken} /\ limit \in AuditLimits
  /\ JarFollows

\* A browser that is signed out has no session cookie of the configured name.
LEMMA JarStarts ==
  ASSUME Init
  PROVE  JarOK
  <1>1. PICK o \in Others \cup {NoToken} :
          jar = IF o = NoToken THEN <<>> ELSE [n \in {Name(OtherName, Whole)} |-> TextOf(o)]
    BY DEF Init
  <1>2. /\ writes = {} /\ session = NoToken /\ limit \in AuditLimits
        /\ OtherName \in Range(AuthCookieNames) \ {PreferredName} /\ CookiesOf(session) = {}
        /\ Others \subseteq Sessions
    BY PassageAssumption DEF Init, PassageAssumption, CookiesOf
  <1>3. CASE o = NoToken
    <2>1. DOMAIN jar = {}
      BY <1>1, <1>3
    <2> QED
      BY <1>2, <2>1, FS_EmptySet DEF JarOK, JarFollows
  <1>4. CASE o # NoToken
    <2>1. jar = [n \in {Name(OtherName, Whole)} |-> TextOf(o)]
      BY <1>1, <1>4
    <2>2. DOMAIN jar = {Name(OtherName, Whole)} /\ IsFiniteSet(DOMAIN jar)
      BY <2>1, FS_Singleton
    <2>3. jar[Name(OtherName, Whole)] # <<>> /\ Name(OtherName, Whole).base = OtherName
      BY <1>2, <1>4, <2>1, TextNotEmpty DEF Name
    <2> QED
      BY <1>2, <2>2, <2>3 DEF JarOK, JarFollows
  <1> QED
    BY <1>3, <1>4

\* What an earlier session left is to be removed before the new one is settled.
LEMMA StoreStep ==
  ASSUME JarOK, NEW s \in (Sessions \ Others) \cup {NoToken}, Store(s)
  PROVE  JarOK'
  <1> DEFINE names == {c.name : c \in CookiesOf(s)}
             stale == {n \in DOMAIN jar : n.base = PreferredName} \ names
  <1>1. /\ session' = s /\ jar' = jar /\ limit' = limit
        /\ writes' = CookiesOf(s) \cup {[name |-> n, value |-> <<>>] : n \in stale}
    BY DEF Store
  <1>2. CookiesOf(session)' = CookiesOf(s)
    BY <1>1 DEF CookiesOf
  <1>3. \A c \in CookiesOf(s) : c.name.base = PreferredName
    BY CookiesDiffer
  <1>4. JarFollows'
    <2>1. IsFiniteSet(DOMAIN jar)'
      BY <1>1 DEF JarOK, JarFollows
    <2>2. \A w \in writes' : /\ w.name.base = PreferredName
                             /\ w \in CookiesOf(s) \/ (w.value = <<>> /\ w.name \notin names)
      BY <1>1, <1>3
    <2>3. CookiesOf(s) \ writes' = {}
      BY <1>1
    <2>4. \A n \in DOMAIN jar : n.base = PreferredName =>
             n \in names \/ [name |-> n, value |-> <<>>] \in writes'
      BY <1>1
    <2> QED
      BY <1>1, <1>2, <2>1, <2>2, <2>3, <2>4 DEF JarFollows
  <1> QED
    BY <1>1, <1>4 DEF JarOK

\* Each write brings the jar closer to the session.
LEMMA WriteStep ==
  ASSUME JarOK, NEW w \in writes, WriteCookie(w)
  PROVE  JarOK'
  <1> DEFINE C == CookiesOf(session)
             names == {c.name : c \in C}
             gone(n) == [name |-> n, value |-> <<>>]
  <1>1. session' = session /\ limit' = limit /\ writes' = writes \ {w} /\ CookiesOf(session)' = C
    BY DEF WriteCookie, CookiesOf
  <1>2. /\ \A c \in C : c.value # <<>>
        /\ \A c, d \in C : c.name = d.name => c = d
    <2>1. session \in Sessions \cup {NoToken}
      BY DEF JarOK
    <2> QED
      BY <2>1, CookiesDiffer
  <1> HIDE DEF C
  <1>3. /\ IsFiniteSet(DOMAIN jar)
        /\ \A v \in writes : /\ v.name.base = PreferredName
                             /\ v \in C \/ (v.value = <<>> /\ v.name \notin names)
        /\ \A c \in C \ writes : c.name \in DOMAIN jar /\ jar[c.name] = c.value
        /\ \A n \in DOMAIN jar : n.base = PreferredName => n \in names \/ gone(n) \in writes
    BY DEF JarOK, JarFollows, C
  <1>4. \A n : gone(n).name = n /\ gone(n).value = <<>>
    OBVIOUS
  <1> HIDE DEF names, gone
  <1> DEFINE Kept == /\ \A n \in DOMAIN jar' :
                          /\ n.base \in Range(AuthCookieNames) \cup {PreferredName}
                          /\ jar'[n] # <<>>
                     /\ IsFiniteSet(DOMAIN jar')
                     /\ \A c \in C \ writes' : c.name \in DOMAIN jar' /\ jar'[c.name] = c.value
                     /\ \A n \in DOMAIN jar' : n.base = PreferredName =>
                          n \in names \/ gone(n) \in writes'
  <1>5. ASSUME w.value = <<>>
        PROVE  Kept
    <2>1. jar' = [n \in DOMAIN jar \ {w.name} |-> jar[n]]
      BY <1>5 DEF WriteCookie
    <2>2. w \notin C /\ w.name \notin names
      BY <1>2, <1>3, <1>5
    <2>3. DOMAIN jar' = DOMAIN jar \ {w.name} /\ \A n \in DOMAIN jar' : jar'[n] = jar[n]
      BY <2>1
    <2>4. IsFiniteSet(DOMAIN jar')
      BY <1>3, <2>3, FS_RemoveElement
    <2>5. \A c \in C \ writes' : c.name \in DOMAIN jar' /\ jar'[c.name] = c.value
      BY <1>1, <1>3, <2>2, <2>3 DEF names
    <2>6. \A n \in DOMAIN jar' : n.base = PreferredName => n \in names \/ gone(n) \in writes'
      BY <1>1, <1>3, <1>4, <2>3
    <2> QED
      BY <2>3, <2>4, <2>5, <2>6 DEF JarOK
  <1>6. ASSUME w.value # <<>>
        PROVE  Kept
    <2>1. jar' = [n \in DOMAIN jar \cup {w.name} |-> IF n = w.name THEN w.value ELSE jar[n]]
      BY <1>6 DEF WriteCookie
    <2>2. w \in C /\ w.name \in names /\ w.name.base = PreferredName
      BY <1>3, <1>6 DEF names
    <2>3. /\ DOMAIN jar' = DOMAIN jar \cup {w.name} /\ jar'[w.name] = w.value
          /\ \A n \in DOMAIN jar \ {w.name} : jar'[n] = jar[n]
      BY <2>1
    <2>4. IsFiniteSet(DOMAIN jar')
      BY <1>3, <2>3, FS_AddElement
    <2>5. \A c \in C \ writes' : c.name \in DOMAIN jar' /\ jar'[c.name] = c.value
      BY <1>1, <1>2, <1>3, <2>2, <2>3
    <2>6. \A n \in DOMAIN jar' : n.base = PreferredName => n \in names \/ gone(n) \in writes'
      BY <1>1, <1>3, <1>4, <1>6, <2>2, <2>3
    <2> QED
      BY <1>6, <2>2, <2>3, <2>4, <2>5, <2>6 DEF JarOK
  <1>7. \A v \in writes' : /\ v.name.base = PreferredName
                           /\ v \in C \/ (v.value = <<>> /\ v.name \notin names)
    BY <1>1, <1>3
  <1>8. Kept
    BY <1>5, <1>6
  <1>9. JarFollows'
    BY <1>1, <1>7, <1>8 DEF JarFollows, C, names, gone
  <1> QED
    BY <1>1, <1>8, <1>9 DEF JarOK

-----------------------------------------------------------------------------
(* The steps of a call.                                                    *)

Fields == {"stage", "x", "record", "recorded", "settled", "token", "verdict", "status",
           "reply", "replyBody", "forwarded", "forwardedBody", "log"}
RecordFields == {"id", "path", "query", "clientId", "headers", "body",
                 "responseHeaders", "responseBody", "complete"}

ForwardedRight(c) ==
  c.forwarded # NoHeaders =>
    /\ c.forwarded = ForwardHeaders(c.x.headers, UserOf[c.token], "gateway id",
                                    "internal token", "peer")
    /\ c.forwardedBody = ReadRequest(c.x.bytes).body
    /\ ~ReadRequest(c.x.bytes).tooLarge

\* The token is one of a session, of the settled one if the call brings no other.
SessionKnown(c) ==
  /\ c.token \in (Sessions \ Tokenless) \cup {NoToken}
  /\ c.settled \in Valid /\ c.x.authorization.scheme = "none" => c.token = c.settled

\* A call with a record, at any point of its handler.
Underway(c) ==
  /\ DOMAIN c = Fields /\ DOMAIN c.record = RecordFields
  /\ IsExchange(c.x) /\ ~IsProbe(c.x) /\ ~c.x.broken
  /\ c.record.id = "gateway id" /\ c.recorded = TRUE /\ c.record.complete = FALSE
  /\ c.record.headers = RequestRecord(c.x).headers /\ c.record.body = RequestRecord(c.x).body
  /\ ForwardedRight(c) /\ SessionKnown(c)

\* All that is known of a call in the gateway.
Follows(c) == CallFollows(c) /\ RecordFollows(c) /\ SessionFollows(c)

LEMMA Followed ==
  ASSUME NEW c, Follows(c), c.stage # "done"
  PROVE  Underway(c) /\ ~ReadRequest(c.x.bytes).tooLarge
  BY DEF Follows, CallFollows, RecordFollows, SessionFollows, Underway, ForwardedRight,
         SessionKnown, Fields, RecordFields

\* An answer of the gateway gives no reason but its own.
LEMMA ErrorFollows ==
  ASSUME NEW c, Underway(c), NEW code, code \notin {"upstream", "audit_unavailable"},
         ReadRequest(c.x.bytes).tooLarge => code = "request_too_large",
         code = "unauthorized" /\ c.verdict # "no_user" => c.token \notin Valid
  PROVE  Follows(AnswerError(c, code))
  <1> DEFINE d == AnswerError(c, code)
  <1>1. /\ d.stage = "done" /\ d.status = code /\ d.reply = OwnHeaders
        /\ d.log = Line(c.x, code, OwnHeaders)
        /\ DOMAIN d = Fields /\ DOMAIN d.record = RecordFields /\ d.record.id = "gateway id"
        /\ d.x = c.x /\ d.recorded = TRUE /\ d.token = c.token
        /\ d.forwarded = c.forwarded /\ d.forwardedBody = c.forwardedBody
        /\ d.settled = c.settled /\ d.verdict = c.verdict
        /\ d.record.headers = c.record.headers /\ d.record.body = c.record.body
    BY DEF AnswerError, Underway, Fields, RecordFields
  <1> HIDE DEF d
  <1>2. CallFollows(d)
    BY <1>1, OwnHeadersId DEF CallFollows, Underway, ForwardedRight, Fields, RecordFields
  <1>3. RecordFollows(d)
    BY <1>1 DEF RecordFollows, Underway
  <1>4. SessionFollows(d)
    BY <1>1 DEF SessionFollows, Underway, SessionKnown
  <1> QED
    BY <1>2, <1>3, <1>4 DEF d, Follows

\* The cookies and the authorization of a call give it the session it should have.
LEMMA ArrivedSession ==
  ASSUME JarOK, NEW x, IsExchange(x)
  PROVE  SessionKnown(Arrived(x, RequestRecord(x)))
  <1> DEFINE c == Arrived(x, RequestRecord(x))
  <1>1. /\ c.x = x /\ c.token = ExtractAccessToken(x.authorization, Cookies)
        /\ c.settled = IF Settled THEN session ELSE NoToken
    BY DEF Arrived
  <1>2. x.authorization.token \in (Sessions \ Tokenless) \cup {NoToken}
    BY DEF IsExchange
  <1>3. Valid \subseteq Sessions \ Tokenless /\ NoToken \notin Valid
    BY PassageAssumption, SessionAssumption DEF PassageAssumption, SessionAssumption
  <1> HIDE DEF c
  <1>4. c.token \in (Sessions \ Tokenless) \cup {NoToken}
    BY <1>1, <1>2, TokenType
  <1>5. c.settled \in Valid => Settled /\ c.settled = session
    BY <1>1, <1>3
  <1>6. ASSUME c.settled \in Valid, c.x.authorization.scheme = "none"
        PROVE  c.token = c.settled
    <2>1. JarFollows /\ Settled /\ session \in Sessions \ Tokenless
      BY <1>3, <1>5, <1>6 DEF JarOK
    <2> QED
      BY <1>1, <1>5, <1>6, <2>1, SettledToken
  <1> QED
    BY <1>4, <1>6 DEF SessionKnown, c

LEMMA ReceiveStep ==
  ASSUME JarOK, NEW x \in Exchanges, Receive(x)
  PROVE  Follows(call')
  <1> DEFINE c == Arrived(x, RequestRecord(x))
  <1>1. IsExchange(x)
    BY PassageAssumption DEF PassageAssumption
  <1>2. /\ DOMAIN c = Fields /\ DOMAIN c.record = RecordFields
        /\ c.x = x /\ c.record = RequestRecord(x) /\ c.record.id = "gateway id"
        /\ c.recorded = TRUE /\ c.forwarded = NoHeaders /\ c.verdict = "none"
        /\ c.status = "none" /\ c.stage = "arrived" /\ c.record.complete = FALSE
    BY DEF Arrived, RequestRecord, Fields, RecordFields
  <1>3. SessionKnown(c)
    BY <1>1, ArrivedSession
  <1> HIDE DEF c
  <1>4. StorableRow(c.record) => ~x.broken
    <2>1. x.broken => RequestRecord(x).body = Unread
      BY DEF RequestRecord
    <2>2. Unread.encoding = ""
      BY DEF Unread, NoBody, NewAuditBody
    <2> QED
      BY <1>2, <2>1, <2>2 DEF StorableRow, Storable
  <1>5. CASE IsProbe(x) /\ call' = Probed(c)
    <2> DEFINE d == Probed(c)
    <2>1. /\ d.stage = "done" /\ d.status = "probe" /\ d.recorded = FALSE
          /\ DOMAIN d = Fields /\ d.record = c.record /\ d.x = x
          /\ d.forwarded = NoHeaders /\ d.token = c.token /\ d.settled = c.settled
      BY <1>2 DEF Probed, Fields
    <2> HIDE DEF d
    <2>2. CallFollows(d)
      BY <1>1, <1>2, <1>5, <2>1 DEF CallFollows, Fields, RecordFields
    <2>3. RecordFollows(d) /\ SessionFollows(d)
      BY <1>2, <1>3, <2>1 DEF RecordFollows, SessionFollows, SessionKnown
    <2> QED
      BY <1>5, <2>2, <2>3 DEF d, Follows
  <1>6. CASE ~IsProbe(x) /\ ~StorableRow(c.record) /\ call' = Unrecorded(c)
    <2> DEFINE d == Unrecorded(c)
    <2>1. /\ d.stage = "done" /\ d.status = "audit_unavailable" /\ d.recorded = FALSE
          /\ DOMAIN d = Fields /\ d.record = c.record /\ d.x = x
          /\ d.forwarded = NoHeaders /\ d.verdict = "none"
          /\ d.token = c.token /\ d.settled = c.settled
      BY <1>2 DEF Unrecorded, Fields
    <2> HIDE DEF d
    <2>2. CallFollows(d)
      <3>1. ~StorableRow(RequestRecord(d.x)) /\ ~IsProbe(d.x)
        BY <1>2, <1>6, <2>1
      <3> QED
        BY <1>1, <1>2, <2>1, <3>1 DEF CallFollows, Fields, RecordFields
    <2>3. RecordFollows(d) /\ SessionFollows(d)
      BY <1>2, <1>3, <2>1 DEF RecordFollows, SessionFollows, SessionKnown
    <2> QED
      BY <1>6, <2>2, <2>3 DEF d, Follows
  <1>7. CASE ~IsProbe(x) /\ StorableRow(c.record) /\ Admit(c)
    <2>1. Underway(c)
      BY <1>1, <1>2, <1>3, <1>4, <1>7 DEF Underway, ForwardedRight
    <2>2. CASE ReadRequest(x.bytes).tooLarge /\ call' = AnswerError(c, "request_too_large")
      BY <2>1, <2>2, ErrorFollows
    <2>3. CASE ~ReadRequest(x.bytes).tooLarge /\ call' = AnswerError(c, "not_found")
      BY <1>2, <2>1, <2>3, ErrorFollows
    <2>4. CASE /\ ~ReadRequest(x.bytes).tooLarge /\ c.token = NoToken
               /\ call' = AnswerError(c, "unauthorized")
      <3>1. NoToken \notin Valid
        BY PassageAssumption, SessionAssumption DEF PassageAssumption, SessionAssumption
      <3> QED
        BY <1>2, <2>1, <2>4, <3>1, ErrorFollows
    <2>5. CASE /\ ~ReadRequest(x.bytes).tooLarge
               /\ call' = [c EXCEPT !.stage = "verifying"]
      <3> DEFINE d == [c EXCEPT !.stage = "verifying"]
      <3>1. /\ d.stage = "verifying" /\ d.status = "none" /\ d.recorded = TRUE
            /\ DOMAIN d = Fields /\ d.record = c.record /\ d.x = x
            /\ d.forwarded = NoHeaders /\ d.token = c.token /\ d.settled = c.settled
        BY <1>2 DEF Fields
      <3> HIDE DEF d
      <3>2. CallFollows(d)
        BY <1>1, <1>2, <1>7, <2>5, <3>1 DEF CallFollows, Fields, RecordFields
      <3>3. RecordFollows(d)
        BY <1>2, <1>4, <1>7, <2>5, <3>1 DEF RecordFollows
      <3>4. SessionFollows(d)
        BY <1>2, <1>3, <3>1 DEF SessionFollows, SessionKnown
      <3> QED
        BY <2>5, <3>2, <3>3, <3>4 DEF d, Follows
    <2> QED
      BY <1>2, <1>4, <1>7, <2>2, <2>3, <2>4, <2>5 DEF Admit
  <1> QED
    BY <1>5, <1>6, <1>7 DEF Receive, c

LEMMA VerifyStep ==
  ASSUME CallInv, NEW v, Verify(v)
  PROVE  Follows(call')
  <1> DEFINE c == [call EXCEPT !.verdict = v]
  <1>1. call.stage = "verifying" /\ Follows(call) /\ Underway(call)
    BY Followed DEF CallInv, Follows, Verify, NoCall
  <1>2. /\ DOMAIN c = Fields /\ c.record = call.record /\ c.x = call.x
        /\ c.recorded = TRUE /\ c.forwarded = NoHeaders /\ c.stage = "verifying"
        /\ c.status = call.status /\ c.token = call.token /\ c.settled = call.settled
        /\ c.verdict = v
    BY <1>1 DEF Follows, CallFollows, Fields
  <1>3. Underway(c)
    BY <1>1, <1>2 DEF Underway, ForwardedRight, SessionKnown
  <1>4. /\ v = "user" => call' = Forwarded(c)
        /\ v # "user" => call' = AnswerError(c, CodeOf(v))
        /\ v \in Verdicts(c.token)
    BY <1>2 DEF Verify
  <1>5. c.status = "none" /\ ~ReadRequest(c.x.bytes).tooLarge
    BY <1>1, <1>2 DEF Follows, CallFollows
  <1> HIDE DEF c
  <1>6. CASE v = "user"
    <2> DEFINE d == Forwarded(c)
    <2>1. /\ d.stage = "forwarded" /\ d.status = c.status /\ d.recorded = TRUE
          /\ DOMAIN d = Fields /\ d.record = c.record /\ d.x = c.x /\ d.token = c.token
          /\ d.forwarded = ForwardHeaders(c.x.headers, UserOf[c.token], "gateway id",
                                          "internal token", "peer")
          /\ d.forwardedBody = ReadRequest(c.x.bytes).body
          /\ d.settled = c.settled /\ d.verdict = v
      BY <1>2 DEF Forwarded, Fields
    <2> HIDE DEF d
    <2>2. CallFollows(d)
      BY <1>2, <1>3, <1>5, <2>1 DEF CallFollows, Underway, Fields, RecordFields
    <2>3. RecordFollows(d)
      BY <1>3, <1>5, <2>1 DEF RecordFollows, Underway
    <2>4. c.token \in Valid /\ (d.status = "unauthorized" => FALSE)
      <3>1. c.token \in Valid
        BY <1>4, <1>6 DEF Verdicts
      <3>2. call.status = "none"
        BY <1>1 DEF Follows, CallFollows
      <3> QED
        BY <1>2, <2>1, <3>1, <3>2
    <2>5. SessionFollows(d)
      BY <1>3, <2>1, <2>4 DEF SessionFollows, Underway, SessionKnown
    <2> QED
      BY <1>4, <1>6, <2>2, <2>3, <2>5 DEF d, Follows
  <1>7. CASE v # "user"
    <2>1. CodeOf(v) \in {"auth_unavailable", "unauthorized"}
      BY DEF CodeOf
    <2>2. CodeOf(v) = "unauthorized" /\ v # "no_user" => c.token \notin Valid
      BY <1>4, <1>7 DEF CodeOf, Verdicts
    <2> QED
      BY <1>2, <1>3, <1>4, <1>5, <1>7, <2>1, <2>2, ErrorFollows
  <1> QED
    BY <1>6, <1>7

LEMMA RespondStep ==
  ASSUME CallInv, Respond
  PROVE  Follows(call')
  <1> DEFINE response == call.x.response
             reply == ReplyHeaders(OwnHeaders, response.headers)
             record == WithResponse(call.record, response)
             read == ReadResponse(response.bytes, response.json, limit)
             d == [call EXCEPT
                     !.stage = "done", !.status = "upstream", !.reply = reply,
                     !.replyBody = ReadResponse(response.bytes, response.json, limit).body,
                     !.log = Line(call.x, "upstream", reply), !.record = record]
  <1>1. /\ call.stage = "forwarded" /\ Follows(call) /\ Underway(call)
        /\ ~ReadRequest(call.x.bytes).tooLarge
    BY Followed DEF CallInv, Follows, Respond, NoCall
  <1>2. call' = d
    BY DEF Respond
  <1>3. /\ DOMAIN record = RecordFields /\ record.id = "gateway id"
        /\ record.headers = call.record.headers /\ record.body = call.record.body
        /\ record.complete => record.responseBody = read.recorded
    BY <1>1 DEF Underway, WithResponse, RecordFields
  <1>4. reply = ReplyHeaders(OwnHeaders, call.x.response.headers)
    OBVIOUS
  <1>5. ReadResponse(response.bytes, response.json, limit).body = response.bytes
    BY DEF ReadResponse
  <1> HIDE DEF reply, record
  <1>6. /\ d.stage = "done" /\ d.status = "upstream" /\ d.recorded = TRUE
        /\ DOMAIN d = Fields /\ d.record = record /\ d.x = call.x /\ d.token = call.token
        /\ d.forwarded = call.forwarded /\ d.forwardedBody = call.forwardedBody
        /\ d.reply = reply /\ d.replyBody = call.x.response.bytes
        /\ d.log = Line(call.x, "upstream", reply)
        /\ d.settled = call.settled
    BY <1>1, <1>5 DEF Underway, Fields
  <1> HIDE DEF d
  <1>7. CallFollows(d)
    BY <1>1, <1>3, <1>4, <1>6
    DEF Follows, CallFollows, Underway, ForwardedRight, Fields, RecordFields
  <1>8. RecordFollows(d)
    BY <1>1, <1>3, <1>6 DEF RecordFollows, Underway
  <1>9. SessionFollows(d)
    BY <1>1, <1>6 DEF SessionFollows, Underway, SessionKnown
  <1> QED
    BY <1>2, <1>7, <1>8, <1>9 DEF Follows

LEMMA StepInv ==
  ASSUME JarOK, CallInv, [Next]_vars
  PROVE  JarOK' /\ CallInv'
  <1>1. limit' = limit
    BY DEF Next, Store, WriteCookie, Receive, Verify, Respond, ForwardFails, Leave, vars
  <1>2. ASSUME call' = call \/ call' = NoCall
        PROVE  CallInv'
    BY <1>1, <1>2 DEF CallInv, CallFollows, RecordFollows, SessionFollows, RequestRecord
  <1>3. ASSUME Follows(call')
        PROVE  CallInv'
    BY <1>1, <1>3 DEF CallInv, Follows, CallFollows, RecordFollows, SessionFollows, RequestRecord
  <1>4. ASSUME UNCHANGED <<jar, writes, session, limit>>
        PROVE  JarOK'
    BY <1>4 DEF JarOK, JarFollows, CookiesOf
  <1>5. CASE \E s \in (Sessions \ Others) \cup {NoToken} : Store(s)
    <2>1. call' = call
      BY <1>5 DEF Store
    <2> QED
      BY <1>2, <1>5, <2>1, StoreStep
  <1>6. CASE \E w \in writes : WriteCookie(w)
    <2>1. call' = call
      BY <1>6 DEF WriteCookie
    <2> QED
      BY <1>2, <1>6, <2>1, WriteStep
  <1>7. CASE \E x \in Exchanges : Receive(x)
    <2>1. UNCHANGED <<jar, writes, session, limit>>
      BY <1>7 DEF Receive
    <2> QED
      BY <1>3, <1>4, <1>7, <2>1, ReceiveStep
  <1>8. CASE \E v \in {"user", "rejected", "no_user", "outage"} : Verify(v)
    <2>1. UNCHANGED <<jar, writes, session, limit>>
      BY <1>8 DEF Verify
    <2> QED
      BY <1>3, <1>4, <1>8, <2>1, VerifyStep
  <1>9. CASE Respond
    <2>1. UNCHANGED <<jar, writes, session, limit>>
      BY <1>9 DEF Respond
    <2> QED
      BY <1>3, <1>4, <1>9, <2>1, RespondStep
  <1>10. CASE ForwardFails
    <2>1. UNCHANGED <<jar, writes, session, limit>>
      BY <1>10 DEF ForwardFails
    <2>2. /\ call.stage = "forwarded" /\ Underway(call) /\ ~ReadRequest(call.x.bytes).tooLarge
          /\ call' = AnswerError(call, "upstream_unavailable")
      BY <1>10, Followed DEF CallInv, Follows, ForwardFails, NoCall
    <2>3. Follows(call')
      BY <2>2, ErrorFollows
    <2> QED
      BY <1>3, <1>4, <2>1, <2>3
  <1>11. CASE Leave
    <2>1. call' = NoCall /\ UNCHANGED <<jar, writes, session, limit>>
      BY <1>11 DEF Leave
    <2> QED
      BY <1>2, <1>4, <2>1
  <1>12. CASE UNCHANGED vars
    BY <1>2, <1>4, <1>12 DEF vars
  <1> QED
    BY <1>5, <1>6, <1>7, <1>8, <1>9, <1>10, <1>11, <1>12 DEF Next

-----------------------------------------------------------------------------
(* The theorems.                                                           *)

\* The cookies, the session and the call are what the steps so far make them, for any
\* exchanges, sessions and limits.
THEOREM PassageInvariant == Spec => []TypeOK
  <1>1. TypeOK <=> JarOK /\ CallInv
    BY DEF TypeOK, JarOK
  <1>2. (TypeOK <=> JarOK /\ CallInv)'
    BY DEF TypeOK, JarOK
  <1>3. Init => TypeOK
    BY <1>1, JarStarts DEF Init, CallInv
  <1>4. TypeOK /\ [Next]_vars => TypeOK'
    BY <1>1, <1>2, StepInv
  <1> QED
    BY <1>3, <1>4, PTL DEF Spec

LEMMA Limits ==
  /\ MaxBodyBytes \in Nat /\ MaxInt \in Nat
  /\ TypeOK => limit \in Nat
  <1>1. MaxInt \in Nat /\ MaxBodyBytes \in 1 .. MaxInt /\ AuditLimits \subseteq 1 .. MaxInt
    BY LimitAssumption DEF LimitAssumption
  <1>2. \A i \in 1 .. MaxInt : i \in Nat
    BY <1>1
  <1>3. TypeOK => limit \in AuditLimits
    BY DEF TypeOK
  <1> QED
    BY <1>1, <1>2, <1>3

\* What is known of a call that was forwarded.
LEMMA ForwardedCall ==
  ASSUME TypeOK, WasForwarded
  PROVE  /\ call.x.headers \in [Names -> Seq(STRING)] /\ call.x.bytes \in Seq(Bytes)
         /\ call.record.id = "gateway id"
         /\ call.forwarded = ForwardHeaders(call.x.headers, UserOf[call.token], "gateway id",
                                            "internal token", "peer")
         /\ call.forwardedBody = ReadRequest(call.x.bytes).body
         /\ ~ReadRequest(call.x.bytes).tooLarge
  BY DEF TypeOK, CallInv, CallFollows, WasForwarded, IsExchange

\* A call whose handler has ended is one of those the invariant is about.
LEMMA DoneCall ==
  ASSUME TypeOK, Done
  PROVE  CallFollows(call)
  BY DEF TypeOK, CallInv, Done, NoCall

\* Whatever headers a client sends, the upstream hears who calls from the gateway
\* alone, gets no credential and every other header as it was sent.
THEOREM UpstreamHearsTheGateway == Spec => []UpstreamTrustsOnlyTheGateway
  <1>1. TypeOK => UpstreamTrustsOnlyTheGateway
    <2> SUFFICES ASSUME TypeOK, WasForwarded
                 PROVE  UpstreamTrustsOnlyTheGateway
      BY DEF UpstreamTrustsOnlyTheGateway
    <2> DEFINE h == call.x.headers
               f == call.forwarded
               chain == ForwardedFor(h, "peer")
    <2>1. /\ h \in [Names -> Seq(STRING)]
          /\ f = ForwardHeaders(h, UserOf[call.token], "gateway id", "internal token", "peer")
      BY ForwardedCall
    <2> HIDE DEF h, f
    <2>2. /\ f["X-Internal-Token"] = <<"internal token">>
          /\ f["X-User-Id"] = <<UserOf[call.token]>>
          /\ f["X-Request-Accepted-At"] = <<"now">>
          /\ f["X-Forwarded-For"] = <<chain>>
          /\ f["X-Forwarded-Host"] = <<"request host">>
          /\ f["X-Forwarded-Proto"] = <<"http">>
          /\ \A n \in HopByHop \cup {"Authorization", "Cookie"} : f[n] = <<>>
          /\ \A n \in Names \ (HopByHop \cup Trusted \cup {"Authorization", "Cookie"}) :
               f[n] = h[n]
      <3>1. ForwardedFrom(h, UserOf[call.token], f)
        BY <2>1, ForwardedHeaders
      <3> QED
        BY <3>1 DEF ForwardedFrom
    <2>3. Present(f) \cap (HopByHop \cup {"Authorization", "Cookie"}) = {}
      BY <2>2 DEF Present
    <2>4. Last(chain) = "peer"
      BY PeerEndsTheChain
    <2> HIDE DEF chain
    <2>5. \A n \in {"X-Forwarded-For", "X-Forwarded-Host", "X-Forwarded-Proto"} :
            Len(f[n]) = 1
      <3>1. Len(<<chain>>) = 1 /\ Len(<<"request host">>) = 1 /\ Len(<<"http">>) = 1
        OBVIOUS
      <3> QED
        BY <2>2, <3>1
    <2>6. Last(f["X-Forwarded-For"][1]) = "peer"
      <3>1. <<chain>>[1] = chain
        OBVIOUS
      <3> QED
        BY <2>2, <2>4, <3>1
    <2> QED
      BY <2>2, <2>3, <2>5, <2>6 DEF UpstreamTrustsOnlyTheGateway, h, f
  <1> QED
    BY <1>1, PassageInvariant, PTL

\* Whatever ids client and upstream send, the gateway's leads from the client, who reads
\* it before any of the upstream's, to the upstream, the table and the access log.
THEOREM GatewayIdEverywhere == Spec => []GatewayIdComesFirst
  <1>1. TypeOK => GatewayIdComesFirst
    <2> SUFFICES ASSUME TypeOK, Done, call.recorded
                 PROVE  GatewayIdComesFirst
      BY DEF GatewayIdComesFirst
    <2> DEFINE theirs == call.x.response.headers
    <2>1. CallFollows(call) /\ theirs \in [Names -> Seq(STRING)] /\ call.record.id = "gateway id"
      BY DoneCall DEF CallFollows, IsExchange
    <2>2. /\ call.reply["X-Request-Id"] =
               <<"gateway id">> \o (IF call.status = "upstream" THEN theirs["X-Request-Id"]
                                    ELSE <<>>)
          /\ Get(call.reply, "X-Request-Id") = "gateway id"
      <3>1. CASE call.status = "upstream"
        <4>1. call.reply = ReplyHeaders(OwnHeaders, theirs)
          BY <2>1, <3>1 DEF CallFollows, Done
        <4> HIDE DEF theirs
        <4> QED
          BY <2>1, <3>1, <4>1, ReplyKeepsId
      <3>2. CASE call.status # "upstream"
        <4>1. call.reply = OwnHeaders
          BY <2>1, <3>2 DEF CallFollows, Done
        <4>2. <<"gateway id">> \o <<>> = <<"gateway id">>
          OBVIOUS
        <4> HIDE DEF theirs
        <4> QED
          BY <3>2, <4>1, <4>2, OwnHeadersId
      <3> QED
        BY <3>1, <3>2
    <2>3. WasForwarded => call.forwarded["X-Request-Id"] = <<call.record.id>>
      <3> SUFFICES ASSUME WasForwarded
                   PROVE  call.forwarded["X-Request-Id"] = <<call.record.id>>
        OBVIOUS
      <3> DEFINE h == call.x.headers
                 user == UserOf[call.token]
                 f == ForwardHeaders(h, user, "gateway id", "internal token", "peer")
      <3>1. h \in [Names -> Seq(STRING)] /\ call.forwarded = f /\ call.record.id = "gateway id"
        BY ForwardedCall
      <3> HIDE DEF h, user
      <3>2. ForwardedFrom(h, user, f)
        BY <3>1, ForwardedHeaders
      <3>3. f["X-Request-Id"] = <<"gateway id">>
        BY <3>2 DEF ForwardedFrom
      <3> QED
        BY <3>1, <3>3
    <2>4. call.x.path # "probe" => call.log = <<[status |-> call.status, id |-> call.record.id]>>
      BY <2>1, <2>2 DEF CallFollows, Done, Line, Logged
    <2> QED
      BY <2>1, <2>2, <2>3, <2>4 DEF GatewayIdComesFirst
  <1> QED
    BY <1>1, PassageInvariant, PTL

\* Unless MAX_BODY_BYTES is the largest integer: no part of a body is passed for the
\* whole.
THEOREM WholeBodiesPass == MaxBodyBytes < MaxInt => (Spec => []BodiesPassWhole)
  <1> SUFFICES ASSUME MaxBodyBytes < MaxInt
               PROVE  Spec => []BodiesPassWhole
    OBVIOUS
  <1>1. TypeOK => BodiesPassWhole
    <2> SUFFICES ASSUME TypeOK
                 PROVE  BodiesPassWhole
      OBVIOUS
    <2>1. ASSUME WasForwarded
          PROVE  call.forwardedBody = call.x.bytes /\ Len(call.x.bytes) <= MaxBodyBytes
      <3> DEFINE b == call.x.bytes
      <3>1. /\ b \in Seq(Bytes) /\ ~ReadRequest(b).tooLarge
            /\ call.forwardedBody = ReadRequest(b).body
        BY <2>1, ForwardedCall
      <3> HIDE DEF b
      <3>2. ReadRequest(b).body = b /\ Len(b) <= MaxBodyBytes
        BY <3>1, RequestWhole, Limits
      <3> QED
        BY <3>1, <3>2 DEF b
    <2>2. ASSUME Done, call.status = "upstream"
          PROVE  call.replyBody = call.x.response.bytes
      BY <2>2, DoneCall DEF CallFollows, Done
    <2> QED
      BY <2>1, <2>2 DEF BodiesPassWhole
  <1> QED
    BY <1>1, PassageInvariant, PTL

\* Only a call whose row the table cannot hold is refused for it, and it reaches nothing.
THEOREM RefusedForItsRow == Spec => []OnlyUnstorableCallsAreRefused
  <1>1. TypeOK => OnlyUnstorableCallsAreRefused
    <2> SUFFICES ASSUME TypeOK, call # NoCall, ~IsProbe(call.x)
                 PROVE  OnlyUnstorableCallsAreRefused
      BY DEF OnlyUnstorableCallsAreRefused
    <2> DEFINE x == call.x
    <2>1. CallFollows(call) /\ limit \in Nat
      BY Limits DEF TypeOK, CallInv
    <2>2. call.recorded <=> call.status # "audit_unavailable"
      BY <2>1, Zenon DEF CallFollows
    <2>3. ASSUME call.status = "audit_unavailable"
          PROVE  /\ UnfitRequest(x)
                 /\ call.verdict = "none" /\ ~WasForwarded
      <3>1. /\ IsExchange(x) /\ ~StorableRow(RequestRecord(x))
            /\ call.verdict = "none" /\ call.forwarded = NoHeaders
        BY <2>1, <2>3 DEF CallFollows
      <3> HIDE DEF x
      <3>2. UnfitRequest(x)
        BY <2>1, <3>1, UnstorableRequest, Limits
      <3> QED
        BY <3>1, <3>2 DEF WasForwarded
    <2> QED
      BY <2>2, <2>3 DEF OnlyUnstorableCallsAreRefused
  <1> QED
    BY <1>1, PassageInvariant, PTL

\* Unless MAX_BODY_BYTES is the largest integer: the record of a body is its start, and
\* says whether anything is missing and how long the whole was.
THEOREM RecordsAreHonest == MaxBodyBytes < MaxInt => (Spec => []RecordIsHonest)
  <1> SUFFICES ASSUME MaxBodyBytes < MaxInt
               PROVE  Spec => []RecordIsHonest
    OBVIOUS
  <1>1. TypeOK => RecordIsHonest
    <2> SUFFICES ASSUME TypeOK, call # NoCall, call.recorded
                 PROVE  RecordIsHonest
      BY DEF RecordIsHonest
    <2> DEFINE x == call.x
               request == RequestRecord(x).body
               response == ReadResponse(x.response.bytes, x.response.json, limit).recorded
    <2>1. IsExchange(x) /\ RecordFollows(call) /\ ~x.broken /\ limit \in Nat
      BY Limits DEF TypeOK, CallInv, CallFollows, RecordFollows
    <2>2. /\ call.record.headers = Sanitized(x.headers, DroppedFromRequestRecord)
          /\ call.record.body = request
          /\ request = Recorded(ReadRequest(x.bytes).body, x.json, ReadRequest(x.bytes).size, limit)
      BY <2>1 DEF RecordFollows, RequestRecord
    <2>3. /\ IsHonest(request, x.bytes, x.json)
          /\ ~ReadRequest(x.bytes).tooLarge => request.size = Len(x.bytes)
      BY <2>1, <2>2, RequestRecorded, Limits DEF IsExchange
    <2>4. Present(call.record.headers) = Present(x.headers) \ Credentials
      BY <2>1, <2>2, RecordedHeaders DEF IsExchange
    <2>5. /\ IsHonest(response, x.response.bytes, x.response.json)
          /\ response.size = Len(x.response.bytes)
      <3> DEFINE b == x.response.bytes
                 json == x.response.json
      <3>1. b \in Seq(Bytes) /\ json \in BOOLEAN
        BY <2>1 DEF IsExchange
      <3>2. response = NewAuditBody(Cut(b, limit), json, Len(b) > limit, Len(b))
        BY DEF ReadResponse
      <3> HIDE DEF b, json, response
      <3>3. IsHonest(response, b, json)
        BY <2>1, <3>1, <3>2, KeptIsHonest
      <3>4. response.size = Len(b)
        BY <3>2 DEF NewAuditBody
      <3> QED
        BY <3>3, <3>4 DEF b, json
    <2>6. call.status # "request_too_large" => ~ReadRequest(x.bytes).tooLarge
      BY <2>1 DEF RecordFollows
    <2>7. call.status = "upstream" /\ call.record.complete => call.record.responseBody = response
      BY <2>1 DEF RecordFollows
    <2> HIDE DEF request, response
    <2> QED
      BY <2>2, <2>3, <2>4, <2>5, <2>6, <2>7 DEF RecordIsHonest
  <1> QED
    BY <1>1, PassageInvariant, PTL

\* However many chunks a session and the one before have, whatever other cookies the
\* browser sends: once its cookies are written it is served as who it is.
THEOREM SignedInIsServed == Spec => []SignedInStaysSignedIn
  <1>1. TypeOK => SignedInStaysSignedIn
    <2> SUFFICES ASSUME TypeOK, call # NoCall, call.settled \in Valid,
                        call.x.authorization.scheme = "none"
                 PROVE  /\ call.status = "unauthorized" => call.verdict = "no_user"
                        /\ WasForwarded =>
                             call.forwarded["X-User-Id"] = <<UserOf[call.settled]>>
      BY DEF SignedInStaysSignedIn
    <2>1. SessionFollows(call)
      BY DEF TypeOK, CallInv
    <2>2. call.token = call.settled
      BY <2>1 DEF SessionFollows
    <2>3. call.status = "unauthorized" => call.verdict = "no_user"
      BY <2>1, <2>2 DEF SessionFollows
    <2>4. ASSUME WasForwarded
          PROVE  call.forwarded["X-User-Id"] = <<UserOf[call.settled]>>
      <3> DEFINE h == call.x.headers
                 user == UserOf[call.token]
                 f == ForwardHeaders(h, user, "gateway id", "internal token", "peer")
      <3>1. h \in [Names -> Seq(STRING)] /\ call.forwarded = f
        BY <2>4, ForwardedCall
      <3> HIDE DEF h, user
      <3>2. ForwardedFrom(h, user, f)
        BY <3>1, ForwardedHeaders
      <3>3. f["X-User-Id"] = <<user>>
        BY <3>2 DEF ForwardedFrom
      <3> QED
        BY <2>2, <3>1, <3>3 DEF user
    <2> QED
      BY <2>3, <2>4
  <1> QED
    BY <1>1, PassageInvariant, PTL
=============================================================================
