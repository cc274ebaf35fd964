--------------------------- MODULE Routing_proofs ---------------------------
(***************************************************************************)
(* Which route and which upstream path a call gets, for any routes that    *)
(* are accepted and any paths: the table is a stable order by the length   *)
(* of the prefixes, and a longer prefix of a path begins with a shorter.   *)
(***************************************************************************)
EXTENDS Routing, OrderLemmas, SequenceTheorems, TLAPS

Strings == Seq(Segments)
ValidRoutes == {Parsed(e) : e \in {d \in Entries : Valid(d)}}

-----------------------------------------------------------------------------
(* Paths and their beginnings.                                             *)

LEMMA SubSeqFacts ==
  ASSUME NEW p \in Strings, NEW i \in Int, NEW j \in Int, 1 <= i, j <= Len(p), i <= j + 1
  PROVE  /\ SubSeq(p, i, j) \in Strings
         /\ Len(SubSeq(p, i, j)) = j - i + 1
         /\ \A k \in 1 .. j - i + 1 : SubSeq(p, i, j)[k] = p[i + k - 1]
  <1> DEFINE len == Len(p)
  <1>1. len \in Nat /\ \A k \in 1 .. len : p[k] \in Segments
    BY LenProperties, ElementOfSeq DEF Strings
  <1>2. \A k \in i .. j : p[k] \in Segments
    <2> HIDE DEF len
    <2>1. \A k \in i .. j : k \in 1 .. len
      BY <1>1 DEF len
    <2> QED
      BY <1>1, <2>1
  <1>3. /\ SubSeq(p, i, j) \in Seq(Segments)
        /\ Len(SubSeq(p, i, j)) = IF i <= j THEN j - i + 1 ELSE 0
        /\ \A k \in 1 .. j - i + 1 : SubSeq(p, i, j)[k] = p[i + k - 1]
    BY <1>2, SubSeqProperties
  <1>4. (IF i <= j THEN j - i + 1 ELSE 0) = j - i + 1
    OBVIOUS
  <1> QED
    BY <1>3, <1>4 DEF Strings

\* To begin a path is to agree with it as far as one goes.
LEMMA Beginning ==
  ASSUME NEW p \in Strings, NEW q \in Strings
  PROVE  IsPrefix(p, q) <=> Len(p) <= Len(q) /\ \A i \in 1 .. Len(p) : p[i] = q[i]
  <1> DEFINE k == Len(p)
             s == SubSeq(p, 1, k)
             t == SubSeq(q, 1, k)
  <1>1. k \in Nat /\ Len(q) \in Nat
    BY LenProperties DEF Strings
  <1> HIDE DEF k
  <1>2. s \in Strings /\ Len(s) = k /\ \A i \in 1 .. k : s[i] = p[i]
    <2>1. k - 1 + 1 = k /\ 1 <= k + 1 /\ k <= Len(p) /\ k \in Int /\ 1 \in Int
      BY <1>1 DEF k
    <2>2. /\ s \in Strings /\ Len(s) = k - 1 + 1
          /\ \A i \in 1 .. k - 1 + 1 : s[i] = p[1 + i - 1]
      BY <2>1, SubSeqFacts
    <2>3. \A i \in 1 .. k : 1 + i - 1 = i
      BY <1>1
    <2> QED
      BY <2>1, <2>2, <2>3
  <1>3. k <= Len(q) => t \in Strings /\ Len(t) = k /\ \A i \in 1 .. k : t[i] = q[i]
    <2> SUFFICES ASSUME k <= Len(q)
                 PROVE  t \in Strings /\ Len(t) = k /\ \A i \in 1 .. k : t[i] = q[i]
      OBVIOUS
    <2>1. k - 1 + 1 = k /\ 1 <= k + 1 /\ k \in Int /\ 1 \in Int
      BY <1>1
    <2>2. /\ t \in Strings /\ Len(t) = k - 1 + 1
          /\ \A i \in 1 .. k - 1 + 1 : t[i] = q[1 + i - 1]
      BY <2>1, SubSeqFacts
    <2>3. \A i \in 1 .. k : 1 + i - 1 = i
      BY <1>1
    <2> QED
      BY <2>1, <2>2, <2>3
  <1>4. IsPrefix(p, q) <=> k <= Len(q) /\ s = t
    BY DEF IsPrefix, k
  <1> HIDE DEF s, t
  <1>5. k <= Len(q) => (s = t <=> \A i \in 1 .. k : p[i] = q[i])
    <2> SUFFICES ASSUME k <= Len(q)
                 PROVE  s = t <=> \A i \in 1 .. k : p[i] = q[i]
      OBVIOUS
    <2>1. (\A i \in 1 .. k : s[i] = t[i]) => s = t
      BY <1>2, <1>3, SeqEqual DEF Strings
    <2> QED
      BY <1>2, <1>3, <2>1
  <1> QED
    BY <1>4, <1>5 DEF k

\* Of two beginnings of a path the shorter one begins the longer one.
LEMMA BeginningsNest ==
  ASSUME NEW p \in Strings, NEW q \in Strings, NEW r \in Strings,
         IsPrefix(p, r), IsPrefix(q, r), Len(p) <= Len(q)
  PROVE  IsPrefix(p, q) /\ (Len(p) = Len(q) => p = q)
  <1>1. /\ \A i \in 1 .. Len(p) : p[i] = r[i]
        /\ \A i \in 1 .. Len(q) : q[i] = r[i]
    BY Beginning
  <1>2. Len(p) \in Nat /\ Len(q) \in Nat
    BY LenProperties DEF Strings
  <1>3. \A i \in 1 .. Len(p) : p[i] = q[i]
    <2> DEFINE k == Len(p)
               l == Len(q)
    <2>1. \A i \in 1 .. k : i \in 1 .. l
      <3> HIDE DEF k, l
      <3> QED
        BY <1>2 DEF k, l
    <2> QED
      BY <1>1, <2>1
  <1>4. IsPrefix(p, q)
    BY <1>3, Beginning
  <1> QED
    BY <1>3, <1>4, SeqEqual DEF Strings

BytesOf(p) == UNION {{i} \X (0 .. Bytes[p[i]]) : i \in DOMAIN p}

\* The number of bytes is one, and a longer path that begins with another has more.
LEMMA LengthGrows ==
  ASSUME NEW p \in Strings
  PROVE  /\ LengthOf(p) \in Nat
         /\ \A q \in Strings : IsPrefix(q, p) /\ Len(q) < Len(p) => LengthOf(q) < LengthOf(p)
  <1> DEFINE D == 1 .. Len(p)
             f == [i \in D |-> {i} \X (0 .. Bytes[p[i]])]
             parts == {f[i] : i \in D}
  <1>1. Len(p) \in Nat /\ DOMAIN p = D /\ \A i \in D : p[i] \in Segments
    BY LenProperties, ElementOfSeq DEF Strings
  <1>2. IsFiniteSet(D)
    BY <1>1, FS_Interval
  <1>3. IsFiniteSet(parts)
    <2>1. f \in Surjection(D, parts)
      BY DEF Surjection
    <2> QED
      BY <1>2, <2>1, FS_Surjection
  <1>4. \A i \in D : IsFiniteSet(f[i])
    <2> SUFFICES ASSUME NEW i \in D
                 PROVE  IsFiniteSet(f[i])
      OBVIOUS
    <2>1. Bytes[p[i]] \in Nat
      BY <1>1, RoutingAssumption DEF RoutingAssumption
    <2>2. IsFiniteSet({i}) /\ IsFiniteSet(0 .. Bytes[p[i]])
      <3>1. IsFiniteSet({i})
        BY FS_Singleton
      <3> DEFINE n == Bytes[p[i]]
      <3>2. 0 \in Int /\ n \in Int
        BY <2>1
      <3> HIDE DEF n
      <3>3. IsFiniteSet(0 .. n)
        BY <3>2, FS_Interval
      <3> QED
        BY <3>1, <3>3 DEF n
    <2> QED
      BY <2>2, FS_Product
  <1>5. BytesOf(p) = UNION parts
    BY <1>1 DEF BytesOf
  <1>6. IsFiniteSet(BytesOf(p)) /\ LengthOf(p) \in Nat /\ LengthOf(p) = Cardinality(BytesOf(p))
    <2>1. \A part \in parts : IsFiniteSet(part)
      BY <1>4
    <2>2. IsFiniteSet(UNION parts)
      BY <1>3, <2>1, FS_UNION
    <2> QED
      BY <1>5, <2>2, FS_CardinalityType DEF LengthOf, BytesOf
  <1>7. ASSUME NEW q \in Strings, IsPrefix(q, p), Len(q) < Len(p)
        PROVE  LengthOf(q) < LengthOf(p)
    <2>1. Len(q) \in Nat /\ DOMAIN q = 1 .. Len(q)
      BY LenProperties DEF Strings
    <2>2. \A i \in DOMAIN q : i \in DOMAIN p /\ q[i] = p[i]
      <3>1. \A i \in 1 .. Len(q) : i \in 1 .. Len(p)
        BY <1>1, <1>7, <2>1
      <3> QED
        BY <1>1, <1>7, <2>1, <3>1, Beginning
    <2>3. BytesOf(q) \in SUBSET BytesOf(p)
      BY <2>2 DEF BytesOf
    <2> DEFINE last == <<Len(p), 0>>
    <2>4. last \in BytesOf(p) /\ last \notin BytesOf(q)
      <3>1. Len(p) \in DOMAIN p /\ Len(p) \notin DOMAIN q
        BY <1>1, <1>7, <2>1
      <3>2. Bytes[p[Len(p)]] \in Nat
        BY <1>1, <3>1, RoutingAssumption DEF RoutingAssumption
      <3>3. last \in {Len(p)} \X (0 .. Bytes[p[Len(p)]])
        BY <3>2
      <3> QED
        BY <3>1, <3>3 DEF BytesOf
    <2>5. /\ Cardinality(BytesOf(q)) <= Cardinality(BytesOf(p))
          /\ Cardinality(BytesOf(q)) # Cardinality(BytesOf(p))
          /\ Cardinality(BytesOf(q)) \in Nat
      BY <1>6, <2>3, <2>4, FS_Subset, FS_CardinalityType
    <2> QED
      BY <1>6, <2>5 DEF LengthOf, BytesOf
  <1> QED
    BY <1>6, <1>7

-----------------------------------------------------------------------------
(* Slashes at the end and at the start.                                    *)

LEMMA OneSegment ==
  /\ \A s \in Segments : <<s>> \in Strings /\ Len(<<s>>) = 1 /\ <<s>>[1] = s /\ <<s>> # << >>
  /\ Root \in Strings /\ Root # << >> /\ Len(Root) = 1 /\ Root[1] = ""
  <1>1. \A s \in Segments : <<s>> \in Strings /\ Len(<<s>>) = 1 /\ <<s>>[1] = s /\ <<s>> # << >>
    BY DEF Strings
  <1>2. "" \in Segments
    BY RoutingAssumption DEF RoutingAssumption
  <1> QED
    BY <1>1, <1>2 DEF Root

\* What TrimRight leaves is empty or ends with a name.
LEMMA TrimRightFacts ==
  ASSUME NEW p \in Strings
  PROVE  /\ TrimRight(p) \in Strings
         /\ TrimRight(p) # << >> => TrimRight(p)[Len(TrimRight(p))] # ""
  <1> DEFINE len == Len(p)
             Named == {i \in DOMAIN p : p[i] # ""}
             k == IF Named = {} THEN 0 ELSE Max(Named)
  <1>1. len \in Nat /\ DOMAIN p = 1 .. len
    BY LenProperties DEF Strings
  <1>2. Named # {} => Max(Named) \in Named
    <2> SUFFICES ASSUME Named # {}
                 PROVE  Max(Named) \in Named
      OBVIOUS
    <2> HIDE DEF len
    <2>1. \A i \in Named : i \in 1 .. len
      BY <1>1
    <2> HIDE DEF Named
    <2>2. Named \in SUBSET (0 .. len) /\ \A i \in Named : i \in Nat
      BY <1>1, <2>1
    <2>3. PICK m \in Named : \A i \in Named : i <= m
      BY <1>1, <2>2, GreatestNatural
    <2>4. \A i \in Named : m >= i
      BY <2>2, <2>3
    <2> QED
      BY <2>3, <2>4 DEF Max
  <1>3. k \in 0 .. len /\ (k # 0 => k \in Named)
    <2>1. Named # {} => Max(Named) \in 1 .. len
      BY <1>1, <1>2
    <2>2. k = 0 \/ (k \in Named /\ k \in 1 .. len)
      BY <1>2, <2>1
    <2> HIDE DEF k, Named, len
    <2> QED
      BY <1>1, <2>2
  <1>4. TrimRight(p) = SubSeq(p, 1, k)
    BY DEF TrimRight
  <1>5. \A i \in Named : p[i] # ""
    OBVIOUS
  <1> HIDE DEF k, Named
  <1>6. /\ TrimRight(p) \in Strings /\ Len(TrimRight(p)) = k
        /\ \A i \in 1 .. k : TrimRight(p)[i] = p[i]
    <2>1. 1 \in Int /\ k \in Int /\ k <= Len(p) /\ 1 <= k + 1 /\ k - 1 + 1 = k
      BY <1>1, <1>3
    <2>2. /\ SubSeq(p, 1, k) \in Strings /\ Len(SubSeq(p, 1, k)) = k - 1 + 1
          /\ \A i \in 1 .. k - 1 + 1 : SubSeq(p, 1, k)[i] = p[1 + i - 1]
      BY <2>1, SubSeqFacts
    <2>3. \A i \in 1 .. k : 1 + i - 1 = i
      BY <2>1
    <2> QED
      BY <1>4, <2>1, <2>2, <2>3
  <1>7. TrimRight(p) # << >> => k # 0
    <2>1. k = 0 => TrimRight(p) = << >>
      BY <1>6, EmptySeq DEF Strings
    <2> QED
      BY <2>1
  <1>8. k # 0 => k \in 1 .. k
    BY <1>1, <1>3
  <1> QED
    BY <1>3, <1>5, <1>6, <1>7, <1>8

\* The routes that are accepted have a name and a prefix.
LEMMA ParsedRoute ==
  ASSUME NEW route \in ValidRoutes
  PROVE  /\ route.name # "" /\ route # NoRoute
         /\ route.prefix \in Strings /\ route.prefix # << >>
         /\ route.target \in Strings
  <1>1. PICK e \in Entries : Valid(e) /\ route = Parsed(e)
    BY DEF ValidRoutes
  <1>2. e.prefix \in Strings /\ e.target \in Strings /\ "" \in Segments
    BY RoutingAssumption DEF RoutingAssumption, Strings
  <1>3. TrimRight(e.prefix) \in Strings
    BY <1>2, TrimRightFacts
  <1>4. Root \in Strings /\ Root # << >>
    BY OneSegment
  <1>5. route.name = e.name /\ route.target = e.target /\ e.name # ""
    BY <1>1 DEF Parsed, Valid
  <1>6. route.prefix = IF TrimRight(e.prefix) = << >> THEN Root ELSE TrimRight(e.prefix)
    BY <1>1 DEF Parsed
  <1>7. NoRoute.name = ""
    BY DEF NoRoute
  <1> QED
    BY <1>2, <1>3, <1>4, <1>5, <1>6, <1>7

-----------------------------------------------------------------------------
(* The table.                                                              *)

\* Every member of `order` is before the next ones, and all are there.
IsOrder(order, routes) ==
  LET D == DOMAIN routes IN
  /\ order \in [D -> D]
  /\ \A m, n \in D : m < n => Before(routes, order[m], order[n])
  /\ \A i \in D : \E n \in D : order[n] = i

LEMMA OrderExists ==
  ASSUME NEW routes, Len(routes) \in Nat, DOMAIN routes = 1 .. Len(routes),
         \A i \in DOMAIN routes : routes[i].prefix \in Strings
  PROVE  IsOrder(Order(routes), routes)
  <1> DEFINE N == Len(routes)
             D == DOMAIN routes
             R == {ij \in D \X D : Before(routes, ij[1], ij[2])}
             size(i) == LengthOf(routes[i].prefix)
             sorted(order) == \A m, n \in D : m < n => Before(routes, order[m], order[n])
  <1>1. N \in Nat /\ D = 1 .. N
    OBVIOUS
  <1>2. \A i \in D : size(i) \in Nat
    BY LengthGrows
  <1>3. IsFiniteSet(D) /\ Cardinality(D) = N
    BY <1>1, FS_Interval
  <1>4. \A i, j \in D : <<i, j>> \in R <=> size(i) > size(j) \/ (size(i) = size(j) /\ i < j)
    BY DEF Before
  <1>5. \A i \in D : i \in Nat
    BY <1>1
  <1> HIDE DEF N, D, R, size
  <1>6. Orders(R, D)
    <2>1. \A i \in D : <<i, i>> \notin R
      BY <1>2, <1>4, <1>5
    <2>2. \A i, j \in D : i # j => <<i, j>> \in R \/ <<j, i>> \in R
      BY <1>2, <1>4, <1>5
    <2>3. \A i, j, k \in D : <<i, j>> \in R /\ <<j, k>> \in R => <<i, k>> \in R
      BY <1>2, <1>4, <1>5
    <2> QED
      BY <2>1, <2>2, <2>3 DEF Orders
  <1>7. PICK s : Lists(s, R, D)
    BY <1>3, <1>6, ListExists
  <1>8. \A i, j : <<i, j>> \in R => Before(routes, i, j)
    BY DEF R
  <1>9. s \in [D -> D] /\ sorted(s)
    BY <1>1, <1>3, <1>7, <1>8 DEF Lists
  <1>10. Order(routes) = CHOOSE order \in [D -> D] : sorted(order)
    BY DEF Order, D
  <1>11. Order(routes) \in [D -> D] /\ sorted(Order(routes))
    <2> HIDE DEF sorted
    <2> QED
      BY <1>9, <1>10
  <1>12. Lists(Order(routes), R, D)
    <2>1. \A m, n \in D : m < n => <<Order(routes)[m], Order(routes)[n]>> \in R
      BY <1>11 DEF R
    <2> QED
      BY <1>1, <1>3, <1>11, <2>1 DEF Lists
  <1>13. \A i \in D : \E n \in D : Order(routes)[n] = i
    <2> DEFINE order == Order(routes)
    <2> HIDE DEF order
    <2>1. \A i \in D : \E n \in 1 .. Cardinality(D) : order[n] = i
      BY <1>3, <1>6, <1>12, ListIsBijection DEF order
    <2> QED
      BY <1>1, <1>3, <2>1 DEF order
  <1> QED
    BY <1>11, <1>13 DEF IsOrder, D

\* The table has the routes of the configuration, those with long prefixes first.
LEMMA TableOf ==
  ASSUME NEW routes \in Seq(ValidRoutes)
  PROVE  /\ IsOrder(Order(routes), routes)
         /\ DOMAIN routes = 1 .. Len(routes) /\ Len(routes) \in Nat
         /\ \A i \in DOMAIN routes : routes[i] \in ValidRoutes
         /\ DOMAIN Sorted(routes) = DOMAIN routes /\ Len(Sorted(routes)) = Len(routes)
         /\ \A n \in DOMAIN routes : Sorted(routes)[n] = routes[Order(routes)[n]]
         /\ Range(Sorted(routes)) = Range(routes) /\ Sorted(routes) \in Seq(ValidRoutes)
  <1>1. DOMAIN routes = 1 .. Len(routes) /\ Len(routes) \in Nat
    BY LenProperties
  <1>2. \A i \in DOMAIN routes : routes[i] \in ValidRoutes
    BY <1>1, ElementOfSeq
  <1>3. \A route \in ValidRoutes : route.prefix \in Strings
    BY ParsedRoute
  <1>4. IsOrder(Order(routes), routes)
    BY <1>1, <1>2, <1>3, OrderExists
  <1>5. DOMAIN Sorted(routes) = DOMAIN routes
        /\ \A n \in DOMAIN routes : Sorted(routes)[n] = routes[Order(routes)[n]]
    BY DEF Sorted
  <1>6. Len(Sorted(routes)) = Len(routes)
    <2>1. Sorted(routes) = [n \in 1 .. Len(routes) |-> routes[Order(routes)[n]]]
      BY <1>1 DEF Sorted
    <2> QED
      BY <1>1, <2>1
  <1>7. Range(Sorted(routes)) = Range(routes)
    BY <1>4, <1>5 DEF Range, IsOrder
  <1>8. Sorted(routes) \in Seq(ValidRoutes)
    <2>1. \A n \in DOMAIN routes : Sorted(routes)[n] \in ValidRoutes
      BY <1>2, <1>4, <1>5 DEF IsOrder
    <2>2. Sorted(routes) = [n \in DOMAIN routes |-> routes[Order(routes)[n]]]
      BY DEF Sorted
    <2>3. Sorted(routes) \in [1 .. Len(routes) -> ValidRoutes]
      BY <1>1, <1>5, <2>1, <2>2
    <2> QED
      BY <1>1, <2>3
  <1> QED
    BY <1>1, <1>2, <1>4, <1>5, <1>6, <1>7, <1>8

\* The first route that will do comes before the others that would.
LEMMA FirstWins ==
  ASSUME NEW routes \in Seq(ValidRoutes), NEW T \in SUBSET DOMAIN routes,
         NEW n \in DOMAIN routes, Order(routes)[n] \in T,
         \A m \in 1 .. n - 1 : Order(routes)[m] \notin T
  PROVE  \A j \in T : j = Order(routes)[n] \/ Before(routes, Order(routes)[n], j)
  <1> DEFINE D == DOMAIN routes
             order == Order(routes)
  <1>1. IsOrder(order, routes) /\ D = 1 .. Len(routes) /\ Len(routes) \in Nat
    BY TableOf
  <1> HIDE DEF order
  <1> SUFFICES ASSUME NEW j \in T
               PROVE  j = order[n] \/ Before(routes, order[n], j)
    BY DEF order
  <1>2. PICK m \in D : order[m] = j
    BY <1>1 DEF IsOrder
  <1>3. ~(m < n)
    <2>1. m < n => m \in 1 .. n - 1
      BY <1>1
    <2> QED
      BY <1>2, <2>1 DEF order
  <1>4. m = n \/ n < m
    BY <1>1, <1>3
  <1> QED
    BY <1>1, <1>2, <1>4 DEF IsOrder

\* Match and RouteByName find the first route that will do, or none.
LEMMA MatchFinds ==
  ASSUME NEW routes, Len(routes) \in Nat, NEW p
  PROVE  LET n == Match(routes, p) IN
         \/ n = 0 /\ \A i \in 1 .. Len(routes) : ~IsPrefix(routes[i].prefix, p)
         \/ /\ n \in 1 .. Len(routes) /\ IsPrefix(routes[n].prefix, p)
            /\ \A i \in 1 .. n - 1 : ~IsPrefix(routes[i].prefix, p)
  <1> DEFINE len == Len(routes)
             I == {i \in 1 .. len : IsPrefix(routes[i].prefix, p)}
  <1>1. Match(routes, p) = IF I # {} THEN Min(I) ELSE 0
    BY DEF Match, SelectInSeq
  <1>2. CASE I = {}
    BY <1>1, <1>2
  <1>3. CASE I # {}
    <2>1. I \in SUBSET Nat /\ \A i \in I : i \in 1 .. len
      OBVIOUS
    <2>2. Min(I) \in I /\ \A i \in I : Min(I) <= i
      <3> HIDE DEF I
      <3> QED
        BY <1>3, <2>1, LeastNatural DEF Min
    <2>3. \A i \in 1 .. Min(I) - 1 : i \in 1 .. len /\ ~(Min(I) <= i)
      <3> DEFINE n == Min(I)
      <3>1. n \in 1 .. len /\ len \in Nat
        BY <2>1, <2>2
      <3> HIDE DEF n, len
      <3>2. \A i \in 1 .. n - 1 : i \in 1 .. len /\ ~(n <= i)
        BY <3>1
      <3> QED
        BY <3>2 DEF n
    <2> QED
      BY <1>1, <1>3, <2>2, <2>3
  <1> QED
    BY <1>2, <1>3

LEMMA NameFinds ==
  ASSUME NEW routes, Len(routes) \in Nat, NEW s
  PROVE  LET n == RouteByName(routes, s) IN
         \/ n = 0 /\ \A i \in 1 .. Len(routes) : routes[i].name # s
         \/ /\ n \in 1 .. Len(routes) /\ routes[n].name = s
            /\ \A i \in 1 .. n - 1 : routes[i].name # s
  <1> DEFINE len == Len(routes)
             I == {i \in 1 .. len : routes[i].name = s}
  <1>1. RouteByName(routes, s) = IF I # {} THEN Min(I) ELSE 0
    BY DEF RouteByName, SelectInSeq
  <1>2. CASE I = {}
    BY <1>1, <1>2
  <1>3. CASE I # {}
    <2>1. I \in SUBSET Nat /\ \A i \in I : i \in 1 .. len
      OBVIOUS
    <2>2. Min(I) \in I /\ \A i \in I : Min(I) <= i
      <3> HIDE DEF I
      <3> QED
        BY <1>3, <2>1, LeastNatural DEF Min
    <2>3. \A i \in 1 .. Min(I) - 1 : i \in 1 .. len /\ ~(Min(I) <= i)
      <3> DEFINE n == Min(I)
      <3>1. n \in 1 .. len /\ len \in Nat
        BY <2>1, <2>2
      <3> HIDE DEF n, len
      <3>2. \A i \in 1 .. n - 1 : i \in 1 .. len /\ ~(n <= i)
        BY <3>1
      <3> QED
        BY <3>2 DEF n
    <2> QED
      BY <1>1, <1>3, <2>2, <2>3
  <1> QED
    BY <1>2, <1>3

-----------------------------------------------------------------------------
(* The path of the upstream.                                               *)

\* What TrimLeft leaves is empty or begins with a name; a clean path it leaves alone,
\* unless that is a slash alone.
LEMMA TrimLeftFacts ==
  ASSUME NEW p \in Strings
  PROVE  /\ TrimLeft(p) \in Strings
         /\ TrimLeft(p) # << >> => TrimLeft(p)[1] # ""
         /\ \E m \in 0 .. Len(p) :
              /\ \A i \in 1 .. m : p[i] = ""
              /\ TrimLeft(p) = SubSeq(p, m + 1, Len(p))
  <1> DEFINE len == Len(p)
             Named == {i \in DOMAIN p : p[i] # ""}
             k == Min(Named)
  <1>1. len \in Nat /\ DOMAIN p = 1 .. len
    BY LenProperties DEF Strings
  <1>2. \A i \in Named : i \in 1 .. len /\ p[i] # ""
    BY <1>1
  <1>3. TrimLeft(p) = IF Named = {} THEN << >> ELSE SubSeq(p, k, len)
    BY DEF TrimLeft
  <1>4. << >> \in Strings
    BY EmptySeq DEF Strings
  <1>5. \A i \in 1 .. len : i \notin Named => p[i] = ""
    BY <1>1
  <1>6. CASE Named = {}
    <2>1. \A i \in 1 .. len : p[i] = ""
      BY <1>5, <1>6
    <2>2. SubSeq(p, len + 1, len) = << >>
      <3>1. /\ len + 1 \in Int /\ len \in Int /\ 1 <= len + 1 /\ len <= Len(p)
            /\ len + 1 <= len + 1 /\ len - (len + 1) + 1 = 0
        BY <1>1
      <3>2. SubSeq(p, len + 1, len) \in Strings /\ Len(SubSeq(p, len + 1, len)) = 0
        BY <3>1, SubSeqFacts
      <3> QED
        BY <3>2, EmptySeq DEF Strings
    <2>3. len \in 0 .. len
      BY <1>1
    <2> QED
      BY <1>3, <1>4, <1>6, <2>1, <2>2, <2>3
  <1>7. CASE Named # {}
    <2> HIDE DEF Named
    <2>1. Named \in SUBSET Nat
      <3>1. \A i \in 1 .. len : i \in Nat
        BY <1>1
      <3> QED
        BY <1>2, <3>1
    <2>2. k \in Named /\ \A i \in Named : k <= i
      BY <1>7, <2>1, LeastNatural DEF Min
    <2>3. k \in 1 .. len /\ p[k] # ""
      BY <1>2, <2>2
    <2> HIDE DEF k
    <2>4. /\ k \in Int /\ len \in Int /\ 1 <= k /\ k <= len + 1
          /\ 1 \in 1 .. len - k + 1 /\ k + 1 - 1 = k
          /\ k - 1 \in 0 .. len /\ k - 1 + 1 = k
          /\ \A i \in 1 .. k - 1 : i \in 1 .. len /\ ~(k <= i)
      <3>1. k \in 1 .. len /\ len \in Nat
        BY <1>1, <2>3
      <3> HIDE DEF len
      <3> QED
        BY <3>1
    <2>5. /\ SubSeq(p, k, len) \in Strings /\ Len(SubSeq(p, k, len)) = len - k + 1
          /\ \A i \in 1 .. len - k + 1 : SubSeq(p, k, len)[i] = p[k + i - 1]
      <3>1. len <= Len(p)
        BY <1>1
      <3> HIDE DEF len
      <3> QED
        BY <2>4, <3>1, SubSeqFacts
    <2>6. SubSeq(p, k, len)[1] = p[k]
      BY <2>4, <2>5
    <2>7. \A i \in 1 .. k - 1 : p[i] = ""
      BY <1>5, <2>2, <2>4
    <2>8. \E m \in 0 .. len :
             (\A i \in 1 .. m : p[i] = "") /\ SubSeq(p, k, len) = SubSeq(p, m + 1, len)
      <3>1. k - 1 \in 0 .. len /\ SubSeq(p, k, len) = SubSeq(p, k - 1 + 1, len)
        BY <2>4
      <3> HIDE DEF len
      <3> QED
        BY <2>7, <3>1
    <2> QED
      BY <1>3, <1>7, <2>3, <2>5, <2>6, <2>8
  <1> QED
    BY <1>6, <1>7

\* The end of an end.
LEMMA EndOfEnd ==
  ASSUME NEW p \in Strings, NEW n \in 0 .. Len(p), NEW m \in 0 .. Len(p) - n
  PROVE  LET s == SubSeq(p, n + 1, Len(p)) IN
         /\ s \in Strings /\ Len(s) = Len(p) - n
         /\ \A i \in 1 .. Len(p) - n : s[i] = p[n + i]
         /\ SubSeq(s, m + 1, Len(s)) = SubSeq(p, n + m + 1, Len(p))
  <1> DEFINE len == Len(p)
             s == SubSeq(p, n + 1, len)
             u == SubSeq(s, m + 1, Len(s))
             v == SubSeq(p, n + m + 1, len)
  <1>1. len \in Nat /\ n \in 0 .. len /\ m \in 0 .. len - n /\ len <= Len(p)
    BY LenProperties DEF Strings
  <1>2. /\ n + 1 \in Int /\ len \in Int /\ 1 <= n + 1 /\ n + 1 <= len + 1
        /\ len - (n + 1) + 1 = len - n
        /\ \A i \in 1 .. len - n : n + 1 + i - 1 = n + i
    <2> HIDE DEF len
    <2> QED
      BY <1>1
  <1>3. /\ s \in Strings /\ Len(s) = len - n
        /\ \A i \in 1 .. len - n : s[i] = p[n + i]
    <2>1. /\ s \in Strings /\ Len(s) = len - (n + 1) + 1
          /\ \A i \in 1 .. len - (n + 1) + 1 : s[i] = p[n + 1 + i - 1]
      <3> HIDE DEF len
      <3> QED
        BY <1>1, <1>2, SubSeqFacts
    <2> QED
      BY <1>2, <2>1
  <1> HIDE DEF s
  <1>4. /\ u \in Strings /\ Len(u) = len - n - m
        /\ \A i \in 1 .. len - n - m : u[i] = p[n + m + i]
    <2> DEFINE l == Len(s)
    <2>1. /\ m + 1 \in Int /\ l \in Int /\ 1 <= m + 1 /\ m + 1 <= l + 1 /\ l <= l
          /\ l - (m + 1) + 1 = len - n - m
          /\ \A i \in 1 .. len - n - m : /\ m + 1 + i - 1 = m + i /\ m + i \in 1 .. len - n
                                         /\ n + (m + i) = n + m + i
      <3>1. l = len - n
        BY <1>3
      <3> HIDE DEF l, len
      <3> QED
        BY <1>1, <3>1
    <2>2. l <= Len(s)
      BY <2>1
    <2>3. /\ SubSeq(s, m + 1, l) \in Strings /\ Len(SubSeq(s, m + 1, l)) = l - (m + 1) + 1
          /\ \A i \in 1 .. l - (m + 1) + 1 : SubSeq(s, m + 1, l)[i] = s[m + 1 + i - 1]
      <3> HIDE DEF l
      <3> QED
        BY <1>3, <2>1, <2>2, SubSeqFacts
    <2> HIDE DEF len
    <2> QED
      BY <1>3, <2>1, <2>3
  <1>5. /\ v \in Strings /\ Len(v) = len - n - m
        /\ \A i \in 1 .. len - n - m : v[i] = p[n + m + i]
    <2>1. /\ n + m + 1 \in Int /\ 1 <= n + m + 1 /\ n + m + 1 <= len + 1
          /\ len - (n + m + 1) + 1 = len - n - m
          /\ \A i \in 1 .. len - n - m : n + m + 1 + i - 1 = n + m + i
      <3> HIDE DEF len
      <3> QED
        BY <1>1
    <2>2. /\ v \in Strings /\ Len(v) = len - (n + m + 1) + 1
          /\ \A i \in 1 .. len - (n + m + 1) + 1 : v[i] = p[n + m + 1 + i - 1]
      <3> HIDE DEF len
      <3> QED
        BY <1>1, <1>2, <2>1, SubSeqFacts
    <2> QED
      BY <2>1, <2>2
  <1> HIDE DEF len, u, v
  <1>6. u = v
    BY <1>4, <1>5, SeqEqual DEF Strings
  <1> QED
    BY <1>3, <1>6 DEF s, len, u, v

\* Slashes at the start make no difference.
LEMMA SlashesTrimmed ==
  ASSUME NEW p \in Strings, NEW n \in 0 .. Len(p)
  PROVE  (\A i \in 1 .. n : p[i] = "") => TrimLeft(p) = TrimLeft(SubSeq(p, n + 1, Len(p)))
  <1> DEFINE len == Len(p)
             s == SubSeq(p, n + 1, len)
             l == Len(s)
             Named == {i \in DOMAIN p : p[i] # ""}
             Rest == {i \in DOMAIN s : s[i] # ""}
             j == Min(Named)
             k == Min(Rest)
  <1>0. SUFFICES ASSUME \A i \in 1 .. n : p[i] = ""
                 PROVE  TrimLeft(p) = TrimLeft(s)
    OBVIOUS
  <1>1. len \in Nat /\ DOMAIN p = 1 .. len /\ n \in 0 .. len
    BY LenProperties DEF Strings
  <1>2. s \in Strings /\ l = len - n /\ \A i \in 1 .. len - n : s[i] = p[n + i]
    <2>1. 0 \in 0 .. len - n
      <3> HIDE DEF len
      <3> QED
        BY <1>1
    <2>2. 0 \in 0 .. Len(p) - n
      BY <2>1
    <2> QED
      BY <2>2, EndOfEnd
  <1> HIDE DEF s
  <1>3. DOMAIN s = 1 .. len - n
    BY <1>2, LenProperties DEF Strings
  <1> HIDE DEF len, l
  <1>4. /\ TrimLeft(p) = IF Named = {} THEN << >> ELSE SubSeq(p, j, len)
        /\ TrimLeft(s) = IF Rest = {} THEN << >> ELSE SubSeq(s, k, l)
    BY DEF TrimLeft, len, l
  <1>4a. /\ \A i \in 1 .. len - n : n + i \in 1 .. len
         /\ \A i \in 1 .. len : i \notin 1 .. n => i - n \in 1 .. len - n /\ n + (i - n) = i
    <2>1. len \in Nat /\ n \in 0 .. len
      BY <1>1
    <2> QED
      BY <2>1
  <1>5. \A i \in Rest : n + i \in Named
    <2> SUFFICES ASSUME NEW i \in Rest
                 PROVE  n + i \in Named
      OBVIOUS
    <2>1. i \in 1 .. len - n /\ s[i] # ""
      BY <1>3
    <2>2. n + i \in 1 .. len
      BY <1>4a, <2>1
    <2> QED
      BY <1>1, <1>2, <2>1, <2>2
  <1>6. \A i \in Named : i - n \in Rest
    <2> SUFFICES ASSUME NEW i \in Named
                 PROVE  i - n \in Rest
      OBVIOUS
    <2>1. i \in 1 .. len /\ p[i] # ""
      BY <1>1
    <2>2. i \notin 1 .. n
      BY <1>0, <2>1
    <2>3. i - n \in 1 .. len - n /\ n + (i - n) = i
      BY <1>4a, <2>1, <2>2
    <2> QED
      BY <1>2, <1>3, <2>1, <2>3
  <1>7. Named \in SUBSET Nat /\ Rest \in SUBSET (1 .. len - n) /\ Rest \in SUBSET Nat
    <2>1. Named \in SUBSET (1 .. len) /\ Rest \in SUBSET (1 .. len - n)
      BY <1>1, <1>3
    <2>2. (\A i \in 1 .. len : i \in Nat) /\ (\A i \in 1 .. len - n : i \in Nat)
      BY <1>1
    <2> HIDE DEF Named, Rest
    <2> QED
      BY <2>1, <2>2
  <1> HIDE DEF Named, Rest
  <1>8. CASE Rest = {}
    <2>1. Named = {}
      BY <1>6, <1>8
    <2> QED
      BY <1>4, <1>8, <2>1 DEF s, len
  <1>9. CASE Rest # {}
    <2>1. Named # {}
      BY <1>5, <1>9
    <2>2. k \in Rest /\ \A i \in Rest : k <= i
      BY <1>7, <1>9, LeastNatural DEF Min
    <2>3. j \in Named /\ \A i \in Named : j <= i
      BY <1>7, <2>1, LeastNatural DEF Min
    <2> HIDE DEF j, k
    <2>4. j <= n + k /\ k <= j - n
      BY <1>5, <1>6, <2>2, <2>3
    <2>5. j \in Nat /\ k \in Nat /\ k \in 1 .. len - n
      BY <1>7, <2>2, <2>3
    <2>6. /\ k - 1 \in 0 .. len - n /\ k - 1 + 1 = k /\ n + (k - 1) + 1 = j
      BY <1>1, <2>4, <2>5
    <2>7. SubSeq(s, k - 1 + 1, l) = SubSeq(p, n + (k - 1) + 1, len)
      <3> USE DEF len
      <3>1. k - 1 \in 0 .. Len(p) - n
        BY <2>6
      <3> HIDE DEF j, k
      <3> QED
        BY <3>1, EndOfEnd DEF s, l
    <2>8. SubSeq(s, k, l) = SubSeq(p, j, len)
      BY <2>6, <2>7
    <2> QED
      BY <1>4, <1>9, <2>1, <2>8 DEF s, len
  <1> QED
    BY <1>8, <1>9

\* What follows the prefix in a path.
LEMMA SuffixFacts ==
  ASSUME NEW r \in Strings, NEW p \in Strings, IsPrefix(r, p)
  PROVE  LET s == SubSeq(p, Len(r) + 1, Len(p)) IN
         s \in Strings /\ p = r \o s
  <1> DEFINE k == Len(r)
             len == Len(p)
             s == SubSeq(p, k + 1, len)
  <1>1. k \in Nat /\ len \in Nat
    BY LenProperties DEF Strings
  <1>2. k <= len /\ \A i \in 1 .. k : r[i] = p[i]
    BY Beginning
  <1>3. /\ k + 1 \in Int /\ len \in Int /\ 1 <= k + 1 /\ len <= Len(p) /\ k + 1 <= len + 1
        /\ len - (k + 1) + 1 = len - k
        /\ \A i \in 1 .. len - k : k + 1 + i - 1 = k + i /\ k + i \in 1 .. len
    <2>1. len <= Len(p)
      BY <1>1
    <2> HIDE DEF k, len
    <2> QED
      BY <1>1, <1>2, <2>1
  <1>4. /\ s \in Strings /\ Len(s) = len - (k + 1) + 1
        /\ \A i \in 1 .. len - (k + 1) + 1 : s[i] = p[k + 1 + i - 1]
    <2> HIDE DEF k, len
    <2> QED
      BY <1>3, SubSeqFacts
  <1> HIDE DEF s
  <1>5. Len(s) = len - k /\ \A i \in 1 .. len - k : s[i] = p[k + i]
    BY <1>3, <1>4
  <1>6. p = r \o s
    <2>1. /\ r \o s \in Strings /\ Len(r \o s) = k + Len(s)
          /\ \A i \in 1 .. k + Len(s) : (r \o s)[i] = IF i <= k THEN r[i] ELSE s[i - k]
      BY <1>4, ConcatProperties DEF Strings
    <2> HIDE DEF k, len
    <2>2. k + Len(s) = len
      BY <1>1, <1>5
    <2>3. \A i \in 1 .. len : (r \o s)[i] = p[i]
      <3> SUFFICES ASSUME NEW i \in 1 .. len
                   PROVE  (r \o s)[i] = p[i]
        OBVIOUS
      <3>1. CASE i <= k
        <4>1. i \in 1 .. k
          BY <1>1, <3>1
        <4> QED
          BY <1>2, <2>1, <2>2, <3>1, <4>1
      <3>2. CASE ~(i <= k)
        <4>1. i - k \in 1 .. len - k /\ k + (i - k) = i
          BY <1>1, <3>2
        <4> QED
          BY <1>5, <2>1, <2>2, <3>2, <4>1
      <3> QED
        BY <3>1, <3>2
    <2> QED
      BY <2>1, <2>2, <2>3, SeqEqual DEF Strings, len
  <1> QED
    BY <1>4, <1>6 DEF s

\* A path of the upstream is not empty and begins with that of the target, and what is
\* behind the slash decides it.
LEMMA Joined ==
  ASSUME NEW base \in Strings, NEW s \in Strings
  PROVE  /\ JoinURLPath(base, s) # << >>
         /\ IsPrefix(TrimRight(base), JoinURLPath(base, s))
         /\ \A t \in Strings :
              JoinURLPath(base, s) = JoinURLPath(base, t) <=> TrimLeft(s) = TrimLeft(t)
  <1> DEFINE b == TrimRight(base)
  <1>1. b \in Strings
    BY TrimRightFacts
  <1> HIDE DEF b
  <1>2. /\ \A u \in Strings : TrimLeft(u) \in Strings
        /\ \A u \in Strings : TrimLeft(u) # << >> => TrimLeft(u)[1] # ""
    BY TrimLeftFacts
  <1>3. /\ Root \in Strings /\ Root # << >> /\ Root[1] = ""
        /\ << >> \in Strings /\ Len(<< >>) = 0
    BY OneSegment, EmptySeq DEF Strings
  <1>4. \A u \in Strings : JoinURLPath(base, u) = IF b \o TrimLeft(u) = << >> THEN Root
                                                  ELSE b \o TrimLeft(u)
    BY DEF JoinURLPath, b
  <1>5. Len(b) \in Nat
    BY <1>1, LenProperties DEF Strings
  <1>6. \A v \in Strings :
           /\ b \o v \in Strings /\ Len(b \o v) = Len(b) + Len(v) /\ Len(v) \in Nat
           /\ \A i \in 1 .. Len(b) + Len(v) :
                (b \o v)[i] = IF i <= Len(b) THEN b[i] ELSE v[i - Len(b)]
    BY <1>1, ConcatProperties, LenProperties DEF Strings
  <1>7. \A v \in Strings : IsPrefix(b, b \o v)
    <2> SUFFICES ASSUME NEW v \in Strings
                 PROVE  IsPrefix(b, b \o v)
      OBVIOUS
    <2> DEFINE l == Len(b)
               m == Len(v)
    <2>1. l \in Nat /\ m \in Nat /\ Len(b \o v) = l + m
      BY <1>5, <1>6
    <2>2. \A i \in 1 .. l : i \in 1 .. l + m /\ i <= l
      <3> HIDE DEF l, m
      <3> QED
        BY <2>1
    <2>3. \A i \in 1 .. l : (b \o v)[i] = b[i]
      BY <1>6, <2>2
    <2>4. l <= l + m
      <3> HIDE DEF l, m
      <3> QED
        BY <2>1
    <2> QED
      BY <1>1, <1>6, <2>1, <2>3, <2>4, Beginning
  <1>8. \A v \in Strings : b \o v = << >> => b = << >> /\ v = << >>
    <2> SUFFICES ASSUME NEW v \in Strings, b \o v = << >>
                 PROVE  b = << >> /\ v = << >>
      OBVIOUS
    <2>1. Len(b) = 0 /\ Len(v) = 0
      <3> DEFINE l == Len(b)
                 m == Len(v)
      <3>1. l \in Nat /\ m \in Nat /\ l + m = 0
        BY <1>3, <1>5, <1>6
      <3> HIDE DEF l, m
      <3>2. l = 0 /\ m = 0
        BY <3>1
      <3> QED
        BY <3>2 DEF l, m
    <2> QED
      BY <1>1, <2>1, EmptySeq DEF Strings
  <1>9. \A v, w \in Strings : b \o v = b \o w => v = w
    <2> SUFFICES ASSUME NEW v \in Strings, NEW w \in Strings, b \o v = b \o w
                 PROVE  v = w
      OBVIOUS
    <2>1. Len(v) = Len(w) /\ Len(v) \in Nat
      BY <1>5, <1>6
    <2>2. \A i \in 1 .. Len(v) : v[i] = w[i]
      <3> SUFFICES ASSUME NEW i \in 1 .. Len(v)
                   PROVE  v[i] = w[i]
        OBVIOUS
      <3> DEFINE l == Len(b)
                 m == Len(v)
      <3>1. l \in Nat /\ m \in Nat
        BY <1>5, <2>1
      <3>2. l + i \in 1 .. l + m /\ ~(l + i <= l) /\ l + i - l = i
        <4> HIDE DEF l
        <4> QED
          BY <3>1
      <3>3. (b \o v)[l + i] = v[i]
        BY <1>6, <3>2
      <3>4. (b \o w)[l + i] = w[i]
        BY <1>6, <2>1, <3>2
      <3> QED
        BY <3>3, <3>4
    <2> QED
      BY <2>1, <2>2, SeqEqual DEF Strings
  <1>10. JoinURLPath(base, s) # << >>
    BY <1>3, <1>4
  <1>11. IsPrefix(b, JoinURLPath(base, s))
    <2>1. CASE b \o TrimLeft(s) = << >>
      <3>1. b = << >> /\ JoinURLPath(base, s) = Root
        BY <1>2, <1>4, <1>8, <2>1
      <3>2. Len(Root) = 1 /\ Root \in Strings
        BY OneSegment
      <3> QED
        <4> DEFINE none == << >>
        <4>1. Len(none) = 0 /\ none \in Strings
          BY <1>3
        <4> HIDE DEF none
        <4>2. Len(none) <= Len(Root) /\ \A i \in 1 .. Len(none) : none[i] = Root[i]
          BY <3>2, <4>1
        <4>3. IsPrefix(none, Root)
          BY <3>2, <4>1, <4>2, Beginning
        <4> QED
          BY <3>1, <4>3 DEF none
    <2>2. CASE b \o TrimLeft(s) # << >>
      BY <1>2, <1>4, <1>7, <2>2
    <2> QED
      BY <2>1, <2>2
  <1>12. ASSUME NEW t \in Strings, JoinURLPath(base, s) = JoinURLPath(base, t)
         PROVE  TrimLeft(s) = TrimLeft(t)
    <2> DEFINE v == TrimLeft(s)
               w == TrimLeft(t)
    <2>1. v \in Strings /\ w \in Strings /\ (v # << >> => v[1] # "") /\ (w # << >> => w[1] # "")
      BY <1>2
    <2>2. /\ JoinURLPath(base, s) = IF b \o v = << >> THEN Root ELSE b \o v
          /\ JoinURLPath(base, t) = IF b \o w = << >> THEN Root ELSE b \o w
      BY <1>4
    <2> HIDE DEF v, w
    <2>3. \A u \in Strings : << >> \o u = u
      BY ConcatEmptySeq DEF Strings
    <2>4. CASE b \o v = << >> /\ b \o w = << >>
      BY <1>9, <2>1, <2>4 DEF v, w
    <2>5. CASE b \o v # << >> /\ b \o w # << >>
      <3>1. b \o v = b \o w
        BY <1>12, <2>2, <2>5
      <3> QED
        BY <1>9, <2>1, <3>1 DEF v, w
    <2>6. CASE b \o v = << >> /\ b \o w # << >>
      BY <1>3, <1>8, <1>12, <2>1, <2>2, <2>3, <2>6
    <2>7. CASE b \o v # << >> /\ b \o w = << >>
      BY <1>3, <1>8, <1>12, <2>1, <2>2, <2>3, <2>7
    <2> QED
      BY <2>4, <2>5, <2>6, <2>7 DEF v, w
  <1>13. \A t \in Strings :
           TrimLeft(s) = TrimLeft(t) => JoinURLPath(base, s) = JoinURLPath(base, t)
    BY <1>4
  <1> QED
    BY <1>10, <1>11, <1>12, <1>13 DEF b

\* What is trimmed of what follows n segments is slashes, and only slashes.
LEMMA TrimmedRest ==
  ASSUME NEW p \in Strings, NEW n \in 0 .. Len(p)
  PROVE  LET s == SubSeq(p, n + 1, Len(p)) IN
         /\ \E i \in n .. Len(p) :
              (\A k \in n + 1 .. i : p[k] = "") /\ TrimLeft(s) = SubSeq(p, i + 1, Len(p))
         /\ \A i \in n .. Len(p) :
              (\A k \in n + 1 .. i : p[k] = "") =>
                TrimLeft(s) = TrimLeft(SubSeq(p, i + 1, Len(p)))
  <1> DEFINE len == Len(p)
             s == SubSeq(p, n + 1, len)
  <1>1. len \in Nat /\ n \in 0 .. len
    BY LenProperties DEF Strings
  <1>2. /\ s \in Strings /\ Len(s) = len - n
        /\ \A i \in 1 .. len - n : s[i] = p[n + i]
        /\ \A m \in 0 .. len - n : SubSeq(s, m + 1, Len(s)) = SubSeq(p, n + m + 1, len)
    <2>1. 0 \in 0 .. len - n
      <3> HIDE DEF len
      <3> QED
        BY <1>1
    <2>2. \A m \in 0 .. Len(p) - n :
            /\ s \in Strings /\ Len(s) = len - n
            /\ \A i \in 1 .. len - n : s[i] = p[n + i]
            /\ SubSeq(s, m + 1, Len(s)) = SubSeq(p, n + m + 1, len)
      BY EndOfEnd
    <2> HIDE DEF s
    <2> QED
      BY <2>1, <2>2
  <1> HIDE DEF s, len
  <1>3. \E i \in n .. len :
          (\A k \in n + 1 .. i : p[k] = "") /\ TrimLeft(s) = SubSeq(p, i + 1, len)
    <2>1. PICK m \in 0 .. Len(s) : /\ \A i \in 1 .. m : s[i] = ""
                                  /\ TrimLeft(s) = SubSeq(s, m + 1, Len(s))
      BY <1>2, TrimLeftFacts
    <2>2. m \in 0 .. len - n
      BY <1>2, <2>1
    <2>3. n + m \in n .. len
      BY <1>1, <2>2
    <2>4. \A k \in n + 1 .. n + m : p[k] = ""
      <3> SUFFICES ASSUME NEW k \in n + 1 .. n + m
                   PROVE  p[k] = ""
        OBVIOUS
      <3>1. k - n \in 1 .. m /\ k - n \in 1 .. len - n /\ n + (k - n) = k
        BY <1>1, <2>2
      <3> QED
        BY <1>2, <2>1, <3>1
    <2>5. TrimLeft(s) = SubSeq(p, n + m + 1, len)
      BY <1>2, <2>1, <2>2
    <2> QED
      BY <2>3, <2>4, <2>5
  <1>4. ASSUME NEW i \in n .. len, \A k \in n + 1 .. i : p[k] = ""
        PROVE  TrimLeft(s) = TrimLeft(SubSeq(p, i + 1, len))
    <2>1. i - n \in 0 .. len - n /\ n + (i - n) = i
      BY <1>1
    <2>2. \A k \in 1 .. i - n : s[k] = ""
      <3> SUFFICES ASSUME NEW k \in 1 .. i - n
                   PROVE  s[k] = ""
        OBVIOUS
      <3>1. k \in 1 .. len - n /\ n + k \in n + 1 .. i
        BY <1>1
      <3> QED
        BY <1>2, <1>4, <3>1
    <2>3. TrimLeft(s) = TrimLeft(SubSeq(s, i - n + 1, Len(s)))
      BY <1>2, <2>1, <2>2, SlashesTrimmed
    <2>4. SubSeq(s, i - n + 1, Len(s)) = SubSeq(p, n + (i - n) + 1, len)
      BY <1>2, <2>1
    <2> QED
      BY <2>1, <2>3, <2>4
  <1> QED
    BY <1>3, <1>4 DEF s, len

\* Two paths of a route have one upstream path if slashes behind the prefix are all
\* that tells them apart, and only then.
LEMMA SlashesCollapse ==
  ASSUME NEW route \in ValidRoutes, NEW p \in Strings, NEW q \in Strings,
         IsPrefix(route.prefix, p), IsPrefix(route.prefix, q)
  PROVE  TargetOf(route, p) = TargetOf(route, q) <=> SameButSlashes(p, q, Len(route.prefix))
  <1> DEFINE n == Len(route.prefix)
             s == SubSeq(p, n + 1, Len(p))
             t == SubSeq(q, n + 1, Len(q))
  <1>1. route.prefix \in Strings /\ route.target \in Strings
    BY ParsedRoute
  <1>2. n \in 0 .. Len(p) /\ n \in 0 .. Len(q)
    <2>1. n \in Nat /\ n <= Len(p) /\ n <= Len(q)
      BY <1>1, Beginning, LenProperties DEF Strings
    <2>2. Len(p) \in Nat /\ Len(q) \in Nat
      BY LenProperties DEF Strings
    <2> HIDE DEF n
    <2> QED
      BY <2>1, <2>2
  <1>3. s \in Strings /\ t \in Strings
    BY <1>1, SuffixFacts
  <1>4. TargetOf(route, p) = JoinURLPath(route.target, s)
        /\ TargetOf(route, q) = JoinURLPath(route.target, t)
    BY DEF TargetOf
  <1>5. JoinURLPath(route.target, s) = JoinURLPath(route.target, t)
          <=> TrimLeft(s) = TrimLeft(t)
    <2> HIDE DEF s, t
    <2> QED
      BY <1>1, <1>3, Joined
  <1> HIDE DEF n
  <1>6. /\ \E i \in n .. Len(p) :
             (\A k \in n + 1 .. i : p[k] = "") /\ TrimLeft(s) = SubSeq(p, i + 1, Len(p))
        /\ \A i \in n .. Len(p) :
             (\A k \in n + 1 .. i : p[k] = "") =>
               TrimLeft(s) = TrimLeft(SubSeq(p, i + 1, Len(p)))
    BY <1>2, TrimmedRest
  <1>7. /\ \E j \in n .. Len(q) :
             (\A k \in n + 1 .. j : q[k] = "") /\ TrimLeft(t) = SubSeq(q, j + 1, Len(q))
        /\ \A j \in n .. Len(q) :
             (\A k \in n + 1 .. j : q[k] = "") =>
               TrimLeft(t) = TrimLeft(SubSeq(q, j + 1, Len(q)))
    BY <1>2, TrimmedRest
  <1> HIDE DEF s, t
  <1>8. TrimLeft(s) = TrimLeft(t) => SameButSlashes(p, q, n)
    BY <1>6, <1>7 DEF SameButSlashes
  <1>9. SameButSlashes(p, q, n) => TrimLeft(s) = TrimLeft(t)
    <2> SUFFICES ASSUME SameButSlashes(p, q, n)
                 PROVE  TrimLeft(s) = TrimLeft(t)
      OBVIOUS
    <2>1. PICK i \in n .. Len(p), j \in n .. Len(q) :
            /\ \A k \in n + 1 .. i : p[k] = ""
            /\ \A k \in n + 1 .. j : q[k] = ""
            /\ SubSeq(p, i + 1, Len(p)) = SubSeq(q, j + 1, Len(q))
      BY DEF SameButSlashes
    <2>2. TrimLeft(s) = TrimLeft(SubSeq(p, i + 1, Len(p)))
      BY <1>6, <2>1
    <2>3. TrimLeft(t) = TrimLeft(SubSeq(q, j + 1, Len(q)))
      BY <1>7, <2>1
    <2> QED
      BY <2>1, <2>2, <2>3
  <1> QED
    BY <1>4, <1>5, <1>8, <1>9 DEF n

-----------------------------------------------------------------------------
(* The invariant.                                                          *)

\* A table without routes, and a path without segments, have no match.
LEMMA NothingFound ==
  ASSUME NEW routes \in Seq(ValidRoutes)
  PROVE  Match(Sorted(routes), << >>) = 0
  <1> DEFINE t == Sorted(routes)
  <1>1. t \in Seq(ValidRoutes) /\ Len(t) \in Nat /\ \A i \in 1 .. Len(t) : t[i] \in ValidRoutes
    BY TableOf, LenProperties, ElementOfSeq
  <1> HIDE DEF t
  <1>2. \A i \in 1 .. Len(t) : ~IsPrefix(t[i].prefix, << >>)
    <2> SUFFICES ASSUME NEW i \in 1 .. Len(t), IsPrefix(t[i].prefix, << >>)
                 PROVE  FALSE
      OBVIOUS
    <2>1. t[i].prefix \in Strings /\ t[i].prefix # << >>
      BY <1>1, ParsedRoute
    <2>2. Len(t[i].prefix) \in Nat \ {0} /\ << >> \in Strings /\ Len(<< >>) = 0
      BY <2>1, EmptySeq DEF Strings
    <2>3. Len(t[i].prefix) <= Len(<< >>)
      BY <2>1, <2>2, Beginning
    <2> QED
      BY <2>2, <2>3
  <1> QED
    BY <1>1, <1>2, MatchFinds DEF t

\* The empty configuration, before one is accepted.
LEMMA NoRoutes ==
  /\ << >> \in Seq(ValidRoutes) /\ Len(<< >>) = 0
  /\ Sorted(<< >>) = << >> /\ Range(<< >>) = {}
  <1>1. << >> \in Seq(ValidRoutes) /\ Len(<< >>) = 0
    BY EmptySeq
  <1>2. Sorted(<< >>) \in Seq(ValidRoutes) /\ Len(Sorted(<< >>)) = 0
    BY <1>1, TableOf
  <1>3. Sorted(<< >>) = << >>
    BY <1>2, EmptySeq
  <1>4. DOMAIN << >> = {}
    OBVIOUS
  <1> QED
    BY <1>1, <1>3, <1>4 DEF Range

\* The table and its routes.
LEMMA TableFollows ==
  ASSUME RoutesFollow
  PROVE  /\ config \in Seq(ValidRoutes) /\ table \in Seq(ValidRoutes)
         /\ Len(table) \in Nat /\ DOMAIN table = 1 .. Len(table)
         /\ \A i \in 1 .. Len(table) : table[i] \in ValidRoutes
  <1>1. config \in Seq(ValidRoutes) /\ table = Sorted(config)
    BY DEF RoutesFollow, ValidRoutes
  <1>2. table \in Seq(ValidRoutes)
    BY <1>1, TableOf
  <1> QED
    BY <1>1, <1>2, LenProperties, ElementOfSeq

LEMMA LoadStep ==
  ASSUME TypeOK, NEW n \in 0 .. MaxEntries, NEW entries \in [1 .. n -> Entries], Load(entries)
  PROVE  TypeOK'
  <1>1. /\ state = "starting" /\ path = << >> /\ name = "" /\ hit = NoRoute /\ target = << >>
        /\ path' = path /\ name' = name /\ hit' = hit /\ target' = target
        /\ RoutesFollow /\ config = << >>
    BY DEF TypeOK, Load, RoutesFollow
  <1>2. CASE state' = "failed" /\ UNCHANGED <<config, table>>
    BY <1>1, <1>2 DEF TypeOK, RoutesFollow
  <1>3. CASE /\ entries # << >> /\ \A i \in DOMAIN entries : Valid(entries[i])
             /\ state' = "serving"
             /\ config' = [i \in DOMAIN entries |-> Parsed(entries[i])]
             /\ table' = Sorted(config')
    <2>1. n \in Nat /\ n <= MaxEntries /\ DOMAIN entries = 1 .. n
      <3>1. MaxEntries \in Nat
        BY RoutingAssumption DEF RoutingAssumption
      <3> QED
        BY <3>1
    <2>2. \A i \in 1 .. n : Parsed(entries[i]) \in ValidRoutes
      BY <1>3, <2>1 DEF ValidRoutes
    <2>3. config' \in [1 .. n -> ValidRoutes] /\ config' \in Seq(ValidRoutes) /\ Len(config') = n
      <3>1. config' = [i \in 1 .. n |-> Parsed(entries[i])]
        BY <1>3, <2>1
      <3>2. config' \in [1 .. n -> ValidRoutes]
        BY <2>2, <3>1
      <3> QED
        BY <2>1, <3>1, <3>2
    <2>4. n # 0
      <3>1. entries \in Seq(Entries) /\ Len(entries) = n
        BY <2>1
      <3> QED
        BY <1>3, <3>1, EmptySeq
    <2>5. config' # << >>
      BY <2>3, <2>4
    <2>6. /\ Range(table') = Range(config') /\ table' \in Seq(ValidRoutes)
          /\ \A i \in 1 .. Len(table') : table'[i] \in ValidRoutes
          /\ DOMAIN table' = 1 .. Len(table')
      BY <1>3, <2>3, TableOf, LenProperties, ElementOfSeq
    <2>7. \A route \in Range(table') : route.prefix # << >>
      BY <2>6, ParsedRoute DEF Range
    <2>8. RoutesFollow'
      BY <1>3, <2>1, <2>3, <2>5, <2>6, <2>7 DEF RoutesFollow, ValidRoutes
    <2>9. Match(table', << >>) = 0
      BY <1>3, <2>3, NothingFound
    <2>10. AnswerFollows'
      BY <1>1, <2>9 DEF AnswerFollows
    <2> QED
      BY <1>1, <1>3, <2>8, <2>10 DEF TypeOK
  <1> QED
    BY <1>2, <1>3 DEF Load

\* A route that was found has an upstream path, and its own target begins that.
LEMMA HasTarget ==
  ASSUME NEW route \in ValidRoutes, NEW p \in Strings
  PROVE  /\ IsPrefix(route.prefix, p) => /\ TargetOf(route, p) # << >>
                                         /\ IsPrefix(TrimRight(route.target), TargetOf(route, p))
         /\ JoinURLPath(route.target, p) # << >>
         /\ IsPrefix(TrimRight(route.target), JoinURLPath(route.target, p))
  <1>1. route.prefix \in Strings /\ route.target \in Strings
    BY ParsedRoute
  <1>2. IsPrefix(route.prefix, p) => SubSeq(p, Len(route.prefix) + 1, Len(p)) \in Strings
    BY <1>1, SuffixFacts
  <1> QED
    BY <1>1, <1>2, Joined DEF TargetOf

LEMMA PathsAreStrings ==
  /\ \A p \in Paths \cup ReadPaths : p \in Strings /\ p # << >>
  /\ << >> \in Strings
  BY RoutingAssumption, EmptySeq DEF RoutingAssumption, Strings

LEMMA AskStep ==
  ASSUME TypeOK, NEW p \in Paths, Ask(p)
  PROVE  TypeOK'
  <1>1. /\ state = "serving" /\ UNCHANGED <<state, config, table>> /\ path' = p /\ name' = ""
        /\ RoutesFollow
    BY DEF Ask, TypeOK
  <1>2. RoutesFollow'
    BY <1>1 DEF RoutesFollow
  <1> DEFINE n == Match(table, p)
  <1>3. /\ hit' = IF n = 0 THEN NoRoute ELSE table[n]
        /\ target' = IF n = 0 THEN << >> ELSE TargetOf(table[n], p)
    BY DEF Ask
  <1>4. \/ n = 0
        \/ n \in 1 .. Len(table) /\ IsPrefix(table[n].prefix, p)
    BY <1>1, MatchFinds, TableFollows
  <1> HIDE DEF n
  <1>5. n # 0 => table[n] \in ValidRoutes /\ table[n] # NoRoute /\ TargetOf(table[n], p) # << >>
    BY <1>1, <1>4, TableFollows, ParsedRoute, HasTarget, PathsAreStrings
  <1>6. AnswerFollows'
    BY <1>1, <1>3, <1>5 DEF AnswerFollows, n
  <1> QED
    BY <1>1, <1>2, <1>6 DEF TypeOK

LEMMA ReadStep ==
  ASSUME TypeOK, NEW s \in ReadNames, NEW p \in ReadPaths, Read(s, p)
  PROVE  TypeOK'
  <1>1. /\ state = "serving" /\ UNCHANGED <<state, config, table>> /\ path' = p /\ name' = s
        /\ RoutesFollow /\ s # ""
    BY RoutingAssumption DEF Read, TypeOK, RoutingAssumption
  <1>2. RoutesFollow'
    BY <1>1 DEF RoutesFollow
  <1> DEFINE n == RouteByName(table, s)
  <1>3. /\ hit' = IF n = 0 THEN NoRoute ELSE table[n]
        /\ target' = IF n = 0 THEN << >> ELSE JoinURLPath(table[n].target, p)
    BY DEF Read
  <1>4. n = 0 \/ n \in 1 .. Len(table)
    BY <1>1, NameFinds, TableFollows
  <1> HIDE DEF n
  <1>5. n # 0 => /\ table[n] \in ValidRoutes /\ table[n] # NoRoute
                 /\ JoinURLPath(table[n].target, p) # << >>
    BY <1>1, <1>4, TableFollows, ParsedRoute, HasTarget, PathsAreStrings
  <1>6. AnswerFollows'
    BY <1>1, <1>3, <1>5 DEF AnswerFollows, n
  <1> QED
    BY <1>1, <1>2, <1>6 DEF TypeOK

\* The table is the sorted configuration, and what was found last is what it says.
THEOREM RoutingInvariant == Spec => []TypeOK
  <1>1. Init => TypeOK
    <2> SUFFICES ASSUME Init
                 PROVE  TypeOK
      OBVIOUS
    <2>1. RoutesFollow
      <3>1. MaxEntries \in Nat
        BY RoutingAssumption DEF RoutingAssumption
      <3>2. config = << >> /\ table = << >> /\ state # "serving"
        BY DEF Init
      <3>3. table = Sorted(config) /\ Range(config) = {} /\ Range(table) = {}
        BY <3>2, NoRoutes
      <3> QED
        BY <3>1, <3>2, <3>3, NoRoutes DEF RoutesFollow, ValidRoutes
    <2> QED
      BY <2>1 DEF Init, TypeOK
  <1>2. TypeOK /\ [Next]_vars => TypeOK'
    <2> SUFFICES ASSUME TypeOK, [Next]_vars
                 PROVE  TypeOK'
      OBVIOUS
    <2>1. CASE \E n \in 0 .. MaxEntries : \E entries \in [1 .. n -> Entries] : Load(entries)
      BY <2>1, LoadStep
    <2>2. CASE \E p \in Paths : Ask(p)
      BY <2>2, AskStep
    <2>3. CASE \E n \in ReadNames, p \in ReadPaths : Read(n, p)
      BY <2>3, ReadStep
    <2>4. CASE Retry
      BY <2>4 DEF Retry, TypeOK, RoutesFollow
    <2>5. CASE UNCHANGED vars
      BY <2>5 DEF vars, TypeOK, RoutesFollow, AnswerFollows
    <2> QED
      BY <2>1, <2>2, <2>3, <2>4, <2>5 DEF Next
  <1> QED
    BY <1>1, <1>2, PTL DEF Spec

-----------------------------------------------------------------------------
(* The theorems.                                                           *)

\* What the table has at a place, in the order of the configuration.
LEMMA PlaceOf ==
  ASSUME RoutesFollow, NEW n \in 1 .. Len(table)
  PROVE  /\ Order(config)[n] \in DOMAIN config /\ table[n] = config[Order(config)[n]]
         /\ n \in DOMAIN config
         /\ \A m \in 1 .. n - 1 : m \in 1 .. Len(table) /\ m \in DOMAIN config
                                  /\ table[m] = config[Order(config)[m]]
  <1>1. config \in Seq(ValidRoutes) /\ table = Sorted(config)
    BY DEF RoutesFollow, ValidRoutes
  <1>2. /\ IsOrder(Order(config), config) /\ DOMAIN config = 1 .. Len(config)
        /\ Len(config) \in Nat /\ Len(table) = Len(config)
        /\ \A m \in DOMAIN config : table[m] = config[Order(config)[m]]
    BY <1>1, TableOf
  <1>3. \A m \in 1 .. n - 1 : m \in 1 .. Len(config)
    BY <1>2
  <1> QED
    BY <1>2, <1>3 DEF IsOrder

\* No route of the configuration is missing from the table.
LEMMA AllInTable ==
  ASSUME RoutesFollow, NEW i \in DOMAIN config
  PROVE  \E n \in 1 .. Len(table) : table[n] = config[i]
  <1>1. config \in Seq(ValidRoutes) /\ table = Sorted(config)
    BY DEF RoutesFollow, ValidRoutes
  <1>2. DOMAIN table = DOMAIN config /\ DOMAIN config = 1 .. Len(table)
    BY <1>1, TableOf
  <1>3. config[i] \in Range(table)
    BY DEF RoutesFollow, Range
  <1> QED
    BY <1>2, <1>3 DEF Range

\* Between prefixes of one path, the order by bytes is that of LongestPrefixWins.
LEMMA BytesDecide ==
  ASSUME NEW p \in Strings, NEW q \in Strings, NEW r \in Strings,
         IsPrefix(p, r), IsPrefix(q, r), LengthOf(p) >= LengthOf(q)
  PROVE  Len(q) < Len(p) \/ (q = p /\ LengthOf(p) = LengthOf(q))
  <1>1. Len(p) \in Nat /\ Len(q) \in Nat /\ LengthOf(p) \in Nat /\ LengthOf(q) \in Nat
    BY LenProperties, LengthGrows DEF Strings
  <1>2. CASE Len(q) < Len(p)
    BY <1>2
  <1>3. CASE ~(Len(q) < Len(p))
    <2>1. Len(p) <= Len(q)
      BY <1>1, <1>3
    <2>2. IsPrefix(p, q) /\ (Len(p) = Len(q) => p = q)
      BY <2>1, BeginningsNest
    <2>3. ~(Len(p) < Len(q))
      <3>1. Len(p) < Len(q) => LengthOf(p) < LengthOf(q)
        BY <2>2, LengthGrows
      <3> QED
        BY <1>1, <3>1
    <2> QED
      BY <1>1, <2>1, <2>2, <2>3
  <1> QED
    BY <1>2, <1>3

\* A call goes to the longest prefix, the first of its length, and a read by name to
\* the route its table finds by that order among those of the name.
THEOREM LongestWins == Spec => []LongestPrefixWins
  <1>1. TypeOK => LongestPrefixWins
    <2> SUFFICES ASSUME TypeOK
                 PROVE  LongestPrefixWins
      OBVIOUS
    <2> DEFINE prefix(i) == config[i].prefix
               D == DOMAIN config
               order == Order(config)
               Begins(i, p) == IsPrefix(prefix(i), p)
               Wins(i, j) == \/ Len(prefix(j)) < Len(prefix(i))
                             \/ prefix(j) = prefix(i) /\ i <= j
               Takes(i, p) == Begins(i, p) /\ \A j \in D : Begins(j, p) => Wins(i, j)
               Named == {i \in D : config[i].name = name}
    <2>1. /\ RoutesFollow /\ config \in Seq(ValidRoutes) /\ Len(table) \in Nat
          /\ \A i \in D : config[i] \in ValidRoutes /\ prefix(i) \in Strings
          /\ D = 1 .. Len(config) /\ Len(config) \in Nat
      <3>1. RoutesFollow
        BY DEF TypeOK
      <3>2. config \in Seq(ValidRoutes)
        BY <3>1, TableFollows
      <3> QED
        BY <3>1, <3>2, TableFollows, TableOf, ParsedRoute
    <2>2. \A i, j \in D : Before(config, i, j) =>
            LengthOf(prefix(i)) >= LengthOf(prefix(j))
            /\ (LengthOf(prefix(i)) = LengthOf(prefix(j)) => i <= j)
      <3>1. \A i \in D : LengthOf(prefix(i)) \in Nat
        BY <2>1, LengthGrows
      <3>2. \A i \in D : i \in Nat
        BY <2>1
      <3> HIDE DEF D, prefix
      <3> QED
        BY <3>1, <3>2 DEF Before, prefix
    <2>3. path \in Strings
      BY PathsAreStrings DEF TypeOK
    <2>4. ASSUME Answered
          PROVE  \E i \in D : hit = config[i] /\ Takes(i, path)
      <3> DEFINE n == Match(table, path)
                 i == order[n]
                 T == {j \in D : Begins(j, path)}
      <3>1. AnswerFollows /\ name = "" /\ hit # NoRoute
        BY <2>4 DEF TypeOK, Answered, AnswerFollows
      <3>2. hit = IF n = 0 THEN NoRoute ELSE table[n]
        BY <3>1 DEF AnswerFollows
      <3>3. /\ n \in 1 .. Len(table) /\ IsPrefix(table[n].prefix, path)
            /\ \A m \in 1 .. n - 1 : ~IsPrefix(table[m].prefix, path)
        BY <2>1, <3>1, <3>2, MatchFinds
      <3> HIDE DEF n
      <3>4. /\ i \in D /\ table[n] = config[i] /\ n \in D /\ i \in T
            /\ \A m \in 1 .. n - 1 : order[m] \notin T
        BY <2>1, <3>3, PlaceOf
      <3>5. \A j \in T : j = i \/ Before(config, i, j)
        <4> HIDE DEF T
        <4>1. T \in SUBSET DOMAIN config
          BY DEF T
        <4> QED
          BY <2>1, <3>4, <4>1, FirstWins
      <3> HIDE DEF i, D
      <3>6. ASSUME NEW j \in D, Begins(j, path)
            PROVE  Wins(i, j)
        <4>1. j = i \/ Before(config, i, j)
          BY <3>5, <3>6
        <4>2. i \in Nat /\ prefix(i) \in Strings /\ prefix(j) \in Strings /\ Begins(i, path)
          BY <2>1, <3>4 DEF D
        <4>3. CASE j = i
          BY <4>2, <4>3
        <4>4. CASE j # i
          <5>1. /\ LengthOf(prefix(i)) >= LengthOf(prefix(j))
                /\ LengthOf(prefix(i)) = LengthOf(prefix(j)) => i <= j
            BY <2>2, <3>4, <4>1, <4>4
          <5> HIDE DEF prefix
          <5>2. \/ Len(prefix(j)) < Len(prefix(i))
                \/ prefix(j) = prefix(i) /\ LengthOf(prefix(i)) = LengthOf(prefix(j))
            BY <2>3, <3>6, <4>2, <5>1, BytesDecide
          <5> QED
            BY <5>1, <5>2
        <4> QED
          BY <4>3, <4>4
      <3>7. Takes(i, path)
        BY <3>4, <3>6
      <3> QED
        BY <3>2, <3>3, <3>4, <3>7 DEF D
    <2>5. ASSUME state = "serving", name = "", ~Answered
          PROVE  \A i \in D : ~Begins(i, path)
      <3>1. AnswerFollows /\ target = << >>
        BY <2>5 DEF TypeOK, Answered
      <3>2. /\ hit = NoRoute
            /\ hit = IF Match(table, path) = 0 THEN NoRoute ELSE table[Match(table, path)]
        BY <2>5, <3>1 DEF AnswerFollows
      <3>3. \A i \in 1 .. Len(table) : table[i] # NoRoute
        BY <2>1, TableFollows, ParsedRoute
      <3>4. \A i \in 1 .. Len(table) : ~IsPrefix(table[i].prefix, path)
        BY <2>1, <3>2, <3>3, MatchFinds
      <3>5. \A i \in D : \E n \in 1 .. Len(table) : table[n] = config[i]
        BY <2>1, AllInTable
      <3> QED
        BY <3>4, <3>5
    <2>6. ASSUME name # ""
          PROVE  /\ Named = {} <=> hit = NoRoute
                 /\ Named # {} =>
                      \E i \in Named :
                        /\ hit = config[i]
                        /\ \A j \in Named : LengthOf(prefix(j)) <= LengthOf(hit.prefix)
                        /\ \/ Takes(i, hit.prefix)
                           \/ \E j \in 1 .. i - 1 : j \notin Named /\ prefix(j) = hit.prefix
      <3> DEFINE n == RouteByName(table, name)
                 i == order[n]
      <3>1. AnswerFollows
        BY <2>6 DEF TypeOK
      <3>2. hit = IF n = 0 THEN NoRoute ELSE table[n]
        BY <2>6, <3>1 DEF AnswerFollows
      <3>3. \/ n = 0 /\ \A m \in 1 .. Len(table) : table[m].name # name
            \/ /\ n \in 1 .. Len(table) /\ table[n].name = name
               /\ \A m \in 1 .. n - 1 : table[m].name # name
        BY <2>1, NameFinds
      <3> HIDE DEF n
      <3>4. CASE n = 0
        <4>1. \A j \in D : \E m \in 1 .. Len(table) : table[m] = config[j]
          BY <2>1, AllInTable
        <4>2. Named = {}
          BY <3>3, <3>4, <4>1
        <4> QED
          BY <3>2, <3>4, <4>2
      <3>5. CASE n # 0
        <4>1. /\ i \in D /\ table[n] = config[i] /\ n \in D /\ i \in Named
              /\ \A m \in 1 .. n - 1 : order[m] \notin Named
          BY <2>1, <3>3, <3>5, PlaceOf
        <4>2. \A j \in Named : j = i \/ Before(config, i, j)
          <5> HIDE DEF Named
          <5>1. Named \in SUBSET DOMAIN config
            BY DEF Named
          <5> QED
            BY <2>1, <4>1, <5>1, FirstWins
        <4> HIDE DEF i
        <4>3. hit = config[i] /\ hit # NoRoute /\ hit.prefix = prefix(i)
          BY <2>1, <3>2, <3>5, <4>1, ParsedRoute
        <4>4. ASSUME NEW j \in Named
              PROVE  /\ LengthOf(prefix(j)) <= LengthOf(prefix(i))
                     /\ prefix(j) = prefix(i) => i <= j
          <5>1. j \in D /\ i \in D /\ (j = i \/ Before(config, i, j)) /\ i \in Nat
            BY <2>1, <4>1, <4>2
          <5>2. LengthOf(prefix(i)) \in Nat /\ LengthOf(prefix(j)) \in Nat
            BY <2>1, <5>1, LengthGrows
          <5>3. CASE j = i
            BY <5>1, <5>2, <5>3
          <5>4. CASE j # i
            <6>1. /\ LengthOf(prefix(i)) >= LengthOf(prefix(j))
                  /\ LengthOf(prefix(i)) = LengthOf(prefix(j)) => i <= j
              BY <2>2, <5>1, <5>4
            <6> QED
              BY <5>2, <6>1
          <5> QED
            BY <5>3, <5>4
        <4>5. \/ Takes(i, prefix(i))
              \/ \E j \in 1 .. i - 1 : j \notin Named /\ prefix(j) = prefix(i)
          <5>1. prefix(i) \in Strings /\ i \in D
            BY <2>1, <4>1
          <5>2. Begins(i, prefix(i)) /\ Len(prefix(i)) \in Nat
            <6> DEFINE p == prefix(i)
            <6> HIDE DEF p
            <6>1. Len(p) \in Nat /\ Len(p) <= Len(p)
              BY <5>1, LenProperties DEF Strings, p
            <6>2. IsPrefix(p, p)
              BY <5>1, <6>1, Beginning DEF p
            <6> QED
              BY <6>1, <6>2 DEF p
          <5>3. \A j \in D : Begins(j, prefix(i)) =>
                  Len(prefix(j)) < Len(prefix(i)) \/ prefix(j) = prefix(i)
            <6> SUFFICES ASSUME NEW j \in D, Begins(j, prefix(i)),
                                ~(Len(prefix(j)) < Len(prefix(i)))
                         PROVE  prefix(j) = prefix(i)
              OBVIOUS
            <6>1. prefix(j) \in Strings /\ Len(prefix(j)) \in Nat
              BY <2>1, LenProperties DEF Strings
            <6>2. Len(prefix(i)) <= Len(prefix(j))
              BY <5>2, <6>1
            <6> HIDE DEF prefix
            <6>3. Len(prefix(j)) <= Len(prefix(i))
              BY <5>1, <6>1, Beginning
            <6>4. Len(prefix(j)) = Len(prefix(i))
              BY <5>2, <6>1, <6>2, <6>3
            <6> QED
              BY <5>1, <5>2, <6>1, <6>2, <6>4, BeginningsNest
          <5>4. CASE \A j \in D : prefix(j) = prefix(i) => i <= j
            BY <5>2, <5>3, <5>4
          <5>5. CASE \E j \in D : prefix(j) = prefix(i) /\ ~(i <= j)
            <6>1. PICK j \in D : prefix(j) = prefix(i) /\ ~(i <= j)
              BY <5>5
            <6>2. j \in 1 .. i - 1
              BY <2>1, <5>1, <6>1
            <6>3. j \notin Named
              <7> HIDE DEF Named
              <7> QED
                BY <4>4, <6>1
            <6> QED
              BY <6>1, <6>2, <6>3
          <5> QED
            BY <5>4, <5>5
        <4> HIDE DEF Takes
        <4> QED
          BY <4>1, <4>3, <4>4, <4>5
      <3> QED
        BY <3>4, <3>5
    <2> QED
      BY <2>4, <2>5, <2>6 DEF LongestPrefixWins
  <1> QED
    BY <1>1, RoutingInvariant, PTL

\* Two paths of a route reach one upstream path exactly if slashes behind the prefix are
\* all that tells them apart, and what is asked begins with the path of the target.
THEOREM TargetsApart == Spec => []TargetsStayApart
  <1>1. TypeOK => TargetsStayApart
    <2> SUFFICES ASSUME TypeOK
                 PROVE  TargetsStayApart
      OBVIOUS
    <2>1. path \in Strings /\ RoutesFollow
      BY PathsAreStrings DEF TypeOK
    <2>2. ASSUME hit # NoRoute
          PROVE  /\ AnswerFollows /\ hit \in ValidRoutes
                 /\ name = "" => IsPrefix(hit.prefix, path)
      <3>1. AnswerFollows
        BY <2>2 DEF TypeOK
      <3>2. CASE name = ""
        <4>1. Match(table, path) # 0 /\ hit = table[Match(table, path)]
          BY <2>2, <3>1, <3>2 DEF AnswerFollows
        <4>2. /\ Match(table, path) \in 1 .. Len(table)
              /\ IsPrefix(table[Match(table, path)].prefix, path)
          BY <2>1, <4>1, MatchFinds, TableFollows
        <4> QED
          BY <2>1, <3>1, <4>1, <4>2, TableFollows
      <3>3. CASE name # ""
        <4>1. RouteByName(table, name) # 0 /\ hit = table[RouteByName(table, name)]
          BY <2>2, <3>1, <3>3 DEF AnswerFollows
        <4>2. RouteByName(table, name) \in 1 .. Len(table)
          BY <2>1, <4>1, NameFinds, TableFollows
        <4> QED
          BY <2>1, <3>1, <3>3, <4>1, <4>2, TableFollows
      <3> QED
        BY <3>2, <3>3
    <2>3. hit # NoRoute => IsPrefix(TrimRight(hit.target), target)
      BY <2>1, <2>2, HasTarget DEF AnswerFollows
    <2>4. ASSUME Answered, NEW p \in Paths, IsPrefix(hit.prefix, p)
          PROVE  TargetOf(hit, p) = target <=> SameButSlashes(p, path, Len(hit.prefix))
      <3>1. hit # NoRoute /\ name = ""
        BY <2>4 DEF Answered, TypeOK, AnswerFollows
      <3>2. target = TargetOf(hit, path) /\ hit \in ValidRoutes /\ IsPrefix(hit.prefix, path)
        BY <2>2, <3>1 DEF AnswerFollows
      <3>3. p \in Strings
        BY RoutingAssumption DEF RoutingAssumption, Strings
      <3>4. TargetOf(hit, p) = TargetOf(hit, path)
              <=> SameButSlashes(p, path, Len(hit.prefix))
        BY <2>1, <2>4, <3>2, <3>3, SlashesCollapse
      <3> QED
        BY <3>2, <3>4
    <2> QED
      BY <2>3, <2>4 DEF TargetsStayApart
  <1> QED
    BY <1>1, RoutingInvariant, PTL
=============================================================================
