-------------------------- MODULE AuditLog_proofs --------------------------
(***************************************************************************)
(* Proofs about the audit log query, for any calls, clocks, queries and    *)
(* fates.  A page is looked at once, as a list along the order of the      *)
(* rows; the invariant then says how the pages shown so far, the query and *)
(* the table belong together.                                              *)
(***************************************************************************)
EXTENDS AuditLog, OrderLemmas, SequenceTheorems, TLAPS

USE LogAssumption

-----------------------------------------------------------------------------
(* One page.                                                               *)

\* The order of the rows as a relation.
NewerIn(M) == {p \in M \X M : Newer(p[1], p[2])}

\* Rows the order tells apart: of different calls, with whole numbers to compare.
Comparable(M) ==
  /\ \A row \in M : row.id \in Int /\ row.at \in Int
  /\ \A a, b \in M : a.id = b.id => a = b

\* What a page of the rows M is: a list of some of them, newest first, with all of them
\* or with `limit`, and then only older ones are left.
IsPage(page, limit, M) ==
  /\ page \in Seq(M)
  /\ \A i, j \in DOMAIN page : i < j => Newer(page[i], page[j])
  /\ Len(page) < limit => \A row \in M : \E i \in DOMAIN page : page[i] = row
  /\ Len(page) >= limit =>
       /\ Len(page) = limit
       /\ \A row \in M : \/ \E i \in DOMAIN page : page[i] = row
                         \/ Newer(Last(page), row)

LEMMA NewerOrders ==
  ASSUME NEW M, Comparable(M)
  PROVE  Orders(NewerIn(M), M)
  <1>1. \A a, b \in M : <<a, b>> \in NewerIn(M) <=> Newer(a, b)
    BY DEF NewerIn
  <1>2. \A a \in M : ~Newer(a, a)
    BY DEF Newer, Comparable
  <1>3. \A a, b \in M : a # b => Newer(a, b) \/ Newer(b, a)
    BY DEF Newer, Comparable
  <1>4. \A a, b, c \in M : Newer(a, b) /\ Newer(b, c) => Newer(a, c)
    BY DEF Newer, Comparable
  <1> QED
    BY <1>1, <1>2, <1>3, <1>4 DEF Orders

\* The CHOOSE of the store's order finds a list of all the rows.
LEMMA NewestFirstLists ==
  ASSUME NEW M, IsFiniteSet(M), Comparable(M)
  PROVE  Lists(NewestFirst(M), NewerIn(M), M)
  <1> DEFINE n == Cardinality(M)
             good(s) == \A i, j \in DOMAIN s : i < j => Newer(s[i], s[j])
  <1>1. PICK s : Lists(s, NewerIn(M), M)
    BY NewerOrders, ListExists
  <1>2. s \in [1 .. n -> M] /\ good(s)
    BY <1>1 DEF Lists, NewerIn
  <1>3. NewestFirst(M) = CHOOSE x \in [1 .. n -> M] : good(x)
    BY DEF NewestFirst
  <1>4. NewestFirst(M) \in [1 .. n -> M] /\ good(NewestFirst(M))
    BY <1>2, <1>3
  <1> QED
    BY <1>4 DEF Lists, NewerIn

LEMMA CutIsPage ==
  ASSUME NEW M, IsFiniteSet(M), Comparable(M), NEW limit \in Nat \ {0}
  PROVE  LET rows == NewestFirst(M)
         IN  IsPage(SubSeq(rows, 1, IF Len(rows) < limit THEN Len(rows) ELSE limit), limit, M)
  <1> DEFINE n == Cardinality(M)
             rows == NewestFirst(M)
             cut == IF n < limit THEN n ELSE limit
             page == SubSeq(rows, 1, cut)
  <1>1. n \in Nat
    BY FS_CardinalityType
  <1>2. Orders(NewerIn(M), M) /\ Lists(rows, NewerIn(M), M)
    BY NewerOrders, NewestFirstLists
  <1>3. rows \in [1 .. n -> M] /\ \A i, j \in 1 .. n : i < j => Newer(rows[i], rows[j])
    BY <1>2 DEF Lists, NewerIn
  <1>4. \A row \in M : \E i \in 1 .. n : rows[i] = row
    BY <1>2, ListIsBijection
  <1> HIDE DEF n, rows
  <1>5. rows \in Seq(M) /\ Len(rows) = n
    BY <1>1, <1>3
  <1>6. cut \in 0 .. n /\ cut <= limit
    BY <1>1
  <1>7. /\ page \in Seq(M) /\ Len(page) = cut /\ DOMAIN page = 1 .. cut
        /\ \A i \in 1 .. cut : page[i] = rows[i]
    BY <1>1, <1>5, <1>6
  <1> HIDE DEF page
  <1>8. \A i, j \in DOMAIN page : i < j => Newer(page[i], page[j])
    BY <1>1, <1>3, <1>6, <1>7
  <1>9. ASSUME Len(page) < limit, NEW row \in M
        PROVE  \E i \in DOMAIN page : page[i] = row
    BY <1>1, <1>4, <1>7, <1>9
  <1>10. ASSUME Len(page) >= limit
         PROVE  Len(page) = limit
    BY <1>1, <1>7, <1>10
  <1>11. ASSUME Len(page) >= limit, NEW row \in M
         PROVE  \/ \E i \in DOMAIN page : page[i] = row
                \/ Newer(Last(page), row)
    <2>1. PICK i \in 1 .. n : rows[i] = row
      BY <1>4
    <2>2. CASE i <= cut
      BY <1>1, <1>7, <2>1, <2>2
    <2>3. CASE i > cut
      <3>1. cut \in 1 .. n /\ cut < i
        BY <1>1, <1>7, <1>11, <2>1, <2>3
      <3>2. Last(page) = rows[cut]
        BY <1>7, <3>1 DEF Last
      <3> QED
        BY <1>3, <2>1, <3>1, <3>2
    <2> QED
      BY <1>6, <2>1, <2>2, <2>3
  <1>12. IsPage(page, limit, M)
    BY <1>7, <1>8, <1>9, <1>10, <1>11 DEF IsPage
  <1> QED
    BY <1>5, <1>12 DEF page, rows

-----------------------------------------------------------------------------
(* The table.                                                              *)

\* A completed row, one column of Finish after the other.
LEMMA CompletedRow ==
  ASSUME NEW c, NEW at, NEW f, NEW x
  PROVE  Completed(RowOf(c, at, f), f, x)
           = [ id |-> c, at |-> at, method |-> f.method, auth |-> f.auth,
               status |-> f.status, route |-> f.route ]
  <1> DEFINE route == IF f.route \in DirectRoutes THEN f.route ELSE Null
             row(r, a, s) == [ id |-> c, at |-> at, method |-> f.method, auth |-> a,
                               status |-> s, route |-> r ]
  <1>1. RowOf(c, at, f) = row(route, NotChecked, Null)
    BY DEF RowOf
  <1> HIDE DEF route
  <1>2. [row(route, NotChecked, Null) EXCEPT !.route = f.route]
          = row(f.route, NotChecked, Null)
    OBVIOUS
  <1>3. [row(f.route, NotChecked, Null) EXCEPT !.auth = f.auth] = row(f.route, f.auth, Null)
    OBVIOUS
  <1>4. [row(f.route, f.auth, Null) EXCEPT !.status = f.status]
          = row(f.route, f.auth, f.status)
    OBVIOUS
  <1>5. Completed(row(route, NotChecked, Null), f, x)
          = [[[row(route, NotChecked, Null) EXCEPT !.route = f.route]
               EXCEPT !.auth = f.auth] EXCEPT !.status = f.status]
    BY Zenon DEF Completed
  <1> HIDE DEF row
  <1>6. Completed(RowOf(c, at, f), f, x) = row(f.route, f.auth, f.status)
    BY <1>1, <1>2, <1>3, <1>4, <1>5, Zenon
  <1> QED
    BY <1>6 DEF row

\* What the rows of the table are.
LEMMA TableRows ==
  ASSUME TypeOK, NEW c \in Calls, table[c] # Absent
  PROVE  /\ stage[c] # "new" /\ fate[c] \in Fates /\ stamp[c] \in 0 .. MaxTime
         /\ stamp[c] \in Int
         /\ \/ table[c] = RowOf(c, stamp[c], fate[c])
            \/ table[c] = Completed(RowOf(c, stamp[c], fate[c]), fate[c], 0)
         /\ table[c].id = c /\ table[c].at = stamp[c]
         /\ table[c] \in PossibleRows
  <1>1. /\ stage[c] # "new" /\ fate[c] \in Fates /\ stamp[c] \in 0 .. MaxTime
        /\ \/ table[c] = RowOf(c, stamp[c], fate[c])
           \/ table[c] = Completed(RowOf(c, stamp[c], fate[c]), fate[c], 0)
    BY DEF TypeOK
  <1>2. table[c].id = c /\ table[c].at = stamp[c]
    <2>1. CASE table[c] = RowOf(c, stamp[c], fate[c])
      BY <2>1 DEF RowOf
    <2>2. CASE table[c] = Completed(RowOf(c, stamp[c], fate[c]), fate[c], 0)
      BY <2>2, CompletedRow
    <2> QED
      BY <1>1, <2>1, <2>2
  <1>3. table[c] \in PossibleRows
    <2>1. CASE table[c] = RowOf(c, stamp[c], fate[c])
      BY <1>1, <2>1 DEF PossibleRows
    <2>2. CASE table[c] = Completed(RowOf(c, stamp[c], fate[c]), fate[c], 0)
      BY <1>1, <2>2 DEF PossibleRows
    <2> QED
      BY <1>1, <2>1, <2>2
  <1> QED
    BY <1>1, <1>2, <1>3

\* A row has the integer id of its call, which Absent has not.
LEMMA RowIsPresent ==
  ASSUME NEW c \in Calls, NEW at, NEW f, NEW g, NEW x
  PROVE  RowOf(c, at, f) # Absent /\ Completed(RowOf(c, at, f), g, x) # Absent
  BY DEF RowOf, Completed, Absent

\* The rows a query matches, as a page wants them.
LEMMA MatchingRows ==
  ASSUME TypeOK, NEW q
  PROVE  LET M == {row \in Rows : Matches(q, row)}
         IN  /\ IsFiniteSet(M) /\ Comparable(M)
             /\ M \subseteq PossibleRows
             /\ \A row \in M : \E c \in Calls :
                  table[c] # Absent /\ row = table[c] /\ Matches(q, row)
  <1> DEFINE M == {row \in Rows : Matches(q, row)}
             present == {d \in Calls : table[d] # Absent}
             rowOf == [d \in present |-> table[d]]
  <1>1. \A row \in Rows : \E c \in Calls : table[c] # Absent /\ row = table[c]
    BY DEF Rows
  <1>2. M \subseteq PossibleRows
    BY <1>1, TableRows
  <1>3. Comparable(M)
    <2>1. \A row \in M : \E c \in Calls : row = table[c] /\ row.id = c /\ row.at \in Int
      BY <1>1, TableRows
    <2> HIDE DEF M
    <2>2. \A row \in M : row.id \in Int /\ row.at \in Int
      BY <2>1
    <2>3. \A a, b \in M : a.id = b.id => a = b
      BY <2>1
    <2> QED
      BY <2>2, <2>3 DEF Comparable
  <1>4. IsFiniteSet(M)
    <2>1. IsFiniteSet(present)
      BY FS_Subset
    <2>2. rowOf \in Surjection(present, Rows)
      <3>1. rowOf \in [present -> Rows]
        BY DEF Rows
      <3>2. \A row \in Rows : \E d \in present : rowOf[d] = row
        BY DEF Rows
      <3> QED
        BY <3>1, <3>2 DEF Surjection
    <2> HIDE DEF present, rowOf
    <2>3. IsFiniteSet(Rows)
      BY <2>1, <2>2, FS_Surjection
    <2> QED
      BY <2>3, FS_Subset
  <1> QED
    BY <1>1, <1>2, <1>3, <1>4

\* What the store answers to a query whose limit was normalised.
LEMMA AnswerIsPage ==
  ASSUME TypeOK, NEW q, DOMAIN q = DOMAIN NoFilter, q.limit \in 1 .. MaxLimit
  PROVE  IsPage(ListHTTPAPICalls(q), q.limit, {row \in Rows : Matches(q, row)})
  <1> DEFINE M == {row \in Rows : Matches(q, row)}
  <1>1. IsFiniteSet(M) /\ Comparable(M)
    BY MatchingRows
  <1>2. q.limit \in Nat \ {0}
    OBVIOUS
  <1>3. Normalized(q).limit = q.limit
    BY DEF Normalized, NoFilter
  <1> HIDE DEF M
  <1>4. LET rows == NewestFirst(M)
        IN  IsPage(SubSeq(rows, 1, IF Len(rows) < q.limit THEN Len(rows) ELSE q.limit),
                   q.limit, M)
    BY <1>1, <1>2, CutIsPage
  <1> QED
    BY <1>3, <1>4 DEF ListHTTPAPICalls, M

-----------------------------------------------------------------------------
(* A row that matches is of a call that is meant, and the other way round.  *)

LEMMA MatchIsMeant ==
  ASSUME TypeOK, NEW q, DOMAIN q = DOMAIN NoFilter,
         NEW c \in Calls, table[c] # Absent,
         NEW row \in {table[c], RowOf(c, stamp[c], fate[c])}, Matches(q, row)
  PROVE  \/ Means(q, c)
         \/ /\ q.auth = NotChecked /\ ~Given(row.status)
            /\ Means([q EXCEPT !.auth = Null], c)
  <1>1. fate[c] \in Fates
    BY TableRows
  <1>2. CASE row = RowOf(c, stamp[c], fate[c])
    <2>1. ~Given(row.status) /\ row.auth = NotChecked
      BY <1>2 DEF RowOf, Given
    <2>2. CASE ~Given(q.auth)
      BY <1>1, <1>2, <2>2 DEF RowOf, DirectRoutes, Given, IsTrue, NotAdminRoute, RouteCondition,
           BeforeUntil, Matches, Means
    <2>3. CASE Given(q.auth)
      <3> DEFINE p == [q EXCEPT !.auth = Null]
      <3>1. q.auth = NotChecked
        BY <2>1, <2>3 DEF Matches, IsTrue
      <3>2. /\ p.id = q.id /\ p.route = q.route /\ p.method = q.method /\ p.auth = Null
            /\ p.status = q.status /\ p.since = q.since /\ p.until = q.until
        BY DEF NoFilter
      <3> HIDE DEF p
      <3>3. Means(p, c)
        BY <1>1, <1>2, <3>2 DEF RowOf, DirectRoutes, Given, IsTrue, NotAdminRoute, RouteCondition,
             BeforeUntil, Matches, Means
      <3> QED
        BY <2>1, <3>1, <3>3 DEF p
    <2> QED
      BY <2>2, <2>3
  <1>3. CASE row = Completed(RowOf(c, stamp[c], fate[c]), fate[c], 0)
    <2>1. row = [ id |-> c, at |-> stamp[c], method |-> fate[c].method,
                  auth |-> fate[c].auth, status |-> fate[c].status,
                  route |-> fate[c].route ]
      BY <1>3, CompletedRow
    <2>2. Null # AuditAdminRouteName
      BY LogAssumption DEF LogAssumption, DirectRoutes
    <2> QED
      BY <2>1, <2>2 DEF Given, IsTrue, NotAdminRoute, RouteCondition, BeforeUntil, Matches, Means
  <1> QED
    BY <1>2, <1>3, TableRows

LEMMA MeantMatches ==
  ASSUME TypeOK, NEW q, NEW c \in Calls, table[c] # Absent, Means(q, c),
         AsksForOutcome(q) => Given(table[c].status)
  PROVE  Matches(q, table[c])
  <1>1. fate[c] \in Fates
    BY TableRows
  <1>2. CASE table[c] = RowOf(c, stamp[c], fate[c])
    <2>1. ~AsksForOutcome(q)
      BY <1>2 DEF RowOf, Given
    <2> QED
      BY <1>1, <1>2, <2>1 DEF RowOf, DirectRoutes, Given, NotAdminRoute, RouteCondition,
           BeforeUntil, Matches, Means, AsksForOutcome
  <1>3. CASE table[c] = Completed(RowOf(c, stamp[c], fate[c]), fate[c], 0)
    <2>1. table[c] = [ id |-> c, at |-> stamp[c], method |-> fate[c].method,
                       auth |-> fate[c].auth, status |-> fate[c].status,
                       route |-> fate[c].route ]
      BY <1>3, CompletedRow
    <2> QED
      BY <2>1 DEF Given, IsTrue, NotAdminRoute, RouteCondition, BeforeUntil, Matches, Means
  <1> QED
    BY <1>2, <1>3, TableRows

-----------------------------------------------------------------------------
(* Showing a page.                                                         *)

LEMMA PossibleRow ==
  ASSUME NEW row \in PossibleRows
  PROVE  row.id \in Calls /\ row.id \in Int /\ row.at \in 0 .. MaxTime /\ row.at \in Int
  <1>1. PICK c \in Calls, t \in 0 .. MaxTime, f \in Fates :
          row = RowOf(c, t, f) \/ row = Completed(RowOf(c, t, f), f, 0)
    BY DEF PossibleRows
  <1>2. row.id = c /\ row.at = t
    <2>1. CASE row = RowOf(c, t, f)
      BY <2>1 DEF RowOf
    <2>2. CASE row = Completed(RowOf(c, t, f), f, 0)
      BY <2>2, CompletedRow
    <2> QED
      BY <1>1, <2>1, <2>2
  <1>3. c \in Int
    OBVIOUS
  <1>4. t \in Int
    OBVIOUS
  <1> HIDE LogAssumption
  <1> QED
    BY <1>2, <1>3, <1>4

\* A page of rows that are all older than those shown before continues the list, and
\* every row it was cut from is shown, tied with its end, or older.
LEMMA ShowingContinues ==
  ASSUME TypeOK, PagesAreOneList, NEW q, NEW page, NEW M \in SUBSET PossibleRows,
         q.limit \in Nat \ {0}, IsPage(page, q.limit, M), Shows(q, page),
         \A i \in DOMAIN listed : \A row \in M : Newer(listed[i], row)
  PROVE  /\ listed' \in Seq(PossibleRows) /\ PagesAreOneList'
         /\ \A i \in DOMAIN listed' :
              listed'[i] \in M \/ \E j \in DOMAIN listed : listed'[i] = listed[j]
         /\ Listed \subseteq Listed'
         /\ ties' \subseteq 0 .. MaxTime /\ ties \subseteq ties'
         /\ reading' \in {"more", "over"} /\ (reading' = "more" => listed' # <<>>)
         /\ \A row \in M : \/ row.id \in Listed' \/ row.at \in ties'
                           \/ reading' = "more" /\ row.at < Last(listed').at
  <1> DEFINE m == Len(listed)
             n == Len(page)
  <1>1. /\ listed \in Seq(PossibleRows) /\ m \in Nat /\ DOMAIN listed = 1 .. m
        /\ \A i \in 1 .. m : listed[i] \in PossibleRows
    BY DEF TypeOK
  <1>2. page \in Seq(M) /\ \A i, j \in DOMAIN page : i < j => Newer(page[i], page[j])
    BY DEF IsPage
  <1>3. /\ page \in Seq(PossibleRows) /\ n \in Nat /\ DOMAIN page = 1 .. n
        /\ \A i \in 1 .. n : page[i] \in M
    BY <1>2
  <1>4. listed' = listed \o page
    BY DEF Shows
  <1>5. /\ listed' \in Seq(PossibleRows) /\ DOMAIN listed' = 1 .. m + n /\ Len(listed') = m + n
        /\ \A i \in 1 .. m : listed'[i] = listed[i]
        /\ \A i \in m + 1 .. m + n : listed'[i] = page[i - m]
        /\ \A i \in 1 .. n : listed'[m + i] = page[i]
    BY <1>1, <1>3, <1>4
  <1> HIDE DEF m, n
  <1>6. PagesAreOneList'
    <2> SUFFICES ASSUME NEW i \in 1 .. m + n, NEW j \in 1 .. m + n, i < j
                 PROVE  Newer(listed'[i], listed'[j])
      BY <1>5 DEF PagesAreOneList, Newer
    <2>1. CASE j <= m
      <3>1. i \in 1 .. m /\ j \in 1 .. m
        BY <1>1, <1>3, <2>1
      <3> QED
        BY <1>1, <1>5, <3>1 DEF PagesAreOneList
    <2>2. CASE i <= m /\ j > m
      <3>1. i \in 1 .. m /\ j \in m + 1 .. m + n /\ j - m \in 1 .. n
        BY <1>1, <1>3, <2>2
      <3> QED
        BY <1>1, <1>3, <1>5, <3>1
    <2>3. CASE i > m
      <3>1. /\ i \in m + 1 .. m + n /\ j \in m + 1 .. m + n
            /\ i - m \in 1 .. n /\ j - m \in 1 .. n /\ i - m < j - m
        BY <1>1, <1>3, <2>3
      <3> QED
        BY <1>2, <1>3, <1>5, <3>1
    <2> QED
      BY <1>1, <1>3, <2>1, <2>2, <2>3
  <1>7. ASSUME NEW i \in DOMAIN listed'
        PROVE  listed'[i] \in M \/ \E j \in DOMAIN listed : listed'[i] = listed[j]
    <2>1. i \in 1 .. m \/ (i \in m + 1 .. m + n /\ i - m \in 1 .. n)
      BY <1>1, <1>3, <1>5
    <2> QED
      BY <1>1, <1>3, <1>5, <2>1
  <1>8. Listed \subseteq Listed'
    <2>1. \A i \in 1 .. m : i \in DOMAIN listed' /\ listed'[i] = listed[i]
      BY <1>1, <1>3, <1>5
    <2> QED
      BY <1>1, <2>1 DEF Listed
  <1>9. ties' \subseteq 0 .. MaxTime /\ ties \subseteq ties'
    <2>1. CASE page = <<>>
      BY <2>1 DEF Shows, TypeOK
    <2>2. CASE page # <<>>
      <3>1. n \in 1 .. n /\ Last(page) = page[n]
        BY <1>3, <2>2 DEF n, Last
      <3>2. Last(page).at \in 0 .. MaxTime
        BY <1>3, <3>1, PossibleRow
      <3> QED
        BY <2>2, <3>2 DEF Shows, TypeOK
    <2> QED
      BY <2>1, <2>2
  <1>10. reading' \in {"more", "over"} /\ (reading' = "more" => n >= q.limit)
    BY <1>3 DEF Shows, n
  <1>11. reading' = "more" => listed' # <<>>
    BY <1>1, <1>3, <1>5, <1>10
  <1>12. ASSUME NEW row \in M
         PROVE  \/ row.id \in Listed' \/ row.at \in ties'
                \/ reading' = "more" /\ row.at < Last(listed').at
    <2>1. CASE \E i \in DOMAIN page : page[i] = row
      <3>1. PICK i \in 1 .. n : page[i] = row
        BY <1>3, <2>1
      <3>2. m + i \in DOMAIN listed' /\ listed'[m + i] = row
        BY <1>1, <1>3, <1>5, <3>1
      <3> QED
        BY <3>2 DEF Listed
    <2>2. CASE ~ \E i \in DOMAIN page : page[i] = row
      <3>1. n = q.limit /\ Newer(Last(page), row)
        BY <1>3, <2>2 DEF IsPage, n
      <3>2. n \in 1 .. n /\ Last(page) = page[n] /\ page # <<>>
        BY <1>3, <3>1 DEF n, Last
      <3>3. Last(page).at \in ties' /\ reading' = "more"
        BY <1>3, <3>1, <3>2 DEF Shows, n
      <3>4. Last(listed') = Last(page)
        BY <1>1, <1>3, <1>5, <3>2 DEF Last
      <3>5. row.at = Last(page).at \/ row.at < Last(page).at
        BY <1>3, <3>1, <3>2, PossibleRow DEF Newer
      <3> QED
        BY <3>3, <3>4, <3>5
    <2> QED
      BY <2>1, <2>2
  <1> QED
    BY <1>5, <1>6, <1>7, <1>8, <1>9, <1>10, <1>11, <1>12

-----------------------------------------------------------------------------
(* The replicas keep the invariant: rows only appear and are completed.    *)

LEMMA RowsGrow ==
  ASSUME LogInv, TypeOK', UNCHANGED readerVars,
         \A c \in Calls : table[c] # Absent =>
            /\ table'[c] # Absent /\ stamp'[c] = stamp[c] /\ fate'[c] = fate[c]
            /\ \/ table'[c] = table[c]
               \/ table[c] = RowOf(c, stamp[c], fate[c]) /\ Given(table'[c].status)
  PROVE  LogInv'
  <1>1. QueryFollows' /\ PagesAreOneList'
    BY DEF LogInv, readerVars, QueryFollows, PagesAreOneList
  <1>2. /\ listed' = listed /\ due' = due /\ query' = query /\ ties' = ties
        /\ reading' = reading /\ Listed' = Listed
    BY DEF readerVars, Listed
  <1>3. ItemsFollow'
    <2> SUFFICES ASSUME NEW i \in DOMAIN listed
                 PROVE  ItemFollows(listed[i])'
      BY <1>2 DEF ItemsFollow
    <2>1. PICK c \in Calls :
            /\ table[c] # Absent
            /\ listed[i].id = c /\ listed[i].at = stamp[c]
            /\ listed[i] \in {table[c], RowOf(c, stamp[c], fate[c])}
            /\ Matches(query, listed[i])
      BY DEF LogInv, ItemsFollow, ItemFollows
    <2>2. listed[i] \in {table'[c], RowOf(c, stamp'[c], fate'[c])}
      BY <2>1
    <2>3. table'[c] # Absent /\ stamp'[c] = stamp[c]
      BY <2>1
    <2> QED
      BY <1>2, <2>1, <2>2, <2>3 DEF ItemFollows
  <1>4. DebtsFollow'
    <2> SUFFICES ASSUME NEW c \in due
                 PROVE  DebtFollows(c)'
      BY <1>2 DEF DebtsFollow
    <2>1. c \in Calls /\ DebtFollows(c)
      BY DEF LogInv, TypeOK, DebtsFollow
    <2>2. Means(query, c)'
      BY <1>2, <2>1 DEF DebtFollows, Means
    <2>3. AsksForOutcome(query') => Given(table'[c].status)
      BY <1>2, <2>1 DEF DebtFollows
    <2> QED
      BY <1>2, <2>1, <2>2, <2>3 DEF DebtFollows
  <1> QED
    BY <1>1, <1>3, <1>4 DEF LogInv

LEMMA InsertKeeps ==
  ASSUME LogInv, NEW c \in Calls, Insert(c)
  PROVE  LogInv'
  <1>1. TypeOK
    BY DEF LogInv
  <1>2. PICK t \in 0 .. MaxTime, f \in Fates :
          /\ stamp' = [stamp EXCEPT ![c] = t]
          /\ fate' = [fate EXCEPT ![c] = f]
          /\ table' = [table EXCEPT ![c] = RowOf(c, t, f)]
    BY DEF Insert
  <1>3. /\ stage[c] = "new" /\ stage' = [stage EXCEPT ![c] = "started"]
        /\ UNCHANGED <<listed, ties, due, reading>> /\ UNCHANGED readerVars
    BY DEF Insert, readerVars
  <1>4. table[c] = Absent
    BY <1>1, <1>3 DEF TypeOK
  <1>5. /\ stage'[c] = "started" /\ fate'[c] = f /\ stamp'[c] = t
        /\ table'[c] = RowOf(c, t, f)
        /\ \A d \in Calls \ {c} : /\ stage'[d] = stage[d] /\ fate'[d] = fate[d]
                                  /\ stamp'[d] = stamp[d] /\ table'[d] = table[d]
    BY <1>1, <1>2, <1>3 DEF TypeOK
  <1>6. TypeOK'
    <2>1. /\ stage' \in [Calls -> {"new", "started", "over"}]
          /\ fate' \in [Calls -> Fates \cup {Null}]
          /\ stamp' \in [Calls -> 0 .. MaxTime]
          /\ DOMAIN table' = Calls
      BY <1>1, <1>2, <1>3 DEF TypeOK
    <2>2. ASSUME NEW d \in Calls
          PROVE  \/ stage'[d] = "new" /\ table'[d] = Absent
                 \/ /\ stage'[d] # "new" /\ fate'[d] \in Fates
                    /\ \/ table'[d] = RowOf(d, stamp'[d], fate'[d])
                       \/ /\ stage'[d] = "over"
                          /\ table'[d] = Completed(RowOf(d, stamp'[d], fate'[d]), fate'[d], 0)
      <3>1. CASE d = c
        BY <1>5, <3>1
      <3>2. CASE d # c
        BY <1>1, <1>5, <3>2 DEF TypeOK
      <3> QED
        BY <3>1, <3>2
    <2> QED
      BY <1>1, <1>3, <2>1, <2>2 DEF TypeOK
  <1>7. \A d \in Calls : table[d] # Absent =>
          /\ table'[d] # Absent /\ stamp'[d] = stamp[d] /\ fate'[d] = fate[d]
          /\ table'[d] = table[d]
    BY <1>4, <1>5
  <1> QED
    BY <1>3, <1>6, <1>7, RowsGrow

LEMMA FinishKeeps ==
  ASSUME LogInv, NEW c \in Calls, Finish(c)
  PROVE  LogInv'
  <1> DEFINE started == RowOf(c, stamp[c], fate[c])
             over == Completed(started, fate[c], 0)
  <1>1. TypeOK
    BY DEF LogInv
  <1>2. /\ stage[c] = "started" /\ stage' = [stage EXCEPT ![c] = "over"]
        /\ stamp' = stamp /\ fate' = fate
        /\ UNCHANGED <<listed, ties, due, reading>> /\ UNCHANGED readerVars
    BY DEF Finish, readerVars
  <1>3. table[c] = started /\ fate[c] \in Fates
    BY <1>1, <1>2 DEF TypeOK
  <1>4. table' = table \/ table' = [table EXCEPT ![c] = over]
    <2>1. \A t : Completed(table[c], fate[c], t) = over
      BY <1>3 DEF Completed
    <2> HIDE DEF over
    <2>2. PICK t \in 0 .. MaxTime :
            table' = IF DurationMs(stamp[c], t) >= 0
                     THEN [table EXCEPT ![c] = Completed(table[c], fate[c], t)]
                     ELSE table
      BY DEF Finish
    <2> QED
      BY <2>1, <2>2
  <1> HIDE DEF over
  <1>5. /\ stage'[c] = "over" /\ table'[c] \in {started, over}
        /\ \A d \in Calls \ {c} : stage'[d] = stage[d] /\ table'[d] = table[d]
    BY <1>1, <1>2, <1>3, <1>4 DEF TypeOK
  <1>6. started # Absent /\ over # Absent /\ Given(over.status)
    <2>1. over.status = fate[c].status
      BY CompletedRow DEF over
    <2>2. started # Absent /\ over # Absent
      BY RowIsPresent DEF over
    <2>3. Null # fate[c].status
      BY <1>3
    <2> QED
      BY <2>1, <2>2, <2>3 DEF Given
  <1> HIDE DEF started
  <1>7. TypeOK'
    <2>1. /\ stage' \in [Calls -> {"new", "started", "over"}]
          /\ fate' \in [Calls -> Fates \cup {Null}]
          /\ stamp' \in [Calls -> 0 .. MaxTime]
          /\ DOMAIN table' = Calls
      BY <1>1, <1>2, <1>4 DEF TypeOK
    <2>2. ASSUME NEW d \in Calls
          PROVE  \/ stage'[d] = "new" /\ table'[d] = Absent
                 \/ /\ stage'[d] # "new" /\ fate'[d] \in Fates
                    /\ \/ table'[d] = RowOf(d, stamp'[d], fate'[d])
                       \/ /\ stage'[d] = "over"
                          /\ table'[d] = Completed(RowOf(d, stamp'[d], fate'[d]), fate'[d], 0)
      <3>1. CASE d = c
        BY <1>2, <1>3, <1>5, <3>1 DEF started, over
      <3>2. CASE d # c
        BY <1>1, <1>2, <1>5, <3>2 DEF TypeOK
      <3> QED
        BY <3>1, <3>2
    <2> QED
      BY <1>1, <1>2, <2>1, <2>2 DEF TypeOK
  <1>8. \A d \in Calls : table[d] # Absent =>
          /\ table'[d] # Absent /\ stamp'[d] = stamp[d] /\ fate'[d] = fate[d]
          /\ \/ table'[d] = table[d]
             \/ table[d] = RowOf(d, stamp[d], fate[d]) /\ Given(table'[d].status)
    <2> SUFFICES ASSUME NEW d \in Calls, table[d] # Absent
                 PROVE  /\ table'[d] # Absent
                        /\ \/ table'[d] = table[d]
                           \/ /\ table[d] = RowOf(d, stamp[d], fate[d])
                              /\ Given(table'[d].status)
      BY <1>2
    <2>1. CASE d = c
      BY <1>3, <1>5, <1>6, <2>1 DEF started
    <2>2. CASE d # c
      BY <1>5, <2>2
    <2> QED
      BY <2>1, <2>2
  <1> QED
    BY <1>2, <1>7, <1>8, RowsGrow

-----------------------------------------------------------------------------
(* The administrator keeps the invariant.                                  *)

\* Reading leaves the table alone.
LEMMA ReadingKeepsRows ==
  ASSUME TypeOK, UNCHANGED <<stage, fate, stamp, table>>,
         listed' \in Seq(PossibleRows), reading' \in {"idle", "more", "over"},
         ties' \subseteq 0 .. MaxTime, due' \subseteq Calls
  PROVE  TypeOK'
  BY DEF TypeOK

LEMMA FirstPageKeeps ==
  ASSUME LogInv, NEW q \in Queries, FirstPage(q)
  PROVE  LogInv'
  <1> DEFINE r == Normalized(q)
             M == {row \in Rows : Matches(r, row)}
             page == ListHTTPAPICalls(r)
  <1>1. TypeOK /\ listed = <<>> /\ due = {} /\ PagesAreOneList
    BY DEF LogInv, QueryFollows, FirstPage
  <1>2. /\ DOMAIN r = DOMAIN NoFilter /\ r.limit \in 1 .. MaxLimit
        /\ r.since \in Int \cup {Null} /\ r.until \in Int \cup {Null}
    <2>1. q.limit >= 1 /\ q.limit \in Int /\ DOMAIN q = DOMAIN NoFilter
      BY DEF FirstPage, Acceptable
    <2> QED
      BY <2>1 DEF Normalized, NoFilter
  <1>3. /\ query' = r /\ Shows(r, page) /\ due' = Owed(r)
        /\ UNCHANGED <<stage, fate, stamp, table>>
    BY DEF FirstPage
  <1> HIDE DEF r
  <1>4. IsPage(page, r.limit, M)
    BY <1>1, <1>2, AnswerIsPage
  <1>5. /\ M \in SUBSET PossibleRows
        /\ \A row \in M : \E c \in Calls :
             table[c] # Absent /\ row = table[c] /\ Matches(r, row)
    BY <1>1, MatchingRows
  <1> HIDE DEF M, page
  <1>6. \A i \in DOMAIN listed : \A row \in M : Newer(listed[i], row)
    BY <1>1
  <1>7. /\ listed' \in Seq(PossibleRows) /\ PagesAreOneList'
        /\ \A i \in DOMAIN listed' : listed'[i] \in M
        /\ ties' \subseteq 0 .. MaxTime
        /\ reading' \in {"more", "over"} /\ (reading' = "more" => listed' # <<>>)
        /\ \A row \in M : \/ row.id \in Listed' \/ row.at \in ties'
                          \/ reading' = "more" /\ row.at < Last(listed').at
    <2>1. r.limit \in Nat \ {0}
      BY <1>2
    <2>2. DOMAIN listed = {}
      BY <1>1
    <2> QED
      BY <1>1, <1>3, <1>4, <1>5, <1>6, <2>1, <2>2, ShowingContinues
  <1>8. \A c \in due' : c \in Calls /\ table[c] # Absent /\ Means(r, c)
                        /\ (AsksForOutcome(r) => Given(table[c].status))
    BY <1>1, <1>3, TableRows DEF Owed, Rows
  <1>9. TypeOK'
    BY <1>1, <1>3, <1>7, <1>8, ReadingKeepsRows
  <1>10. QueryFollows'
    BY <1>2, <1>3, <1>7 DEF QueryFollows
  <1>11. ItemsFollow'
    <2> SUFFICES ASSUME NEW i \in DOMAIN listed'
                 PROVE  ItemFollows(listed[i])'
      BY DEF ItemsFollow
    <2>1. PICK c \in Calls :
            table[c] # Absent /\ listed'[i] = table[c] /\ Matches(r, listed'[i])
      BY <1>5, <1>7
    <2>2. listed'[i].id = c /\ listed'[i].at = stamp[c]
      BY <1>1, <2>1, TableRows
    <2> QED
      BY <1>3, <2>1, <2>2 DEF ItemFollows
  <1>12. DebtsFollow'
    <2> SUFFICES ASSUME NEW c \in due'
                 PROVE  DebtFollows(c)'
      BY DEF DebtsFollow
    <2>1. Matches(r, table[c]) /\ table[c].id = c /\ table[c].at = stamp[c]
      BY <1>1, <1>8, MeantMatches, TableRows
    <2>2. table[c] \in M
      BY <1>8, <2>1 DEF M, Rows
    <2>3. \/ c \in Listed' \/ stamp[c] \in ties'
          \/ reading' = "more" /\ stamp[c] < Last(listed').at
      BY <1>7, <2>1, <2>2
    <2>4. Means(query, c)'
      BY <1>3, <1>8 DEF Means
    <2> QED
      BY <1>3, <1>8, <2>3, <2>4 DEF DebtFollows
  <1> QED
    BY <1>7, <1>9, <1>10, <1>11, <1>12 DEF LogInv

LEMMA NextPageKeeps ==
  ASSUME LogInv, NextPage
  PROVE  LogInv'
  <1> DEFINE last == Last(listed)
             r == [query EXCEPT !.until = last.at]
             M == {row \in Rows : Matches(r, row)}
             page == ListHTTPAPICalls(r)
  <1>1. /\ TypeOK /\ PagesAreOneList /\ ItemsFollow /\ DebtsFollow
        /\ reading = "more" /\ listed # <<>>
    BY DEF LogInv, QueryFollows, NextPage
  <1>2. /\ DOMAIN query = DOMAIN NoFilter /\ query.limit \in 1 .. MaxLimit
        /\ query.since \in Int \cup {Null} /\ query.until \in Int \cup {Null}
    BY <1>1 DEF LogInv, QueryFollows
  <1>3. Len(listed) \in DOMAIN listed /\ last = listed[Len(listed)]
    <2>1. Len(listed) \in Nat /\ DOMAIN listed = 1 .. Len(listed) /\ Len(listed) # 0
      BY <1>1 DEF TypeOK
    <2> QED
      BY <2>1 DEF Last
  <1>4. /\ \A i \in DOMAIN listed : /\ listed[i].id \in Int /\ listed[i].at \in Int
                                    /\ listed[i].at >= last.at
        /\ last.at \in Int
    <2>1. \A i \in DOMAIN listed : listed[i].id \in Int /\ listed[i].at \in Int
      BY <1>1, PossibleRow DEF TypeOK
    <2>2. ASSUME NEW i \in DOMAIN listed
          PROVE  listed[i].at >= last.at
      <3>1. i < Len(listed) \/ i = Len(listed)
        BY <1>1 DEF TypeOK
      <3>2. i < Len(listed) => Newer(listed[i], last)
        BY <1>1, <1>3 DEF PagesAreOneList
      <3> QED
        BY <1>3, <2>1, <3>1, <3>2 DEF Newer
    <2> QED
      BY <1>3, <2>1, <2>2
  <1>5. /\ DOMAIN r = DOMAIN NoFilter /\ r.limit = query.limit /\ r.until = last.at
        /\ r.id = query.id /\ r.route = query.route /\ r.method = query.method
        /\ r.auth = query.auth /\ r.status = query.status /\ r.since = query.since
    BY <1>2 DEF NoFilter
  <1>6. /\ query' = query /\ Shows(query, page) /\ due' = due
        /\ UNCHANGED <<stage, fate, stamp, table>>
    BY DEF NextPage
  <1> HIDE DEF r, last
  <1>7. IsPage(page, query.limit, M)
    BY <1>1, <1>2, <1>5, AnswerIsPage
  <1>8. /\ M \in SUBSET PossibleRows
        /\ \A row \in M : \E c \in Calls :
             table[c] # Absent /\ row = table[c] /\ Matches(r, row)
    BY <1>1, MatchingRows
  <1>9. query.until \in Int => last.at < query.until
    <2>1. Matches(query, last)
      BY <1>1, <1>3 DEF ItemsFollow, ItemFollows
    <2> QED
      BY <2>1 DEF Matches, BeforeUntil, Given
  <1>10. ASSUME NEW c \in Calls, table[c] # Absent
         PROVE  /\ Matches(r, table[c]) => /\ Matches(query, table[c])
                                           /\ table[c].at < last.at
                /\ Matches(query, table[c]) /\ table[c].at < last.at => Matches(r, table[c])
    <2>1. table[c].at \in Int
      BY <1>1, <1>10, TableRows
    <2>2. Given(r.until)
      BY <1>4, <1>5 DEF Given
    <2>3. BeforeUntil(r, table[c]) <=> table[c].at < last.at
      BY <1>5, <2>2 DEF BeforeUntil
    <2>4. table[c].at < last.at => BeforeUntil(query, table[c])
      BY <1>2, <1>4, <1>9, <2>1 DEF BeforeUntil, Given
    <2> QED
      BY <1>5, <2>3, <2>4 DEF Matches, RouteCondition
  <1> HIDE DEF M, page
  <1>11. \A i \in DOMAIN listed : \A row \in M : Newer(listed[i], row)
    <2> SUFFICES ASSUME NEW i \in DOMAIN listed, NEW row \in M
                 PROVE  Newer(listed[i], row)
      OBVIOUS
    <2>1. row.at < last.at /\ row.at \in Int
      BY <1>8, <1>10, PossibleRow
    <2> QED
      BY <1>4, <2>1 DEF Newer
  <1>12. /\ listed' \in Seq(PossibleRows) /\ PagesAreOneList'
         /\ \A i \in DOMAIN listed' :
              listed'[i] \in M \/ \E j \in DOMAIN listed : listed'[i] = listed[j]
         /\ Listed \subseteq Listed'
         /\ ties' \subseteq 0 .. MaxTime /\ ties \subseteq ties'
         /\ reading' \in {"more", "over"} /\ (reading' = "more" => listed' # <<>>)
         /\ \A row \in M : \/ row.id \in Listed' \/ row.at \in ties'
                           \/ reading' = "more" /\ row.at < Last(listed').at
    <2>1. query.limit \in Nat \ {0}
      BY <1>2
    <2> QED
      BY <1>1, <1>6, <1>7, <1>8, <1>11, <2>1, ShowingContinues
  <1>13. TypeOK'
    <2>1. due' \subseteq Calls
      BY <1>1, <1>6 DEF TypeOK
    <2> QED
      BY <1>1, <1>6, <1>12, <2>1, ReadingKeepsRows
  <1>14. QueryFollows'
    BY <1>2, <1>6, <1>12 DEF QueryFollows
  <1>15. ItemsFollow'
    <2> SUFFICES ASSUME NEW i \in DOMAIN listed'
                 PROVE  ItemFollows(listed[i])'
      BY DEF ItemsFollow
    <2>1. CASE listed'[i] \in M
      <3>1. PICK c \in Calls :
              table[c] # Absent /\ listed'[i] = table[c] /\ Matches(r, table[c])
        BY <1>8, <2>1
      <3>2. listed'[i].id = c /\ listed'[i].at = stamp[c] /\ Matches(query, listed'[i])
        BY <1>1, <1>10, <3>1, TableRows
      <3> QED
        BY <1>6, <3>1, <3>2 DEF ItemFollows
    <2>2. CASE \E j \in DOMAIN listed : listed'[i] = listed[j]
      <3>1. PICK j \in DOMAIN listed : listed'[i] = listed[j]
        BY <2>2
      <3>2. ItemFollows(listed[j])
        BY <1>1 DEF ItemsFollow
      <3> QED
        BY <1>6, <3>1, <3>2 DEF ItemFollows
    <2> QED
      BY <1>12, <2>1, <2>2
  <1>16. DebtsFollow'
    <2> SUFFICES ASSUME NEW c \in due
                 PROVE  DebtFollows(c)'
      BY <1>6 DEF DebtsFollow
    <2>1. c \in Calls /\ DebtFollows(c)
      BY <1>1 DEF TypeOK, DebtsFollow
    <2>2. \/ c \in Listed' \/ stamp[c] \in ties'
          \/ reading' = "more" /\ stamp[c] < Last(listed').at
      <3>1. CASE c \in Listed \/ stamp[c] \in ties
        BY <1>12, <3>1
      <3>2. CASE stamp[c] < last.at
        <4>1. Matches(query, table[c]) /\ table[c].id = c /\ table[c].at = stamp[c]
          BY <1>1, <2>1, MeantMatches, TableRows DEF DebtFollows
        <4>2. table[c] \in M
          BY <1>10, <2>1, <3>2, <4>1 DEF DebtFollows, M, Rows
        <4> QED
          BY <1>12, <4>1, <4>2
      <3> QED
        BY <2>1, <3>1, <3>2 DEF DebtFollows, last
    <2>3. Means(query, c)'
      BY <1>6, <2>1 DEF DebtFollows, Means
    <2> QED
      BY <1>6, <2>1, <2>2, <2>3 DEF DebtFollows
  <1> QED
    BY <1>12, <1>13, <1>14, <1>15, <1>16 DEF LogInv

\* A reading that shows nothing and owes nothing.
LEMMA NothingFollows ==
  ASSUME TypeOK, listed = <<>>, due = {}, reading # "more"
  PROVE  LogInv
  <1>1. DOMAIN listed = {}
    OBVIOUS
  <1> QED
    BY <1>1 DEF LogInv, QueryFollows, PagesAreOneList, ItemsFollow, DebtsFollow

LEMMA NothingFollowsNext ==
  ASSUME TypeOK', listed' = <<>>, due' = {}, reading' # "more"
  PROVE  LogInv'
  <1>1. DOMAIN listed' = {}
    OBVIOUS
  <1> QED
    BY <1>1 DEF LogInv, QueryFollows, PagesAreOneList, ItemsFollow, DebtsFollow

LEMMA RefuseOrAgainKeeps ==
  ASSUME LogInv, Again \/ \E q \in Queries : Refuse(q)
  PROVE  LogInv'
  <1>1. TypeOK /\ QueryFollows
    BY DEF LogInv
  <1>2. /\ UNCHANGED <<stage, fate, stamp, table>>
        /\ listed' = <<>> /\ due' = {} /\ ties' \subseteq 0 .. MaxTime
        /\ reading' \in {"idle", "over"}
    BY <1>1 DEF Again, Refuse, QueryFollows, TypeOK
  <1>3. listed' \in Seq(PossibleRows)
    BY <1>2
  <1>4. TypeOK'
    BY <1>1, <1>2, <1>3, ReadingKeepsRows
  <1> QED
    BY <1>2, <1>4, NothingFollowsNext

-----------------------------------------------------------------------------

\* The invariant of the query holds for every log, clock, query and fate: what was shown,
\* is owed and is in the table of store.go agree after every step of either side.
THEOREM LogInvariant == Spec => []LogInv
  <1>1. Init => LogInv
    <2> SUFFICES ASSUME Init
                 PROVE  LogInv
      OBVIOUS
    <2>1. TypeOK
      <3>1. <<>> \in Seq(PossibleRows) /\ 0 \in 0 .. MaxTime
        OBVIOUS
      <3> QED
        BY <3>1 DEF Init, TypeOK
    <2> QED
      BY <2>1, NothingFollows DEF Init
  <1>2. LogInv /\ [Next]_vars => LogInv'
    <2> SUFFICES ASSUME LogInv, [Next]_vars
                 PROVE  LogInv'
      OBVIOUS
    <2>1. ASSUME NEW c \in Calls, Insert(c) \/ Finish(c)
          PROVE  LogInv'
      BY <2>1, InsertKeeps, FinishKeeps
    <2>2. ASSUME NEW q \in Queries, FirstPage(q)
          PROVE  LogInv'
      BY <2>2, FirstPageKeeps
    <2>3. CASE NextPage
      BY <2>3, NextPageKeeps
    <2>4. CASE Again \/ \E q \in Queries : Refuse(q)
      BY <2>4, RefuseOrAgainKeeps
    <2>5. CASE UNCHANGED vars
      <3>1. UNCHANGED readerVars /\ UNCHANGED <<stage, fate, stamp, table>>
        BY <2>5 DEF vars, readerVars
      <3>2. TypeOK'
        BY <3>1, ReadingKeepsRows DEF LogInv, readerVars, TypeOK
      <3> QED
        BY <3>1, <3>2, RowsGrow
    <2> QED
      BY <2>1, <2>2, <2>3, <2>4, <2>5 DEF Next
  <1> QED
    BY <1>1, <1>2, PTL DEF Spec

\* A reader never sees a row twice or out of order (order by started_at desc, request_id
\* desc, and `until` strictly before it), whatever is inserted between the pages.
THEOREM OneList == Spec => []PagesAreOneList
  <1>1. LogInv => PagesAreOneList
    BY DEF LogInv
  <1> QED
    BY <1>1, LogInvariant, PTL

\* What is shown was meant by the query, and the detail lookup still finds it.
THEOREM OnlyMeantIsShown == Spec => []ShownIsMeant
  <1>1. LogInv => ShownIsMeant
    <2> SUFFICES ASSUME LogInv, NEW i \in DOMAIN listed
                 PROVE  /\ \/ Means(query, listed[i].id)
                           \/ /\ query.auth = NotChecked /\ ~Given(listed[i].status)
                              /\ Means([query EXCEPT !.auth = Null], listed[i].id)
                        /\ \E row \in GetHTTPAPICall(listed[i].id) :
                             /\ row.at = listed[i].at
                             /\ row = listed[i] \/ ~Given(listed[i].status)
      BY DEF ShownIsMeant
    <2>1. TypeOK /\ DOMAIN query = DOMAIN NoFilter
      <3>1. listed # <<>>
        OBVIOUS
      <3> QED
        BY <3>1 DEF LogInv, QueryFollows
    <2>2. PICK c \in Calls :
            /\ table[c] # Absent
            /\ listed[i].id = c /\ listed[i].at = stamp[c]
            /\ listed[i] \in {table[c], RowOf(c, stamp[c], fate[c])}
            /\ Matches(query, listed[i])
      BY DEF LogInv, ItemsFollow, ItemFollows
    <2>3. \/ Means(query, c)
          \/ /\ query.auth = NotChecked /\ ~Given(listed[i].status)
             /\ Means([query EXCEPT !.auth = Null], c)
      BY <2>1, <2>2, MatchIsMeant
    <2>4. table[c].id = c /\ table[c].at = stamp[c]
      BY <2>1, <2>2, TableRows
    <2>5. table[c] \in GetHTTPAPICall(c)
      BY <2>2, <2>4 DEF GetHTTPAPICall, Rows
    <2>6. table[c] = listed[i] \/ ~Given(listed[i].status)
      BY <2>2 DEF RowOf, Given
    <2> QED
      BY <2>2, <2>3, <2>4, <2>5, <2>6
  <1> QED
    BY <1>1, LogInvariant, PTL

\* A reading that is over has shown every call it owed, but for the ties at its page ends.
THEOREM NothingIsMissed == Spec => []ReadingIsComplete
  <1>1. LogInv => ReadingIsComplete
    BY DEF LogInv, DebtsFollow, DebtFollows, ReadingIsComplete
  <1> QED
    BY <1>1, LogInvariant, PTL
=============================================================================
