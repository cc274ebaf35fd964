------------------------------ MODULE AuditLog ------------------------------
(***************************************************************************)
(* The audit table as an administrator reads it (audit_logs.go) while the  *)
(* replicas of the gateway write it: rows are stamped with the wall clock  *)
(* of the replica a call arrived at, inserted some time later and          *)
(* completed later still, or never.  The administrator asks for a page     *)
(* with a filter and then for the older rows, with `until` set to the      *)
(* started_at of the last row shown, until a page is short.                *)
(***************************************************************************)
EXTENDS Integers, Sequences, FiniteSets, SequencesExt

CONSTANTS
  Calls,         \* the calls, by request_id; integers, since the ids are ordered
  MaxTime,       \* bound on the wall clocks, which start at 0
  DefaultLimit,  \* 50 in the code
  MaxLimit,      \* 200 in the code
  Queries,       \* the queries asked
  Fates,         \* what may become of a call: its route, auth, status and method
  Null           \* the null of the database, and a parameter not given

AuditAdminRouteName == "audit-admin"

\* The routes of beginDirectAudit; the route of a proxied call is known when it finishes.
DirectRoutes == {AuditAdminRouteName, "player-support-admin"}

NotChecked == "not_checked"

NoFilter == [limit |-> DefaultLimit, id |-> Null, route |-> Null, auth |-> Null,
             status |-> Null, method |-> Null, since |-> Null, until |-> Null]

(***************************************************************************)
(* A fate holds the columns Finish writes, and the method; only a route    *)
(* may be null.                                                            *)
(***************************************************************************)
ASSUME LogAssumption ==
  /\ Calls \subseteq Int /\ IsFiniteSet(Calls)
  /\ MaxTime \in Nat
  /\ MaxLimit \in Nat /\ DefaultLimit \in 1..MaxLimit
  /\ Null \notin Int \cup DirectRoutes
  /\ \A f \in Fates :
       DOMAIN f = {"route", "auth", "status", "method"} /\ Null \notin {f.auth, f.status}
  /\ \A q \in Queries :
       /\ DOMAIN q = DOMAIN NoFilter
       /\ q.limit \in Int /\ q.since \in Int \cup {Null} /\ q.until \in Int \cup {Null}

VARIABLES
  stage,     \* stage[c]: "new", "started" or "over"
  fate,      \* fate[c]: what becomes of it
  stamp,     \* stamp[c]: its StartedAt
  table,     \* table[c]: its row, or Absent
  query,     \* the query of the reading's first page, normalised
  listed,    \* the rows shown so far, in the order of the pages
  ties,      \* the started_at at which a page ended
  due,       \* the calls the reading owes, from when its first page was read
  reading    \* "idle", "more" or "over"

vars == <<stage, fate, stamp, table, query, listed, ties, due, reading>>

Absent == [id |-> Null]

\* The row Start writes.
RowOf(c, at, f) ==
  [ id |-> c, at |-> at, method |-> f.method, auth |-> NotChecked, status |-> Null,
    route |-> IF f.route \in DirectRoutes THEN f.route ELSE Null ]

Init ==
  /\ stage = [c \in Calls |-> "new"]
  /\ fate = [c \in Calls |-> Null]
  /\ stamp = [c \in Calls |-> 0]
  /\ table = [c \in Calls |-> Absent]
  /\ query = Null
  /\ listed = <<>> /\ ties = {} /\ due = {}
  /\ reading = "idle"

-----------------------------------------------------------------------------
(* The replicas.                                                           *)

readerVars == <<query, listed, ties, due, reading>>

\* StartedAt was read when the call arrived, from the wall clock of its replica: two
\* clocks differ and one may be set back, so that any instant may be inserted next.
Insert(c) ==
  /\ stage[c] = "new"
  /\ \E t \in 0..MaxTime, f \in Fates :
       /\ stamp' = [stamp EXCEPT ![c] = t]
       /\ fate' = [fate EXCEPT ![c] = f]
       /\ table' = [table EXCEPT ![c] = RowOf(c, t, f)]
  /\ stage' = [stage EXCEPT ![c] = "started"]
  /\ UNCHANGED readerVars

\* Faulty variant: Finish stamps the row anew.
CompletedLater(row, f, at) ==
  [row EXCEPT !.route = f.route, !.auth = f.auth, !.status = f.status, !.at = at]

\* The columns Finish writes.
Completed(row, f, at) ==
  [row EXCEPT !.route = f.route, !.auth = f.auth, !.status = f.status]

\* A clock ticks every half millisecond; Duration.Milliseconds drops the fraction.
DurationMs(from, to) == IF to >= from THEN (to - from) \div 2 ELSE -((from - to) \div 2)

\* The schema refuses a negative duration, and the row stays as Start wrote it.
Finish(c) ==
  /\ stage[c] = "started"
  /\ \E t \in 0..MaxTime :
       table' = IF DurationMs(stamp[c], t) >= 0
                THEN [table EXCEPT ![c] = Completed(@, fate[c], t)]
                ELSE table
  /\ stage' = [stage EXCEPT ![c] = "over"]
  /\ UNCHANGED <<fate, stamp, readerVars>>

-----------------------------------------------------------------------------
(* parseAuditLogFilter, normalizeAuditLogFilter and auditLogWhereClause.   *)

Acceptable(q) == q.limit >= 1

Normalized(q) == [q EXCEPT !.limit = IF @ > MaxLimit THEN MaxLimit ELSE @]

Given(x) == x # Null

\* "column = $n" is not true of null.
IsTrue(column, x) == Given(column) /\ column = x

\* Faulty variant: only "route <> $n", which is not true of null.
RouteDiffersFromAdmin(row) == Given(row.route) /\ row.route # AuditAdminRouteName

NotAdminRoute(row) == ~Given(row.route) \/ row.route # AuditAdminRouteName

\* Faulty variant: every list hides the audit log's own calls, or none does.
RouteConditionAlone(q, row) == Given(q.route) => IsTrue(row.route, q.route)

\* Without a route the audit log's own calls are hidden, unless one is asked for.
RouteCondition(q, row) ==
  /\ Given(q.route) => IsTrue(row.route, q.route)
  /\ ~Given(q.route) /\ ~Given(q.id) => NotAdminRoute(row)

\* Faulty variant: until includes its instant.
BeforeOrAt(q, row) == Given(q.until) => row.at <= q.until

BeforeUntil(q, row) == Given(q.until) => row.at < q.until

Matches(q, row) ==
  /\ Given(q.id) => row.id = q.id
  /\ Given(q.method) => row.method = q.method
  /\ RouteCondition(q, row)
  /\ Given(q.auth) => IsTrue(row.auth, q.auth)
  /\ Given(q.status) => IsTrue(row.status, q.status)
  /\ Given(q.since) => row.at >= q.since
  /\ BeforeUntil(q, row)

Rows == {table[c] : c \in {d \in Calls : table[d] # Absent}}

\* order by started_at desc, request_id desc
Newer(a, b) == a.at > b.at \/ (a.at = b.at /\ a.id > b.id)

NewestFirst(rows) ==
  CHOOSE s \in [1..Cardinality(rows) -> rows] :
    \A i, j \in DOMAIN s : i < j => Newer(s[i], s[j])

\* limit $n; the store cuts the limit itself as well.
ListHTTPAPICalls(q) ==
  LET rows == NewestFirst({row \in Rows : Matches(q, row)})
      limit == Normalized(q).limit
  IN  SubSeq(rows, 1, IF Len(rows) < limit THEN Len(rows) ELSE limit)

-----------------------------------------------------------------------------
(* What a query asks for.                                                  *)

\* What README.md says of a query, of a call and not of its row: which calls the
\* administrator means.  Without a route the calls of the front end are meant.
Means(q, c) ==
  LET f == fate[c] IN
  /\ Given(q.id) => c = q.id
  /\ Given(q.route) => f.route = q.route
  /\ ~Given(q.route) /\ ~Given(q.id) => f.route # AuditAdminRouteName
  /\ Given(q.method) => f.method = q.method
  /\ Given(q.auth) => f.auth = q.auth
  /\ Given(q.status) => f.status = q.status
  /\ Given(q.since) => stamp[c] >= q.since
  /\ Given(q.until) => stamp[c] < q.until

\* The parameters whose column is written when the call is finished.
AsksForOutcome(q) == Given(q.route) \/ Given(q.auth) \/ Given(q.status)

\* What a reading that begins now should show: every call meant that has a row,
\* unless an outcome is asked for and it has none yet.
Owed(q) ==
  {row.id : row \in {r \in Rows :
     Means(q, r.id) /\ ~(AsksForOutcome(q) /\ ~Given(r.status))}}

-----------------------------------------------------------------------------
(* The administrator.                                                      *)

Shows(q, page) ==
  /\ listed' = listed \o page
  /\ ties' = IF page = <<>> THEN ties ELSE ties \cup {Last(page).at}
  /\ reading' = IF Len(page) < q.limit THEN "over" ELSE "more"

FirstPage(q) ==
  /\ reading = "idle" /\ Acceptable(q)
  /\ query' = Normalized(q)
  /\ Shows(Normalized(q), ListHTTPAPICalls(Normalized(q)))
  /\ due' = Owed(Normalized(q))
  /\ UNCHANGED <<stage, fate, stamp, table>>

\* 400 invalid_query
Refuse(q) ==
  /\ reading = "idle" /\ ~Acceptable(q)
  /\ reading' = "over"
  /\ query' = q
  /\ UNCHANGED <<stage, fate, stamp, table, listed, ties, due>>

NextPage ==
  /\ reading = "more"
  /\ Shows(query, ListHTTPAPICalls([query EXCEPT !.until = Last(listed).at]))
  /\ UNCHANGED <<query, stage, fate, stamp, table, due>>

\* Another reading.
Again ==
  /\ reading = "over"
  /\ reading' = "idle" /\ query' = Null
  /\ listed' = <<>> /\ ties' = {} /\ due' = {}
  /\ UNCHANGED <<stage, fate, stamp, table>>

Next ==
  \/ \E c \in Calls : Insert(c) \/ Finish(c)
  \/ \E q \in Queries : FirstPage(q) \/ Refuse(q)
  \/ NextPage \/ Again

Spec == Init /\ [][Next]_vars

-----------------------------------------------------------------------------
(* The detail lookup.                                                      *)

\* The row of a request id, if there is one.
GetHTTPAPICall(id) == {row \in Rows : row.id = id}

-----------------------------------------------------------------------------
(* Properties.                                                             *)

\* A row as Start wrote it, or as Finish completed it.
PossibleRows ==
  {RowOf(c, t, f) : c \in Calls, t \in 0..MaxTime, f \in Fates}
  \cup {Completed(RowOf(c, t, f), f, 0) : c \in Calls, t \in 0..MaxTime, f \in Fates}

TypeOK ==
  /\ stage \in [Calls -> {"new", "started", "over"}]
  /\ fate \in [Calls -> Fates \cup {Null}]
  /\ stamp \in [Calls -> 0..MaxTime]
  /\ DOMAIN table = Calls
  /\ \A c \in Calls :
       \/ stage[c] = "new" /\ table[c] = Absent
       \/ /\ stage[c] # "new" /\ fate[c] \in Fates
          /\ \/ table[c] = RowOf(c, stamp[c], fate[c])
             \/ /\ stage[c] = "over"
                /\ table[c] = Completed(RowOf(c, stamp[c], fate[c]), fate[c], 0)
  /\ listed \in Seq(PossibleRows)
  /\ reading \in {"idle", "more", "over"}
  /\ ties \subseteq 0..MaxTime
  /\ due \subseteq Calls

Listed == {listed[i].id : i \in DOMAIN listed}

\* The pages of a reading together are one list, newest first, without a row shown
\* twice, although rows are inserted and completed between the pages.
PagesAreOneList ==
  \A i, j \in DOMAIN listed : i < j => Newer(listed[i], listed[j])

\* What is shown was asked for, by the call's own outcome and in its time range, and
\* can be looked up: the detail is what the list said or what became of it since.  Only
\* who asks for sessions that were not checked is shown calls in progress as well.
ShownIsMeant ==
  \A i \in DOMAIN listed :
    /\ \/ Means(query, listed[i].id)
       \/ /\ query.auth = NotChecked /\ ~Given(listed[i].status)
          /\ Means([query EXCEPT !.auth = Null], listed[i].id)
    /\ \E row \in GetHTTPAPICall(listed[i].id) :
         row.at = listed[i].at /\ (row = listed[i] \/ ~Given(listed[i].status))

\* A reading that is over has shown every call meant that had a row when it began
\* (served, refused, without a route, in progress or cut short by a crash), except
\* rows with the very started_at a page ended at, and, where an outcome is asked
\* for, calls that had none yet.
ReadingIsComplete ==
  reading = "over" =>
    \A c \in due : c \in Listed \/ stamp[c] \in ties

\* What the proofs need besides: the query of a reading is as parseAuditLogFilter and
\* the normalisation leave it, and a reading that goes on has shown something.
QueryFollows ==
  /\ reading = "idle" => listed = <<>> /\ due = {}
  /\ reading = "more" => listed # <<>>
  /\ listed # <<>> \/ due # {} =>
       /\ DOMAIN query = DOMAIN NoFilter /\ query.limit \in 1..MaxLimit
       /\ query.since \in Int \cup {Null} /\ query.until \in Int \cup {Null}

\* A row that was shown matched, and is in the table as it was or was shown as started.
ItemFollows(item) ==
  \E c \in Calls :
    /\ table[c] # Absent
    /\ item.id = c /\ item.at = stamp[c]
    /\ item \in {table[c], RowOf(c, stamp[c], fate[c])}
    /\ Matches(query, item)

\* A call that is owed matches for good, and is shown, tied or older than all shown.
DebtFollows(c) ==
  /\ table[c] # Absent /\ Means(query, c)
  /\ AsksForOutcome(query) => Given(table[c].status)
  /\ \/ c \in Listed \/ stamp[c] \in ties
     \/ reading = "more" /\ stamp[c] < Last(listed).at

ItemsFollow == \A i \in DOMAIN listed : ItemFollows(listed[i])

DebtsFollow == \A c \in due : DebtFollows(c)

\* The invariant of the proofs, kept by every step by itself.
LogInv ==
  TypeOK /\ QueryFollows /\ PagesAreOneList /\ ItemsFollow /\ DebtsFollow
=============================================================================
