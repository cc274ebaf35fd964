------------------------------ MODULE Routing ------------------------------
(***************************************************************************)
(* UPSTREAM_ROUTES, from its parsing to the URL a call is forwarded to:    *)
(* parseRoutes (config.go), validateRoute, New, matchRoute, buildTargetURL *)
(* and joinURLPath (server.go), and routeByName for the reads of the       *)
(* player support handlers (player_support.go).                            *)
(*                                                                         *)
(* A path that begins with "/" is the sequence of what follows each of its *)
(* slashes: "/api/v1" is <<"api", "v1">>, "/api/" is <<"api", "">>, "/" is *)
(* <<"">>, and the empty string is the empty sequence.  That p + "/" is a  *)
(* string prefix of q, or p equals q, is then that p is a prefix of q.     *)
(***************************************************************************)
EXTENDS Integers, Sequences, FiniteSets, SequencesExt

CONSTANTS
  Segments,    \* what may stand between two slashes
  Bytes,       \* Bytes[s]: the length of a segment
  Entries,     \* the entries an operator may write
  MaxEntries,  \* bound: how many of them
  Paths,       \* the decoded paths of the calls (URL.Path): net/http cleans the
               \* escaped path alone, so %2F may have put slashes side by side
  ReadNames,   \* the names of routes the player support handlers read from
  ReadPaths    \* the paths they read there

ASSUME RoutingAssumption ==
  /\ Bytes \in [Segments -> Nat] /\ "" \in Segments /\ MaxEntries \in Nat
  /\ \A e \in Entries : /\ DOMAIN e = {"name", "rooted", "prefix", "target", "absolute"}
                        /\ e.prefix \in Seq(Segments) /\ e.target \in Seq(Segments)
  /\ Paths \cup ReadPaths \subseteq Seq(Segments) \ {<< >>}
  /\ "" \notin ReadNames

VARIABLES
  state,   \* "starting", "failed" or "serving"
  config,  \* the parsed routes, in the order they were written
  table,   \* Server.routes
  path,    \* the path of the last call, or of the last read
  name,    \* the name it was read from, "" for a call
  hit,     \* the route that was found
  target   \* the path of the URL that was asked

vars == <<state, config, table, path, name, hit, target>>

NoRoute == [name |-> "", prefix |-> << >>, target |-> << >>]

Init ==
  /\ state = "starting"
  /\ config = << >> /\ table = << >>
  /\ path = << >> /\ name = "" /\ hit = NoRoute /\ target = << >>

-----------------------------------------------------------------------------
(* Loading the routes.                                                     *)

\* strings.TrimRight(s, "/"): no empty segment is left at the end.
TrimRight(p) ==
  LET Named == {i \in DOMAIN p : p[i] # ""}
  IN SubSeq(p, 1, IF Named = {} THEN 0 ELSE Max(Named))

\* strings.TrimLeft(s, "/"), of a string that is empty or begins with "/".
TrimLeft(p) ==
  LET Named == {i \in DOMAIN p : p[i] # ""}
  IN IF Named = {} THEN << >> ELSE SubSeq(p, Min(Named), Len(p))

Root == <<"">>

\* Faulty variant: a prefix of slashes alone is kept as the empty string.
ParsedBare(e) ==
  [name |-> e.name, prefix |-> TrimRight(e.prefix), target |-> e.target]

\* The prefix parseRoutes keeps: no slash at its end, "/" when nothing is left.
Parsed(e) ==
  [name |-> e.name,
   prefix |-> IF TrimRight(e.prefix) = << >> THEN Root ELSE TrimRight(e.prefix),
   target |-> e.target]

\* validateRoute, after the prefix was trimmed: "" became "/".
Valid(e) ==
  /\ e.name # ""
  /\ e.rooted \/ TrimRight(e.prefix) = << >>
  /\ e.absolute

\* The number of bytes: of each segment i those numbered from 1, and the slash 0.
LengthOf(p) == Cardinality(UNION {{i} \X (0 .. Bytes[p[i]]) : i \in DOMAIN p})

\* Faulty variant: the routes stay in the order they were written.
Unsorted(routes) == routes

\* By decreasing length of the prefix, and stable.
Before(routes, i, j) ==
  \/ LengthOf(routes[i].prefix) > LengthOf(routes[j].prefix)
  \/ LengthOf(routes[i].prefix) = LengthOf(routes[j].prefix) /\ i < j

\* The place each route had before sort.SliceStable.
Order(routes) ==
  CHOOSE order \in [DOMAIN routes -> DOMAIN routes] :
    \A m, n \in DOMAIN routes : m < n => Before(routes, order[m], order[n])

Sorted(routes) == [n \in DOMAIN routes |-> routes[Order(routes)[n]]]

Load(entries) ==
  /\ state = "starting"
  /\ IF entries = << >> \/ \E i \in DOMAIN entries : ~Valid(entries[i])
       THEN state' = "failed" /\ UNCHANGED <<config, table>>
       ELSE /\ state' = "serving"
            /\ config' = [i \in DOMAIN entries |-> Parsed(entries[i])]
            /\ table' = Sorted(config')
  /\ UNCHANGED <<path, name, hit, target>>

-----------------------------------------------------------------------------
(* Serving a call.                                                         *)

\* The first route of the table whose prefix is the path or begins it.
Match(routes, p) == SelectInSeq(routes, LAMBDA route : IsPrefix(route.prefix, p))

\* Faulty variant: a slash at the end of the path is lost.
TargetTrimmed(route, p) ==
  LET suffix == SubSeq(p, Len(route.prefix) + 1, Len(p))
      joined == TrimRight(route.target) \o TrimRight(TrimLeft(suffix))
  IN IF joined = << >> THEN Root ELSE joined

\* joinURLPath
JoinURLPath(base, suffix) ==
  LET joined == TrimRight(base) \o TrimLeft(suffix)
  IN IF joined = << >> THEN Root ELSE joined

\* buildTargetURL
TargetOf(route, p) ==
  JoinURLPath(route.target, SubSeq(p, Len(route.prefix) + 1, Len(p)))

Ask(p) ==
  /\ state = "serving"
  /\ path' = p /\ name' = ""
  /\ LET n == Match(table, p)
     IN IF n = 0
          THEN hit' = NoRoute /\ target' = << >>
          ELSE hit' = table[n] /\ target' = TargetOf(table[n], p)
  /\ UNCHANGED <<state, config, table>>

\* routeByName: the first route of the table with the name.
RouteByName(routes, n) == SelectInSeq(routes, LAMBDA route : route.name = n)

\* A read of a player support handler, which leaves the prefix aside.
Read(n, p) ==
  /\ state = "serving"
  /\ path' = p /\ name' = n
  /\ LET i == RouteByName(table, n)
     IN IF i = 0
          THEN hit' = NoRoute /\ target' = << >>
          ELSE hit' = table[i] /\ target' = JoinURLPath(table[i].target, p)
  /\ UNCHANGED <<state, config, table>>

\* A configuration that is refused ends the process; it is started again.
Retry ==
  /\ state = "failed" /\ state' = "starting"
  /\ UNCHANGED <<config, table, path, name, hit, target>>

Next ==
  \/ \E n \in 0 .. MaxEntries : \E entries \in [1 .. n -> Entries] : Load(entries)
  \/ \E p \in Paths : Ask(p)
  \/ \E n \in ReadNames, p \in ReadPaths : Read(n, p)
  \/ Retry

Spec == Init /\ [][Next]_vars

-----------------------------------------------------------------------------

\* The routes are those of valid entries, in the order of Sorted.
RoutesFollow ==
  /\ config \in Seq({Parsed(e) : e \in {d \in Entries : Valid(d)}}) /\ Len(config) <= MaxEntries
  /\ state = "serving" <=> config # << >>
  /\ table = Sorted(config) /\ Range(table) = Range(config)
  /\ \A route \in Range(table) : route.prefix # << >>

\* What was found last is what the table has for the path or the name.
AnswerFollows ==
  LET n == IF name = "" THEN Match(table, path) ELSE RouteByName(table, name) IN
  /\ hit = IF n = 0 THEN NoRoute ELSE table[n]
  /\ hit = NoRoute <=> target = << >>
  /\ hit # NoRoute => target = IF name = "" THEN TargetOf(hit, path)
                               ELSE JoinURLPath(hit.target, path)

\* The routes and the answer are what the steps so far make them.
TypeOK ==
  /\ state \in {"starting", "failed", "serving"}
  /\ path \in Paths \cup ReadPaths \cup {<< >>} /\ name \in ReadNames \cup {""}
  /\ name = "" => path \in Paths \cup {<< >>}
  /\ RoutesFollow
  /\ IF state = "serving" THEN AnswerFollows
     ELSE path = << >> /\ name = "" /\ hit = NoRoute /\ target = << >>

Answered == state = "serving" /\ name = "" /\ target # << >>

(***************************************************************************)
(* README.md:120, the longest prefix wins: a matched call went to a route  *)
(* of the configuration whose prefix begins its path, no longer prefix of  *)
(* the configuration does, and among equal prefixes the first written one  *)
(* wins.  A call is unrouted only if no configured prefix begins its path. *)
(* Names may repeat, so a read by name goes by the prefix too: it uses the *)
(* route that also serves the calls to that route's own prefix, unless one *)
(* of another name has the same prefix and was written before it, and no   *)
(* other route of the name has a longer one.                               *)
(***************************************************************************)
LongestPrefixWins ==
  LET Begins(i, p) == IsPrefix(config[i].prefix, p)
      Wins(i, j) ==
        \/ Len(config[j].prefix) < Len(config[i].prefix)
        \/ config[j].prefix = config[i].prefix /\ i <= j
      Takes(i, p) ==
        Begins(i, p) /\ \A j \in DOMAIN config : Begins(j, p) => Wins(i, j)
      Named == {i \in DOMAIN config : config[i].name = name}
  IN /\ Answered => \E i \in DOMAIN config : hit = config[i] /\ Takes(i, path)
     /\ state = "serving" /\ name = "" /\ ~Answered =>
          \A i \in DOMAIN config : ~Begins(i, path)
     /\ name # "" => (Named = {} <=> hit = NoRoute)
     /\ name # "" /\ Named # {} =>
          \E i \in Named :
            /\ hit = config[i]
            /\ \A j \in Named : LengthOf(config[j].prefix) <= LengthOf(hit.prefix)
            /\ \/ Takes(i, hit.prefix)
               \/ \E j \in 1 .. i - 1 : j \notin Named /\ config[j].prefix = hit.prefix

\* The two paths are one, but for the slashes behind their first n segments.
SameButSlashes(p, q, n) ==
  \E i \in n .. Len(p), j \in n .. Len(q) :
    /\ \A k \in n + 1 .. i : p[k] = ""
    /\ \A k \in n + 1 .. j : q[k] = ""
    /\ SubSeq(p, i + 1, Len(p)) = SubSeq(q, j + 1, Len(q))

(***************************************************************************)
(* Two calls of one route reach the same upstream path exactly if their    *)
(* paths differ at most in the slashes right behind the prefix, which      *)
(* TrimLeft (server.go:488) takes away: "/api" and "/api/", but also       *)
(* "/api/x" and "/api/%2Fx", whose decoded path is "/api//x".  A slash     *)
(* further on, or at the end, is kept.  What is asked, for a call or for a *)
(* read by name, begins with the segments of the target's path; segments   *)
(* ".." that were escaped are passed on as they are.                       *)
(***************************************************************************)
TargetsStayApart ==
  /\ hit # NoRoute => IsPrefix(TrimRight(hit.target), target)
  /\ Answered => \A p \in Paths :
       IsPrefix(hit.prefix, p) =>
         (TargetOf(hit, p) = target <=> SameButSlashes(p, path, Len(hit.prefix)))

(***************************************************************************)
(* README.md:120 calls the prefixes prefixes; the prefix "/" is accepted   *)
(* and kept (config.go:157, server.go:731) and begins every path, yet      *)
(* matchRoute asks for "//" (server.go:312) and it serves "/" alone.       *)
(***************************************************************************)
RootServesEverything ==
  state = "serving" /\ name = "" /\ target = << >> /\ path # << >> =>
    \A i \in DOMAIN config : config[i].prefix # Root
=============================================================================
