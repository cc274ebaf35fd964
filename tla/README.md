# A verification of gateway-service in TLA+

The gateway accepts the HTTP calls of a game's front end, opens an audit record
of each in Postgres, verifies the Supabase session, forwards the call to an
upstream service under the user's identity, completes the record and answers.
This directory holds the models of that service, the configurations TLC checks
them with and the theorems TLAPS proves about them. Paths such as `server.go:339`
are under `src/internal/gateway/` unless another directory is given.

## The system

| Component | State it keeps | Operations | Modelled by |
|---|---|---|---|
| HTTP entry (`server.go` Handler, probes, access log) | none | dispatch, `/health`, `/ready`, access log | partly: `Passage` (dispatch, log), `AuditPool` (the ping of `/ready`) |
| Proxy pipeline (`server.go` handleProxy) | the handler's `AuditEntry`, one per call | read body, start audit, match route, verify, forward, finish audit, answer | `Gateway` |
| Administrative pipeline (`admin_audit.go`) | the same | start audit, authorise, parse, query, finish audit, answer | `Gateway` (parsing is one choice), `AuditLog` (the query) |
| Player support page (`player_support.go`) | results channel, WaitGroup, the page | six concurrent reads, assembly | `PlayerSupport` |
| Pull replay (`player_support.go`) | operation, two sections | read the operation, two concurrent reads, assembly | `PullReplay` |
| Audit sink (`audit.go`, `db/audit_schema.sql`) | `audit.http_api_calls`, a pool of 4 connections | Start, Finish, Ping, Close | `Gateway` (the table), `AuditPool` (the connections) |
| Audit log query (`audit_logs.go`) | none of its own | list, detail | `AuditLog` |
| Session extraction (`token.go`) | none | bearer token, cookies, chunks | `SessionToken`, in `Passage` |
| Supabase verifier (`auth.go`) | none | Verify | outcomes in `Gateway` and `Passage` |
| Routing (`config.go`, `server.go`) | the sorted routes | load, match, target | `Routing` |
| Header handling (`server.go`, `audit.go`) | none | forward, set, pass back, record | `Headers`, in `Passage` |
| Audit bodies (`server.go`, `audit.go`) | none | limits, truncation, encoding | `AuditBody`, in `Passage` |
| Configuration (`config.go`) | read once | LoadConfig | partly: the routes in `Routing` |
| Process (`cmd/gateway-service/main.go`) | serving, draining, exited | serve, SIGTERM, shutdown, close the pool, exit | `Gateway` |
| Telemetry, manifests | none that decides anything | | not modelled |

Everything interacts through blocking calls made by one goroutine per request:
a handler calls the sink (Postgres), the verifier and the upstream in turn, each
under a timeout and under the request's context, which is cancelled when the
client leaves. The goroutines share the connection pool, the routes (read only)
and the process they run in. What is hard here is therefore not shared memory
but failure: what was asked may be done after the gateway stopped waiting, the
context may be cancelled between any two steps, the process may be stopped or
killed there, and the pool may be closed under a running handler. Four connections
serve every handler, and one whose statement was cancelled is gone until it has been
closed. The table is read while it is written, by replicas whose clocks differ.
And a call carries texts the gateway did not choose: cookies left by another
session, headers with the names of its own, paths with slashes side by side, and
paths, queries, ids and bodies the table cannot hold.

What makes each component correct:

* pipeline and sink: nothing runs unrecorded, a refused call never runs, a
  complete record agrees with the answer and names the user, records only
  advance, every call reaches its answer, an orderly shutdown cuts nothing short;
* player support: the page is complete and answered whatever order and failures
  the reads have, and says truthfully whether it is partial;
* pull replay: evidence belongs to the operation asked for and a failure is never
  shown as absence;
* routing: the longest prefix wins, at a segment boundary and for a repeated name, and
  the paths of a route stay apart;
* the pool: no connection is lost or given back twice, nobody waits for one while
  holding one, every wait ends, and a statement reported done was performed;
* the audit log: the pages of a reading are one list, show only what was meant and
  miss nothing but rows of the very instant a page ended at;
* session, headers and bodies: whoever is signed in stays so, the upstream sees the
  gateway's word for who calls, the gateway's id can be followed everywhere, a body passes
  whole or not at all and its record does not pass a part for the whole, and a call
  is refused for its record only when the table cannot hold it.

## The modules

### `Gateway`: the life of a call

One state machine per call `r`, so that any number of handlers interleave.
`pc[r]` is the blocking call the handler is in:

| `pc` | in the code |
|---|---|
| `reading` | readProxyRequestBody (`server.go:174`) |
| `starting` | auditSink.Start (`server.go:344`) |
| `verifying` | verifier.Verify (`server.go:254`, `admin_audit.go:140`) |
| `working` | the forwarded request (`server.go:283`), the log query, or the reads of the player support handlers |
| `finishing` | auditSink.Finish (`server.go:394`) |
| `replying` | the write of the answer after finishAudit |
| `refusing` | the write of `503 audit_unavailable` (`server.go:352`) |

The steps between two blocking calls are one action, because nothing of them is
visible to another goroutine: `Admit` is everything from a successful start to
the call of the verifier, `StartAudit` is startAuditOrFail with its three cases
(no sink, a sink that fails at once, a statement sent). `entry[r]` is the
handler's AuditEntry, passed by value to Start and Finish, `rows[r]` its row,
`wire[r]` what another party was asked and did not do yet: an insert, an update
or a forwarded call stays there after the handler gave up, and `Insert`,
`Update`, `Execute` may happen at any later time, also after a restart. `gone[r]`
is the cancelled context. `proc` is the process: `Sigterm` starts the bounded
`ShutdownReturns`, `drained` records that it ended without an error, `Exit` waits
for connections in use as closing the pool does, `Crash` does not, `Restart`
starts again on the same table and with the same configuration. `audited` says whether
that configuration has an audit database; it is chosen at the start, among `AuditChoices`.
Payloads are reduced to what the properties
tell apart: the outcome code, the authentication result, the user and whether
the upstream URL was recorded. A verifier and routes are always configured
(`LoadConfig` requires them), so the `auth_verifier_missing` branch is left out,
as is `internal_error`, which needs a payload that cannot be marshalled.

### `AuditedCalls` and `AuditedGateway`: the promise

`AuditedCalls` says in five actions what an audited gateway promises about a
call: Open, Run, Close, Tell, Refuse. `AuditedGateway` maps the detailed state to
it (`rows` to the record, `effect` to the run, `reply` to the answer) and states
`ImplementsAuditedCalls`. It also holds the inductive invariant (below).

### `PlayerSupport` and `PullReplay`: the fan-outs

`PlayerSupport` models the goroutines, the buffered channel, the WaitGroup, the
closing of the channel and the loop that assembles the page; `heard` remembers
what a service really answered, so that the page can be compared with it.
`PullReplay` models the two rounds of reads of a replay against services in
which the pull goes on meanwhile (`Progress`, external); its channel holds both
sections, as `PlayerSupport` shows for the same pattern, so a read and its send
are one step. `before` remembers what the services held when the call arrived.
Nothing is assumed of the order in which the services learn of the pull.

### `Routing`

Paths are sequences of what follows each slash, which makes "equal, or a prefix
that ends at a slash" the prefix of sequences. `Load` parses, validates and
sorts a configuration, `Ask` matches a path and builds the target, `Read` finds a route by
its name, as the player support handlers do; names may repeat. The routes are sorted
by bytes, not by segments, so every segment has a length (`Bytes`); `Order` is the place
each route had before the stable sort, the only one that keeps equal lengths in
their order. The path of a call is the decoded one handleProxy looks at
(`server.go:208,480`). `net/http` cleans the escaped path, so `/api/%2Fx` arrives as
`/api//x` and `%2e%2e` as a segment `..`; nothing is assumed of a path but that it begins
with a slash. joinURLPath trims what follows the prefix, so the two paths `/api/x` and
`/api//x` have one target. `TargetsStayApart` says exactly which paths do
(`SameButSlashes`): those that differ in the slashes right behind the prefix, and no others.

### `AuditPool` and `AuditStatements`: the connections

`AuditPool` counts connections: `free` are those the pool may still hand out or open,
`idle` the open ones
among them, `dialing` those being opened for a caller that has
left, `broken` those being closed after a cancelled statement; a handler that holds
one is `held`. Every handler runs the statements of its kind (`Program`): Start and
Finish of a proxied call, Start, the query and Finish of an audit log call, the Ping
of `/ready`. `st[h]` is where it is: away from the sink, waiting, dialing, executing
or reading rows. The timeout of a statement covers the wait for a connection too, as
`context.WithTimeout` is made before it (`audit.go:120`), so `GiveUp` is possible in
each of these. `ListReturns` gives back the connection of a query whose rows failed,
as the deferred `rows.Close` does (`audit_logs.go:82`). The pool (pgxpool) and
Postgres are external, and modelled from how the sink uses them: `Perform` may happen
long after the handler gave up, `Lose` only to a statement nobody waits for any more;
one whose connection breaks under its handler is given up first. `Close` waits for the
connections in use and refuses new ones.

`AuditStatements` is the contract in the terms of the handlers, without connections:
statements are issued one at a time, performed at most once and only when issued, what
was reported done was performed, a record is completed only once it was opened. It is
what `Gateway` takes for granted of its sink; `ImplementsStatements` shows it of
`AuditPool`.

### `AuditLog`: the table as it is read

The writers are the replicas. `Insert` stamps a row with any instant, since clocks
differ and may be set back; `Finish` completes it, or leaves it started when the
duration comes out negative, which `db/audit_schema.sql:38` refuses. The reader asks
for a page (`FirstPage`, or `Refuse`) and then for the older rows with `until` at the
last `started_at` shown (`NextPage`), while the writers go on. `Matches` is the
condition of `auditLogWhereClause` on a row, with its nulls; `Means` is what the query
says of a call, by what becomes of it (its fate, one of `Fates`). The properties compare
the two. They differ for one accepted filter: `auth_result=not_checked`
(`admin_audit.go:232`) is what Start writes of every call (`server.go:169`), so it also
shows calls in progress or cut short whose session is, or was about to be, checked.
`ShownIsMeant` says so, and that such a row still has no status.

### `SessionToken`, `Headers`, `AuditBody` and `Passage`: what passes with a call

Three modules of pure operators and the module that composes them into `handleProxy`.
`SessionToken` is token.go: bearer before cookies, the preferred cookie before the
others (`AccessTokenFromCookies`), a whole cookie before chunks `name.0`, `name.1`, ... up
to the first missing one. A session is a text of pieces, and joined pieces decode to a session only if they
are all its pieces in order. `Headers` holds the four lists of names and the three
copies: a header is a function from names to sequences of values, so that a copy that
adds to what is there differs from one that sets. `AuditBody` reads a body under both limits,
over an alphabet that tells apart an ordinary byte, the two bytes of a longer character,
the zero byte and what JSON may say and jsonb cannot hold (an escaped zero byte, a number
beyond numeric); `Plus1` wraps as int64 does. It also says what the table's columns hold:
`Storable` of a body, with the length of its column (`MaxText`, less in base64, which is
longer) and of its size (`MaxSize`), and `IsText` of the other texts the client chooses,
which are told apart by whether they are UTF-8, have a zero byte and are too long (`Texts`).

`Passage` has one call at a time and a browser that stores, refreshes and clears its
session one cookie at a time (`Store`, `WriteCookie`). It keeps it under the configured
name. When SUPABASE_AUTH_COOKIE_NAME is empty the name is made from the host of
SUPABASE_URL (`config.go:89-92,211-223`); only a host whose
first label is empty leaves none, and of such a gateway nothing is claimed. A session is
`Settled` once its own cookies are written: of what it replaces, chunks beside a whole cookie or beyond a gap may still be there, because the
browser did not remove them yet. Each call brings its path, query and client id, its headers, its
body and the response its upstream has for it. The timeouts, the client that leaves
and the crashes are in `Gateway`; here Postgres is up and refuses only what its columns
cannot hold (`StorableRow`). The row of Start has the decoded path, the raw query and the
client's id as they came (`audit.go:127-143`); only an id that had to be cut is made valid
(`ClientRequestID`), and only the path has an index that bounds its length. The rows
of the administrative handlers meet the same columns; `Gateway` has their refusal.

## Which module uses which

    AuditedCalls <-INSTANCE- AuditedGateway -EXTENDS-> Gateway
    MCGateway, Gateway_proofs -> AuditedGateway
    AuditStatements <-INSTANCE- AuditPool
    MCAuditPool, AuditPool_proofs -> AuditPool
    MCPassage -> Passage -> SessionToken, Headers, AuditBody
    Passage_proofs -> Passage, OrderLemmas
    MCPlayerSupport, PlayerSupport_proofs -> PlayerSupport
    MCPullReplay, PullReplay_proofs -> PullReplay
    MCRouting -> Routing               Routing_proofs -> Routing, OrderLemmas
    MCAuditLog -> AuditLog             AuditLog_proofs -> AuditLog, OrderLemmas

## The runs

| Run | Bounds | What it shows |
|---|---|---|
| `safety` | 2 calls (symmetric), 2 users, one of them administrator, 1 upstream status, with and without a sink | the safety properties of the audited pipeline; without a sink it asks nothing of Postgres, refuses nothing for it and passes on only what the upstream executed; 1.4 million states |
| `one_call` | 1 call, with fairness | the pipeline implements `AuditedCalls`, keeps the inductive invariant of the theorems, brings every call to its answer and completes every shutdown |
| `unrecorded`, `no_url` | 1 and 2 calls | the two disagreements with the documentation below |
| `support` | 3 sections: may be missing, plain, without a route | the fan-out of the page, with the invariant of its theorems |
| `replay` | 2 operations, all services routed (one without a route only fails) | the replay against a pull in progress, that it is answered, and the invariant of its theorems |
| `routing`, `routing_root` | up to 3 of 8 entries (one name twice), 19 paths, 8 of them with slashes side by side or `..`, 2 paths read under 3 names | the routes, by path and by name, and the invariant of their theorems |
| `pool` | a proxied call, a log query and a probe, 2 connections | connections add up, every wait ends, the pool keeps the contract of `AuditStatements` and the invariant of the theorems |
| `log` | 3 calls of 4 fates (proxied, and of both direct routes), instants 0 to 2, default limit 1, maximum 2, a limit above it | what the pages of a reading show and miss, and the invariant of the theorems, 1.6 million states |
| `passage` | 6 sessions of 1, 2 and 4 pieces, 2 session cookies; each header name alone and all of them twice; every path, query and client id of `Texts`; bodies up to 4 bytes (responses 5), MAX_BODY_BYTES 3, AUDIT_MAX_BODY_BYTES 1 to 4, columns of 3 bytes (2 in base64) and sizes to 4 | sessions, headers, bodies, ids, through the whole of handleProxy, and the invariant of its theorems |
| `two_ids` | as `passage` | the disagreement over the request id below |

Calls share no variable but the process, so one call shows all of a call, and two
show what a shutdown, a crash and a closed pool do to several at different stages.
The users needed are an administrator and another one. Three sections cover
each way a section differs in the code. In `Routing` three entries suffice for a
nested pair with a sibling, or with a route of the same name, in every order. In `pool` one handler of each kind on one
connection fewer than handlers makes each wait for the others, and exhausts the
pool by cancelled statements. In `log` three rows on pages of one or two give three
pages, ties within and across pages, and rows inserted behind the reader. In `passage`
the limits of the record lie below, at and above that of the call, and bodies
below, at and above both and the columns. Sessions of 1, 2 and 4 pieces replace each other in either
direction, so that a chunk beyond the gap of a shorter session is there; `stale` is one Supabase rejects, `other` another user's, `empty` has no token.

Two bounds of `Passage` are named there with BOUND. The browser writes its cookies
between calls only, which loses nothing: a call takes its cookies in its first
step, and calls between any two writes are included. And the exchanges that are there
for their headers or bodies (all those outside `Anytime`) are sent only while the browser is
signed out; they bring a bearer token, so that no cookie is looked at. A further bound
is in `AuditPool`: `Renew` takes a new call only when no statement of the
old one is in flight, since two calls write different rows. MAX_BODY_BYTES is
below the largest integer in the run.

Each property is broken by a plausible fault of the code, kept next to the
operator it alters as a "faulty variant".

### Deadlock and fairness

No run switches the deadlock check off: the process can always crash and restart
and the fan-outs can be asked again.

`FairSpec` of `Gateway` gives weak fairness to the handler's side of each blocking
call, since each is bounded: AUDIT_WRITE_TIMEOUT around Start and Finish
(`audit.go:120,151`) and around the log queries, REQUEST_TIMEOUT in the two HTTP
clients (`server.go:741`), ten seconds for the shutdown (`main.go:107`).
Fairness is given to nothing else: Postgres, the verifier and the
upstream may hang for ever, nobody has to send a signal, a body may never
arrive and an answer may never be read, since the server sets neither a ReadTimeout nor
a WriteTimeout (`main.go:82-86`). That is why `CallsReachTheirAnswer` begins after the
body and ends before the answer is written; `ShutdownCompletes` holds in spite of both. In the fan-outs the goroutines and
the clients' timeouts are fair, the services are not. In `AuditPool` each handler's
`GiveUp` is fair (AUDIT_WRITE_TIMEOUT, made before the wait for a connection), and so is
what brings it to its next statement: between Start and Finish a handler waits for the
verifier and the upstream only, under REQUEST_TIMEOUT. A dial, the closing of a broken connection and the end of `Close` are
fair because pgxpool bounds the first two and the third is a wait for them. Postgres is
not fair there either. `AuditLog` and `Passage` state no liveness.

## What is proved

TLAPS proves, for any sets of calls, users, administrators and statuses:

| Theorem | Statement |
|---|---|
| `TypeCorrect` | `Spec => []TypeOK` |
| `GatewayInvariant` | `Spec => []GatewayInv` |
| `NothingUnaudited` | `Spec => []FailClosed` |
| `RefusalIsFinal` | `Spec => []RefusedIsNeverServed` |
| `CompleteRowsAreTruthful` | `Spec => []TruthfulRecord` |
| `ExecutedCallsAreAttributed` | `Spec => []Attribution` |
| `AdminEndpointsServeAdmins` | `Spec => []OnlyAdminsAreServed` |
| `RowsOnlyAdvance` | `Spec => RecordsOnlyAdvance` |
| `DrainedShutdownKillsNothing` | `Spec => GracefulStop` |
| `NilSinkIsTransparent` | `Spec => []UnauditedIsTransparent` |
| `GatewayImplementsAuditedCalls` | `Spec /\ audited => ImplementsAuditedCalls` |

and, for any finite set of handlers of any kinds and any number of connections:

| Theorem | Statement |
|---|---|
| `PoolInvariant` | `Spec => []PoolInv` |
| `PoolTypes` | `Spec => []TypeOK` (of `AuditPool`) |
| `ConnectionsAddUp` | `Spec => []NoConnectionLeaks` |
| `NobodyHoldsAndWaits` | `Spec => []NoHoldAndWait` |
| `PoolImplementsStatements` | `Spec => ImplementsStatements` |

for a page of any finite set of sections, any of which may be missing or without a route:

| Theorem | Statement |
|---|---|
| `PageInvariant` | `Spec => []PageInv` |
| `ChannelClosesLast` | `Spec => []NeverSendsOnClosed` |
| `PagesAreComplete` | `Spec => []PageIsComplete` |
| `PartialMarksAreTruthful` | `Spec => []PartialIsTruthful` |

for a replay of any operations, whichever of the services have a route:

| Theorem | Statement |
|---|---|
| `ReplayInvariant` | `Spec => []ReplayInv` |
| `EvidenceBelongs` | `Spec => []EvidenceBelongsToOperation` |
| `ReplaysAreTruthful` | `Spec => []ReplayIsTruthful` |

for any replicas' clocks, any calls and fates, any queries and any limits of a page:

| Theorem | Statement |
|---|---|
| `LogInvariant` | `Spec => []LogInv` |
| `OneList` | `Spec => []PagesAreOneList` |
| `OnlyMeantIsShown` | `Spec => []ShownIsMeant` |
| `NothingIsMissed` | `Spec => []ReadingIsComplete` |

for any entries of UPSTREAM_ROUTES, any paths and any names:

| Theorem | Statement |
|---|---|
| `RoutingInvariant` | `Spec => []TypeOK` (of `Routing`) |
| `LongestWins` | `Spec => []LongestPrefixWins` |
| `TargetsApart` | `Spec => []TargetsStayApart` |

and, for any exchanges (headers with any values, bodies of any length), any sessions
of any number of pieces, any cookie names and any limits:

| Theorem | Statement |
|---|---|
| `PassageInvariant` | `Spec => []TypeOK` (of `Passage`) |
| `SignedInIsServed` | `Spec => []SignedInStaysSignedIn` |
| `UpstreamHearsTheGateway` | `Spec => []UpstreamTrustsOnlyTheGateway` |
| `GatewayIdEverywhere` | `Spec => []GatewayIdComesFirst` |
| `WholeBodiesPass` | `MaxBodyBytes < MaxInt` implies `Spec => []BodiesPassWhole` |
| `RecordsAreHonest` | `MaxBodyBytes < MaxInt` implies `Spec => []RecordIsHonest` |
| `RefusedForItsRow` | `Spec => []OnlyUnstorableCallsAreRefused` |

The assumptions are those of `Gateway` (`NoUser` is not a user, the
administrators are users, statuses are not error codes), of `AuditPool`
(`PoolAssumption`: at least one connection, finitely many handlers, each of one of the
three kinds), of `PlayerSupport` (`SectionsAssumption`: the sections are finitely many),
of `PullReplay` (`RoutedAssumption`: what is routed is one of its three services), of
`AuditLog` (`LogAssumption`: finitely many calls at a time, whose ids are ordered, limits
as in the code, null is no value), of `Routing` (`RoutingAssumption`: segments have
lengths and the empty one is a segment, paths of calls and reads are not empty) and of `Passage` (`PassageAssumption`
gives the exchanges their types, has a cookie name configured and lets Supabase know
only sessions that hold a token; `LimitAssumption` keeps the limits within 1 to the
largest integer, which configuration requires; `SessionAssumption` gives every session
a text). The hypothesis of `WholeBodiesPass` and `RecordsAreHonest` is needed: at the
largest integer every body is read as empty (below).

The provers have no induction, so facts about lists and orders are proved from a least
counterexample or by counting. `OrderLemmas` holds them: a set of numbers has a least
member (`LeastNatural`) and a bounded one a greatest (`GreatestNatural`), and a finite
set can be listed along an order of its members (`ListExists`: the place of a member
is the number of those up to it) in one way that misses none (`ListIsBijection`). The
newest-first list of a query, the table of the sorted routes and the chunks of a cookie
are such lists.

None of the safety properties is inductive. They speak of the row, the
execution and the answer, and what protects them is in what is still in flight: a
late update could write anything if the invariant did not say that it carries the
handler's final entry, a late insert could take a complete row back if nothing
said that no insert is in flight once there is a row. `GatewayInv` is `TypeOK` and,
for each call, eight named parts: what the entry is at each stage
(`EntryFollowsHandler`), that a call before its start left no trace
(`NothingBeforeStart`), that a row is missing, as Start wrote it, or the completed
entry (`RowFollowsEntry`), that whatever got past the start has a row
(`RowBeforeProgress`), what may be in flight (`InFlight`), and that the execution,
the answer and the administrator's outcome follow the entry
(`EffectFollowsEntry`, `ReplyFollowsEntry`, `AdminsOnly`). The proof takes the
actions one by one: those of the call itself, those of another call (which leave
this one alone) and those of the process (which change `pc` to `killed` only).
The refinement uses the same invariant to choose, for each step, the abstract
action or the stutter. A gateway without a sink has a smaller invariant of its own:
`Transparent` of every call says that only forwards are ever in flight and that an
entry or an answer with a status of the upstream means the call was executed.

Nor does the sum of the counters of the pool keep itself. A step gives a connection
back because of where its handler is, so `PoolInv` says who holds one (`HoldersWork`:
exactly those that dial, execute or read) and that only an open pool has idle ones
(`IdleOnlyOpen`); the cardinality of the holders then moves
by one with each handler that joins or leaves. For the refinement it says that a
handler is inside its program (`InProgram`), that nothing ahead of it was sent
(`UnsentAhead`) and that it passed its start only when the start was performed
(`StartedFirst`), which is why a completed record was opened. The refinement reads
`issued` and `performed` off the statements; a dial, a closed connection or a returned
one is a stutter.

The page of `PlayerSupport` cannot be shown complete from the page alone. A goroutine
sends on a channel another one closes, so `PageInv` counts: the WaitGroup is the number of
goroutines that have not ended (`WaitGroupCounts`), each section is at one place of its
way from the goroutine through the channel to the page (`SectionFollows`, `InChannel`,
`SentIsKept`), and the handler waits, collects or is done accordingly
(`HandlerFollows`). The channel is closed when the counter is zero, hence when nobody can
send; the loop ends when it is closed and empty, hence when every section arrived.
`ReplayInv` does the same for the two rounds of a replay, and relates each section to what
the services held when the call arrived and hold now: they only get further, so what is
shown as present still is, and what is shown as absent was absent then.

The pages of `AuditLog` are one list because each page is the first of what is older than
the last row shown, but the table changes under the reader. `LogInv` says what a step of a
writer cannot undo: a row that was shown is in the table as it was shown, or completed since
(`ItemsFollow`), and a call that is owed matches the filter for good, and has been shown,
was tied with the end of a page, or is older than everything shown (`DebtsFollow`).
`MeantMatches` and `MatchIsMeant` relate the condition of the SQL, with its nulls, to what
the query says; `AnswerIsPage` says what of the matching rows a limit cuts off.

`Routing` keeps little state, and its theorems are about its operators. `OrderExists` shows
that the stable order the table is sorted by exists, for any routes, so that `Order`
chooses it. A longer prefix of one path begins with the shorter (`BeginningsNest`) and has
more bytes (`LengthGrows`), so that the first match in order of bytes is the longest
prefix (`BytesDecide`). Which paths collapse is decided by what `TrimLeft` leaves of the rest behind the prefix
(`TrimLeftFacts`, `SuffixFacts`): two rests are trimmed to one exactly when they are
`SameButSlashes` (`SlashesTrimmed`, `TrimmedRest`), and joinURLPath keeps trimmed rests
apart (`Joined`), which `SlashesCollapse` puts together.

The invariant of `Passage` has two halves. `JarFollows` relates the cookies to the session
while the browser writes it: each cookie of the configured name belongs to the session
unless its removal is still to come, and each cookie of the session is in place or still
to be written. Once those are, and when no whole cookie and no chunk at the index behind the
last is left beside chunks (`Settled`), the chunks joined are exactly those of the
session: `JoinedText` joins them to its text (`FlattenPieces`), and no other session has that
text (`TextsDiffer`): hence `SettledToken`, that the token found is the session's.
`CallInv` keeps, at every stage of a call, how what was forwarded and answered
(`CallFollows`), recorded (`RecordFollows`) and found (`SessionFollows`) came from the
exchange. The rest is about the operators: `ForwardedHeaders` says of any headers what
`ForwardHeaders` makes of each name, `RequestWhole` that asking for one byte more than the
limit tells a whole body from a cut one, `RequestRecorded` and `CutTwice` that two limits cut
to the start of the body and mark it, `ReplyKeepsId` that an id of the response is added
behind the gateway's own, `UnstorableRequest` what of a request makes its row one the table
refuses.

Only model-checked: the liveness properties (`CallsReachTheirAnswer`, `ShutdownCompletes`,
`PageIsAnswered`, `ReplayIsAnswered`, `WaitsEnd`), because fairness and ENABLED are beyond the
prover. Every other property of a passing run is a theorem; the type invariants of `Gateway`,
`AuditPool`, `PlayerSupport`, `PullReplay` and `AuditLog` are conjuncts of `GatewayInv`, `PoolInv`,
`PageInv`, `ReplayInv` and `LogInv`.

## Where code and documentation disagree

* `AnsweredIsRecorded`: `src/README.md:31` says the request and response of every
  business call are written to the table. An error of Finish is only logged
  (`server.go:394`), so a client is answered and the record stays `started`.
* `ExecutedRecordNamesUpstream`: `src/README.md:37` lists the upstream URL among
  what is recorded. It is set only after the upstream answered (`server.go:298`), so
  the record of a call that was executed but timed out lacks it.
* `RootServesEverything`: `src/README.md:120` says routes match by longest prefix.
  The prefix `/` is accepted (`config.go:157`, `server.go:731`) and serves the
  path `/` alone (`server.go:312`).
* `ClientReadsOneId`: `src/README.md:31` says the gateway passes its request id by the
  response header. copyResponseHeaders adds (`server.go:515`) and does not drop
  `X-Request-Id`, so an upstream that sends one gives the client two. What holds is
  `GatewayIdComesFirst`.

Smaller things met while modelling, which no run states as a property of its own:

* A body that cannot be read is to be answered `400 invalid_request_body`. Its record
  has an empty encoding (`server.go:327`), which `db/audit_schema.sql:39` refuses, so with
  a sink the answer is `503 audit_unavailable`. The models have it so
  (`SchemaAccepts`, `Storable`, `OnlyUnstorableCallsAreRefused`).
* A zero byte is valid UTF-8 (`audit.go:258`) but no value of a text column, and its JSON
  escape, like a number beyond numeric, is none of a jsonb column. A request with one is
  answered 503; a response with one is passed back and its record stays started.
* The path, the raw query and the client's id go into the insert as they came
  (`audit.go:127-143`): `/api/v1/assets/%00`, `%ff`, a raw byte beyond ASCII in the query or
  an id of at most 128 bytes that is not UTF-8 are answered 503 too.
* With MAX_BODY_BYTES at the largest int64 the limit of `server.go:325` wraps and every body
  is read as empty. `Plus1` has it; the run's constants exclude it.
* A POST to a probe's path is proxied, so it is in the table, but `isProbePath` looks at the
  path alone and leaves it out of the access log.
* A wall clock set back between start and end makes a negative duration, the schema
  refuses the update and the record stays started.

## The plan

1. (done) `Gateway`, its abstract specification, refinement and proofs.
2. (done) `PlayerSupport`, `PullReplay` and `Routing` with their proofs.
3. (done) `AuditPool`, `AuditStatements`, refinement and proofs.
4. (done) `AuditLog`: the query, paging, and the clocks that stamp the rows, with its proofs.
5. (done) `SessionToken`, `Headers`, `AuditBody`, composed in `Passage`, with its proofs.
6. (done) Proofs of what was only checked: the chunks of `SessionToken`, the recorded
   bodies, `Routing`, the pages of `AuditLog`, the gateway without a sink.
7. Two replicas of the gateway on one table (each request id is its own, so the
   theorems above should carry over with `proc` per replica).

## Not modelled

* Telemetry, the manifests and the two fixed security headers decide nothing.
* `/ready` answers more than the ping of the pool: the refusals for a bad configuration
  are plain tests of values read at start.
* Of the configuration only the routes: the other variables are validated alone and are
  constants of the models, the overflow of a huge duration (`config.go:184`) with them.
* The contents of payloads: the projections of the player support page, the encodings
  of a session's text, the JSON of an audit row.
* The `user_id` and `path` conditions of the log query, which have the form of `method`;
  the path is an ILIKE pattern whose `%` and `_` are not escaped (`audit_logs.go:184`).
* Redirects, which the HTTP client of `server.go:434` follows by itself.
* Memory: a response's size is not limited (`audit.go:218`).
