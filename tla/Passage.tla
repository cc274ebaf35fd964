------------------------------ MODULE Passage ------------------------------
(***************************************************************************)
(* What passes through the gateway with a call and what is kept of it: the *)
(* session it finds, the headers and bodies it forwards, passes back and   *)
(* records, and the lines of its access log.  The browser rewrites its     *)
(* session cookies one at a time while it sends calls.  What happens to    *)
(* the audit statements, the timeouts and the shutdown is in Gateway; here *)
(* Postgres is up, and refuses only what its columns cannot hold.          *)
(***************************************************************************)
EXTENDS SessionToken, Headers, AuditBody

CONSTANTS
  Valid,      \* the sessions Supabase takes for logged in
  UserOf,     \* UserOf[s]: the user of a session
  OtherName,  \* the session cookie of another application of the site
  Others,     \* the sessions that cookie may hold
  Exchanges,  \* the requests sent, each with the response its upstream has for it
  Anytime     \* BOUND: the others are sent only while the browser is signed out; they
              \* bring a bearer token, so that no cookie is looked at

IsExchange(x) ==
  /\ x.headers \in [Names -> Seq(STRING)] /\ x.response.headers \in [Names -> Seq(STRING)]
  /\ x.bytes \in Seq(Bytes) /\ x.response.bytes \in Seq(Bytes)
  /\ {x.json, x.response.json, x.broken} \subseteq BOOLEAN
  /\ x.authorization.token \in (Sessions \ Tokenless) \cup {NoToken}
  /\ {x.pathText, x.query, x.clientId} \subseteq Texts
  /\ ~x.query.zero /\ ~x.clientId.zero  \* refused by net/http
  /\ x.path = "probe" => x.pathText = Blank

ASSUME PassageAssumption ==
  /\ Valid \subseteq Sessions \ Tokenless /\ Others \subseteq Sessions
  /\ UserOf \in [Sessions -> STRING]
  /\ Anytime \subseteq Exchanges
  /\ \A x \in Exchanges : IsExchange(x)
  /\ \A x \in Exchanges \ Anytime : x.authorization.scheme = "bearer"
  /\ PreferredName # NoName /\ OtherName \in Range(AuthCookieNames) \ {PreferredName}

VARIABLES
  jar,      \* the browser's cookies
  writes,   \* what it has still to write of the session it stores
  limit,    \* AUDIT_MAX_BODY_BYTES of this gateway
  session,  \* the session it stores or stored last, NoToken when it signed out
  call      \* the call in the gateway, and what came of it

vars == <<jar, writes, session, limit, call>>

NoCall == [stage |-> "none"]

-----------------------------------------------------------------------------
(* The browser (external): a session of one piece is kept in one cookie,   *)
(* a longer one in chunks, and what it replaces is removed.  BOUND: it     *)
(* writes between calls only, a call reads the cookies in its first step.  *)

CookiesOf(s) ==
  IF s = NoToken THEN {}
  ELSE IF Pieces[s] = 1 THEN {[name |-> Name(PreferredName, Whole), value |-> TextOf(s)]}
  ELSE {[name |-> Name(PreferredName, k - 1), value |-> <<TextOf(s)[k]>>] : k \in 1..Pieces[s]}

Init ==
  /\ \E o \in Others \cup {NoToken} :
       jar = IF o = NoToken THEN <<>>
             ELSE [n \in {Name(OtherName, Whole)} |-> TextOf(o)]
  /\ writes = {}
  /\ session = NoToken
  /\ limit \in AuditLimits
  /\ call = NoCall

\* The browser signs in, refreshes its session or signs out.
Store(s) ==
  /\ call = NoCall /\ writes = {} /\ s # session
  /\ session' = s
  /\ LET stale == {n \in DOMAIN jar : n.base = PreferredName} \ {c.name : c \in CookiesOf(s)}
     IN  writes' = CookiesOf(s) \cup {[name |-> n, value |-> <<>>] : n \in stale}
  /\ UNCHANGED <<jar, limit, call>>

\* One cookie is set, or removed when there is nothing to keep.
WriteCookie(w) ==
  /\ call = NoCall
  /\ writes' = writes \ {w}
  /\ jar' = IF w.value = <<>> THEN [n \in DOMAIN jar \ {w.name} |-> jar[n]]
            ELSE [n \in DOMAIN jar \cup {w.name} |-> IF n = w.name THEN w.value ELSE jar[n]]
  /\ UNCHANGED <<session, limit, call>>

(***************************************************************************)
(* The cookies of its session are written.  Of what it replaces there may  *)
(* be left any chunk beside a whole cookie, and chunks beyond a gap.       *)
(***************************************************************************)
Settled ==
  /\ CookiesOf(session) \cap writes = {}
  /\ session # NoToken /\ Pieces[session] # 1 =>
       {Name(PreferredName, Whole), Name(PreferredName, Pieces[session])} \cap DOMAIN jar = {}

SignedOut == session = NoToken /\ writes = {}

Cookies == SetToSeq({[name |-> n, value |-> jar[n]] : n \in DOMAIN jar})

-----------------------------------------------------------------------------
(* Server.Handler and handleProxy.                                         *)

\* GET (or HEAD) /health and /ready have handlers of their own; another method on
\* these paths is proxied.
IsProbe(x) == x.path = "probe" /\ x.method = "GET"

\* isProbePath, which looks at the path alone.
Logged(x) == x.path # "probe"

\* What accessLog writes: the status, and the id the response starts with.
Line(x, code, headers) ==
  IF Logged(x) THEN <<[status |-> code, id |-> Get(headers, "X-Request-Id")]>> ELSE <<>>

OwnHeaders == Set(NoHeaders, "X-Request-Id", "gateway id")

\* requestIDsFromHeader: what it cuts off it makes valid, a shorter id it takes as it is.
ClientRequestID(x) ==
  IF x.headers["X-Request-Id"] = <<>> \/ x.clientId.long THEN Blank ELSE x.clientId

RequestRecord(x) ==
  [ id |-> "gateway id", path |-> x.pathText, query |-> x.query, clientId |-> ClientRequestID(x),
    headers |-> Sanitized(x.headers, DroppedFromRequestRecord),
    body |-> IF x.broken THEN Unread
             ELSE Recorded(ReadRequest(x.bytes).body, x.json, ReadRequest(x.bytes).size, limit),
    responseHeaders |-> NoHeaders, responseBody |-> NoBody,
    complete |-> FALSE ]

\* Whether Postgres takes the row of Start; of the path, which it indexes, not any length.
StorableRow(record) ==
  /\ IsText(record.path) /\ ~record.path.long
  /\ IsText(record.query) /\ IsText(record.clientId)
  /\ Storable(record.body)

\* A handler that ends with an answer of the gateway records and logs it.
AnswerError(c, code) ==
  [c EXCEPT !.stage = "done", !.status = code, !.reply = OwnHeaders,
            !.record.complete = TRUE, !.log = Line(c.x, code, OwnHeaders)]

\* A call as it arrives, with the session the browser has settled on, if any.
Arrived(x, record) ==
  [ stage |-> "arrived", x |-> x, record |-> record, recorded |-> TRUE,
    settled |-> IF Settled THEN session ELSE NoToken,
    token |-> ExtractAccessToken(x.authorization, Cookies),
    verdict |-> "none", status |-> "none", reply |-> NoHeaders, replyBody |-> <<>>,
    forwarded |-> NoHeaders, forwardedBody |-> <<>>, log |-> <<>> ]

\* Faulty variant: a call that cannot be recorded is handled all the same.
UnrecordedHandled(c) == [c EXCEPT !.stage = "verifying", !.recorded = FALSE]

\* The record cannot be written: audit_unavailable, and nothing else happens.
Unrecorded(c) ==
  [c EXCEPT !.stage = "done", !.status = "audit_unavailable", !.recorded = FALSE,
            !.reply = OwnHeaders, !.log = Line(c.x, "audit_unavailable", OwnHeaders)]

Probed(c) ==
  [c EXCEPT !.stage = "done", !.status = "probe", !.recorded = FALSE,
            !.log = Line(c.x, "probe", NoHeaders)]

\* What follows once the record is open; body, route and session are looked at now.
Admit(c) ==
  \/ c.x.broken /\ call' = AnswerError(c, "invalid_request_body")
  \/ /\ ~c.x.broken
     /\ \/ ReadRequest(c.x.bytes).tooLarge /\ call' = AnswerError(c, "request_too_large")
        \/ /\ ~ReadRequest(c.x.bytes).tooLarge
           /\ \/ c.x.path # "api" /\ call' = AnswerError(c, "not_found")
              \/ c.x.path = "api" /\ c.token = NoToken /\ call' = AnswerError(c, "unauthorized")
              \/ c.x.path = "api" /\ c.token # NoToken /\ call' = [c EXCEPT !.stage = "verifying"]

Receive(x) ==
  /\ call = NoCall
  /\ x \in Anytime \/ SignedOut
  /\ LET c == Arrived(x, RequestRecord(x)) IN
     \/ IsProbe(x) /\ call' = Probed(c)
     \/ ~IsProbe(x) /\ ~StorableRow(c.record) /\ call' = Unrecorded(c)
     \/ ~IsProbe(x) /\ StorableRow(c.record) /\ Admit(c)
  /\ UNCHANGED <<jar, writes, session, limit>>

-----------------------------------------------------------------------------
(* SupabaseVerifier.Verify and what the handler makes of it.               *)

\* Supabase says who the session's user is or rejects it, answers something without
\* a user id, or does not answer properly.
Verdicts(token) ==
  {"outage", "no_user"} \cup IF token \in Valid THEN {"user"} ELSE {"rejected"}

CodeOf(verdict) == IF verdict = "outage" THEN "auth_unavailable" ELSE "unauthorized"

Forwarded(c) ==
  [c EXCEPT !.stage = "forwarded",
            !.forwarded = ForwardHeaders(c.x.headers, UserOf[c.token], "gateway id",
                                         "internal token", "peer"),
            !.forwardedBody = ReadRequest(c.x.bytes).body]

Verify(verdict) ==
  /\ call.stage = "verifying" /\ verdict \in Verdicts(call.token)
  /\ LET c == [call EXCEPT !.verdict = verdict]
     IN  call' = IF verdict = "user" THEN Forwarded(c) ELSE AnswerError(c, CodeOf(verdict))
  /\ UNCHANGED <<jar, writes, session, limit>>

\* The record with the response, or as it was when its columns cannot hold that.
WithResponse(record, response) ==
  LET body == ReadResponse(response.bytes, response.json, limit).recorded
  IN  IF ~Storable(body) THEN record
      ELSE [record EXCEPT
              !.complete = TRUE, !.responseBody = body,
              !.responseHeaders = Sanitized(response.headers, DroppedFromResponseRecord)]

\* The upstream's response is recorded, and passed back whether or not it was.
Respond ==
  /\ call.stage = "forwarded"
  /\ LET response == call.x.response
         reply == ReplyHeaders(OwnHeaders, response.headers)
     IN  call' = [call EXCEPT
           !.stage = "done", !.status = "upstream", !.reply = reply,
           !.replyBody = ReadResponse(response.bytes, response.json, limit).body,
           !.log = Line(call.x, "upstream", reply),
           !.record = WithResponse(@, response)]
  /\ UNCHANGED <<jar, writes, session, limit>>

ForwardFails ==
  /\ call.stage = "forwarded"
  /\ call' = AnswerError(call, "upstream_unavailable")
  /\ UNCHANGED <<jar, writes, session, limit>>

\* The next call.
Leave ==
  /\ call.stage = "done"
  /\ call' = NoCall
  /\ UNCHANGED <<jar, writes, session, limit>>

Next ==
  \/ \E s \in (Sessions \ Others) \cup {NoToken} : Store(s)
  \/ \E w \in writes : WriteCookie(w)
  \/ \E x \in Exchanges : Receive(x)
  \/ \E v \in {"user", "rejected", "no_user", "outage"} : Verify(v)
  \/ Respond \/ ForwardFails \/ Leave

Spec == Init /\ [][Next]_vars

-----------------------------------------------------------------------------
(* Properties.                                                             *)

\* What a call is at each of its stages, and the proofs need: what was forwarded is
\* what the headers and the body of the client make, what was answered and logged begins
\* with the id of the record, and a call has no record only if Postgres refused it.
CallFollows(c) ==
  /\ DOMAIN c = {"stage", "x", "record", "recorded", "settled", "token", "verdict", "status",
                 "reply", "replyBody", "forwarded", "forwardedBody", "log"}
  /\ DOMAIN c.record = {"id", "path", "query", "clientId", "headers", "body",
                        "responseHeaders", "responseBody", "complete"}
  /\ IsExchange(c.x) /\ c.stage \in {"verifying", "forwarded", "done"}
  /\ c.record.id = "gateway id"
  /\ c.recorded = (~IsProbe(c.x) /\ c.status # "audit_unavailable")
  /\ c.stage # "done" => c.recorded /\ c.status = "none"
  /\ c.stage = "verifying" => c.forwarded = NoHeaders /\ ~ReadRequest(c.x.bytes).tooLarge
  /\ c.forwarded # NoHeaders =>
       /\ c.forwarded = ForwardHeaders(c.x.headers, UserOf[c.token], "gateway id",
                                       "internal token", "peer")
       /\ c.forwardedBody = ReadRequest(c.x.bytes).body
       /\ ~ReadRequest(c.x.bytes).tooLarge
  /\ c.stage = "done" /\ c.recorded =>
       /\ c.reply = IF c.status = "upstream" THEN ReplyHeaders(OwnHeaders, c.x.response.headers)
                    ELSE OwnHeaders
       /\ c.log = Line(c.x, c.status, c.reply)
  /\ c.stage = "done" /\ c.status = "upstream" => c.replyBody = c.x.response.bytes
  /\ c.status = "audit_unavailable" =>
       /\ ~StorableRow(RequestRecord(c.x))
       /\ c.verdict = "none" /\ c.forwarded = NoHeaders

\* What its record holds from its start, and once it is complete.
RecordFollows(c) ==
  c.recorded =>
    /\ ~c.x.broken
    /\ c.record.headers = RequestRecord(c.x).headers
    /\ c.record.body = RequestRecord(c.x).body
    /\ ReadRequest(c.x.bytes).tooLarge => c.stage = "done" /\ c.status = "request_too_large"
    /\ c.stage # "done" => c.record.complete = FALSE
    /\ c.status = "upstream" /\ c.record.complete =>
         c.record.responseBody =
           ReadResponse(c.x.response.bytes, c.x.response.json, limit).recorded

\* Its token is one of a session, of the settled one if the call has no other, and it
\* is turned away only without one, or for what Supabase says of it.
SessionFollows(c) ==
  /\ c.token \in (Sessions \ Tokenless) \cup {NoToken}
  /\ c.settled \in Valid /\ c.x.authorization.scheme = "none" => c.token = c.settled
  /\ c.status = "unauthorized" /\ c.verdict # "no_user" => c.token \notin Valid

\* The cookies of the configured name are those of the stored session, but for the
\* writes to come.
JarFollows ==
  LET names == {c.name : c \in CookiesOf(session)} IN
  /\ IsFiniteSet(DOMAIN jar)
  /\ \A w \in writes : /\ w.name.base = PreferredName
                       /\ \/ w \in CookiesOf(session)
                          \/ w.value = <<>> /\ w.name \notin names
  /\ \A c \in CookiesOf(session) \ writes : c.name \in DOMAIN jar /\ jar[c.name] = c.value
  /\ \A n \in DOMAIN jar : n.base = PreferredName =>
       n \in names \/ [name |-> n, value |-> <<>>] \in writes

CallInv ==
  call # NoCall => CallFollows(call) /\ RecordFollows(call) /\ SessionFollows(call)

\* The cookies, the session and the call are what the steps so far make them.
TypeOK ==
  /\ \A n \in DOMAIN jar : /\ n.base \in Range(AuthCookieNames) \cup {PreferredName}
                           /\ jar[n] # <<>>
  /\ session \in (Sessions \ Others) \cup {NoToken} /\ limit \in AuditLimits
  /\ JarFollows /\ CallInv

Done == call.stage = "done"
WasForwarded == call # NoCall /\ call.forwarded # NoHeaders

\* A browser that is signed in, with its cookies written, is never told to log in while
\* Supabase knows its session, and never served as someone else: not by the chunks an
\* earlier session left, nor by the cookie of another application, nor because Supabase
\* is out of order; only by an answer of Supabase that names no user.
SignedInStaysSignedIn ==
  call # NoCall /\ call.settled \in Valid /\ call.x.authorization.scheme = "none" =>
    /\ call.status = "unauthorized" => call.verdict = "no_user"
    /\ WasForwarded => call.forwarded["X-User-Id"] = <<UserOf[call.settled]>>

\* Whatever the client sends, the upstream sees one value of each trusted header and
\* it is the gateway's, the peer ends the chain of X-Forwarded-For, no credential of
\* the client's, and every other header as the client sent it.
UpstreamTrustsOnlyTheGateway ==
  WasForwarded =>
    LET f == call.forwarded
        h == call.x.headers
    IN  /\ f["X-Internal-Token"] = <<"internal token">>
        /\ f["X-User-Id"] = <<UserOf[call.token]>>
        /\ f["X-Request-Accepted-At"] = <<"now">>
        /\ \A n \in {"X-Forwarded-For", "X-Forwarded-Host", "X-Forwarded-Proto"} : Len(f[n]) = 1
        /\ Last(f["X-Forwarded-For"][1]) = "peer"
        /\ Present(f) \cap (HopByHop \cup {"Authorization", "Cookie"}) = {}
        /\ \A n \in Names \ (HopByHop \cup Trusted \cup {"Authorization", "Cookie"}) : f[n] = h[n]

\* A recorded call can be followed by the gateway's id, whatever ids client and upstream
\* send: it is the first the client reads, with nothing behind it but what the upstream
\* sent, the only one the upstream got, that of the table and of the one line of the
\* access log with the status the client received.  Only a call to a probe's path with
\* another method is in the table and not in the log.
GatewayIdComesFirst ==
  Done /\ call.recorded =>
    /\ call.reply["X-Request-Id"] =
         <<call.record.id>> \o (IF call.status = "upstream"
                                THEN call.x.response.headers["X-Request-Id"] ELSE <<>>)
    /\ WasForwarded => call.forwarded["X-Request-Id"] = <<call.record.id>>
    /\ call.x.path # "probe" => call.log = <<[status |-> call.status, id |-> call.record.id]>>

IsHonest(b, bytes, json) ==
  /\ IsPrefix(b.bytes, bytes)
  /\ b.truncated <=> b.bytes # bytes
  /\ b.json => json /\ b.bytes = bytes

Credentials == {"Authorization", "Cookie", "Proxy-Authorization", "Apikey", "Api-Key",
                "X-Api-Key", "X-Internal-Token", "X-User-Id"}

\* What is recorded of a body is its start, marked as truncated exactly when something
\* is missing, by whichever of the two limits; a JSON value is recorded only of a
\* whole body, and the size is the whole size unless the body was refused for it.  Of
\* the headers it has all but the credentials.
RecordIsHonest ==
  call # NoCall /\ call.recorded =>
    /\ IsHonest(call.record.body, call.x.bytes, call.x.json)
    /\ Present(call.record.headers) = Present(call.x.headers) \ Credentials
    /\ call.status # "request_too_large" => call.record.body.size = Len(call.x.bytes)
    /\ call.status = "upstream" /\ call.record.complete =>
         /\ IsHonest(call.record.responseBody, call.x.response.bytes, call.x.response.json)
         /\ call.record.responseBody.size = Len(call.x.response.bytes)

\* Whatever the limits and whatever the table can hold: a body passes whole or not at
\* all, the request's to the upstream and the response's to the client.
BodiesPassWhole ==
  /\ WasForwarded => call.forwardedBody = call.x.bytes /\ Len(call.x.bytes) <= MaxBodyBytes
  /\ Done /\ call.status = "upstream" => call.replyBody = call.x.response.bytes

\* What of a request a row cannot hold.
UnfitRequest(x) ==
  \/ ~IsText(x.pathText) \/ x.pathText.long \/ ~IsText(x.query)
  \/ x.headers["X-Request-Id"] # <<>> /\ ~IsText(x.clientId) /\ ~x.clientId.long
  \/ x.broken \/ "0" \in Range(x.bytes) \/ (x.json /\ "u" \in Range(x.bytes))
  \/ Len(x.bytes) > MaxSize \/ \E e \in DOMAIN MaxText : Len(x.bytes) > MaxText[e]

\* Every call of the front end is recorded, except one whose row Postgres refuses: for
\* its path, its query or the id its client gave it, for a body that could not be read,
\* with a zero byte, with JSON that jsonb cannot hold, or that is too long for a row.
\* Such a call is refused and reaches nothing.
OnlyUnstorableCallsAreRefused ==
  call # NoCall /\ ~IsProbe(call.x) =>
    /\ call.recorded <=> call.status # "audit_unavailable"
    /\ call.status = "audit_unavailable" =>
         /\ UnfitRequest(call.x)
         /\ call.verdict = "none" /\ ~WasForwarded

-----------------------------------------------------------------------------
(* What the documentation promises and the code does not keep.             *)

\* README.md:31: the gateway makes an authoritative request id for every call and passes
\* it by the response header.  copyResponseHeaders adds to that header (server.go:515),
\* so an id of the upstream's reaches the client beside it.
ClientReadsOneId ==
  Done /\ call.recorded => call.reply["X-Request-Id"] = <<call.record.id>>
=============================================================================
