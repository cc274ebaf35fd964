------------------------------ MODULE Headers ------------------------------
(***************************************************************************)
(* What becomes of the headers of a call and of its response (server.go,   *)
(* audit.go): which are forwarded, which the gateway sets itself, which    *)
(* are passed back and which are recorded.  A header is a function from    *)
(* the canonical names to the sequences of their values.                   *)
(***************************************************************************)
EXTENDS Sequences

CONSTANT OtherNames  \* names none of the lists below has

HopByHop == {"Connection", "Keep-Alive", "Proxy-Authenticate", "Proxy-Authorization",
             "Te", "Trailer", "Transfer-Encoding", "Upgrade"}

Trusted == {"X-Internal-Token", "X-User-Id", "X-Request-Id", "X-Request-Accepted-At",
            "X-Forwarded-For", "X-Forwarded-Host", "X-Forwarded-Proto"}

Names == HopByHop \cup Trusted \cup OtherNames \cup
         {"Authorization", "Cookie", "Set-Cookie", "Apikey", "Api-Key", "X-Api-Key",
          "Cf-Connecting-Ip"}

NoHeaders == [n \in Names |-> <<>>]

Present(h) == {n \in Names : h[n] # <<>>}

\* http.Header.Get and Set
Get(h, n) == IF h[n] = <<>> THEN "" ELSE Head(h[n])
Set(h, n, v) == [h EXCEPT ![n] = <<v>>]

\* Header.Add of every value of src whose name is not dropped.
AddAll(dst, src, dropped) ==
  [n \in Names |-> IF n \in dropped THEN dst[n] ELSE dst[n] \o src[n]]

\* shouldDropRequestHeader; the request id is overwritten, not dropped.
DroppedFromRequest ==
  (HopByHop \cup Trusted \cup {"Authorization", "Cookie"}) \ {"X-Request-Id"}

\* shouldDropResponseHeader
DroppedFromResponse == HopByHop \cup {"Set-Cookie"}

\* shouldDropAuditRequestHeader and shouldDropAuditResponseHeader
DroppedFromRequestRecord ==
  {"Apikey", "Api-Key", "X-Api-Key", "Authorization", "Cookie", "Proxy-Authorization",
   "X-Internal-Token", "X-User-Id"}
DroppedFromResponseRecord == {"Authorization", "Set-Cookie", "X-Internal-Token"}

\* sanitizedHeaders
Sanitized(h, dropped) == AddAll(NoHeaders, h, dropped)

\* The client's chain, or what Cloudflare says of it, then the peer itself.
ForwardedFor(client, remote) ==
  LET chain == IF Get(client, "X-Forwarded-For") # "" THEN Get(client, "X-Forwarded-For")
               ELSE Get(client, "Cf-Connecting-Ip")
  IN  IF chain = "" THEN <<remote>> ELSE <<chain, remote>>

SetForwardedHeaders(h, client, remote) ==
  Set(Set(Set(h, "X-Forwarded-For", ForwardedFor(client, remote)),
          "X-Forwarded-Host", "request host"), "X-Forwarded-Proto", "http")

\* Faulty variant: what the client sent is copied after the gateway's own headers.
ForwardHeadersLast(client, user, id, token, remote) ==
  LET own == Set(Set(Set(NoHeaders, "X-Internal-Token", token), "X-User-Id", user),
                 "X-Request-Id", id)
  IN  SetForwardedHeaders(
        Set(AddAll(own, client, {"Authorization", "Cookie"}), "X-Request-Accepted-At", "now"),
        client, remote)

\* The headers of proxyAuthenticatedRequest.
ForwardHeaders(client, user, id, token, remote) ==
  LET copied == AddAll(NoHeaders, client, DroppedFromRequest)
      own == Set(Set(Set(Set(copied, "X-Internal-Token", token), "X-User-Id", user),
                     "X-Request-Id", id), "X-Request-Accepted-At", "now")
  IN  SetForwardedHeaders(own, client, remote)

\* Faulty variant: the response replaces the headers of the gateway.
ReplyReplacing(own, response) ==
  [n \in Names |-> IF n \notin DroppedFromResponse /\ response[n] # <<>>
                   THEN response[n] ELSE own[n]]

\* copyResponseHeaders: added to the headers the gateway set before.
ReplyHeaders(own, response) == AddAll(own, response, DroppedFromResponse)
=============================================================================
