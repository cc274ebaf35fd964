----------------------------- MODULE MCPassage -----------------------------
EXTENDS Passage

MCAuthCookieNames == <<"sb-a-auth-token", "sb-p-auth-token">>
MCPieces == [s \in Sessions |-> CASE s = "short" -> 1 [] s = "long" -> 2 [] s = "longer" -> 4
                                   [] OTHER -> 1]
MCUserOf == [s \in Sessions |-> CASE s = "other" -> "u2" [] s = "longer" -> "u3" [] OTHER -> "u1"]

MCMaxText == [utf8 |-> 3, base64 |-> 2]

NoAuthorization == [scheme |-> "none", token |-> NoToken]
Bearer(s) == [scheme |-> "bearer", token |-> s]

SmallResponse == [headers |-> NoHeaders, bytes |-> <<"a">>, json |-> FALSE]

Plain == [ method |-> "GET", path |-> "api", authorization |-> NoAuthorization,
           pathText |-> Blank, query |-> Blank, clientId |-> Blank, headers |-> NoHeaders,
           bytes |-> <<>>, json |-> FALSE, broken |-> FALSE,
           response |-> SmallResponse ]

\* No header, each name alone, and every name at once, twice.
HeaderSets ==
  {NoHeaders, [n \in Names |-> <<"theirs", "and again">>]}
  \cup {Set(NoHeaders, n, "theirs") : n \in Names}

\* The bodies up to one byte too many, of a JSON value (no zero byte in it) or not.
Contents ==
  [bytes : SeqOf(Bytes \ {"u"}, MaxBodyBytes + 1), json : {FALSE}]
  \cup [bytes : SeqOf(Bytes \ {"0"}, MaxBodyBytes + 1), json : {TRUE}]

\* The kinds of calls and the ways to log in.
MCAnytime ==
  {[Plain EXCEPT !.authorization = a] :
     a \in {NoAuthorization, Bearer("short"), Bearer("stale"),
            [scheme |-> "basic", token |-> "short"]}}
  \cup {[Plain EXCEPT !.path = "probe", !.method = m] : m \in {"GET", "POST"}}
  \cup {[Plain EXCEPT !.path = "unrouted"], [Plain EXCEPT !.broken = TRUE]}

\* Bodies a column cannot hold for their length, recorded as text, base64 and cut.
LongBodies ==
  {[bytes |-> [i \in 1..n |-> b], json |-> j] : n \in 4..5, b \in {"a", "c"}, j \in BOOLEAN}

\* The texts net/http lets through; every path a client may write.
SentTexts == {t \in Texts : ~t.zero}

\* With a session: the headers of the request or the response, the body of one, or the
\* texts the client chooses.
MCExchanges ==
  LET Known == [Plain EXCEPT !.authorization = Bearer("short")] IN
  MCAnytime
  \cup {[Known EXCEPT !.headers = h] : h \in HeaderSets}
  \cup {[Known EXCEPT !.response.headers = h] : h \in HeaderSets}
  \cup {[Known EXCEPT !.bytes = c.bytes, !.json = c.json] : c \in Contents}
  \cup {[Known EXCEPT !.response.bytes = c.bytes, !.response.json = c.json] :
          c \in Contents \cup LongBodies}
  \cup {[Known EXCEPT !.pathText = t] : t \in Texts}
  \cup {[Known EXCEPT !.query = t] : t \in SentTexts}
  \cup {[Known EXCEPT !.clientId = t, !.headers = h] :
          t \in SentTexts, h \in {NoHeaders, Set(NoHeaders, "X-Request-Id", "theirs")}}
=============================================================================
