---------------------------- MODULE SessionToken ----------------------------
(***************************************************************************)
(* Where the gateway finds the access token of a call (token.go): the      *)
(* bearer token, the cookie of the configured name, then any other         *)
(* Supabase session cookie.  A session too long for one cookie is split    *)
(* over "name.0", "name.1" and so on; its text is a sequence of pieces     *)
(* here, and a cookie holds some of them.                                  *)
(***************************************************************************)
EXTENDS Integers, Sequences, FiniteSets, SequencesExt

CONSTANTS
  AuthCookieNames,  \* the names sb-...-auth-token, in the order of strings
  PreferredName,    \* SUPABASE_AUTH_COOKIE_NAME, or NoName
  NoName,
  Sessions,         \* the sessions a cookie may hold
  Pieces,           \* Pieces[s]: the number of pieces of its text
  Tokenless,        \* the sessions whose text holds no access token
  NoToken

Whole == -1

Name(base, chunk) == [base |-> base, chunk |-> chunk]

\* The text of a session, and a part of it.
TextOf(s) == [k \in 1..Pieces[s] |-> <<s, k>>]

ASSUME SessionAssumption ==
  /\ Pieces \in [Sessions -> Nat \ {0}]
  /\ Tokenless \subseteq Sessions
  /\ NoToken \notin Sessions
  /\ NoName \notin Range(AuthCookieNames)

-----------------------------------------------------------------------------

\* Only "Bearer <token>" counts; the token of a session stands for it here.
BearerToken(authorization) ==
  IF authorization.scheme = "bearer" THEN authorization.token ELSE NoToken

\* Of two cookies of one name the later one counts.
ValuesOf(cookies) ==
  [ n \in {cookies[i].name : i \in DOMAIN cookies} |->
      cookies[CHOOSE i \in DOMAIN cookies :
                /\ cookies[i].name = n
                /\ \A j \in DOMAIN cookies : cookies[j].name = n => j <= i].value ]

\* Faulty variant: any session's text gives a token.
DecodeUnchecked(value) == IF value = <<>> THEN NoToken ELSE value[1][1]

\* JSON with an access token, base64, URL encoded or a bare array: the text of one
\* session and nothing after it.
DecodeSessionAccessToken(value) ==
  IF \E s \in Sessions \ Tokenless : value = TextOf(s)
  THEN CHOOSE s \in Sessions \ Tokenless : value = TextOf(s)
  ELSE NoToken

\* The number of chunks before the first gap.
ChunkCount(values, base) ==
  CHOOSE n \in 0..Cardinality(DOMAIN values) :
    /\ \A i \in 0..(n - 1) : Name(base, i) \in DOMAIN values
    /\ Name(base, n) \notin DOMAIN values

JoinedChunks(values, base) ==
  FlattenSeq([i \in 1..ChunkCount(values, base) |-> values[Name(base, i - 1)]])

\* Faulty variant: the chunks are preferred to the whole cookie.
CombineChunksFirst(values, base) ==
  IF JoinedChunks(values, base) = <<>> /\ Name(base, Whole) \in DOMAIN values
  THEN values[Name(base, Whole)]
  ELSE JoinedChunks(values, base)

\* The whole cookie, unless it is empty, or else its chunks.
CombineCookieChunks(values, base) ==
  IF Name(base, Whole) \in DOMAIN values /\ values[Name(base, Whole)] # <<>>
  THEN values[Name(base, Whole)]
  ELSE JoinedChunks(values, base)

AccessTokenFromCookie(values, base) ==
  DecodeSessionAccessToken(CombineCookieChunks(values, base))

\* The Supabase names there are cookies of, chunks included, in order.
Candidates(values) ==
  SelectSeq(AuthCookieNames, LAMBDA b : \E n \in DOMAIN values : n.base = b)

\* The token of the first of some names whose cookies hold one.
FirstToken(values, names) ==
  LET i == SelectInSeq(names, LAMBDA b : AccessTokenFromCookie(values, b) # NoToken)
  IN  IF i = 0 THEN NoToken ELSE AccessTokenFromCookie(values, names[i])

\* The configured name is tried before any other.
AccessTokenFromCookies(cookies) ==
  LET values == ValuesOf(cookies)
      preferred == AccessTokenFromCookie(values, PreferredName)
  IN  IF PreferredName # NoName /\ preferred # NoToken THEN preferred
      ELSE FirstToken(values, Candidates(values))

ExtractAccessToken(authorization, cookies) ==
  IF BearerToken(authorization) # NoToken THEN BearerToken(authorization)
  ELSE AccessTokenFromCookies(cookies)
=============================================================================
