----------------------------- MODULE AuditBody -----------------------------
(***************************************************************************)
(* How the bodies of a call are read, passed on and recorded (server.go,   *)
(* audit.go), and what the table cannot hold of a row.  A body is a        *)
(* sequence of bytes: "a" an ASCII character, "l" and "c" the two bytes of *)
(* another character, "0" the zero byte, and "u" a thing JSON may say and  *)
(* jsonb cannot hold (\u0000, a number beyond numeric), which counts as    *)
(* one byte here.                                                          *)
(***************************************************************************)
EXTENDS Integers, Sequences, SequencesExt

CONSTANTS
  MaxBodyBytes,  \* MAX_BODY_BYTES
  AuditLimits,   \* the values AUDIT_MAX_BODY_BYTES may have
  MaxInt,        \* the largest int64; MaxBodyBytes + 1 wraps beyond it
  MaxText,       \* the most bytes of a body its text column takes, in each encoding
  MaxSize        \* the largest value of the integer column of its size

ASSUME LimitAssumption ==
  /\ MaxInt \in Nat
  /\ MaxBodyBytes \in 1..MaxInt
  /\ AuditLimits \subseteq 1..MaxInt
  /\ MaxText \in [{"utf8", "base64"} -> Nat] /\ MaxSize \in Nat

Bytes == {"a", "l", "c", "0", "u"}

Min2(i, j) == IF i <= j THEN i ELSE j
Cut(bytes, n) == SubSeq(bytes, 1, Min2(n, Len(bytes)))

\* utf8.Valid: each first byte is followed by its second, each second follows one.
ValidUTF8(bytes) ==
  \A i \in DOMAIN bytes :
    /\ bytes[i] = "l" => i < Len(bytes) /\ bytes[i + 1] = "c"
    /\ bytes[i] = "c" => i > 1 /\ bytes[i - 1] = "l"

\* int64 addition
Plus1(n) == IF n = MaxInt THEN -MaxInt - 1 ELSE n + 1

\* io.LimitReader gives nothing for a limit below one.
Limited(bytes, n) == Cut(bytes, IF n < 0 THEN 0 ELSE n)

\* Faulty variant: one byte too few is read to see that a body is too large.
ReadExactly(bytes) ==
  [ body |-> Limited(bytes, MaxBodyBytes),
    size |-> Len(Limited(bytes, MaxBodyBytes)),
    tooLarge |-> FALSE ]

\* readProxyRequestBody
ReadRequest(bytes) ==
  LET read == Limited(bytes, Plus1(MaxBodyBytes))
  IN  [ body |-> Cut(read, MaxBodyBytes),
        size |-> Len(read),
        tooLarge |-> Len(read) > MaxBodyBytes ]

(***************************************************************************)
(* newAuditBody.  Whether the whole body is one JSON value under a JSON    *)
(* content type is `json`; a part of it never is looked at.                *)
(***************************************************************************)
NewAuditBody(bytes, json, truncated, size) ==
  [ encoding |-> IF ValidUTF8(bytes) THEN "utf8" ELSE "base64",
    bytes |-> bytes,
    size |-> size,
    truncated |-> truncated,
    json |-> json /\ bytes # <<>> /\ ~truncated ]

\* Faulty variant: a body cut by the first limit is not marked.
RecordedUnmarked(bytes, json, size, limit) ==
  NewAuditBody(Cut(bytes, limit), json, Len(bytes) > limit, size)

\* auditBodyFromBytesWithOriginalSize
Recorded(bytes, json, size, limit) ==
  LET kept == Cut(bytes, limit)
  IN  NewAuditBody(kept, json, Len(bytes) > limit \/ size > Len(kept), size)

\* Faulty variant: what is passed back is what is recorded.
ReadResponseCut(bytes, json, limit) ==
  [ body |-> Cut(bytes, limit),
    recorded |-> NewAuditBody(Cut(bytes, limit), json,
                              Len(bytes) > limit, Len(bytes)) ]

\* readResponseAuditBody reads the whole response, whatever is recorded of it.
ReadResponse(bytes, json, limit) ==
  [ body |-> bytes,
    recorded |-> NewAuditBody(Cut(bytes, limit), json,
                              Len(bytes) > limit, Len(bytes)) ]

NoBody == NewAuditBody(<<>>, FALSE, FALSE, 0)

\* What is left when the body could not be read: AuditBody{}, without an encoding.
Unread == [NoBody EXCEPT !.encoding = ""]

(***************************************************************************)
(* The columns of the table (external).  Text is valid UTF-8 without a     *)
(* zero byte, which base64 hides, and not too long; jsonb holds less than  *)
(* JSON says; the encoding is checked, and the size is a 32-bit integer.   *)
(***************************************************************************)
Storable(b) ==
  /\ b.encoding \in {"utf8", "base64"} /\ Len(b.bytes) <= MaxText[b.encoding]
  /\ b.encoding = "utf8" => "0" \notin Range(b.bytes)
  /\ b.json => "u" \notin Range(b.bytes)
  /\ b.size <= MaxSize

\* A text the client chooses: whether it is valid UTF-8, has a zero byte and is too long,
\* for the index of its column or the limit of the gateway.
Texts == [utf8 : BOOLEAN, zero : BOOLEAN, long : BOOLEAN]
Blank == [utf8 |-> TRUE, zero |-> FALSE, long |-> FALSE]

IsText(t) == t.utf8 /\ ~t.zero
=============================================================================
