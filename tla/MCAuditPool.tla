---------------------------- MODULE MCAuditPool ----------------------------
EXTENDS AuditPool

CONSTANTS p, l, q

\* A proxied call, a log query and a probe at a time.
MCDoes == [h \in Handlers |-> CASE h = p -> "proxy" [] h = l -> "logs" [] OTHER -> "ready"]
=============================================================================
