----------------------------- MODULE MCAuditLog -----------------------------
EXTENDS AuditLog

CONSTANT Beyond  \* a limit above the maximum

\* Served, refused before the session was looked at, and one call of either kind that is
\* not proxied, one of them without a session.
MCFates ==
  { [route |-> "assets", auth |-> "authenticated", status |-> 200, method |-> "POST"],
    [route |-> Null, auth |-> NotChecked, status |-> 413, method |-> "POST"],
    [route |-> AuditAdminRouteName, auth |-> "authenticated", status |-> 200, method |-> "GET"],
    [route |-> "player-support-admin", auth |-> "missing_session", status |-> 401,
     method |-> "GET"] }

\* Limits below, within and above what is accepted, every filter, a time range.
MCQueries ==
  {[NoFilter EXCEPT !.limit = n] : n \in {0, DefaultLimit, Beyond}}
  \cup {[NoFilter EXCEPT !.route = r] : r \in {"assets"} \cup DirectRoutes}
  \cup {[NoFilter EXCEPT !.id = 1]}
  \cup {[NoFilter EXCEPT !.auth = "authenticated", !.status = 200, !.method = "POST"]}
  \cup {[NoFilter EXCEPT !.auth = NotChecked, !.limit = Beyond]}
  \cup {[NoFilter EXCEPT !.since = 1, !.until = MaxTime]}
=============================================================================
