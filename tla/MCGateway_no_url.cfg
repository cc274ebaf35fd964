CONSTANTS
  r1 = r1
  r2 = r2
  u1 = u1
  u2 = u2
  ok200 = ok200
  NoUser = NoUser
  Requests = {r1}
  Users = {u1, u2}
  Admins = {u2}
  UpstreamStatuses = {ok200}
  AuditChoices = {TRUE}
SPECIFICATION Spec
INVARIANT ExecutedRecordNamesUpstream
