CONSTANTS
  r1 = r1
  r2 = r2
  u1 = u1
  u2 = u2
  ok200 = ok200
  NoUser = NoUser
  Requests = {r1, r2}
  Users = {u1, u2}
  Admins = {u2}
  UpstreamStatuses = {ok200}
  AuditChoices = {TRUE, FALSE}
SPECIFICATION Spec
SYMMETRY MCSymmetry
INVARIANT FailClosed
INVARIANT RefusedIsNeverServed
INVARIANT TruthfulRecord
INVARIANT Attribution
INVARIANT OnlyAdminsAreServed
INVARIANT UnauditedIsTransparent
PROPERTY RecordsOnlyAdvance
PROPERTY GracefulStop
