\* One person.  AccessGrants: one target, two requests with two approvers at
\* work, an admin, the reaper and the sweep.  AccessMirror: two writers of a team
\* of two and of two rules.
CONSTANTS
  Parts = {"grants", "mirror"}
  x1 = x1
  x2 = x2
  y1 = y1
  y2 = y2
  p1 = p1
  p2 = p2
  u1 = u1
  t1 = t1
  t0 = t0
  db1 = db1
  db2 = db2
  q1 = q1
  q2 = q2
  noTarget = noTarget
  none = none
  Users = {u1}
  Targets = {t0, t1}
  ControlPlane = {t0}
  Requests = {x1, x2}
  Queries = {q1, q2}
  Tiers = {"ro", "rw"}
  Scopes <- MCTwoScopes
  Databases = {db1, db2}
  Deciders = {p1, p2}
  NoTarget = noTarget
  NoQuery = none
  NoGrant = none
  NoTxn = none
  NoWarning = none
  Terms = {1}
  Thresholds = {1}
  IdleTime = 1
  MaxTime = 2
  MaxAdminActs = 1
  Forever = 9
  Members = {x1, x2}
  Rules = {y1, y2}
  Txns = {p1, p2}
  RuleEnds = {1, 2}
SPECIFICATION MCSpec
SYMMETRY MCSymmetry
INVARIANTS
  TypesOK
  PersonInSync
PROPERTIES
  ImplementsEntitlement
  WarnedBeforeLapse
  TeamHeals
\* Once the requests are decided and the bounds are used up nothing is left to do.
CHECK_DEADLOCK FALSE
