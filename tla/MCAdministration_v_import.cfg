\* Two presses of Approve on one import.
CONSTANTS
  a = a
  b = b
  r1 = r1
  r2 = r2
  g1 = g1
  g2 = g2
  w1 = w1
  none = none
  Windows = {w1}
  Waivers = {g1, g2}
  Deciders = {a, b}
  Requests = {r1, r2}
  NoWindow = none
  NoDecider = none
  MaxLength = 1
  Ttl = 0
  MaxDay = 1
  MaxActs = 1
  People = {a, b}
  Runs = {r1, r2}
  Limit = 0
  Day = 1
  MaxHolds = 2
  SyncTime = 1
  p3 = p3
  Presses = {a, b, p3}
  Targets = {g1, g2}
  Jobs = {r1, r2}
  Interval = 1
  HealthTime = 3
SPECIFICATION MCSpec
SYMMETRY MCSymmetry
INVARIANTS
  CsvLoadedOnce
\* An import that has ended, or that nobody decides, stops.
CHECK_DEADLOCK FALSE
