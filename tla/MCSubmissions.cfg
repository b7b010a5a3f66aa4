\* Two handlers, three statements, three ids, batches of two.
CONSTANTS
  p1 = p1
  p2 = p2
  a = a
  b = b
  c = c
  Submitters = {p1, p2}
  Queries = {a, b, c}
  MaxOpen = 2
  DraftCap = 2
  BatchMax = 2
  MaxId = 3
SPECIFICATION Spec
SYMMETRY MCSymmetry
INVARIANTS
  TypeOK
  OpenWithinLimit
  NoDuplicateWork
PROPERTIES
  SubmittedNotLost
\* When every id is used nothing is left to do.
CHECK_DEADLOCK FALSE
