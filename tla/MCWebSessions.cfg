\* WebSessions: one browser with two tabs that signs in twice, and somebody who
\* guesses.  ReplicaRouting: two workers that share the checks of one replica;
\* the window is longer than what a write, the lag and a check take together.
CONSTANTS
  s1 = s1
  s2 = s2
  t1 = t1
  t2 = t2
  none = none
  Sessions = {s1, s2}
  Tabs = {t1, t2}
  Names = {"me"}
  NoCookie = none
  NoRequest = none
  NoToken = none
  AccessTime = 2
  RefreshTime = 5
  Grace = 2
  MaxDelay = 1
  MaxFailures = 1
  Window = 1
  MaxTime = 5
  w1 = w1
  w2 = w2
  Workers = {w1, w2}
  Replicas = {1}
  WriteWindow = 3
  MaxLag = 0
  Ttl = 1
  MaxProbe = 1
  MaxRun = 0
  MaxCommits = 1
  ReadTime = 3
SPECIFICATION MCSpec
SYMMETRY MCSymmetry
INVARIANTS
  TypesOK
  
  
  StalenessBounded
  ReadsOwnWrites
PROPERTIES
  GraceEnds
\* At the last moment of the instance nothing is left to do.
CHECK_DEADLOCK FALSE
