\* One process; the Stop button, the kill switch and the watchdog together. A
\* second request may supersede the first.
CONSTANTS
  bot = bot
  web = web
  r1 = r1
  r2 = r2
  none = none
  Requests = {r1, r2}
  Procs = {bot}
  Recovery = bot
  Kinds <- MCKinds
  SlackOn = TRUE
  NoRequest = none
  Stoppers = {"user", "watchdog"}
  MaxRestarts = 1
  MaxToggles = 1
SPECIFICATION Spec
SYMMETRY MCSymmetry
CONSTRAINT MCPaired
INVARIANTS
  UnstartedNeverRuns
  CompletedMeansApplied
  McpWritesReadByPerson
PROPERTIES
  ImplementsContract
  ClosedStaysClosed
\* Once every request is settled and the bounds are used up, nothing is left to do.
CHECK_DEADLOCK FALSE
