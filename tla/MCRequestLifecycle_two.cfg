\* The Slack bot and the web API share one request, each with its own copy of a
\* kill switch that either may set; one of them restarts.
CONSTANTS
  bot = bot
  web = web
  r1 = r1
  r2 = r2
  none = none
  Requests = {r1}
  Procs = {bot, web}
  Recovery = bot
  Kinds <- MCReadWrite
  SlackOn = TRUE
  NoRequest = none
  Stoppers = {}
  MaxRestarts = 1
  MaxToggles = 1
SPECIFICATION FairSpec
INVARIANTS
  TypeOK
  ExecutedAtMostOnce
PROPERTIES
  
  ExecutionSettles
\* Once every request is settled and the bounds are used up, nothing is left to do.
CHECK_DEADLOCK FALSE
