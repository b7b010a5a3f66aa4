\* The vanilla profile: the web process alone, Slack off, with its own copy of a
\* kill switch that is set and cleared.
CONSTANTS
  bot = bot
  web = web
  r1 = r1
  r2 = r2
  none = none
  Requests = {r1}
  Procs = {web}
  Recovery = web
  Kinds <- MCReadWrite
  SlackOn = FALSE
  NoRequest = none
  Stoppers = {"watchdog"}
  MaxRestarts = 1
  MaxToggles = 2
SPECIFICATION FairSpec
PROPERTIES
  ApprovedPickedUp
  ScheduledDispatched
\* Once every request is settled and the bounds are used up, nothing is left to do.
CHECK_DEADLOCK FALSE
