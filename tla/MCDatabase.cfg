\* Bundles: two persons decide a batch of two while two of its items change.
\* DbPool: three threads.
\* AuthEvents: the bot and the web API drain three rows, two at a time.
CONSTANTS
  d1 = d1
  d2 = d2
  t1 = t1
  t2 = t2
  Items = {1, 2}
  Deciders = {d1, d2}
  Others = {t1, t2}
  h1 = h1
  h2 = h2
  h3 = h3
  Threads = {h1, h2, h3}
  Cooldown = 2
  RetryWait = 2
  FirstWait = 3
  u1 = u1
  u2 = u2
  bot = bot
  web = web
  none = none
  Events = {1, 2, 3}
  People = {u1, u2}
  Pollers = {bot, web}
  Kind <- MCKind
  Subject <- MCSubject
  Limit = 2
  MaxAttempts = 2
  MaxMoves = 1
  MaxCrashes = 1
  NoPass = none
SPECIFICATION MCSpec
INVARIANTS
  TypesOK
  BundleStatusTrue
  AllOrNone
  
PROPERTIES
  PoolRecovers
  ToldOrGivenUp
  RepeatsHaveACause
  
\* When all is decided, sent or given up, nothing is left to do.
CHECK_DEADLOCK FALSE
