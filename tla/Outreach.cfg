\* Two rhythms of one stream under seven deployments: one or two processes, scripts
\* of one or two lines, agents who talk, the backoff, a capped and an open ladder,
\* nights and mornings that wrap midnight.
CONSTANTS
  r1 = r1
  r2 = r2
  ada = ada
  bob = bob
  User = user
  NoZone = NoZone
  Rhythm = {r1, r2}
  Day = 6
  DenialRecheck = 2
  Think = 2
  MaxTime = 7
  Ahead = 15
  Setups <- Deployments
SPECIFICATION Spec
INVARIANTS
  CapsHold
  NightIsQuiet
  HorizonsAreExact
PROPERTY
  NoNagging
