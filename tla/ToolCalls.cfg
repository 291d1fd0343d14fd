\* Three runs, wired with and without a resolver, under a ceiling of two.
CONSTANTS
  Run = {r1, r2, r3}
  Absent = Absent
  NoHints = NoHints
  NoRoute = NoRoute
  Hints <- MCHints
  Builders <- MCBuilders
  DefaultProvider = "anthropic"
  DefaultModels <- MCDefaultModels
  EffortSupport <- MCBuilders
  EffortLevels <- MCEffortLevels
  Home <- MCHome
  OwnEffort = Absent
  Wirings <- MCWirings
  MaxConcurrent = 2
  MaxCalls = 2
  StrictProviders = {"openai"}
  Tools <- MCTools
  Inputs <- MCInputs
  Silence = Silence
  Unsayable = Unsayable
SPECIFICATION ToolSpec
INVARIANTS
  CeilingHolds
  RouteIsHonoured
  ToolInputIsMeant
PROPERTY EveryRunEnds
