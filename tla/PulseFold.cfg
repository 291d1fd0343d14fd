\* One prompt worker on a calendar rhythm with two times in the hour that is
\* repeated when the clocks are set back.
CONSTANTS
  k1 = k1
  k2 = k2
  Key = {k1}
  Worker = {w1}
  NoClaim = NoClaim
  Lease = 3
  DenialRecheck = 2
  DeliveryRetry = 2
  HasDispatcher = TRUE
  LosesEngine = FALSE
  LosesDispatch = FALSE
  MayCrash = FALSE
  Prompt = TRUE
  MaxTime = 12
  ClaimLimit = 9
  Rhythms <- ChimeOnly
SPECIFICATION Spec
INVARIANT FireOnce
