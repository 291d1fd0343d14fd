\* One worker whose engine may raise after it delivered a line.
CONSTANTS
  k1 = k1
  k2 = k2
  Key = {k1}
  Worker = {w1}
  NoClaim = NoClaim
  Lease = 3
  DenialRecheck = 2
  DeliveryRetry = 2
  HasDispatcher = TRUE
  LosesEngine = TRUE
  LosesDispatch = FALSE
  MayCrash = FALSE
  Prompt = TRUE
  MaxTime = 12
  ClaimLimit = 9
  Rhythms <- CheckInOnly
SPECIFICATION Spec
INVARIANT OutreachSpaced
