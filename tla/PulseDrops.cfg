\* One worker whose dispatcher, or the confirmation after it, may raise.
CONSTANTS
  k1 = k1
  k2 = k2
  Key = {k1}
  Worker = {w1}
  NoClaim = NoClaim
  Lease = 3
  DenialRecheck = 2
  DeliveryRetry = 2
  HasDispatcher = TRUE
  LosesEngine = FALSE
  LosesDispatch = TRUE
  MayCrash = FALSE
  Prompt = TRUE
  MaxTime = 12
  ClaimLimit = 9
  Rhythms <- CheckInOnly
SPECIFICATION Spec
PROPERTY EndsCleanly
