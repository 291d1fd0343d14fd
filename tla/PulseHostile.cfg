\* Two workers that may be slow, die, and lose exceptions, on one calendar and
\* one decided rhythm.
CONSTANTS
  k1 = k1
  k2 = k2
  Key = {k1, k2}
  Worker = {w1, w2}
  NoClaim = NoClaim
  Lease = 1
  DenialRecheck = 2
  DeliveryRetry = 2
  HasDispatcher = TRUE
  LosesEngine = TRUE
  LosesDispatch = TRUE
  MayCrash = TRUE
  Prompt = FALSE
  MaxTime = 5
  ClaimLimit = 3
  Rhythms <- Mixed
SPECIFICATION Spec
INVARIANTS
  HonestRecord
PROPERTY OccurrencesAdvance
SYMMETRY WorkerSymmetry
