\* Two workers that end their firings in time, on a calendar brief of one line or
\* on a check-in of several, anchored on its last delivery: denials, failed sends,
\* failed lines, noops, exceptions before anything was sent.
CONSTANTS
  k1 = k1
  k2 = k2
  Key = {k1}
  Worker = {w1, w2}
  NoClaim = NoClaim
  Lease = 3
  DenialRecheck = 2
  DeliveryRetry = 2
  HasDispatcher = TRUE
  LosesEngine = FALSE
  LosesDispatch = FALSE
  MayCrash = FALSE
  Prompt = TRUE
  MaxTime = 12
  ClaimLimit = 9
  Rhythms <- BriefOrCheckIn
SPECIFICATION Spec
INVARIANTS
  FireOnce
  OutreachSpaced
PROPERTY EndsCleanly
SYMMETRY WorkerSymmetry
