\* Two loops that share two rhythms, are stopped, restarted and killed, with
\* claims that expire under them.
CONSTANTS
  Key = {k1, k2}
  Worker = {w1, w2}
  NoClaim = NoClaim
  Outcomes <- MCOutcomes
  Lease = 1
  Cycle = 1
  MaxTime = 3
  Horizons = {2}
  Occurrences = {0}
  ClaimLimit = 3
SPECIFICATION FairLoopSpec
INVARIANTS
  OneOwner
  SnapshotCurrent
  StopIsPrompt
PROPERTIES
  StopEnds
  RhythmsAreServed
