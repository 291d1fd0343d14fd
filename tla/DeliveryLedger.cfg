\* Two callers that confirm again and again, caps smaller than the number of
\* ids staged so that both retentions evict, and one restart.
CONSTANTS
  Caller = {c1, c2}
  NoCaller = NoCaller
  MaxUnconfirmed = 2
  MaxConfirmed = 2
  StageLimit = 4
  RestartLimit = 1
SPECIFICATION FairSpec
INVARIANTS
  TypeOK
  RecordedAtMostOnce
  EvictsOldestFirst
  RepliesNameTheEvent
PROPERTIES
  ImplementsContract
  ConfirmReturns
