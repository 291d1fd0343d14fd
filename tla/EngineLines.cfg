\* Two activations on two streams, whose lines meet every branch of the response
\* and delivery policies, and two confirmations of what they leave pending:
\* unknown speakers, refusals, dead providers, private prose, missing routes,
\* failed sends, appends that fail, exceptions at every await of
\* handle() and at its end.
CONSTANTS
  h1 = h1
  h2 = h2
  h3 = h3
  s1 = s1
  s2 = s2
  ada = ada
  bob = bob
  eve = eve
  NoTask = NoTask
  Speaker <- MCSpeaker
  Agent <- MCAgent
  Stream = {s1, s2}
  Handle = {h1, h2}
  Confirmer = {c1, c2}
  Stimuli <- LinesStimuli
  Scripts <- LinesScripts
  Outcomes <- LinesOutcomes
  HasDeliverer = TRUE
  HasLedger = TRUE
  RaisesAt <- LinesPoints
SPECIFICATION FairSpec
INVARIANTS
  TypeOK
  ActionTruth
  ResultsTellTheTruth
PROPERTIES
  ImplementsContract
  EveryCallEnds
