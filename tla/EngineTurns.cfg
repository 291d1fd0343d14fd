\* Three activations on one stream: user turns and guarded check-ins, direct
\* delivery, two lines of which one is silent, exceptions.
CONSTANTS
  h1 = h1
  h2 = h2
  h3 = h3
  s1 = s1
  s2 = s2
  ada = ada
  bob = bob
  eve = eve
  NoTask = NoTask
  Speaker <- MCSpeaker
  Agent <- MCAgent
  Stream = {s1}
  Handle = {h1, h2, h3}
  Confirmer = {}
  Stimuli <- TurnsStimuli
  Scripts <- TurnsScripts
  Outcomes <- TurnsOutcomes
  HasDeliverer = TRUE
  HasLedger = FALSE
  RaisesAt <- TurnsPoints
SPECIFICATION Spec
INVARIANTS
  Serialized
  LogReadsAsTurns
  BriefingIsCurrent
PROPERTY NoStaleOutreach
SYMMETRY HandleSymmetry
