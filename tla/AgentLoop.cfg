SPECIFICATION FairSpec
CONSTANTS
  Tool <- Tools
  Terminal <- TerminalTools
  Answer <- Answers
  MaxIterations = 3
INVARIANTS
  TrailSurvives
  RequestAnswersCalls
  ResultsAreSeen
  NothingSaidIsLost
  CostBounded
PROPERTIES
  ReplyStands
  RunEnds
CHECK_DEADLOCK FALSE
