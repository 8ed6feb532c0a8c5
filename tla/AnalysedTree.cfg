SPECIFICATION Spec
CONSTANTS
  Handler <- MCHandler
  Asks <- Asked
  NodesFor <- MCNodesFor
  Kept <- MCKept
  Visits <- MCVisits
  Cases <- MCCases
  EvalBody <- MCEvalBody
  Node <- MCNode
  Text <- MCText
  PatternNames <- MCPatternNames
  Spelling <- MCSpelling
  Texture <- MCTexture
CHECK_DEADLOCK FALSE
INVARIANTS RequestsAreObeyed Restored PrefixesAreGroups VerdictsHaveGrounds NamesCoverProperties
PROPERTY Terminates
