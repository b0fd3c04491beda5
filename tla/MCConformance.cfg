CONSTANTS
  KeyOrder <- MCKeyOrder
  Things = {1, 2}
  Suite <- MCSuite
  ByValue <- CompareResponses
  ByStructure <- CompareResponsesStructurally
  Norm <- MCNorm
  SafeName <- MCSafeName
  NoOp <- MCNoOp
  Drifts <- MCDrifts
  MaxSessions = 3
  MaxThrows = 1
SPECIFICATION SessionSpec
INVARIANT SessionTypeOK
 
INVARIANT GreenMeansFaithful
INVARIANT EveryTestJudged
 
CHECK_DEADLOCK FALSE
