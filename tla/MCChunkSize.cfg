SPECIFICATION Spec
CONSTANTS
  Texts <- MCTexts
  TextSize = 3
  TextOverlap = 1
  SemanticSize = 3
  SemanticOverlap = 2
INVARIANTS
  SizeRespected
CHECK_DEADLOCK FALSE
