SPECIFICATION Spec
CONSTANTS
  Texts <- MCTexts
  TextSize = 3
  TextOverlap = 1
  SemanticSize = 3
  SemanticOverlap = 2
INVARIANTS
  ChunksBounded
  TextKept
  OverlapExact
PROPERTIES
  ChunkerEnds
\* The chunker stops when it is done.
CHECK_DEADLOCK FALSE
