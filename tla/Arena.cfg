SPECIFICATION ArenaSpec
CONSTANTS
  BlockBytes = 6
  Sizes <- MCSizes
  Alignments <- MCAlignments
  Gaps <- MCGaps
  MaxRegions = 3
INVARIANTS
  RegionsAreDisjoint
  RegionsAreInBlocks
  RegionsAreAligned
  OneBlockIsEnough
CHECK_DEADLOCK FALSE
