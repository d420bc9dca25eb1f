SPECIFICATION Spec
CONSTANTS
  MaxBlocks = 1
  RoguePhases = {}
INVARIANTS
  TimeOutIsFailure
