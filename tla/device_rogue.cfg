SPECIFICATION Spec
CONSTANTS
  MaxBlocks = 1
  RoguePhases = {"ready", "busy", "drq", "resetting"}
INVARIANTS
  Quiescent
  StoppedBeforeErrReset
  FailureKeepsStatus
  PolledWithoutInterrupts
