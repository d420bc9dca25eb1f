SPECIFICATION FairSpec
CONSTANTS
  MaxBlocks = 2
  RoguePhases = {}
INVARIANTS
  TypeOK
  CommandWhenReady
  TransferWhenAsked
  StatusCurrent
  ResultHonest
  ErrorFromCommand
PROPERTIES
  ImplementsCommand
  CommandReturns
