SPECIFICATION FairSpec
CONSTANTS
  BusNum = 0
  DeviceNum = 1
  ErrorHandler = "null"
INVARIANTS
  TypeOK
  AddressedOnPrimary
  FreshOnPrimary
  Releasable
  NothingLeft
  BuffersNumbered
PROPERTIES
  IterationReturns
  CreateReturns
