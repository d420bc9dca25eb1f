SPECIFICATION Spec
CONSTANTS
  BusNum = 0
  DeviceNum = 0
  ErrorHandler = "null"
INVARIANTS
  IdentifyAddressed
