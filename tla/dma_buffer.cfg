SPECIFICATION Spec
CONSTANTS
  NumBuffers = 2
  LastFd = 5
INVARIANTS
  TypeOK
  OwnFile
PROPERTIES
  
  ImplementsPool
