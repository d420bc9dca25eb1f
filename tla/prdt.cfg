SPECIFICATION Spec
CONSTANTS
  Boundary = 3
  AddressSpace = 12
  PhysicalSpace = 24
  NumPrds = 3
  MaxCount = 8
  Leftovers <- MCLeftovers
INVARIANTS
  TypeOK
  Contiguous
  CoversCount
  WithinBoundary
