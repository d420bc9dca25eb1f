SPECIFICATION Spec
CONSTANTS
  Codes <- MCCodes
  Counts <- MCCounts
  Lbas <- MCLbas
  Leftovers <- MCLeftovers
INVARIANTS
  TypeOK
  AddressDelivered
  CountDelivered
  SelectionKept
