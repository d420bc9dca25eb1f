SPECIFICATION Spec
CONSTANTS
  WordBits = 6
  MantissaBits = 5
  MaxCount = 1
  MaxStdin = 30
INVARIANTS
  InputIsRead
