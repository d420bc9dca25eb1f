SPECIFICATION FairSpec
CONSTANTS
  WordBits = 6
  MantissaBits = 5
  MaxCount = 3
  MaxStdin = 33
INVARIANTS
  TypeOK
  InputSuffices
  StreamsUsable
PROPERTIES
  SingleRunEnds
