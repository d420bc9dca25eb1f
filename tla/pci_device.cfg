SPECIFICATION Spec
CONSTANTS
  Half = 2048
  Kinds = {"none", "io", "short", "mem", "lo", "hi", "wide", "top"}
INVARIANTS
  TypeOK
  Intact
  RegionExact
  AccessInside
