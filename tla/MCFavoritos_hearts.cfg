CONSTANTS
  a = a
  b = b
  NoPlace = NoPlace
  Places <- TwoPlaces
  Faults <- NoFaults
  Overlap = TRUE
  MaxRows = 2
  MaxCalls = 3
SPECIFICATION Spec
INVARIANT HeartsTellTheTable
