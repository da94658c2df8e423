CONSTANTS
  a = a
  b = b
  NoPlace = NoPlace
  Places <- TwoPlaces
  Faults <- Writes
  Overlap = FALSE
  MaxRows = 2
  MaxCalls = 3
SPECIFICATION Spec
INVARIANT TypeOK
 
PROPERTY UndoKeepsTheRow
PROPERTY LoadEnds
