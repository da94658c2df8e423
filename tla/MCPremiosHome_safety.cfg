CONSTANTS
  a = a
  launch = launch
  first = first
  again = again
  LastEdition = 2
  Business <- OneBusiness
  Refresh <- OneQuery
  Asks <- TwoAsks
SYMMETRY Symmetry
SPECIFICATION MCSpec
INVARIANT TypeOK
INVARIANT HomeShowsItsEdition
INVARIANT VotedWereCounted
 
INVARIANT OneSheetPerStart
 
PROPERTY SlotKeepsTheStores
