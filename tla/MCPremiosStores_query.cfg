CONSTANTS
  a = a
  launch = launch
  LastEdition = 2
  Business <- OneBusiness
  Refresh <- OneQuery
SPECIFICATION Spec
PROPERTY NotVotedIsConfirmed
