CONSTANTS
  traditional = traditional
  modern = modern
  a = a
  both = both
  Category <- Categories
  Business <- Businesses
  Nominated <- TwoCategories
  BusinessScope = TRUE
  Duplicates = TRUE
  MaxPosts = 3
SPECIFICATION MCFairSpec
INVARIANT SentMeansCounted
INVARIANT VotedIsCounted
INVARIANT SubmittedBallotIsFrozen
INVARIANT FreshTokens
INVARIANT OnePostAwaited
INVARIANT PaperAfterConflictIsClean
INVARIANT IInv
PROPERTY KeepsThePromise
PROPERTY DeliveredOnceIsNotRefused
PROPERTY LoadingEnds
PROPERTY SubmittingEnds
