CONSTANTS
  traditional = traditional
  modern = modern
  a = a
  both = both
  Category <- Categories
  Business <- Businesses
  Nominated <- OneEach
  BusinessScope = TRUE
  Duplicates = TRUE
  MaxPosts = 3
SPECIFICATION MCSpec
PROPERTY RetryOfCountedBallotIsNotRefused
