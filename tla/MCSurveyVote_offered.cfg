CONSTANTS
  traditional = traditional
  modern = modern
  a = a
  both = both
  Category <- Categories
  Business <- Businesses
  Nominated <- OneEach
  BusinessScope = TRUE
  Duplicates = FALSE
  MaxPosts = 3
SPECIFICATION MCSpec
INVARIANT OfferedIsNotVoted
