SPECIFICATION ExpressionSpec
CONSTANTS
  Expected <- None
  Actual <- None
  Unions <- None
  Calls <- None
  Samples <- MatchedValues
  Matches <- ErasedMatches
  Instances <- Concrete
  Arrivals <- MatchedValues
INVARIANT ArmsAreSound
