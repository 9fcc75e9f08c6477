SPECIFICATION ExpressionSpec
CONSTANTS
  Expected <- Expectable
  Actual <- Present
  Unions <- ThreeAtMost
  Calls <- SmallCalls
  Samples <- Witnesses
  Matches <- SmallMatches
  Instances <- Concrete
  Arrivals <- MatchedValues
INVARIANTS
  AssignableMeansContained
  UnionsSayWhatTheirMembersDo
  CallsReadAsWritten
  OrderDoesNotDecide
  MatchesRunAsRead
