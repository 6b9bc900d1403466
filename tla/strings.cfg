SPECIFICATION StringsSpec
CONSTANTS
  Capacity = 32
  Sizes <- MCSizes
  MaxScopes = 2
  MaxStrings = 3
  MaxLength = 3
  Literal <- MCLiteral
INVARIANTS StringsTypeOK TypeOK BlocksAreApart StringsKeepTheirText FindsWhatIsThere SpaceIsNotLost
CHECK_DEADLOCK FALSE
