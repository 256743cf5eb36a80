SPECIFICATION Spec
CONSTANTS
  Posts = {1, 2, 3, 4}
  PageSizes = {1, 2, 3}
  MaxPage = 3
INVARIANTS
  QuietListingIsExact
  RepeatedOnlyAfterCreate
  MissedOnlyAfterRace
  MetaDescribesPage
CHECK_DEADLOCK FALSE
