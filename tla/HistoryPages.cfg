SPECIFICATION FairSpec
CONSTANTS
  Id = {1, 2, 3, 4, 5}
  Limit = 2
  MaxTime = 3
INVARIANTS
  TypeOK
  PagesInOrder
  NothingSkipped
PROPERTIES
  ScrollEnds
