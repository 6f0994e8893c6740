SPECIFICATION FairSpec
CONSTANTS
  w1 = w1
  n1 = n1
  n2 = n2
  None = None
  Walkers <- MCWalkers
  Inserters <- MCInserters
  Ids <- MCIds
  OldRows <- MCOldRows
  MaxFirst = 2
  MaxClock = 2
CHECK_DEADLOCK FALSE
INVARIANTS
  TypeOK
  PagesDescend
  WalkMissesNothing
  TotalCoversWalk
  MoreMeansMore
PROPERTY
  WalkEnds
