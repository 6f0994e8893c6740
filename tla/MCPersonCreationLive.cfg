SPECIFICATION FairSpec
CONSTANTS
  r1 = r1
  r2 = r2
  i1 = i1
  i2 = i2
  j1 = j1
  j2 = j2
  Seed = Seed
  None = None
  Requests <- MCOneRequest
  Instances <- MCInstances
  PersonIds <- MCPersonIds
  JobIds <- MCJobIds
  Inputs <- MCFewInputs
  SeedCount = 0
  SeedPerson = Seed
  MaxSends = 2
  MaxStalls = 1
PROPERTIES
  EveryCallEnds
  EveryJobEnds
