SPECIFICATION Spec
CONSTANTS
  r1 = r1
  r2 = r2
  i1 = i1
  i2 = i2
  j1 = j1
  j2 = j2
  Seed = Seed
  None = None
  Requests <- MCRequests
  Instances <- MCInstances
  PersonIds <- MCPersonIds
  JobIds <- MCJobIds
  Inputs <- MCInputs
  SeedCount = 1
  SeedPerson = Seed
  MaxSends = 2
  MaxStalls = 1
SYMMETRY Symmetry
INVARIANTS
  TypeOK
  JobsCarryStoredRows
  AcknowledgedIsComplete
  ConflictsOnlyOnSeedIds
  JobsOnlyMultiplyOnLostReplies
PROPERTY
  ImplementsRegistry
