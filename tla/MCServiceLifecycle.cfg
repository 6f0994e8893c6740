SPECIFICATION FairSpec
CONSTANTS
  i1 = i1
  i2 = i2
  NaN = NaN
  Instances <- MCInstances
  Environments <- MCEnvironments
INVARIANTS
  TypeOK
  HardenedInProduction
  ListensComplete
PROPERTY
  ComesUp
