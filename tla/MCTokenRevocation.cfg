SPECIFICATION FairSpec
CONSTANTS
  t1 = t1
  v1 = v1
  v2 = v2
  r1 = r1
  i1 = i1
  i2 = i2
  None = None
  Tokens <- MCOneToken
  Revokes <- MCRevokes
  Requests <- MCOneRequest
  Instances <- MCInstances
  MaxLife = 2
INVARIANTS
  TypeOK
  KeyOutlivesToken
  NoLatePass
  OnlyRevokedTurnedAway
PROPERTY
  EveryGuardDecides
  ImplementsRegister
