CONSTANTS
  e1 = e1
  w1 = w1
  w2 = w2
  j1 = j1
  j2 = j2
  None = None
  Payloads <- MCEmails
  Workers <- MCWorkers
  JobIds <- MCJobIds
  Attempts = 3
  MaxStalls = 1
  MaxSends = 2
SPECIFICATION Spec
SYMMETRY Symmetry
INVARIANTS
  TypeOK
  SentIsQueued
  CompletedWasDelivered
  DeliveriesBounded
  FailedIsExhausted
