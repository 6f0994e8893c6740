CONSTANTS
  e1 = e1
  w1 = w1
  w2 = w2
  j1 = j1
  None = None
  Entries <- MCOneEntry
  Workers <- MCWorkers
  JobIds <- MCJobIds
  Payloads <- MCPayloads
  Attempts = 3
  MaxStalls = 1
  Retention = 1
  Day = 1
  Skew = 1
  MaxLag = 1
SPECIFICATION Spec
SYMMETRY Symmetry
INVARIANTS
  TypeOK
  ReportIsTrue
PROPERTIES
  NoneDeletedEarly
  ImplementsLedger
