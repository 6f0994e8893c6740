CONSTANTS
  e1 = e1
  w1 = w1
  w2 = w2
  j1 = j1
  None = None
  Entries <- MCOneEntry
  Workers <- MCOneWorker
  JobIds <- MCJobIds
  Payloads <- MCPayloads
  Attempts = 3
  MaxStalls = 1
  Retention = 2
  Day = 2
  Skew = 1
  MaxLag = 1
SPECIFICATION FairSpec
PROPERTY
  EveryEntryExpires
