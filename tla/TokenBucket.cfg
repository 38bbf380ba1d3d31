CONSTANTS
  anon = anon
  keyed = keyed
  Buckets <- MCBuckets
  Capacity <- MCCapacity
  Second = 2
  IdleTtl = 3
  SweepInterval = 2
  NoEntry = NoEntry
  Start = 5
  MaxTime = 11
SPECIFICATION Spec
CHECK_DEADLOCK FALSE
INVARIANTS TypeOK SweepLosesNothing RateIsBounded
PROPERTIES EntriesAgeOut KeepsItsPromise
