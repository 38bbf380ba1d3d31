CONSTANTS
  a = a
  b = b
  c = c
  d1 = d1
  d2 = d2
  Slugs <- MCSlugs
  Docs <- MCDocs
  None = None
  Seeded <- MCSeeded
  Seed = d1
  Batch = 2
  MaxWrites = 3
  MaxFaults = 1
SPECIFICATION Spec
CHECK_DEADLOCK FALSE
INVARIANTS TypeOK DriftHasACause BackfillReadsEveryRow
