CONSTANTS
  t1 = t1
  t2 = t2
  Tabs <- MCTabs
  None = None
  Prompts = {TRUE}
  MaxEdits = 2
  MaxMounts = 2
SPECIFICATION FairSpec
CHECK_DEADLOCK FALSE
INVARIANTS TypeOK KeepsEdits ShowsWhatItLoaded
PROPERTIES EditsReachAStore
