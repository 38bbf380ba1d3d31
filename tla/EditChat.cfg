CONSTANTS
  Surfaces = {"drawer", "workbench"}
  MaxEdits = 2
  MaxSends = 3
  MaxWork = 2
  MaxFaults = 1
SPECIFICATION FairSpec
CHECK_DEADLOCK FALSE
INVARIANTS TypeOK SaysWhatIsLive
PROPERTIES CancelledStaysOut Unlocks QueuedIsSent
