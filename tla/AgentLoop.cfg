CONSTANTS
  MaxTurns = 3
  NudgeLead = 1
  MaxBlocks = 3
SPECIFICATION FairSpec
CHECK_DEADLOCK FALSE
INVARIANTS TypeOK RobotsGetClosers ShipsBeforeClosing CanvasKeepsUp
PROPERTIES Ends
