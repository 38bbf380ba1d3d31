CONSTANTS
  Episodes = {e1, e2}
  Readers = {r1, r2}
  MaxFaults = 1
SPECIFICATION FairSpec
CHECK_DEADLOCK FALSE
INVARIANTS TypeOK DoneIsGenuine FailureIsOwn RendersAreTracked
PROPERTIES SettledStays LivesItsRender TrackedSettle RendersShow
