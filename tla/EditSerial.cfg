CONSTANTS
  weight = weight
  dof = dof
  v0 = v0
  v1 = v1
  Fields <- MCFields
  Values <- MCValues
  Absent = Absent
  NoRecord = NoRecord
  Keys = {k1, k2}
  s1 = s1
  s2 = s2
  Slots = {s1}
  Seeds <- MCSeeds
  Patches <- MCToggles
  Puts = {}
  Deletes = FALSE
  Verdicts = {"approve", "revert"}
  Reviewable = {"pending_review", "approved"}
  Window = 10
  MaxEdits = 3
  MaxFaults = 0
SPECIFICATION Spec
CHECK_DEADLOCK FALSE
INVARIANT LiveMatchesLog
