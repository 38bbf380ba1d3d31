CONSTANTS
  weight = weight
  dof = dof
  v0 = v0
  v1 = v1
  Fields <- MCFields
  Values <- MCValues
  Absent = Absent
  NoRecord = NoRecord
  Keys = {k1}
  s1 = s1
  s2 = s2
  Slots = {s1}
  Seeds <- MCSparseSeeds
  Patches <- MCPatches
  Puts = {}
  Deletes = FALSE
  Verdicts = {"reject"}
  Reviewable = {"pending_review"}
  Window = 10
  MaxEdits = 1
  MaxFaults = 0
SPECIFICATION Spec
CHECK_DEADLOCK FALSE
INVARIANT RejectUndoesTheChange
