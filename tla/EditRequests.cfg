CONSTANTS
  weight = weight
  dof = dof
  v0 = v0
  v1 = v1
  Fields <- MCFields
  Values <- MCValues
  Absent = Absent
  NoRecord = NoRecord
  Keys = {k1}
  s1 = s1
  s2 = s2
  Slots = {s1, s2}
  Seeds <- MCSeeds
  Patches <- MCPatches
  Puts <- MCPuts
  Deletes = TRUE
  Verdicts = {"approve", "reject", "revert"}
  Reviewable = {"pending_review", "approved", "rejected", "reverted"}
  Window = 10
  MaxEdits = 2
  MaxFaults = 1
SYMMETRY Sym
SPECIFICATION Spec
CHECK_DEADLOCK FALSE
INVARIANTS TypeOK AuditComplete UndoBeforeVerdict OnlyStragglersSurvive
PROPERTIES OnlyPutResurrects KeepsAuditTrail
