CONSTANTS
  Users = {u1, u2}
  Forwarder = forwarder
  Nobody = nobody
  Free = free
  Slots = {s1, s2}
  MaxWrites = 2
  Window = 2
  MaxTime = 3
  MaxRows = 4
SPECIFICATION Spec
CHECK_DEADLOCK FALSE
SYMMETRY Sym
INVARIANTS TypeOK CapHoldsButForInFlight OnlyOwnEditsCount
