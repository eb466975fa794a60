\* Every behaviour of the surroundings.
SPECIFICATION Spec
CONSTANTS
  Keys = {k1, k2}
  Conns = {c1, c2}
  None = None
  Env = {"crash", "cut", "restart", "silent", "overlap", "pgCrash"}
  MaxVer = 2
  MaxFaults = 2
SYMMETRY Symmetry
INVARIANTS
  TypeOK
CHECK_DEADLOCK FALSE
