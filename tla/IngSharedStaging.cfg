\* A new FULL starts while the thread of an older one is still at work.
SPECIFICATION Spec
CONSTANTS
  Keys = {k1, k2}
  Conns = {c1, c2}
  None = None
  Env = {"crash", "overlap"}
  MaxVer = 1
  MaxFaults = 1
SYMMETRY Symmetry
INVARIANTS
  NeverSeenEmpty
CHECK_DEADLOCK FALSE
