\* The gateway is through with a request before the agent opens the next connection.
SPECIFICATION Spec
CONSTANTS
  Keys = {k1, k2}
  Conns = {c1, c2}
  None = None
  Env = {"crash", "cut", "restart"}
  MaxVer = 4
  MaxFaults = 3
SYMMETRY Symmetry
INVARIANTS
  ConfirmedIsShown
  SavedIsShown
PROPERTIES
  KeepsPromise
CHECK_DEADLOCK FALSE
