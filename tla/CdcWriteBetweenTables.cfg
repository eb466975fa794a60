\* Firebird writes between the scans of two tables.
SPECIFICATION Spec
CONSTANTS
  A = A
  B = B
  Tables = {A, B}
  TableOrder <- TwoTables
  Keyed = {A, B}
  FixedPk = {A, B}
  Pages = {1, 2}
  FarPages = {}
  Slots = {1, 2}
  Keys = {k1, k2}
  NoRec = NoRec
  NoPks = NoPks
  MaxTxn = 1
  MaxChanges = 3
  MaxFaults = 0
  MaxChainDepth = 8
  Env = {"duringCycle"}
SYMMETRY KeySymmetry
INVARIANTS
  WatermarkCovers
CHECK_DEADLOCK FALSE
