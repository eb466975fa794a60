\* A row changes twice between two polls.
SPECIFICATION Spec
CONSTANTS
  A = A
  B = B
  Tables = {A}
  TableOrder <- OneTable
  Keyed = {A}
  FixedPk = {A}
  Pages = {1, 2}
  FarPages = {}
  Slots = {1, 2}
  Keys = {k1, k2}
  NoRec = NoRec
  NoPks = NoPks
  MaxTxn = 3
  MaxChanges = 5
  MaxFaults = 0
  MaxChainDepth = 8
  Env = {"rewrite"}
SYMMETRY KeySymmetry
INVARIANTS
  NoDoubleKey
CHECK_DEADLOCK FALSE
