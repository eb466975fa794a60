\* Liveness: no symmetry.
SPECIFICATION FairSpec
CONSTANTS
  A = A
  B = B
  Tables = {A}
  TableOrder <- OneTable
  Keyed = {A}
  FixedPk = {A}
  Pages = {1, 2}
  FarPages = {}
  Slots = {1, 2}
  Keys = {k1, k2}
  NoRec = NoRec
  NoPks = NoPks
  MaxTxn = 3
  MaxChanges = 4
  MaxFaults = 1
  MaxChainDepth = 8
  Env = {"stop", "crash", "whileDown", "ackLost", "saveFails", "grow"}
PROPERTIES
  Converges
CHECK_DEADLOCK FALSE
