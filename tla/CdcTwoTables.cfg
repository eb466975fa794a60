\* Two tables that share the global watermark; only A has a fixed-length key.
SPECIFICATION Spec
CONSTANTS
  A = A
  B = B
  Tables = {A, B}
  TableOrder <- TwoTables
  Keyed = {A, B}
  FixedPk = {A}
  Pages = {1, 2}
  FarPages = {}
  Slots = {1, 2}
  Keys = {k1}
  NoRec = NoRec
  NoPks = NoPks
  MaxTxn = 3
  MaxChanges = 5
  MaxFaults = 1
  MaxChainDepth = 8
  Env = {"stop", "crash", "whileDown", "ackLost", "saveFails", "release"}
INVARIANTS
  SeenIsReplicated
  WatermarkCovers
  SleepsWhenReplicated
PROPERTIES
  IsMirror
CHECK_DEADLOCK FALSE
