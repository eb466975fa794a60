\* One table with a fixed-length key: early garbage collection, writes between the scans and two failures.
SPECIFICATION Spec
CONSTANTS
  A = A
  B = B
  Tables = {A}
  TableOrder <- OneTable
  Keyed = {A}
  FixedPk = {A}
  Pages = {1, 2}
  FarPages = {}
  Slots = {1, 2}
  Keys = {k1, k2}
  NoRec = NoRec
  NoPks = NoPks
  MaxTxn = 3
  MaxChanges = 5
  MaxFaults = 2
  MaxChainDepth = 8
  Env = {"earlyGc", "crash", "whileDown", "duringCycle", "sinkFails", "ackLost", "saveFails"}
SYMMETRY KeySymmetry
INVARIANTS
  SeenIsReplicated
  WatermarkCovers
  NoDoubleKey
  NoInventedRow
  DeltaIsWhatChanged
PROPERTIES
  LiveRowsStay
  IsMirror
CHECK_DEADLOCK FALSE
