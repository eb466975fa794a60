\* Every behaviour of the surroundings; B has no primary key and is skipped.
SPECIFICATION Spec
CONSTANTS
  A = A
  B = B
  Tables = {A, B}
  TableOrder <- TwoTables
  Keyed = {A}
  FixedPk = {A}
  Pages = {1, 2}
  FarPages = {2}
  Slots = {1, 2}
  Keys = {k1}
  NoRec = NoRec
  NoPks = NoPks
  MaxTxn = 2
  MaxChanges = 3
  MaxFaults = 1
  MaxChainDepth = 8
  Env = {"rewrite", "earlyGc", "duringCycle", "duringScan", "slowTxn", "rollback", "wide", "release", "grow", "sinkFails", "ackLost", "readFails", "saveFails", "snapFails", "stop", "crash", "crashMidSave", "whileDown"}
INVARIANTS
  TypeOK
PROPERTIES
  WatermarkNeverFalls
CHECK_DEADLOCK FALSE
