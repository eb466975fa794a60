\* A table with a data page named by its second pointer page.
SPECIFICATION FairSpec
CONSTANTS
  A = A
  B = B
  Tables = {A}
  TableOrder <- OneTable
  Keyed = {A}
  FixedPk = {A}
  Pages = {1, 2}
  FarPages = {2}
  Slots = {1, 2}
  Keys = {k1, k2}
  NoRec = NoRec
  NoPks = NoPks
  MaxTxn = 3
  MaxChanges = 5
  MaxFaults = 1
  MaxChainDepth = 8
  Env = {}
PROPERTIES
  Converges
CHECK_DEADLOCK FALSE
