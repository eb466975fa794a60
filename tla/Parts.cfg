SPECIFICATION PartsSpec
CONSTANTS
  Parts = {"keys", "snapshots", "records", "wire", "fragments", "schema", "migration"}
  \* keys
  PkValues = {1, 2, 3}
  Strides = {8, 28}
  MaxChunks = 5
  \* snapshots
  SnapTables = {"A", "B"}
  SnapPages = {1}
  KeyLengths = {0, 8, 12}
  SnapEnv = {"power"}
  MaxSnapScans = 2
  \* records
  Payload = {0, 7}
  Literals = {0, 1, 2}
  Repeats = {0, 1, 3, 6}
  MaxRecord = 7
  MaxSegments = 2
  \* wire
  WireRows = {1, 2}
  LenMod = 5
  MaxDump = 3
  MaxUpserts = 5
  MaxDeletes = 1
  LongBodies = FALSE
  \* fragments
  PieceSlots = {1, 2, 3, 4, 5}
  MaxPieces = 3
  MaxFragments = 3
  MaxRewrites = 3
  FragEnv = {}
  \* schema
  SyncRows = {1, 2}
  KeyColumn = 2
  FirstColumns = {1, 2}
  Widths = {4, 8}
  SchemaEnv = {"dumpAlter", "resume"}
  MaxFormats = 3
  MaxVersion = 3
  \* migration
  MigTables <- ThreeTables
  MaxMigFaults = 2
  MaxMigRuns = 2
INVARIANTS
  PartsTypeOK
  KeysKept SearchIsMembership
  ChunksHaveKeyLength
  AcceptsTheRecord RecordIsBounded
  CommitsWhatWasSent WholeIsServed
  ReadsOneVersion
  RowsDecodeRight NothingRefused CleanIsWhole
  OneFailureEach CleanRunRepairs
PROPERTIES LoadIsWhole
CHECK_DEADLOCK FALSE
