CONSTANTS
  HASH_LEN = 2
  COMPACT_LEN = 6
  SHORT = 4
  MAX_ROUNDS = 2
  Files <- SomeFiles
  Bodies <- SomeBodies
SPECIFICATION Spec
INVARIANTS StartupTypeOK Codec InfoHashRight TorrentUsable FailsAfterAll AnswerIsOwn
PROPERTIES NothingAfterStop AnnounceEnds
