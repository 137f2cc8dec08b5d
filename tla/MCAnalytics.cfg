SPECIFICATION FairSpec
CONSTANTS
  Requests = {r1, r2}
  Permits = 1
  QueueSize = 1
  Cap = 2
  ChunkTimeout = 0
  StreamTimeout = 2
  ClientTimeout = 2
  Length = 3
  MaxChunk = 2
  EventEnds = {2, 3}
CHECK_DEADLOCK FALSE
INVARIANTS TypeOK CopyIsPrefix RowsTruthful
PROPERTY LedgerKept
