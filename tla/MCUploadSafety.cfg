\* Up to three shards, one contract and two pushes at a time.
\* The system stops when the upload is over, so deadlock is not an error.
CHECK_DEADLOCK FALSE
SPECIFICATION FairSpec
CONSTANTS
  MaxShards = 3
  Files <- SafetyFiles
  PREPARE_FRAME_LIMIT = 1
  PUSH_FRAME_LIMIT = 1
  PUSH_SHARD_LIMIT = 2
  STORJ_MAX_PUSH_FRAME_COUNT = 2
  MaxRequestTries = 2
  MaxPushRetries = 1
  MaxReportTries = 2
INVARIANTS
  TypeOK
  BookkeepingExact
  ReportKeepsPointer
  EntryOnlyWhenStored
  ResultMatchesEntry
  NoForgottenShard
PROPERTIES
  NewContractForRetry
  DrainsWhenOver
  KeepsPromise
  Terminates
