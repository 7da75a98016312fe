\* Has the bridge confirmed the entry of a complete upload?
\* The system stops when the upload is over, so deadlock is not an error.
CHECK_DEADLOCK FALSE
SPECIFICATION Spec
CONSTANTS
  MaxShards = 2
  Files <- PlainFile
  PREPARE_FRAME_LIMIT = 1
  PUSH_FRAME_LIMIT = 1
  PUSH_SHARD_LIMIT = 2
  STORJ_MAX_PUSH_FRAME_COUNT = 2
  MaxRequestTries = 2
  MaxPushRetries = 1
  MaxReportTries = 2
INVARIANTS
  CompletedMeansConfirmed
