\* Up to three shards in pages of two, two downloads at a time, one mirror.
\* The system stops when the download is over, so deadlock is not an error.
CHECK_DEADLOCK FALSE
SPECIFICATION FairSpec
CONSTANTS
  MaxShards = 3
  Files <- SafetyFiles
  PointerLimit = 2
  STORJ_DOWNLOAD_CONCURRENCY = 2
  STORJ_DEFAULT_MIRRORS = 1
  STORJ_MAX_REPORT_TRIES = 2
  STORJ_MAX_POINTER_TRIES = 2
  STORJ_MAX_INFO_TRIES = 1
INVARIANTS
  TypeOK
  BookkeepingExact
  ReplacementOwnsPointer
  RecoverySound
  SuccessMeansWholeFile
  NoForgottenPointer
  IdleOnlyWhenDone
PROPERTIES
  DrainsAfterError
  KeepsPromise
  PointersMoveForward
  DownloadEnds
