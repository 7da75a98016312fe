\* Do callbacks leave the first pass of a download alone?
\* The system stops when the download is over, so deadlock is not an error.
CHECK_DEADLOCK FALSE
SPECIFICATION StartSpec
CONSTANTS
  MaxShards = 2
  Files <- PlainFiles
  PointerLimit = 1
  STORJ_DOWNLOAD_CONCURRENCY = 2
  STORJ_DEFAULT_MIRRORS = 1
  STORJ_MAX_REPORT_TRIES = 1
  STORJ_MAX_POINTER_TRIES = 2
  STORJ_MAX_INFO_TRIES = 2
INVARIANTS
  ManagedInOneThread
