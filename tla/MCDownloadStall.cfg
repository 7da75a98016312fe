\* Has a download of a coded file with nothing outstanding called back?
\* The system stops when the download is over, so deadlock is not an error.
CHECK_DEADLOCK FALSE
SPECIFICATION Spec
CONSTANTS
  MaxShards = 3
  Files <- CodedFile
  PointerLimit = 1
  STORJ_DOWNLOAD_CONCURRENCY = 2
  STORJ_DEFAULT_MIRRORS = 1
  STORJ_MAX_REPORT_TRIES = 1
  STORJ_MAX_POINTER_TRIES = 2
  STORJ_MAX_INFO_TRIES = 1
INVARIANTS
  CallsFinishedCallback
