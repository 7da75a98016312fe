SPECIFICATION TripSpec
CONSTANTS
  AES_BLOCK_SIZE = 2
  BUFSIZ = 2
  SHARD_PROGRESS_INTERVAL = 1
  Sizes = {1, 4, 7}
  MaxChunk = 3
  MaxAttempts = 2
  MaxRead = 5
  MaxPushes = 3
  DECRYPT_LEN = 4
INVARIANTS
  TypesOK
  StoredIsWhole
  TailKept
  NeighboursUntouched
  DownloadedIsWhole
  HandlesSafe
  TripIsWhole
PROPERTIES
  ProgressToTheEnd
\* A shard that is decrypted, or was tried for the last time, is the end.
CHECK_DEADLOCK FALSE
