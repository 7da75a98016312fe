SPECIFICATION FileSpec
CONSTANTS
  GF_BITS = 8
  Geometries <- MCGeometries
  Bytes = {0, 173}
  Stale = {0, 7}
  MIN_SHARD_SIZE = 2
  MAX_SHARD_SIZE = 8
  SHARD_MULTIPLES_BACK = 2
  MaxAccumulator = 5
  DATA_SHARDS_MAX = 25
  FileSizes <- MCFileSizes
  MaxCoded = 5
INVARIANTS
  TypesOK
  ShardSizesRight
  GeometriesAgree
  EveryLossIsRepaired
PROPERTIES
  RepairsOverStaleBytes
\* A file that is recovered, refused or too large to look at is done.
CHECK_DEADLOCK FALSE
