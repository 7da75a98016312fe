\* Failed attempts leave bytes of their own in the destination.
SPECIFICATION Spec
CONSTANTS
  GF_BITS = 8
  Geometries <- SmallGeometry
  Bytes = {0, 173}
  Stale = {0, 7}
INVARIANTS
  RepairsMissingData
\* A file that is recovered is done.
CHECK_DEADLOCK FALSE
