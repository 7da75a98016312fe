\* An upload computes parity while a download recovers shards.
SPECIFICATION Spec
CONSTANTS
  GF_BITS = 2
  encoder = encoder
  recoverer = recoverer
  Workers = {encoder, recoverer}
INVARIANTS
  CodesWithRightTables
