---------------------------- MODULE MCCodedFile ----------------------------
(***************************************************************************)
(* CodedFile for TLC, with the field the code is built with.  Shards are   *)
(* of 2, 4 or 8 bytes, four of a size cover what is cut into it, and a     *)
(* code has up to 25 shards.  A file of 1 byte is too small for parity; of *)
(* those that are coded, 2 bytes make 1 + 1 shards, 3 and 4 make 2 + 2,    *)
(* and 5 make 3 + 2; with 3 and with 5 the last data shard is short.       *)
(***************************************************************************)
EXTENDS CodedFile

MCFileSizes == 0..140

G(data, parity, block, total) ==
  [data |-> data, parity |-> parity, block |-> block, total |-> total]

MCGeometries == {G(1, 1, 2, 2), G(2, 2, 2, 3), G(2, 2, 2, 4), G(3, 2, 2, 5)}

(* What the theorem on the types of coded files takes as given.            *)
ASSUME FieldIsClosed == FieldClosed

=============================================================================
