---------------------------- MODULE MCReedSolomon ----------------------------
(***************************************************************************)
(* ReedSolomon for TLC, in the field the code is built with: two data and  *)
(* two parity shards of two bytes, the second data shard short of one.     *)
(***************************************************************************)
EXTENDS ReedSolomon

G(data, parity, block, total) ==
  [data |-> data, parity |-> parity, block |-> block, total |-> total]

SmallGeometry == {G(2, 2, 2, 3)}

=============================================================================
