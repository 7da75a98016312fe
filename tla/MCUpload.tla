------------------------------ MODULE MCUpload ------------------------------
(* Small instances of Upload for TLC. *)
EXTENDS Upload

Described(data, rs, small) == [data |-> data, rs |-> rs, small |-> small]

(* A coded file of a data shard and a parity shard, a plain one of three   *)
(* shards, one too small for the code that was asked for, an empty one.    *)
SafetyFiles ==
  {Described(1, TRUE, FALSE),
   Described(3, FALSE, FALSE),
   Described(1, TRUE, TRUE),
   Described(0, TRUE, TRUE)}

PlainFile == {Described(2, FALSE, FALSE)}
=============================================================================
