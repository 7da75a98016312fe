----------------------------- MODULE MCDownload -----------------------------
(* Small instances of Download for TLC. *)
EXTENDS Download

Described(shards, parity, erasure, integrity) ==
  [shards |-> shards, parity |-> parity,
   erasure |-> erasure, integrity |-> integrity]

(* One coded file of a data shard and two parity shards, so that recovery  *)
(* begins while the shard of a pointer that was given up is still on the   *)
(* way, and plain files for every way the hmac can compare, an unknown     *)
(* code and an empty list.                                                 *)
SafetyFiles ==
  {Described(3, 2, "reedsolomon", "match"),
   Described(0, 0, "reedsolomon", "match"),
   Described(2, 0, "none", "match"),
   Described(1, 0, "none", "mismatch"),
   Described(1, 0, "none", "absent"),
   Described(1, 0, "none", "unhashable"),
   Described(0, 0, "none", "match"),
   Described(1, 0, "other", "match")}

CodedFile == {Described(3, 1, "reedsolomon", "match")}
=============================================================================
