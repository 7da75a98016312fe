--------------------------- MODULE MCDownloadStart ---------------------------
(* DownloadStart for TLC: plain files of one and two shards.               *)
EXTENDS DownloadStart

Described(shards) ==
  [shards |-> shards, parity |-> 0, erasure |-> "none", integrity |-> "match"]

PlainFiles == {Described(shards) : shards \in 1..2}

=============================================================================
