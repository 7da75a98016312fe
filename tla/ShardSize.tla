------------------------------ MODULE ShardSize ------------------------------
(***************************************************************************)
(* How an upload cuts a file into shards: determine_shard_size (utils.c)   *)
(* and the counts prepare_upload_state (uploader.c) derives from it, up to *)
(* the reed_solomon_new (rs.c) that create_parity_shards calls.            *)
(*                                                                         *)
(* The code has MIN_SHARD_SIZE = 2MB, MAX_SHARD_SIZE = 4GB,                *)
(* SHARD_MULTIPLES_BACK = 4, MaxAccumulator = 41 and DATA_SHARDS_MAX =     *)
(* 255; sizes are in any unit that divides MIN_SHARD_SIZE.                 *)
(* determine_shard_size divides in double precision, which tells a size    *)
(* from a power of 2 up to 2^53 bytes: sizes are taken to be below that.   *)
(***************************************************************************)
EXTENDS Integers

CONSTANTS
  MIN_SHARD_SIZE, MAX_SHARD_SIZE, SHARD_MULTIPLES_BACK,
  MaxAccumulator,     \* the recursion ends above it
  DATA_SHARDS_MAX,    \* the most shards of one code
  FileSizes

VARIABLES
  file_size,
  rs,                  \* state->rs
  shard_size,
  total_data_shards, total_parity_shards,
  error_status,
  stage                \* "new", "prepared" or "coded"

vars == <<file_size, rs, shard_size, total_data_shards, total_parity_shards,
          error_status, stage>>

-----------------------------------------------------------------------------
PowerOf2[n \in Nat] == IF n = 0 THEN 1 ELSE 2 * PowerOf2[n - 1]

(* shard_size. *)
ShardSizeOf(hops) == MIN_SHARD_SIZE * PowerOf2[hops]

(* Wrong on purpose: one halving too many. *)
HopsOneLess(accumulator) ==
  IF accumulator <= SHARD_MULTIPLES_BACK THEN 0
  ELSE accumulator - SHARD_MULTIPLES_BACK - 1

(* The accumulator goes up until the file fits; the shards are then        *)
(* SHARD_MULTIPLES_BACK halvings smaller, and not above MAX_SHARD_SIZE.    *)
Hops(accumulator) ==
  IF accumulator < SHARD_MULTIPLES_BACK THEN 0 ELSE accumulator - SHARD_MULTIPLES_BACK

(* Wrong on purpose: without the cap. *)
UncappedHops(hops) == hops

CappedHops(hops) ==
  LET capped[h \in Nat] ==
        IF h > 0 /\ ShardSizeOf(h) > MAX_SHARD_SIZE THEN capped[h - 1] ELSE h
  IN capped[hops]

determine_shard_size(size) ==
  LET from[accumulator \in Nat] ==
        IF size <= ShardSizeOf(accumulator)
        THEN ShardSizeOf(CappedHops(Hops(accumulator)))
        ELSE IF accumulator > MaxAccumulator THEN 0
        ELSE from[accumulator + 1]
  IN IF size <= 0 THEN 0 ELSE from[0]

DivideUp(a, b) == (a + b - 1) \div b

Init ==
  /\ file_size \in FileSizes
  /\ rs \in BOOLEAN
  /\ shard_size = 0
  /\ total_data_shards = 0
  /\ total_parity_shards = 0
  /\ error_status = "none"
  /\ stage = "new"

(* The part of prepare_upload_state that counts.                           *)
prepare_upload_state ==
  /\ stage = "new"
  /\ stage' = "prepared"
  /\ rs' = (rs /\ file_size >= MIN_SHARD_SIZE)
  /\ shard_size' = determine_shard_size(file_size)
  /\ IF shard_size' = 0
     THEN /\ error_status' = "STORJ_FILE_SIZE_ERROR"
          /\ UNCHANGED <<total_data_shards, total_parity_shards>>
     ELSE /\ total_data_shards' = DivideUp(file_size, shard_size')
          /\ total_parity_shards' = IF rs' THEN DivideUp(2 * total_data_shards', 3) ELSE 0
          /\ UNCHANGED error_status
  /\ UNCHANGED file_size

(* reed_solomon_new returns NULL for a code it cannot hold, and            *)
(* reed_solomon_encode2 is called with what it returns.                    *)
CodeFits == total_data_shards + total_parity_shards <= DATA_SHARDS_MAX

create_parity_shards ==
  /\ stage = "prepared"
  /\ error_status = "none"
  /\ rs
  /\ stage' = IF CodeFits THEN "coded" ELSE "crashed"
  /\ UNCHANGED <<file_size, rs, shard_size, total_data_shards,
                 total_parity_shards, error_status>>

Next == prepare_upload_state \/ create_parity_shards

Spec == Init /\ [][Next]_vars

-----------------------------------------------------------------------------
TypeOK ==
  /\ shard_size \in 0..MAX_SHARD_SIZE
  /\ total_data_shards \in Nat
  /\ total_parity_shards \in 0..total_data_shards
  /\ stage \in {"new", "prepared", "coded", "crashed"}

Cut == stage # "new" /\ error_status = "none"

(* The data shards cover the file, and the last of them is not empty.      *)
ShardsCoverFile ==
  Cut => /\ (total_data_shards - 1) * shard_size < file_size
         /\ file_size <= total_data_shards * shard_size

(* What the recursion is for: the smallest of the sizes MIN_SHARD_SIZE,    *)
(* twice that, and so on up to MAX_SHARD_SIZE, that cover the file when    *)
(* they are doubled SHARD_MULTIPLES_BACK times, or else the largest.       *)
Multiples == {s \in {ShardSizeOf(h) : h \in 0..MaxAccumulator} : s <= MAX_SHARD_SIZE}

Enough == {s \in Multiples : file_size <= s * PowerOf2[SHARD_MULTIPLES_BACK]}

SmallestThatCovers ==
  Cut => /\ shard_size \in Multiples
         /\ IF Enough = {} THEN \A s \in Multiples : s <= shard_size
            ELSE shard_size \in Enough /\ \A s \in Enough : shard_size <= s

(* Only an empty file, and one beyond the last multiple, is refused.       *)
RefusedOnlyAtTheEnds ==
  error_status = "STORJ_FILE_SIZE_ERROR" <=>
    stage # "new" /\ (file_size = 0 \/ file_size > ShardSizeOf(MaxAccumulator + 1))

(* How large a file one code holds: the parity is two thirds of the data,  *)
(* so that three fifths of the shards of a code are data.  With the code's *)
(* constants that is 153 shards of 4GB, although prepare_upload_state says *)
(* "expect to be up to 10tb".                                              *)
LargestFileThatFits ==
  stage = "crashed" =>
    file_size > ((3 * DATA_SHARDS_MAX) \div 5) * MAX_SHARD_SIZE

=============================================================================
