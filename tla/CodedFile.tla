------------------------------- MODULE CodedFile -------------------------------
(***************************************************************************)
(* A file from its size to its recovery: ShardSize cuts it (prepare_upload *)
(* _state), and what create_parity_shards and recover_shards do with the   *)
(* shards of a coded file is ReedSolomon.  Files of more than MaxCoded     *)
(* bytes are cut only.                                                     *)
(***************************************************************************)
EXTENDS ReedSolomon

CONSTANTS
  MIN_SHARD_SIZE, MAX_SHARD_SIZE, SHARD_MULTIPLES_BACK, MaxAccumulator,
  DATA_SHARDS_MAX, FileSizes,
  MaxCoded      \* a bound: the largest file whose bytes are looked at

VARIABLES
  file_size, rs, shard_size, total_data_shards, total_parity_shards,
  error_status, stage

cut_vars == <<file_size, rs, shard_size, total_data_shards,
              total_parity_shards, error_status, stage>>

Cut == INSTANCE ShardSize

(* 4GB is eleven doublings of 2MB, and the sixteen shards that the cut     *)
(* aims at fit into a code with their parity.                              *)
ASSUME CodedFileAssumption ==
  /\ MIN_SHARD_SIZE \in Nat \ {0}
  /\ SHARD_MULTIPLES_BACK \in Nat \ {0} /\ MaxAccumulator \in Nat
  /\ \E k \in 0..MaxAccumulator : MAX_SHARD_SIZE = Cut!ShardSizeOf(k)
  /\ DATA_SHARDS_MAX \in Nat /\ FileSizes \subseteq Nat /\ MaxCoded \in Nat
  /\ LET aim == Cut!PowerOf2[SHARD_MULTIPLES_BACK]
     IN aim + Cut!DivideUp(2 * aim, 3) <= DATA_SHARDS_MAX

(* The codes of all the files whose bytes are looked at. *)
ASSUME CodesGiven ==
  \A size \in FileSizes :
    LET block == Cut!determine_shard_size(size)
        data == Cut!DivideUp(size, block)
    IN size >= MIN_SHARD_SIZE /\ size <= MaxCoded /\ block # 0 =>
         [data |-> data, parity |-> Cut!DivideUp(2 * data, 3),
          block |-> block, total |-> size] \in Geometries

-----------------------------------------------------------------------------
NoGeometry == [data |-> 0, parity |-> 0, block |-> 0, total |-> 0]

(* Nothing is known of a file before it is cut. *)
FileInit ==
  /\ Cut!Init
  /\ geometry = NoGeometry
  /\ file = <<>>
  /\ stored = <<>>
  /\ destination = <<>>
  /\ missing = {}
  /\ fetched = {}
  /\ result = "none"

(* The code is the one that the counts ask for.                            *)
prepare_upload_state ==
  /\ Cut!prepare_upload_state
  /\ IF rs' /\ shard_size' # 0 /\ file_size <= MaxCoded
     THEN /\ geometry' = [data |-> total_data_shards', parity |-> total_parity_shards',
                          block |-> shard_size', total |-> file_size]
          /\ file' \in FilesOf(geometry')
          /\ destination' = Untouched(geometry')
     ELSE UNCHANGED <<geometry, file, destination>>
  /\ UNCHANGED <<stored, missing, fetched, result>>

create_parity_shards ==
  /\ Cut!create_parity_shards
  /\ IF geometry # NoGeometry /\ stage' = "coded"
     THEN CreateParityShards
     ELSE UNCHANGED vars

resolve_file ==
  /\ \/ \E s \in Shards : FetchShard(s) \/ GiveUpShard(s)
     \/ recover_shards
  /\ UNCHANGED cut_vars

FileNext == prepare_upload_state \/ create_parity_shards \/ resolve_file

FileSpec == FileInit /\ [][FileNext]_<<vars, cut_vars>>

-----------------------------------------------------------------------------
(* Both parts' data are of the types their declarations give them.         *)
TypesOK ==
  /\ Cut!TypeOK
  /\ geometry # NoGeometry => TypeOK

(* The shards cover the file, their size is the smallest that does with    *)
(* the shards allowed, only a file that has none is refused, and one code  *)
(* holds any file but those above three fifths of its shards at the        *)
(* largest size.                                                           *)
ShardSizesRight ==
  /\ Cut!ShardsCoverFile /\ Cut!SmallestThatCovers
  /\ Cut!RefusedOnlyAtTheEnds /\ Cut!LargestFileThatFits

(* Whatever is missing within the limit can be repaired: the decode matrix *)
(* is regular, and recovery reports no error.                              *)
EveryLossIsRepaired == AnyRowsSuffice /\ AcceptedIsRecovered

=============================================================================
