------------------------------- MODULE ShardTrip -------------------------------
(***************************************************************************)
(* The way of one shard from the file of one application to that of        *)
(* another: PutShard sends it to a farmer, FetchShard gets it back, and    *)
(* the end of recover_shards (downloader.c) decrypts it.  The bytes a      *)
(* download receives are numbered by their place in what was sent.         *)
(*                                                                         *)
(* The shard is the only one of its file, so that positions in the shard   *)
(* are positions in the file; body_shard_send starts its counter at the    *)
(* shard's position, which is a whole number of blocks.                    *)
(***************************************************************************)
EXTENDS FetchShard

CONSTANTS
  MaxRead, MaxPushes,        \* MaxRead and MaxAttempts of PutShard
  DECRYPT_LEN                \* the bytes decrypted by one ctr_crypt

ASSUME TripAssumption ==
  /\ MaxRead \in Nat /\ MaxPushes \in Nat \ {0}
  /\ DECRYPT_LEN \in Nat \ {0} /\ DECRYPT_LEN % AES_BLOCK_SIZE = 0

VARIABLES
  stage,        \* "store" until the upload is freed, then "resolve"
  plain,        \* the destination once it is decrypted
  encrypted, on_disk, push_canceled, push_worker, push_body, sent, answer,
  push_handle, push_progress, push_event, shard, push_attempt, push_reported

push_vars == <<encrypted, on_disk, push_canceled, push_worker, push_body, sent,
               answer, push_handle, push_progress, push_event, shard, push_attempt,
               push_reported>>

fetch_vars == <<canceled, worker, body, destination, error_status, handle,
                progress, event, pointer, attempt>>

Put == INSTANCE PutShard WITH
  MaxAttempts <- MaxPushes,
  canceled <- push_canceled, worker <- push_worker, body <- push_body,
  handle <- push_handle, progress <- push_progress, event <- push_event,
  attempt <- push_attempt, reported <- push_reported

-----------------------------------------------------------------------------
TripInit ==
  /\ Init
  /\ Put!Init
  /\ stage = "store"
  /\ plain = <<>>

store_file ==
  /\ stage = "store"
  /\ Put!Next
  /\ UNCHANGED <<stage, plain, fetch_vars>>

(* The upload succeeded and its state is freed; what the farmer has stays. *)
cleanup_state ==
  /\ stage = "store"
  /\ shard.progress = "COMPLETED_PUSH_SHARD"
  /\ push_handle = "closed"
  /\ stage' = "resolve"
  /\ on_disk' = 0
  /\ push_canceled' = FALSE
  /\ push_body' = Put!NewBody
  /\ push_progress' = Put!Freed
  /\ push_event' = FALSE
  /\ push_attempt' = 1
  /\ push_reported' = FALSE
  /\ answer' = [error_status |-> 0, status_code |-> 0]
  /\ UNCHANGED <<size, plain, encrypted, push_worker, sent, push_handle, shard,
                 fetch_vars>>

resolve_file ==
  /\ stage = "resolve"
  /\ plain = <<>>
  /\ Next
  /\ UNCHANGED <<stage, plain, push_vars>>

(* The byte of the file and the place in the key stream that the byte at   *)
(* position p comes from.  A coded upload encrypted the whole file before. *)
Cipher(p) ==
  IF destination[p] \notin DOMAIN sent THEN [byte |-> Wrong, key |-> Wrong]
  ELSE LET s == sent[destination[p]]
       IN IF encrypted THEN s ELSE [byte |-> s.byte, key |-> s.byte]

(* Wrong on purpose: the counter starts again with every piece. *)
DecryptKeyRestarted(p) == ((p - 1) % DECRYPT_LEN) + 1

(* Where in the key stream the decryption of position p is: each ctr_crypt *)
(* starts with a new block.                                                *)
DecryptKey(p) ==
  LET pieces == (p - 1) \div DECRYPT_LEN
  IN pieces * Put!Blocks(DECRYPT_LEN) * AES_BLOCK_SIZE + ((p - 1) % DECRYPT_LEN) + 1

(* The part of recover_shards that follows decrypt:.  It is queued when    *)
(* every pointer is downloaded and nothing has failed.                     *)
recover_shards ==
  /\ stage = "resolve"
  /\ pointer.status = "POINTER_DOWNLOADED"
  /\ ~canceled
  /\ plain = <<>>
  /\ plain' = [p \in 1..size |-> LET c == Cipher(p) IN
                 IF c.key = DecryptKey(p) THEN c.byte ELSE Wrong]
  /\ UNCHANGED <<size, stage, fetch_vars, push_vars>>

TripNext == store_file \/ cleanup_state \/ resolve_file \/ recover_shards

TripSpec ==
  TripInit /\ [][TripNext]_<<size, stage, plain, fetch_vars, push_vars>>
    /\ Fairness /\ Put!Fairness

-----------------------------------------------------------------------------
(* Each end's data are of the types their declarations give them.          *)
TypesOK == TypeOK /\ Put!TypeOK

(* Whatever room curl had when the shard was sent, however the network cut *)
(* it when it came back, whatever attempts failed on both ways: the        *)
(* decrypted file is the one that was uploaded, byte for byte.  Sender and *)
(* receiver each count positions and counters in their own way.            *)
TripIsWhole == plain # <<>> => plain = [p \in 1..size |-> p]

(* The farmer gets the bytes in order under the key stream of their place, *)
(* and a shard that counts as stored was sent whole.                       *)
StoredIsWhole == Put!SentInPlace /\ Put!CompletedIsWhole

(* Neither progress handle is read through what its callback has freed.    *)
HandlesSafe == NoProgressAfterFree /\ Put!NoProgressAfterFree

(* The bytes reported for a shard that is pushed go back only at the first *)
(* report of a repeated attempt, although every handle counts its own, and *)
(* never once the shard is stored.                                         *)
PushProgressForward ==
  [][shard'.uploaded_size < shard.uploaded_size =>
       /\ push_attempt > 1 /\ ~push_reported
       /\ shard.progress = "PUSHING_SHARD"]_shard

(* On both ways, what an attempt has reported is not taken back before the *)
(* next one.                                                               *)
ProgressInAttempts == ProgressForward /\ PushProgressForward

(* On both ways the last job comes back and its handle is closed.          *)
BothSettle == Settles /\ Put!Settles

(* A shard's progress is kept within each attempt, and the last attempt on *)
(* either way comes to its end.                                            *)
ProgressToTheEnd == ProgressInAttempts /\ BothSettle

=============================================================================
