------------------------------- MODULE Upload -------------------------------
(***************************************************************************)
(* A file upload, as uploader.c runs it on the libuv event loop.           *)
(*                                                                         *)
(* storj_bridge_store_file hands prepare_upload_state to the thread pool;  *)
(* from then on every after_* callback updates the storj_upload_state_t    *)
(* and calls queue_next_work.  The bucket, the file name, the frame and,   *)
(* for a Reed-Solomon upload, the encrypted file and the parity shards     *)
(* come one after the other.  Then every shard goes its own way: it is     *)
(* hashed (prepare frame), gets a contract with a farmer (push frame), is  *)
(* sent (push shard) and reported; a shard that could not be sent goes     *)
(* back for another contract.  When all are stored the bucket entry is     *)
(* created.  The application may cancel at any moment.                     *)
(*                                                                         *)
(* One action is one callback, its call of queue_next_work included.       *)
(* prepare_upload_state writes the shared structure from its pool thread,  *)
(* so its steps are actions of their own.                                  *)
(***************************************************************************)
EXTENDS Integers, Sequences, FiniteSets, FiniteSetsExt

CONSTANTS
  MaxShards,                   \* no upload of the model has more shards
  Files,                       \* the uploads that may be asked for, see FileType
  PREPARE_FRAME_LIMIT,         \* shards hashed at once
  PUSH_FRAME_LIMIT,            \* contracts negotiated at once
  PUSH_SHARD_LIMIT,            \* shards sent at once
  STORJ_MAX_PUSH_FRAME_COUNT,  \* attempts at one contract
  MaxRequestTries,             \* attempts at a bridge request or at encrypting: 6
  MaxPushRetries,              \* repeated pushes of one shard: 6
  MaxReportTries               \* attempts to send one exchange report: 6

(* An upload: the number of data shards its size is cut into (none when    *)
(* determine_shard_size knows no shard size), whether Reed-Solomon parity  *)
(* is asked for, and whether the file is too small for it.                 *)
FileType == [data : 0..MaxShards, rs : BOOLEAN, small : BOOLEAN]

Coded(f) == f.rs /\ ~ f.small

(* Two parity shards for three data shards, rounded up. *)
ParityShards(f) == IF Coded(f) THEN (2 * f.data + 2) \div 3 ELSE 0

ASSUME UploadAssumption ==
  /\ MaxShards \in Nat \ {0}
  /\ Files \subseteq FileType
  /\ \A f \in Files : /\ f.data + ParityShards(f) <= MaxShards
                      /\ f.small => f.data <= 1
  /\ PREPARE_FRAME_LIMIT \in Nat \ {0}
  /\ PUSH_FRAME_LIMIT \in Nat \ {0}
  /\ PUSH_SHARD_LIMIT \in Nat \ {0}
  /\ STORJ_MAX_PUSH_FRAME_COUNT \in Nat \ {0}
  /\ MaxRequestTries \in Nat \ {0}
  /\ MaxPushRetries \in Nat
  /\ MaxReportTries \in Nat \ {0}

VARIABLES
  file,   \* the file being uploaded, fixed by the request
  state   \* the storj_upload_state_t, the pool's view of it and history

vars == <<file, state>>

-----------------------------------------------------------------------------
(* storj_state_progress_t and exchange_report_status_t. *)

AWAITING_PREPARE_FRAME == 1
PREPARING_FRAME        == 2
AWAITING_PUSH_FRAME    == 3
PUSHING_FRAME          == 4
AWAITING_PUSH_SHARD    == 5
PUSHING_SHARD          == 6
COMPLETED_PUSH_SHARD   == 7

STORJ_REPORT_NOT_PREPARED  == 0
STORJ_REPORT_AWAITING_SEND == 1
STORJ_REPORT_SENDING       == 2

Index == 0..(MaxShards - 1)

(* The part of shard_tracker_t and of its exchange report that steers the  *)
(* upload.                                                                 *)
ShardType == [progress                 : 1..7,
              push_frame_request_count : Nat,
              push_shard_request_count : Nat,
              send_status              : 0..2,
              send_count               : Nat]

NewShard == [progress                 |-> AWAITING_PREPARE_FRAME,
             push_frame_request_count |-> 0,
             push_shard_request_count |-> 0,
             send_status              |-> STORJ_REPORT_NOT_PREPARED,
             send_count               |-> 0]

(* Every error has the same effect on an upload. *)
ErrorStatus == {"OK", "CANCELED", "FAILED"}

ShardJobs == {"prepare_frame", "push_frame", "push_shard", "report"}

JobKind == {"prepare", "bucket", "name", "frame_id", "encrypt", "parity",
            "entry"} \cup ShardJobs

(***************************************************************************)
(* Fields that are not in the C structure: prepared says how far           *)
(* prepare_upload_state got, work is the set of jobs whose callback has    *)
(* not run, dequeued the pushes uv_cancel took out of the pool, entries    *)
(* the number of bucket entries the bridge confirmed, and callbacks what   *)
(* finished_cb was called with.  shards_allocated says that shard points   *)
(* to trackers whose fields are set.                                       *)
(***************************************************************************)
StateType ==
  [rs                          : BOOLEAN,
   total_data_shards           : 0..MaxShards,
   total_shards                : 0..MaxShards,
   shards_allocated            : BOOLEAN,
   shard                       : [Index -> ShardType],
   completed_shards            : Nat,
   bucket_verified             : BOOLEAN,
   bucket_verify_count         : Nat,
   file_verified               : BOOLEAN,
   file_verify_count           : Nat,
   frame_id                    : BOOLEAN,
   requesting_frame            : BOOLEAN,
   frame_request_count         : Nat,
   encrypted_file              : BOOLEAN,
   creating_encrypted_file     : BOOLEAN,
   create_encrypted_file_count : Nat,
   awaiting_parity_shards      : BOOLEAN,
   parity_file                 : BOOLEAN,
   creating_bucket_entry       : BOOLEAN,
   add_bucket_entry_count      : Nat,
   completed_upload            : BOOLEAN,
   canceled                    : BOOLEAN,
   final_callback_called       : BOOLEAN,
   error_status                : ErrorStatus,
   pending_work_count          : Int,
   prepared                    : {"no", "counted", "done"},
   work                        : SUBSET (JobKind \X Index),
   dequeued                    : SUBSET Index,
   entries                     : Nat,
   callbacks                   : Seq(ErrorStatus)]

-----------------------------------------------------------------------------
(* The pool: uv_queue_work with its pending_work_count += 1, and the       *)
(* pending_work_count -= 1 of every callback.                              *)

Queue(s, jobs) ==
  [s EXCEPT !.work = @ \cup jobs,
            !.pending_work_count = @ + Cardinality(jobs)]

Complete(s, job) ==
  [s EXCEPT !.work = @ \ {job},
            !.pending_work_count = @ - 1]

Shards(s) == {i \in Index : i < s.total_shards}

(* check_in_progress counts these. *)
InProgress(s, progress) == {i \in Shards(s) : s.shard[i].progress = progress}

(* The first of the candidates, in index order, as many as are allowed on  *)
(* top of the active ones.                                                 *)
Admitted(candidates, active, limit) ==
  {i \in candidates :
     Cardinality(active) + Cardinality({j \in candidates : j < i}) < limit}

Moved(p, progress) == [p EXCEPT !.progress = progress]

Fail(s) == [s EXCEPT !.error_status = "FAILED"]

-----------------------------------------------------------------------------
(* storj_bridge_store_file *)

Init ==
  /\ file \in Files
  /\ state =
       [rs                          |-> file.rs,
        total_data_shards           |-> 0,
        total_shards                |-> 0,
        shards_allocated            |-> FALSE,
        shard                       |-> [i \in Index |-> NewShard],
        completed_shards            |-> 0,
        bucket_verified             |-> FALSE,
        bucket_verify_count         |-> 0,
        file_verified               |-> FALSE,
        file_verify_count           |-> 0,
        frame_id                    |-> FALSE,
        requesting_frame            |-> FALSE,
        frame_request_count         |-> 0,
        encrypted_file              |-> FALSE,
        creating_encrypted_file     |-> FALSE,
        create_encrypted_file_count |-> 0,
        awaiting_parity_shards      |-> TRUE,
        parity_file                 |-> FALSE,
        creating_bucket_entry       |-> FALSE,
        add_bucket_entry_count      |-> 0,
        completed_upload            |-> FALSE,
        canceled                    |-> FALSE,
        final_callback_called       |-> FALSE,
        error_status                |-> "OK",
        pending_work_count          |-> 1,
        prepared                    |-> "no",
        work                        |-> {<<"prepare", 0>>},
        dequeued                    |-> {},
        entries                     |-> 0,
        callbacks                   |-> << >>]

-----------------------------------------------------------------------------
(* queue_next_work and the functions it queues work with. *)

(* cleanup_state: finished_cb, then everything is freed. *)
cleanup_state(s) ==
  IF s.final_callback_called \/ s.pending_work_count > 0
  THEN s
  ELSE [s EXCEPT !.final_callback_called = TRUE,
                 !.callbacks = Append(@, s.error_status)]

queue_verify_bucket_id(s) == Queue(s, {<<"bucket", 0>>})

queue_verify_file_name(s) == Queue(s, {<<"name", 0>>})

queue_request_frame_id(s) ==
  [Queue(s, {<<"frame_id", 0>>}) EXCEPT !.requesting_frame = TRUE]

queue_create_encrypted_file(s) ==
  [Queue(s, {<<"encrypt", 0>>}) EXCEPT !.creating_encrypted_file = TRUE]

queue_create_parity_shards(s) ==
  [Queue(s, {<<"parity", 0>>}) EXCEPT !.awaiting_parity_shards = FALSE]

ToPrepare(s) ==
  Admitted(InProgress(s, AWAITING_PREPARE_FRAME),
           InProgress(s, PREPARING_FRAME), PREPARE_FRAME_LIMIT)

queue_prepare_frames(s) ==
  LET chosen == ToPrepare(s) IN
  [Queue(s, {"prepare_frame"} \X chosen) EXCEPT
     !.shard = [i \in Index |-> IF i \in chosen
                                THEN Moved(@[i], PREPARING_FRAME) ELSE @[i]]]

(* Wrong on purpose: the entry is not marked as being created. *)
EntryUnmarked(s) ==
  IF /\ s.completed_shards = s.total_shards
     /\ ~ s.creating_bucket_entry
     /\ ~ s.completed_upload
  THEN Queue(s, {<<"entry", 0>>})
  ELSE s

queue_create_bucket_entry(s) ==
  IF /\ s.completed_shards = s.total_shards
     /\ ~ s.creating_bucket_entry
     /\ ~ s.completed_upload
  THEN [Queue(s, {<<"entry", 0>>}) EXCEPT !.creating_bucket_entry = TRUE]
  ELSE s

ToReport(s) ==
  {i \in Shards(s) : /\ s.shard[i].send_status = STORJ_REPORT_AWAITING_SEND
                     /\ s.shard[i].send_count # MaxReportTries}

Reporting(p) == [p EXCEPT !.send_status = STORJ_REPORT_SENDING]

queue_send_exchange_reports(s) ==
  LET chosen == ToReport(s) IN
  [Queue(s, {"report"} \X chosen) EXCEPT
     !.shard = [i \in Index |-> IF i \in chosen
                                THEN Reporting(@[i]) ELSE @[i]]]

(* Wrong on purpose: a report does not hold its shard back. *)
EvenUnreported(s) == Shards(s)

(* A shard waits for the report of its last push to be over. *)
Unreported(s) ==
  {i \in Shards(s) : s.shard[i].send_status = STORJ_REPORT_NOT_PREPARED}

ToPushFrame(s) ==
  Admitted(InProgress(s, AWAITING_PUSH_FRAME) \cap Unreported(s),
           InProgress(s, PUSHING_FRAME), PUSH_FRAME_LIMIT)

queue_push_frames(s) ==
  LET chosen == ToPushFrame(s) IN
  [Queue(s, {"push_frame"} \X chosen) EXCEPT
     !.shard = [i \in Index |-> IF i \in chosen
                                THEN Moved(@[i], PUSHING_FRAME) ELSE @[i]]]

ToPushShard(s) ==
  Admitted(InProgress(s, AWAITING_PUSH_SHARD) \cap Unreported(s),
           InProgress(s, PUSHING_SHARD), PUSH_SHARD_LIMIT)

(* The push starts with a report of its own. *)
PushingShard(p) ==
  [p EXCEPT !.progress = PUSHING_SHARD,
            !.send_status = STORJ_REPORT_NOT_PREPARED,
            !.send_count = 0]

queue_push_shards(s) ==
  LET chosen == ToPushShard(s) IN
  [Queue(s, {"push_shard"} \X chosen) EXCEPT
     !.shard = [i \in Index |-> IF i \in chosen
                                THEN PushingShard(@[i]) ELSE @[i]]]

(* queue_push_frame_and_shard interleaves the two; they do not compete. *)
queue_push_frame_and_shard(s) ==
  IF s.frame_id THEN queue_push_shards(queue_push_frames(s)) ELSE s

QueueShardWork(s) ==
  queue_push_frame_and_shard(
    queue_send_exchange_reports(
      queue_create_bucket_entry(
        queue_prepare_frames(s))))

(* Wrong on purpose: an error does not stop new work. *)
OverUnlessFailed(s) == s.canceled \/ s.completed_upload

Over(s) == s.canceled \/ s.error_status # "OK" \/ s.completed_upload

queue_next_work(s) ==
  IF Over(s) THEN cleanup_state(s)
  ELSE IF ~ s.bucket_verified THEN queue_verify_bucket_id(s)
  ELSE IF ~ s.file_verified THEN queue_verify_file_name(s)
  ELSE IF ~ s.frame_id /\ ~ s.requesting_frame THEN queue_request_frame_id(s)
  ELSE IF s.rs /\ ~ s.encrypted_file THEN queue_create_encrypted_file(s)
  ELSE IF s.rs /\ s.awaiting_parity_shards THEN queue_create_parity_shards(s)
  ELSE QueueShardWork(s)

Step(s) == state' = queue_next_work(s) /\ UNCHANGED file

Outstanding(kind, i) == <<kind, i>> \in state.work

-----------------------------------------------------------------------------
(* prepare_upload_state, in a pool thread, and begin_work_queue after it. *)

Preparing(prepared) ==
  /\ Outstanding("prepare", 0)
  /\ state.prepared = prepared
  /\ UNCHANGED file

Counted(f) == f.data + ParityShards(f)

(* The number of shards is set first; a file without a shard size has none. *)
CountShards ==
  /\ Preparing("no")
  /\ \/ state' = [Fail(state) EXCEPT !.prepared = "done"]    \* fstat fails
     \/ /\ file.data = 0
        /\ state' = [Fail(state) EXCEPT !.rs = Coded(file), !.prepared = "done"]
     \/ /\ file.data > 0
        /\ state' = [state EXCEPT
                       !.rs = Coded(file),
                       !.total_data_shards = file.data,
                       !.total_shards = Counted(file),
                       !.prepared = "counted"]

(* Then the trackers are allocated, and the name and the keys derived. *)
AllocateShards ==
  /\ Preparing("counted")
  /\ \E keys \in BOOLEAN :
       state' = [state EXCEPT
                   !.shards_allocated = TRUE,
                   !.prepared = "done",
                   !.error_status = IF keys THEN @ ELSE "FAILED"]

BeginWorkQueue ==
  /\ Outstanding("prepare", 0)
  /\ state.prepared = "done"
  /\ Step(Complete(state, <<"prepare", 0>>))

-----------------------------------------------------------------------------
(* The callbacks of the steps that come one after the other. *)

(* Wrong on purpose: one attempt more. *)
RetriedOnceMore(s, count, limit) == IF count > limit THEN Fail(s) ELSE s

(* The last attempt has failed when the count has reached the limit. *)
Retried(s, count, limit) == IF count = limit THEN Fail(s) ELSE s

verify_bucket_id_callback ==
  /\ Outstanding("bucket", 0)
  /\ LET s == [Complete(state, <<"bucket", 0>>) EXCEPT !.bucket_verify_count = @ + 1]
         count == s.bucket_verify_count
     IN \/ Step([s EXCEPT !.bucket_verified = TRUE])
        \/ Step(Fail([s EXCEPT !.bucket_verified = TRUE]))     \* no such bucket
        \/ Step(Retried([s EXCEPT !.bucket_verify_count =
                           IF @ = MaxRequestTries THEN 0 ELSE @],
                        count, MaxRequestTries))

(* The file must not exist yet. *)
verify_file_name_callback ==
  /\ Outstanding("name", 0)
  /\ LET s == [Complete(state, <<"name", 0>>) EXCEPT !.file_verify_count = @ + 1]
         count == s.file_verify_count
     IN \/ Step([s EXCEPT !.file_verified = TRUE])
        \/ Step(Fail([s EXCEPT !.file_verified = TRUE]))       \* it does
        \/ Step(Retried([s EXCEPT !.file_verify_count =
                           IF @ = MaxRequestTries THEN 0 ELSE @],
                        count, MaxRequestTries))

after_request_frame_id ==
  /\ Outstanding("frame_id", 0)
  /\ LET s == [Complete(state, <<"frame_id", 0>>) EXCEPT
                 !.requesting_frame = FALSE,
                 !.frame_request_count = @ + 1]
     IN \/ Step([s EXCEPT !.frame_id = TRUE])
        \/ Step(Fail(s))                                       \* a rate limit
        \/ Step(Retried(s, s.frame_request_count, MaxRequestTries))

after_create_encrypted_file ==
  /\ Outstanding("encrypt", 0)
  /\ LET s == [Complete(state, <<"encrypt", 0>>) EXCEPT
                 !.creating_encrypted_file = FALSE,
                 !.create_encrypted_file_count = @ + 1]
     IN \/ Step([s EXCEPT !.encrypted_file = TRUE])
        \/ Step(Fail(s))                                       \* cannot be opened
        \/ Step(Retried(s, s.create_encrypted_file_count, MaxRequestTries))

(* Wrong on purpose: a parity file that cannot be opened goes unnoticed. *)
ParityUnopened ==
  /\ Outstanding("parity", 0)
  /\ LET s == Complete(state, <<"parity", 0>>)
     IN \/ Step([s EXCEPT !.parity_file = TRUE])
        \/ Step(s)
        \/ Step(Fail([s EXCEPT !.awaiting_parity_shards = TRUE]))

after_create_parity_shards ==
  /\ Outstanding("parity", 0)
  /\ LET s == Complete(state, <<"parity", 0>>)
     IN \/ Step([s EXCEPT !.parity_file = TRUE])
        \/ Step(Fail(s))                                       \* cannot be opened
        \/ Step(Fail([s EXCEPT !.awaiting_parity_shards = TRUE]))

-----------------------------------------------------------------------------
(* The callbacks of a shard's own steps. *)

after_prepare_frame(i) ==
  /\ Outstanding("prepare_frame", i)
  /\ LET s == Complete(state, <<"prepare_frame", i>>)
     IN \/ Step([s EXCEPT !.shard[i] = Moved(@, AWAITING_PUSH_FRAME)])
        \/ Step(Fail(s))

(* Wrong on purpose: a contract makes the failed pushes forgotten. *)
ContractForgetsRetries(p) ==
  [p EXCEPT !.progress = AWAITING_PUSH_SHARD,
            !.push_frame_request_count = 0,
            !.push_shard_request_count = 0]

Contracted(p) ==
  [p EXCEPT !.progress = AWAITING_PUSH_SHARD, !.push_frame_request_count = 0]

(* Without a contract the progress goes back, except after the last try. *)
ContractRefused(s, i) ==
  IF s.shard[i].push_frame_request_count = STORJ_MAX_PUSH_FRAME_COUNT
  THEN Fail(s)
  ELSE [s EXCEPT !.shard[i] = Moved(@, AWAITING_PUSH_FRAME)]

after_push_frame(i) ==
  /\ Outstanding("push_frame", i)
  /\ LET s == [Complete(state, <<"push_frame", i>>) EXCEPT
                 !.shard[i].push_frame_request_count = @ + 1]
     IN \/ Step([s EXCEPT !.shard[i] = Contracted(@)])
        \/ Step(ContractRefused(s, i))
        \/ Step(Fail(s))                                       \* a rate limit

(* uv_cancel took the push out of the pool. *)
PushDequeued(s, i) ==
  [s EXCEPT !.dequeued = @ \ {i},
            !.shard[i] = [@ EXCEPT !.push_shard_request_count = 0,
                                   !.progress = AWAITING_PUSH_FRAME,
                                   !.send_status = STORJ_REPORT_NOT_PREPARED]]

PushStored(s, i) ==
  [s EXCEPT !.completed_shards = @ + 1,
            !.shard[i] = [@ EXCEPT !.push_shard_request_count = 0,
                                   !.progress = COMPLETED_PUSH_SHARD,
                                   !.send_status = STORJ_REPORT_AWAITING_SEND]]

(* Wrong on purpose: the shard is pushed again under the same contract. *)
PushedAgain(s, i) ==
  LET t == [s EXCEPT !.shard[i].send_status = STORJ_REPORT_AWAITING_SEND] IN
  IF s.shard[i].push_shard_request_count = MaxPushRetries
  THEN Fail(t)
  ELSE [t EXCEPT !.shard[i] = [@ EXCEPT !.progress = AWAITING_PUSH_SHARD,
                                        !.push_shard_request_count = @ + 1]]

(* The next push of a shard is under another contract. *)
AnotherContract(p) ==
  [p EXCEPT !.progress = AWAITING_PUSH_FRAME, !.push_shard_request_count = @ + 1]

(* The failure is reported, and the shard goes back for another contract,  *)
(* except after the last retry.                                            *)
PushFailed(s, i) ==
  LET t == [s EXCEPT !.shard[i].send_status = STORJ_REPORT_AWAITING_SEND] IN
  IF s.shard[i].push_shard_request_count = MaxPushRetries
  THEN Fail(t)
  ELSE [t EXCEPT !.shard[i] = AnotherContract(@)]

(* Wrong on purpose: a push that a cancel took out of the pool does not go *)
(* on with the next work.                                                  *)
DropDequeuedPush(i) ==
  /\ Outstanding("push_shard", i)
  /\ LET s == Complete(state, <<"push_shard", i>>)
     IN IF i \in state.dequeued
        THEN state' = PushDequeued(s, i) /\ UNCHANGED file
        ELSE \/ Step(PushStored(s, i))
             \/ Step(IF s.canceled THEN s ELSE PushFailed(s, i))

after_push_shard(i) ==
  /\ Outstanding("push_shard", i)
  /\ LET s == Complete(state, <<"push_shard", i>>)
     IN IF i \in state.dequeued
        THEN Step(PushDequeued(s, i))
        ELSE \/ Step(PushStored(s, i))
             \/ Step(IF s.canceled THEN s ELSE PushFailed(s, i))

Reported(p, accepted) ==
  [p EXCEPT !.send_count = @ + 1,
            !.send_status = IF accepted \/ p.send_count + 1 = MaxReportTries
                            THEN STORJ_REPORT_NOT_PREPARED
                            ELSE STORJ_REPORT_AWAITING_SEND]

after_send_exchange_report(i) ==
  /\ Outstanding("report", i)
  /\ \E accepted \in BOOLEAN :
       Step([Complete(state, <<"report", i>>) EXCEPT
               !.shard[i] = Reported(@, accepted)])

-----------------------------------------------------------------------------
(* The bucket entry. *)

CompleteUpload(s) ==
  [s EXCEPT !.add_bucket_entry_count = 0, !.completed_upload = TRUE]

(* Wrong on purpose: the last try fails the upload whatever the answer. *)
LastEntryFails ==
  /\ Outstanding("entry", 0)
  /\ LET s == [Complete(state, <<"entry", 0>>) EXCEPT
                 !.creating_bucket_entry = FALSE,
                 !.add_bucket_entry_count = @ + 1]
         t == Retried(s, s.add_bucket_entry_count, MaxRequestTries)
     IN \/ Step([CompleteUpload(t) EXCEPT !.entries = @ + 1])
        \/ Step(t)

(* A request that got no answer leaves create_bucket_entry's status_code   *)
(* as it was, without a value: what is read may be any code, success too.  *)
after_create_bucket_entry ==
  /\ Outstanding("entry", 0)
  /\ LET s == [Complete(state, <<"entry", 0>>) EXCEPT
                 !.creating_bucket_entry = FALSE,
                 !.add_bucket_entry_count = @ + 1]
     IN \/ Step([CompleteUpload(s) EXCEPT !.entries = @ + 1])
        \/ Step(CompleteUpload(s))                             \* no answer
        \/ Step(Retried(s, s.add_bucket_entry_count, MaxRequestTries))

-----------------------------------------------------------------------------
(* Wrong on purpose: a cancel that leaves the error status as it was. *)
CancelWithoutError ==
  /\ ~ state.final_callback_called
  /\ ~ state.canceled
  /\ state' = [state EXCEPT !.canceled = TRUE]
  /\ UNCHANGED file

(* storj_bridge_store_file_cancel, by the application while it owns the    *)
(* handle.  uv_cancel succeeds on pushes no pool thread has started.  The  *)
(* loop over the shards is over before CountShards or after                *)
(* AllocateShards: in between there is nothing it could read.              *)
Cancelable(s) == {i \in InProgress(s, PUSHING_SHARD) : <<"push_shard", i>> \in s.work}

storj_bridge_store_file_cancel ==
  /\ ~ state.final_callback_called
  /\ ~ state.canceled
  /\ state.total_shards > 0 => state.shards_allocated
  /\ \E dequeued \in SUBSET Cancelable(state) :
       state' = [state EXCEPT !.canceled = TRUE,
                              !.error_status = "CANCELED",
                              !.dequeued = dequeued]
  /\ UNCHANGED file

Prepare == CountShards \/ AllocateShards \/ BeginWorkQueue

Next ==
  \/ Prepare
  \/ verify_bucket_id_callback
  \/ verify_file_name_callback
  \/ after_request_frame_id
  \/ after_create_encrypted_file
  \/ after_create_parity_shards
  \/ after_create_bucket_entry
  \/ \E i \in Index : \/ after_prepare_frame(i)
                      \/ after_push_frame(i)
                      \/ after_push_shard(i)
                      \/ after_send_exchange_report(i)
  \/ storj_bridge_store_file_cancel

Spec == Init /\ [][Next]_vars

(* Every job ends (its requests have a time limit or a low speed limit)    *)
(* and the loop thread runs the callback of every job that ended; a pool   *)
(* thread gets to its end.  This is weak fairness of each callback with    *)
(* its enabling condition, which is that its job is outstanding, written   *)
(* out: TLC would look for a whole successor of every callback in every    *)
(* state to find it enabled.                                               *)
Fairness ==
  /\ []<> ~ Outstanding("prepare", 0) \/ []<><<Prepare>>_vars
  /\ []<> ~ Outstanding("bucket", 0) \/ []<><<verify_bucket_id_callback>>_vars
  /\ []<> ~ Outstanding("name", 0) \/ []<><<verify_file_name_callback>>_vars
  /\ []<> ~ Outstanding("frame_id", 0) \/ []<><<after_request_frame_id>>_vars
  /\ []<> ~ Outstanding("encrypt", 0) \/ []<><<after_create_encrypted_file>>_vars
  /\ []<> ~ Outstanding("parity", 0) \/ []<><<after_create_parity_shards>>_vars
  /\ []<> ~ Outstanding("entry", 0) \/ []<><<after_create_bucket_entry>>_vars
  /\ \A i \in Index :
       /\ []<> ~ Outstanding("prepare_frame", i) \/ []<><<after_prepare_frame(i)>>_vars
       /\ []<> ~ Outstanding("push_frame", i) \/ []<><<after_push_frame(i)>>_vars
       /\ []<> ~ Outstanding("push_shard", i) \/ []<><<after_push_shard(i)>>_vars
       /\ []<> ~ Outstanding("report", i) \/ []<><<after_send_exchange_report(i)>>_vars

FairSpec == Spec /\ Fairness

-----------------------------------------------------------------------------
(* Properties.                                                             *)

JobsOf(s, kinds) == {job \in s.work : job[1] \in kinds}

GoesOn(s) == ~ s.canceled /\ s.error_status = "OK" /\ ~ s.completed_upload

AllStored(s) ==
  /\ s.total_shards = file.data + ParityShards(file)
  /\ Shards(s) = InProgress(s, COMPLETED_PUSH_SHARD)

(* Every attempt is counted, and compared with its limit for equality: no  *)
(* count ever gets past its limit.                                         *)
RetriesBounded ==
  /\ \A count \in {state.bucket_verify_count, state.file_verify_count,
                   state.frame_request_count, state.create_encrypted_file_count,
                   state.add_bucket_entry_count} : count <= MaxRequestTries
  /\ \A i \in Index :
       /\ state.shard[i].push_frame_request_count <= STORJ_MAX_PUSH_FRAME_COUNT
       /\ state.shard[i].push_shard_request_count <= MaxPushRetries
       /\ state.shard[i].send_count <= MaxReportTries

(* Every value is of the kind its C declaration gives it. *)
TypeOK == file \in Files /\ state \in StateType /\ RetriesBounded

(* The counters and flags that decide what is queued next and when the     *)
(* state is freed agree with the outstanding jobs: pending_work_count,     *)
(* completed_shards, the flag of each single step, and the progress and    *)
(* report status of every shard that is being worked on (uploader.c keeps  *)
(* all of them by hand).                                                   *)
CountersMatchWork ==
  /\ state.pending_work_count = Cardinality(state.work)
  /\ state.completed_shards = Cardinality(InProgress(state, COMPLETED_PUSH_SHARD))
  /\ Outstanding("frame_id", 0) <=> state.requesting_frame
  /\ Outstanding("encrypt", 0) <=> state.creating_encrypted_file
  /\ Outstanding("entry", 0) <=> state.creating_bucket_entry
  /\ \A i \in Index :
       /\ Outstanding("prepare_frame", i) => state.shard[i].progress = PREPARING_FRAME
       /\ Outstanding("push_frame", i) => state.shard[i].progress = PUSHING_FRAME
       /\ Outstanding("push_shard", i) => state.shard[i].progress = PUSHING_SHARD
       /\ Outstanding("report", i)
            <=> state.shard[i].send_status = STORJ_REPORT_SENDING

(* cleanup_state frees the state; no job whose callback will dereference   *)
(* it is outstanding then, and finished_cb is called at most once.         *)
NoUseAfterFree ==
  /\ state.final_callback_called => state.work = {}
  /\ Len(state.callbacks) = IF state.final_callback_called THEN 1 ELSE 0

(* Both: the books are right, and what is freed by them is used no more.   *)
BookkeepingExact == CountersMatchWork /\ NoUseAfterFree

(* A report names the farmer by the string of the shard's pointer, which   *)
(* queue_push_frame frees, and queue_push_shard frees the report itself:   *)
(* neither runs for a shard whose report is being sent.                    *)
ReportKeepsPointer ==
  \A i \in Index :
    Outstanding("report", i) =>
      ~ Outstanding("push_frame", i) /\ ~ Outstanding("push_shard", i)

(* The bucket entry makes the file visible to others: it is asked for only *)
(* when the bucket and the name were verified and every shard of the file, *)
(* its parity included, is stored; and it is confirmed at most once.       *)
(* Before that, a shard is read from the parity file, the encrypted file   *)
(* or the original only when that has been made and opened.                *)
EntryOnlyWhenStored ==
  /\ \A i \in Index :
       Outstanding("prepare_frame", i) \/ Outstanding("push_shard", i) =>
         /\ state.rs => state.encrypted_file
         /\ i >= state.total_data_shards => state.parity_file
  /\ Outstanding("entry", 0) \/ state.entries > 0 =>
       state.bucket_verified /\ state.file_verified /\ AllStored(state)
  /\ state.entries <= 1

(* finished_cb says success only for an upload all of whose shards are     *)
(* stored and that was not canceled, and an upload that fails leaves no    *)
(* confirmed entry behind, unless it was canceled after the confirmation   *)
(* while reports were still being sent.                                    *)
ResultMatchesEntry ==
  /\ state.callbacks = <<"OK">> => AllStored(state) /\ ~ state.canceled
  /\ state.final_callback_called /\ state.callbacks # <<"OK">> /\ ~ state.canceled
       => state.entries = 0

(* Once the steps that come one after the other are over, and as long as   *)
(* nothing failed, each shard that is not stored has the job outstanding   *)
(* that will move it on, or waits for its report or for a slot in use, of  *)
(* which there are no more than allowed; when all are stored the entry is  *)
(* being created; and no callback is the last one without noticing it.     *)
ShardsGoOn(s) ==
  /\ GoesOn(s)
  /\ s.frame_id
  /\ s.rs => s.parity_file

WaitsForReport(i) == Outstanding("report", i)

SlotsBounded ==
  /\ Cardinality(JobsOf(state, {"prepare_frame"})) <= PREPARE_FRAME_LIMIT
  /\ Cardinality(JobsOf(state, {"push_frame"})) <= PUSH_FRAME_LIMIT
  /\ Cardinality(JobsOf(state, {"push_shard"})) <= PUSH_SHARD_LIMIT

NoForgottenShard ==
  /\ SlotsBounded
  /\ state.work = {} => state.final_callback_called
  /\ ShardsGoOn(state) =>
       /\ \A i \in Shards(state) :
            LET progress == state.shard[i].progress IN
            /\ progress = AWAITING_PREPARE_FRAME =>
                 Cardinality(JobsOf(state, {"prepare_frame"})) >= PREPARE_FRAME_LIMIT
            /\ progress = PREPARING_FRAME => Outstanding("prepare_frame", i)
            /\ progress = AWAITING_PUSH_FRAME =>
                 \/ WaitsForReport(i)
                 \/ Cardinality(JobsOf(state, {"push_frame"})) >= PUSH_FRAME_LIMIT
            /\ progress = PUSHING_FRAME => Outstanding("push_frame", i)
            /\ progress = AWAITING_PUSH_SHARD =>
                 \/ WaitsForReport(i)
                 \/ Cardinality(JobsOf(state, {"push_shard"})) >= PUSH_SHARD_LIMIT
            /\ progress = PUSHING_SHARD => Outstanding("push_shard", i)
       /\ AllStored(state) => Outstanding("entry", 0)

(* "We go back to getting a new pointer instead of retrying push with same *)
(* pointer": as long as the upload goes on, a shard whose push is over is  *)
(* stored for good or waits for another contract.                          *)
NewContractForRetry ==
  [][\A i \in Index :
       /\ Outstanding("push_shard", i) /\ ~ Outstanding("push_shard", i)' /\ GoesOn(state')
            => state'.shard[i].progress \in {AWAITING_PUSH_FRAME, COMPLETED_PUSH_SHARD}
       /\ state.shard[i].progress = COMPLETED_PUSH_SHARD
            => state'.shard[i].progress = COMPLETED_PUSH_SHARD]_vars

(* Once the upload has failed, was canceled or is complete nothing is      *)
(* queued any more: the outstanding jobs only drain, and an error stays.   *)
DrainsWhenOver ==
  [][/\ ~ GoesOn(state) => state'.work \subseteq state.work
     /\ state.error_status # "OK" => state'.error_status # "OK"]_vars

(* The upload is a transfer: the callback comes once, after the last job,  *)
(* nothing is started after a cancel and no canceled upload reports        *)
(* success.                                                                *)
Promise == INSTANCE Transfer WITH
  Jobs      <- JobKind \X Index,
  Results   <- ErrorStatus,
  Success   <- "OK",
  running   <- state.work,
  canceled  <- state.canceled,
  callbacks <- state.callbacks

KeepsPromise == Promise!TransferSpec

(* An upload ends with finished_cb, whatever the bridge and the farmers    *)
(* answer: every retry is bounded.                                         *)
Terminates == <>state.final_callback_called

(* "loop over all shards, and cancel any that are queued to be uploaded    *)
(* any uploads that are in-progress will monitor the state->canceled       *)
(* status" (storj_bridge_store_file_cancel): a shard whose progress is     *)
(* PUSHING_SHARD is one or the other, so that its work, which uv_cancel is *)
(* called with, is not freed yet.                                          *)
PushingShardsRun ==
  ~ state.canceled /\ ~ state.final_callback_called =>
    \A i \in InProgress(state, PUSHING_SHARD) : Outstanding("push_shard", i)

(* "state should not be modified in worker threads" (uploader.h): so when  *)
(* the application cancels, with the number of shards known, the trackers  *)
(* it loops over are there.                                                *)
CancelFindsShards ==
  ~ state.final_callback_called /\ state.total_shards > 0 => state.shards_allocated

(* "Check if we got a 200 status and token" (after_create_bucket_entry):   *)
(* an upload is complete when the bridge has confirmed its entry.          *)
CompletedMeansConfirmed == state.completed_upload => state.entries = 1

=============================================================================
