------------------------------ MODULE PutShard ------------------------------
(***************************************************************************)
(* One shard of an upload, byte by byte: push_shard (uploader.c) and       *)
(* put_shard (http.c) in a pool thread, body_shard_send as curl calls it   *)
(* for as many bytes as it has room for, and progress_put_shard and        *)
(* after_push_shard in the loop thread, with the attempts that follow a    *)
(* failure.                                                                *)
(*                                                                         *)
(* A byte of the shard is its position in it.  The cipher adds to each     *)
(* byte the byte of the key stream that its counter selects; what is sent  *)
(* is the pair of both, right when they are of the same position.          *)
(***************************************************************************)
EXTENDS Integers, Sequences

CONSTANTS
  AES_BLOCK_SIZE,
  SHARD_PROGRESS_INTERVAL,
  Sizes,                     \* shard_total_bytes
  MaxRead,                   \* the most room curl has in one call
  MaxAttempts                \* push_shard_request_count, first and repeated

VARIABLES
  size,             \* shard->meta->size
  encrypted,        \* ctx is given: a plain upload encrypts as it sends
  on_disk,          \* how much of the shard the file still has
  canceled,
  worker,           \* of the job: "queued", "perform", "returned", "dequeued"
                    \* by uv_cancel, or "none"
  body,             \* shard_body_send_t
  sent,             \* what the farmer got in this attempt
  answer,           \* [error_status, status_code] of the request
  handle,           \* progress_handle: "open", "closing" or "closed"
  progress,         \* handle->data: the bytes, or Freed
  event,            \* uv_async_send was called and the callback was not
  shard,            \* [progress, uploaded_size] of the tracker
  attempt,
  reported          \* history: progress_put_shard ran in this attempt

vars == <<size, encrypted, on_disk, canceled, worker, body, sent, answer,
          handle, progress, event, shard, attempt, reported>>

-----------------------------------------------------------------------------
Freed == -1

(* counter is the AES block the next key stream starts with, relative to   *)
(* the shard (increment_ctr_aes_iv of a position that is a whole number of *)
(* blocks).                                                                *)
NewBody ==
  [remain |-> size, total_sent |-> 0, bytes_since_progress |-> 0, counter |-> 0]

Init ==
  /\ size \in Sizes
  /\ encrypted \in BOOLEAN
  /\ on_disk = size
  /\ canceled = FALSE
  /\ worker = "queued"
  /\ body = NewBody
  /\ sent = <<>>
  /\ answer = [error_status |-> 0, status_code |-> 0]
  /\ handle = "open"
  /\ progress = 0
  /\ event = FALSE
  /\ shard = [progress |-> "PUSHING_SHARD", uploaded_size |-> 0]
  /\ attempt = 1
  /\ reported = FALSE

(* The encryption context and the body are made anew for each attempt.     *)
push_shard ==
  /\ worker = "queued"
  /\ worker' = "perform"
  /\ body' = NewBody
  /\ sent' = <<>>
  /\ UNCHANGED <<size, encrypted, on_disk, canceled, answer, handle, progress,
                 event, shard, attempt, reported>>

(* The user cuts the file short while it is being uploaded.                *)
Truncate ==
  /\ on_disk > 0
  /\ on_disk' \in 0..(on_disk - 1)
  /\ UNCHANGED <<size, encrypted, canceled, worker, body, sent, answer, handle,
                 progress, event, shard, attempt, reported>>

Least(a, b) == IF a < b THEN a ELSE b

(* What pread returns: whole blocks, but for the end of the shard or of    *)
(* the file.                                                               *)
ReadBytes(room) ==
  LET buflen == (room \div AES_BLOCK_SIZE) * AES_BLOCK_SIZE
      rest == IF on_disk > body.total_sent THEN on_disk - body.total_sent ELSE 0
  IN Least(Least(buflen, body.remain), rest)

(* ctr_crypt takes a new counter for each block and drops what is left of  *)
(* the key stream of the last one.                                         *)
Encrypt(n) ==
  [i \in 1..n |-> [byte |-> body.total_sent + i,
                   key |-> body.counter * AES_BLOCK_SIZE + i]]

Blocks(n) == (n + AES_BLOCK_SIZE - 1) \div AES_BLOCK_SIZE

(* Wrong on purpose: the bytes of this read only. *)
AnnouncedRead(n) == n

(* What the progress handle is given after a read.                         *)
Announced(n) == body.total_sent + n

body_shard_send ==
  /\ worker = "perform"
  /\ ~canceled
  /\ \E room \in 1..MaxRead :
       LET n == ReadBytes(room)
           since == body.bytes_since_progress + n
           sends == n > 0 /\ (since > SHARD_PROGRESS_INTERVAL \/ body.remain = n)
       IN /\ n > 0
          /\ body' = [remain |-> body.remain - n,
                      total_sent |-> body.total_sent + n,
                      bytes_since_progress |-> IF sends THEN 0 ELSE since,
                      counter |-> body.counter + Blocks(n)]
          /\ sent' = sent \o Encrypt(n)
          /\ progress' = IF sends THEN Announced(n) ELSE progress
          /\ event' = (event \/ sends)
  /\ UNCHANGED <<size, encrypted, on_disk, canceled, worker, answer, handle,
                 shard, attempt, reported>>

(* curl returned an error, or a call was aborted for the cancel.           *)
PutFailed ==
  /\ worker = "perform"
  /\ worker' = "returned"
  /\ answer' = [error_status |-> 1, status_code |-> 0]
  /\ UNCHANGED <<size, encrypted, on_disk, canceled, body, sent, handle,
                 progress, event, shard, attempt, reported>>

(* Wrong on purpose: an answer before the end of the body will do. *)
PutAnsweredEarly ==
  /\ worker = "perform"
  /\ worker' = "returned"
  /\ \E status_code \in {200, 304, 500} :
       answer' = IF canceled THEN [error_status |-> 1, status_code |-> 0]
                 ELSE [error_status |-> 0, status_code |-> status_code]
  /\ UNCHANGED <<size, encrypted, on_disk, canceled, body, sent, handle,
                 progress, event, shard, attempt, reported>>

(* The farmer answered, which it may before it has the whole body.         *)
PutAnswered ==
  /\ worker = "perform"
  /\ worker' = "returned"
  /\ \E status_code \in {200, 304, 500} :
       answer' = IF canceled THEN [error_status |-> 1, status_code |-> 0]
                 ELSE [error_status |-> IF body.total_sent = size THEN 0 ELSE 1,
                       status_code |-> status_code]
  /\ UNCHANGED <<size, encrypted, on_disk, canceled, body, sent, handle,
                 progress, event, shard, attempt, reported>>

progress_put_shard ==
  /\ event
  /\ handle = "open"
  /\ event' = FALSE
  /\ reported' = TRUE
  /\ shard' = [shard EXCEPT !.uploaded_size = progress]
  /\ UNCHANGED <<size, encrypted, on_disk, canceled, worker, body, sent,
                 answer, handle, progress, attempt>>

Stored == answer.error_status = 0 /\ answer.status_code \in {200, 201, 304}

(* A job uv_cancel took out of the pool comes with UV_ECANCELED.           *)
after_push_shard ==
  /\ worker \in {"returned", "dequeued"}
  /\ worker' = "none"
  /\ progress' = Freed
  /\ handle' = "closing"
  /\ shard' =
       CASE worker = "returned" /\ Stored ->
              [progress |-> "COMPLETED_PUSH_SHARD", uploaded_size |-> size]
         [] \/ worker = "dequeued"
            \/ worker = "returned" /\ ~Stored /\ ~canceled /\ attempt < MaxAttempts ->
              [shard EXCEPT !.progress = "AWAITING_PUSH_FRAME"]
         [] OTHER -> shard
  /\ UNCHANGED <<size, encrypted, on_disk, canceled, body, sent, answer, event,
                 attempt, reported>>

free_push_shard_work ==
  /\ handle = "closing"
  /\ handle' = "closed"
  /\ event' = FALSE
  /\ UNCHANGED <<size, encrypted, on_disk, canceled, worker, body, sent,
                 answer, progress, shard, attempt, reported>>

(* queue_push_shard, under a new contract.  The report of the failed push  *)
(* took a turn of the loop, so the last handle is closed.                  *)
queue_push_shard ==
  /\ shard.progress = "AWAITING_PUSH_FRAME"
  /\ ~canceled
  /\ handle = "closed"
  /\ attempt' = attempt + 1
  /\ worker' = "queued"
  /\ answer' = [error_status |-> 0, status_code |-> 0]
  /\ handle' = "open"
  /\ progress' = 0
  /\ reported' = FALSE
  /\ shard' = [shard EXCEPT !.progress = "PUSHING_SHARD"]
  /\ UNCHANGED <<size, encrypted, on_disk, canceled, body, sent, event>>

(* Wrong on purpose: a job taken out of the pool does not call back. *)
CancelWithoutCallback ==
  /\ ~canceled
  /\ canceled' = TRUE
  /\ worker' = IF worker = "queued" THEN "none" ELSE worker
  /\ UNCHANGED <<size, encrypted, on_disk, body, sent, answer, handle,
                 progress, event, shard, attempt, reported>>

(* storj_bridge_store_file_cancel: uv_cancel succeeds for a queued job.    *)
store_file_cancel ==
  /\ ~canceled
  /\ canceled' = TRUE
  /\ worker' = IF worker = "queued" THEN "dequeued" ELSE worker
  /\ UNCHANGED <<size, encrypted, on_disk, body, sent, answer, handle,
                 progress, event, shard, attempt, reported>>

Next ==
  \/ push_shard \/ Truncate \/ body_shard_send \/ PutFailed \/ PutAnswered
  \/ progress_put_shard \/ after_push_shard \/ free_push_shard_work
  \/ queue_push_shard \/ store_file_cancel

(* The pool runs a job that is queued, curl returns in the end, and the    *)
(* loop serves what is pending.                                            *)
Fairness ==
  /\ WF_vars(push_shard)
  /\ WF_vars(PutFailed \/ PutAnswered)
  /\ WF_vars(after_push_shard)
  /\ WF_vars(free_push_shard_work)

Spec == Init /\ [][Next]_vars /\ Fairness

-----------------------------------------------------------------------------
TypeOK ==
  /\ size \in Sizes /\ on_disk \in 0..size
  /\ worker \in {"queued", "perform", "returned", "dequeued", "none"}
  /\ body.remain \in 0..size /\ body.remain + body.total_sent = size
  /\ handle \in {"open", "closing", "closed"}
  /\ progress \in Freed..size
  /\ shard.uploaded_size \in 0..size
  /\ attempt \in 1..MaxAttempts
  /\ reported \in BOOLEAN

(* Whatever room curl has in a call, the farmer gets the bytes of the      *)
(* shard in order, each encrypted with the key stream of its position:     *)
(* buflen is rounded to blocks because ctr_crypt drops a part of one.      *)
(* push_shard starts every attempt at the beginning again.                 *)
SentInPlace ==
  /\ worker = "perform" => Len(sent) = body.total_sent
  /\ \A k \in DOMAIN sent : sent[k].byte = k /\ (encrypted => sent[k].key = k)

(* A shard is complete only when the farmer has all of it: neither an      *)
(* answer before the end nor a file cut short passes for success.          *)
CompletedIsWhole ==
  shard.progress = "COMPLETED_PUSH_SHARD" => Len(sent) = size

(* The callback of the progress handle reads handle->data as progress;     *)
(* after_push_shard has freed that and put the work there.                 *)
NoProgressAfterFree ==
  event /\ handle = "open" => progress # Freed

(* However often the shard is tried, the last job comes back to the loop   *)
(* and its handle is closed.                                               *)
Settles == <>[](worker = "none" /\ handle = "closed")

=============================================================================
