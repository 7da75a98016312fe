----------------------------- MODULE FetchShard -----------------------------
(***************************************************************************)
(* One shard of a download, byte by byte: request_shard and fetch_shard in *)
(* a pool thread, body_shard_receive as curl calls it with whatever came   *)
(* over the network (http.c), and progress_request_shard and               *)
(* after_request_shard in the loop thread (downloader.c), with the         *)
(* attempts that follow a failure.                                         *)
(*                                                                         *)
(* A byte of the shard is its number, any other byte is Wrong; equal       *)
(* hashes mean equal bytes.  The destination is a function from positions, *)
(* 1..size being the region of this shard, to what is there.               *)
(***************************************************************************)
EXTENDS Integers, Sequences

CONSTANTS
  AES_BLOCK_SIZE,
  BUFSIZ,                    \* what the tail buffer starts with
  SHARD_PROGRESS_INTERVAL,
  Sizes,                     \* shard_total_bytes
  MaxChunk,                  \* the most curl passes in one call
  MaxAttempts                \* downloads of the shard, first and replaced

ASSUME FetchAssumption ==
  /\ AES_BLOCK_SIZE \in Nat \ {0} /\ BUFSIZ \in Nat \ {0}
  /\ SHARD_PROGRESS_INTERVAL \in Nat
  /\ Sizes \subseteq Nat \ {0}
  /\ MaxChunk \in Nat \ {0} /\ MaxAttempts \in Nat \ {0}

VARIABLES
  size,             \* req->shard_total_bytes
  canceled,         \* state->canceled
  worker,           \* of the job: "queued", "perform", "returned" or "none"
  body,             \* shard_body_receive_t, and what fetch_shard is fed
  destination,
  error_status,     \* req->error_status
  handle,           \* progress_handle: "open", "closing" or "closed"
  progress,         \* handle->data: the bytes, or Freed
  event,            \* uv_async_send was called and the callback was not
  pointer,          \* [status, downloaded_size] of the pointer
  attempt

vars == <<size, canceled, worker, body, destination, error_status,
          handle, progress, event, pointer, attempt>>

-----------------------------------------------------------------------------
Wrong == 0
Before == -1      \* what is in the destination before the download
Freed == -1       \* handle->data after after_request_shard

(* tail is body->tail up to tail_position, hashed what sha256_update got,  *)
(* received everything the farmer sent in this attempt.                    *)
NewBody ==
  [tail |-> <<>>, tail_length |-> BUFSIZ, length |-> 0,
   bytes_since_progress |-> 0, hashed |-> <<>>, received |-> <<>>]

Init ==
  /\ size \in Sizes
  /\ canceled = FALSE
  /\ worker = "none"
  /\ body = NewBody
  /\ destination = [p \in 0..(size + 1) |-> Before]
  /\ error_status = "none"
  /\ handle = "closed"
  /\ progress = Freed
  /\ event = FALSE
  /\ pointer = [status |-> "POINTER_CREATED", downloaded_size |-> 0]
  /\ attempt = 0

request_shard ==
  /\ worker = "queued"
  /\ worker' = "perform"
  /\ body' = NewBody
  /\ UNCHANGED <<size, canceled, destination, error_status, handle, progress,
                 event, pointer, attempt>>

(* What curl may hand over next: bytes of the shard, in order, or others.  *)
Chunks ==
  LET at == Len(body.received)
      right(n) == [i \in 1..n |-> IF at + i <= size THEN at + i ELSE Wrong]
  IN UNION {{right(n)} \union {[right(n) EXCEPT ![i] = Wrong] : i \in 1..n} :
              n \in 1..MaxChunk}

(* Wrong on purpose: the bytes in the tail are not counted. *)
RefusedWithoutTail(chunk) ==
  \/ canceled
  \/ body.length + Len(chunk) > size

(* Wrong on purpose: whatever comes is stored. *)
RefusedOnlyWhenCanceled(chunk) == canceled

(* The call ends the transfer without storing anything.                    *)
Refused(chunk) ==
  \/ canceled
  \/ body.length + Len(body.tail) + Len(chunk) > size

(* Whole blocks only, but for the end of the shard.                        *)
WriteLength(pending) ==
  IF body.length + pending = size THEN pending
  ELSE (pending \div AES_BLOCK_SIZE) * AES_BLOCK_SIZE

Resized(pending) ==
  IF pending > body.tail_length THEN 2 * pending ELSE body.tail_length

(* Wrong on purpose: the position counts what came, not what was written. *)
FilePositionReceived == Len(body.received)

(* Where pwrite puts the bytes, relative to the shard's region.            *)
FilePosition == body.length

(* What the progress handle is given after a write.                        *)
Announced(writelen) == body.length + writelen

body_shard_receive ==
  /\ worker = "perform"
  /\ \E chunk \in Chunks :
       LET pending == body.tail \o chunk
           writelen == WriteLength(Len(pending))
           since == body.bytes_since_progress + writelen
           sends == since > SHARD_PROGRESS_INTERVAL
       IN /\ ~Refused(chunk)
          /\ body' = [tail |-> SubSeq(pending, writelen + 1, Len(pending)),
                      tail_length |-> Resized(Len(pending)),
                      length |-> body.length + writelen,
                      bytes_since_progress |-> IF sends THEN 0 ELSE since,
                      hashed |-> body.hashed \o SubSeq(pending, 1, writelen),
                      received |-> body.received \o chunk]
          /\ destination' = [p \in DOMAIN destination |->
                               IF p - FilePosition \in 1..writelen
                               THEN pending[p - FilePosition] ELSE destination[p]]
          /\ progress' = IF sends THEN Announced(writelen) ELSE progress
          /\ event' = (event \/ sends)
  /\ UNCHANGED <<size, canceled, worker, error_status, handle, pointer, attempt>>

StatusError(status_code) ==
  CASE status_code \in {401, 403} -> "STORJ_FARMER_AUTH_ERROR"
    [] status_code = 504 -> "STORJ_FARMER_TIMEOUT_ERROR"
    [] status_code = 200 -> "none"
    [] OTHER -> "STORJ_FARMER_REQUEST_ERROR"

(* curl_easy_perform returned an error: a call was refused, the pace was   *)
(* too slow for the low speed limit, the connection was lost.              *)
FetchFailed ==
  /\ worker = "perform"
  /\ worker' = "returned"
  /\ error_status' = "STORJ_FARMER_REQUEST_ERROR"
  /\ UNCHANGED <<size, canceled, body, destination, handle, progress, event,
                 pointer, attempt>>

(* Wrong on purpose: the hash is not compared. *)
LongEnough == body.length = size

(* The farmer's body is at its end.  Length and hash are looked at before  *)
(* the status code is.                                                     *)
Whole == body.length = size /\ \A p \in 1..size : body.hashed[p] = p

FetchEnded ==
  /\ worker = "perform"
  /\ worker' = "returned"
  /\ \E status_code \in {200, 401, 504, 500} :
       error_status' = IF Whole THEN StatusError(status_code)
                       ELSE "STORJ_FARMER_INTEGRITY_ERROR"
  /\ progress' = IF Whole THEN size ELSE progress
  /\ event' = (event \/ Whole)
  /\ UNCHANGED <<size, canceled, body, destination, handle, pointer, attempt>>

(* The loop thread gets to the progress event; several calls of            *)
(* uv_async_send may have become one.  uv_close takes an event back.       *)
progress_request_shard ==
  /\ event
  /\ handle = "open"
  /\ event' = FALSE
  /\ pointer' = [pointer EXCEPT !.downloaded_size = progress]
  /\ UNCHANGED <<size, canceled, worker, body, destination, error_status,
                 handle, progress, attempt>>

(* Wrong on purpose: the progress handle is left open. *)
AfterRequestShardUnclosed ==
  /\ worker = "returned"
  /\ worker' = "none"
  /\ progress' = Freed
  /\ pointer' = IF error_status = "none"
                THEN [status |-> "POINTER_DOWNLOADED", downloaded_size |-> size]
                ELSE [pointer EXCEPT !.status = "POINTER_ERROR"]
  /\ UNCHANGED <<size, canceled, body, destination, error_status, handle, event,
                 attempt>>

after_request_shard ==
  /\ worker = "returned"
  /\ worker' = "none"
  /\ progress' = Freed
  /\ handle' = "closing"
  /\ pointer' = IF error_status = "none"
                THEN [status |-> "POINTER_DOWNLOADED", downloaded_size |-> size]
                ELSE [pointer EXCEPT !.status = "POINTER_ERROR"]
  /\ UNCHANGED <<size, canceled, body, destination, error_status, event, attempt>>

free_request_shard_work ==
  /\ handle = "closing"
  /\ handle' = "closed"
  /\ event' = FALSE
  /\ UNCHANGED <<size, canceled, worker, body, destination, error_status,
                 progress, pointer, attempt>>

(* The pointer is new, or it was replaced after an error.  The report and  *)
(* the replacement took turns of the loop of their own, so the handle of   *)
(* the last attempt is closed.                                             *)
queue_request_shard ==
  /\ pointer.status \in {"POINTER_CREATED", "POINTER_ERROR"}
  /\ ~canceled
  /\ handle = "closed"
  /\ attempt < MaxAttempts
  /\ attempt' = attempt + 1
  /\ worker' = "queued"
  /\ error_status' = "none"
  /\ handle' = "open"
  /\ progress' = 0
  /\ pointer' = [status |-> "POINTER_BEING_DOWNLOADED", downloaded_size |-> 0]
  /\ UNCHANGED <<size, canceled, body, destination, event>>

(* storj_bridge_resolve_file_cancel.  uv_cancel takes a job that has not   *)
(* started out of the pool; its callback then finds error_status as        *)
(* queue_request_shards set it.                                            *)
resolve_file_cancel ==
  /\ ~canceled
  /\ canceled' = TRUE
  /\ worker' = IF worker = "queued" THEN "returned" ELSE worker
  /\ UNCHANGED <<size, body, destination, error_status, handle, progress,
                 event, pointer, attempt>>

Next ==
  \/ request_shard \/ body_shard_receive \/ FetchFailed \/ FetchEnded
  \/ progress_request_shard \/ after_request_shard \/ free_request_shard_work
  \/ queue_request_shard \/ resolve_file_cancel

(* The pool runs a job that is queued, curl returns in the end (the low    *)
(* speed limit, and the size of the shard), and the loop serves what is    *)
(* pending.                                                                *)
Fairness ==
  /\ WF_vars(request_shard)
  /\ WF_vars(FetchFailed \/ FetchEnded)
  /\ WF_vars(after_request_shard)
  /\ WF_vars(free_request_shard_work)

Spec == Init /\ [][Next]_vars /\ Fairness

-----------------------------------------------------------------------------
TypeOK ==
  /\ size \in Sizes
  /\ worker \in {"queued", "perform", "returned", "none"}
  /\ body.length \in 0..size
  /\ \A p \in DOMAIN destination : destination[p] \in Before..size
  /\ handle \in {"open", "closing", "closed"}
  /\ progress \in Freed..size
  /\ pointer.downloaded_size \in 0..size
  /\ attempt \in 0..MaxAttempts

(* However the network cuts the shard into pieces, no byte is lost, moved  *)
(* or stored twice: what is in the file, and then what is in the tail, is  *)
(* what was received, and the hash is taken over what is in the file.      *)
NothingLostInTail ==
  worker = "perform" =>
    /\ [p \in 1..body.length |-> destination[p]] \o body.tail = body.received
    /\ body.hashed = [p \in 1..body.length |-> destination[p]]

(* The tail stays within its buffer, and holds less than a block between   *)
(* two calls, so that the buffer does not grow with the shard.             *)
TailBounded ==
  /\ Len(body.tail) <= body.tail_length
  /\ Len(body.tail) < AES_BLOCK_SIZE

(* Both: nothing is lost in the tail, and nothing stays in it.             *)
TailKept == NothingLostInTail /\ TailBounded

(* A farmer that sends too much does not get into the neighbours' regions  *)
(* of the destination, which other threads write.                          *)
NeighboursUntouched ==
  destination[0] = Before /\ destination[size + 1] = Before

(* A shard that counts as downloaded is in the file as it was uploaded,    *)
(* whatever earlier attempts left there; the exception is a job that       *)
(* uv_cancel took out of the pool.                                         *)
DownloadedIsWhole ==
  pointer.status = "POINTER_DOWNLOADED" /\ ~canceled =>
    \A p \in 1..size : destination[p] = p

(* The callback of the progress handle reads handle->data as progress;     *)
(* after_request_shard has freed that and put the work there.              *)
NoProgressAfterFree ==
  event /\ handle = "open" => progress # Freed

(* The bytes reported for the shard never go back within an attempt, nor   *)
(* once it is downloaded.                                                  *)
ProgressForward ==
  [][attempt' = attempt => pointer'.downloaded_size >= pointer.downloaded_size]_vars

(* However often the shard is tried, the last job comes back to the loop   *)
(* and its handle is closed, so that the work is freed and the loop does   *)
(* not wait for it.                                                        *)
Settles == <>[](worker = "none" /\ handle = "closed")

=============================================================================
