# A verification project for ios-libstorj

`ios-libstorj` is an Objective-C framework around a copy of the C library
`libstorj`.  The C code talks to a *bridge* (an HTTP service that knows which
buckets, files and shards exist) and to *farmers* (hosts that store shards).  A
file is encrypted, cut into shards, optionally extended with Reed-Solomon parity
shards, and each shard is stored by a farmer.  Most of the program's own logic is
in two event-driven state machines, one per transfer: `downloader.c` and
`uploader.c`.

This directory holds TLA+ modules of that logic, TLC configurations that check
them on small instances, and proofs checked by TLAPS.  Paths below are relative
to `src/StorjIOS/StorjIOS/`.

## Inventory

| Part | State | Operations | Interaction | Hard behaviour | Correct when |
|---|---|---|---|---|---|
| Download (`src/downloader.c/.h`) | `storj_download_state_t`: pointers with a status each, flags for outstanding requests, counters | `storj_bridge_resolve_file`, `..._cancel`, six `after_*` callbacks, `queue_next_work` | queues jobs on libuv's thread pool; callbacks on the loop thread; `finished_cb` to the application | jobs end in any order; farmers and bridge fail; retries; cancel at any time; hand-kept job count decides when to free | bookkeeping exact, no use after free, recovery only with enough shards, one callback, never success after an error, it ends |
| Upload (`src/uploader.c/.h`) | `storj_upload_state_t`: a tracker with a progress per shard, flags, counters, temporary files | `storj_bridge_store_file`, `..._cancel`, about twelve `after_*` callbacks, `queue_next_work`, `cleanup_state` | as the download; also creates the bucket entry | as the download, plus steps that must come in order (verify, frame, encrypt, parity, shards, entry) | entry created only after all shards are stored, once; bounded retries; one callback; it ends |
| One shard on the wire (`src/http.c`, `request_shard`, `push_shard` and their progress) | a body structure per transfer, the destination file, a progress handle | `fetch_shard`, `put_shard`, `body_shard_receive`, `body_shard_send` | called by curl in a pool thread; progress by `uv_async` to the loop thread | bodies cut anywhere, too long, too short; cancel flag; a handle closed with an event outstanding | bytes placed at their position, hash over what is in the file, key stream of the right position, nothing freed is read |
| Cutting a file (`src/utils.c`, `prepare_upload_state`) | none | `determine_shard_size`, counts of shards | called by the upload | boundaries | the shards cover the file, smallest size that does |
| Reed-Solomon (`src/rs.c`) | global tables | `fec_init`, encode, reconstruct | called by `create_parity_shards` and `recover_shards` in pool threads | matrix arithmetic; short last shard; tables rebuilt while others use them | any loss within the parity is repaired |
| Bridge calls (`src/storj.c/.h`, `StorjCallbacks/`) | a request each | thirty API calls, environment set-up | one job, one callback each, some through the main queue | status, error code and parsed answer disagree; requests freed at the end of a callback | the application is told once, and truly |
| Wrapper (`StorjWrapper.m`) | one environment, looper threads, raw state addresses as handles | bridge calls, transfers, registration, verification, key import | application threads against loop threads | environment replaced while in use; stale handles; a busy wait | one looper per environment, nothing used after it is destroyed, what is waited for comes |
| Cryptography (`src/crypto.c`), mnemonics (`src/bip39.c`) | none | keys, AES-CTR position, names, word lists | called by transfers and wrapper | carries, bit packing | inverse conversions agree |
| Model objects (`model/`) | fields | conversions | made by callbacks | - | - |
| `src/cli.c`, vendored `../libraries`, `../../library_dependencies` | - | - | - | - | not part of the framework's own logic |

`PROJECT.json` lists the same parts as `components` and, under `hazards`, each
place where this code can go wrong in a way a test would hardly reach, with the
properties that watch it.

## Plan

In order of importance.  Modules marked with a check exist.

1. [x] `Transfer`: what any transfer promises the application.
2. [x] `Download`: the download state machine, implementing `Transfer`.
3. [x] `DownloadProofs`: its inductive invariant and the properties it gives.
4. [x] `Upload`: the upload state machine, implementing `Transfer`.
5. [x] `FetchShard`, `PutShard` and their composition `ShardTrip`: one shard, byte by
   byte, with retries, cancels and progress.
6. [x] `FetchShardProofs`, `ShardTripProofs`.
7. [x] `ShardSize`, `GaloisField`, `ReedSolomon` and their composition `CodedFile`;
   `FecTables`, the tables under two threads.
8. [x] `BridgeCalls`, `Looper`: the wrapper's calls, environments and threads.
9. [x] `LooperProofs`: its inductive invariant, and its two safety properties.
10. [x] `DownloadStart`: the first pass of a download in the application's thread.
11. [x] `Wrapper`, `WrapperProofs`: the transfers of the wrapper and their handles.
12. [x] `UploadProofs`: every property of `Upload` but that it ends.
13. [x] `DownloadFlowProofs`: `SuccessMeansWholeFile`, `RecoverySound`,
   `NoForgottenPointer`, `IdleOnlyWhenDone`, `PointersMoveForward`; and the upload's end
   of `ShardTrip` in `ShardTripProofs`.
14. [x] `CodedFileProofs`: `ShardSizesRight` and `GeometriesAgree`, for files of any size;
   `TypesOK`, and of the other two properties what needs no algebra.
15. [ ] A second application thread, and a cancel in the middle of a callback.

## How the modules fit together

```
Transfer   <- refined by - Download, Upload          (the state machines)
FetchShard, PutShard   --> ShardTrip                 (one job of each, in bytes)
GaloisField --> ReedSolomon, ShardSize --> CodedFile (the worker bodies)
GaloisField --> FecTables                            (their shared tables)
BridgeCalls --> Looper --> Wrapper                   (the application's side)
Download --> DownloadStart                           (where the two sides meet)
```

`Download` and `Upload` see of a job only how it ended.  What happens inside the jobs
that carry data is in the second and third line, where a shard that `Download` calls
fetched is a sequence of bytes.  `ShardTrip` runs a `PutShard` and then a `FetchShard`
of the same shard and the decryption; `CodedFile` runs `prepare_upload_state`, the
parity, any loss of shards, and the recovery of the same file.  `Wrapper` sees of a
transfer only what `Transfer` promises, next to the threads and environments of
`Looper`; `DownloadStart` is where that abstraction breaks: the calls of the wrapper do
not leave the state machine to the loop thread.

## How the code maps to the modules

### `Download`

`state` is the `storj_download_state_t`, as a record whose fields have the C
names; `file` is what the bridge knows of the file asked for.  Five fields are
not in the C structure.  `work` is the set of jobs handed to `uv_queue_work` whose
`after_*` callback has not run: what `pending_work_count` claims to count.
`dequeued` are the shard jobs that `uv_cancel` took out of the pool before they
started; `fetched` the shards whose bytes are in the destination file; `zilch` the
erasures the last recovery job was given; `callbacks` the arguments `finished_cb`
was called with.  `free_download_state` follows `finished_cb` at once, so
`finished` also says that the structure is freed.

One action is one callback on the loop thread, **including** the call of
`queue_next_work` at its end.  `queue_next_work` and the functions it calls are
operators from a state to a state, composed in the order of the code:

| Action | Code (`src/downloader.c`) |
|---|---|
| `Init` | `storj_bridge_resolve_file`, with its first `queue_next_work` |
| `AfterRequestPointers` | `after_request_pointers`, `append_pointers_to_state`, `set_pointer_from_json` |
| `AfterRequestReplacePointer` | `after_request_replace_pointer` |
| `AfterRequestInfo` | `after_request_info` |
| `AfterRequestShard` | `after_request_shard` |
| `AfterSendExchangeReport` | `after_send_exchange_report` |
| `AfterRecoverShards` | `after_recover_shards` |
| `ResolveFileCancel` | `storj_bridge_resolve_file_cancel` |

What a pool thread, the bridge or a farmer brings back is chosen in the action:
each list entry may have a farmer, none, or be malformed; every request may fail
in the ways the handler tells apart; a shard may arrive or not.  Error codes are
grouped by what the download does about them.  A pointer keeps what steers the
download: its status, its replacements, and the state of its exchange report.

A job that was dequeued comes back with `UV_ECANCELED`.  `after_request_shard`
does not look at that, so the request it reads is as it was queued: no error, and
`start` and `end` never written, which is why `ShardResult` leaves `timed` open.

`POINTER_UNINITIALIZED` is not a constant of the code.  It stands for an element
of the pointer array that `malloc` returned and a malformed list entry never
overwrote; the download has failed by then and no handler reads the status again.

Definitions marked "Wrong on purpose", here and in the other modules, are the
definition they precede with a plausible mistake in it, and are used by nothing: each
property of a passing run is violated when one of them takes the place of the
definition it imitates (`mutants` in `PROJECT.json`), which shows that the property
depends on that part of the code.

### `DownloadStart`

`Init` of `Download` is the state after the first `queue_next_work`, which
`storj_bridge_resolve_file` calls itself.  That is right for `cli.c`, which runs the loop
afterwards.  `_downloadFile` of the wrapper calls it while a thread of `startLooper` runs
the loop, so `DownloadStart` takes that first pass apart, and lets the callbacks of
`Download` (`AfterWork`) come between its statements:

| `caller` | Action | Code (`src/downloader.c`) |
|---|---|---|
| `"pointers"`, `"requesting_pointers"` | `QueuePointers`, `SetRequestingPointers` | the end of `queue_request_pointers`: the job, and then its flag |
| `"requesting_info"` | `InfoIsThere`, `SetRequestingInfo` | the head of `queue_request_info` |
| `"load"`, `"store"`, `"info"` | `LoadCount`, `StoreCount`, `QueueInfo` | `pending_work_count++`, a load and a store, and the job |
| `"rest"` | `QueueRest` | the rest of `queue_next_work` |
| `"error_status"` | `LookAtError` | `_downloadFile` reads `state->error_status` |

Of the two counts only the second is taken apart: before the first job is queued there is
no other thread.  A callback stays one step, so that the outcomes shown are some of those
the build can produce.

### `Upload`

`state` is the `storj_upload_state_t` in the same way, with a `shard_tracker_t` per
shard (its progress, its counts, and the state of its exchange report); `file` says
into how many data shards the file is cut, whether Reed-Solomon parity is asked for,
and whether the file is too small for it.  Fields that are not in the C structure
are `work`, `dequeued` and `callbacks` as above, `entries` (how many bucket entries
the bridge has confirmed), `prepared` (how far `prepare_upload_state` got) and
`shards_allocated` (whether `shard` points to trackers that are set).

The callbacks carry the names of the code (`after_push_shard(i)` and so on), and end
with `queue_next_work`, whose returns, one after the other, are its `IF ... ELSE`.
`queue_prepare_frames`, `queue_push_frames` and `queue_push_shards` are the loops of
`queue_next_work` and `queue_push_frame_and_shard` over all shards: a shard is queued
if it is among the first ones, in index order, that fit under the limit
(`Admitted`).

`prepare_upload_state` is different from every other worker: it writes the shared
structure from its pool thread, while the application may already cancel.  Its two
writes that matter are actions of their own, `CountShards` and `AllocateShards`, and
`BeginWorkQueue` is the callback after it.  The cancel is not modelled between the
two, where it would read trackers that do not exist (finding 4).

A request for the bucket entry that gets no answer leaves the worker's status code
without a value (finding 5); `after_create_bucket_entry` is then free to take it for a
success, which completes the upload but confirms no entry.  `request_frame_id` has
the same mistake, where only a rate limit could be read, which is one of the
alternatives anyway.

### `Transfer`

The abstract specification: a set of running jobs, a cancel flag, and the sequence
of callbacks.  Jobs end and start others, the last one delivers one result, a
canceled transfer starts nothing and does not report success.  `Download` and
`Upload` map `work`, `canceled` and `callbacks` to its variables (`Promise`), and
`KeepsPromise` is the refinement, checked and proved for both.

### `FetchShard`, `PutShard`, `ShardTrip`

| Actions | Code |
|---|---|
| `request_shard`, `FetchFailed`, `FetchEnded` | `request_shard` in `downloader.c`, `fetch_shard` in `http.c` |
| `body_shard_receive` | the same in `http.c`, for any chunk curl may pass |
| `progress_request_shard`, `after_request_shard`, `free_request_shard_work`, `queue_request_shard`, `resolve_file_cancel` | `downloader.c`, the part about one shard |
| `push_shard`, `body_shard_send`, `PutFailed`, `PutAnswered` | `push_shard` in `uploader.c`, `put_shard` and `body_shard_send` in `http.c` |
| `progress_put_shard`, `after_push_shard`, `free_push_shard_work`, `queue_push_shard`, `store_file_cancel` | `uploader.c`, the part about one shard |
| `store_file`, `cleanup_state`, `resolve_file`, `recover_shards` | `ShardTrip`: the two ends one after the other, and the decryption at the end of `recover_shards` |

A byte is its number, and `Wrong` is any other; equal hashes mean equal bytes.  The
cipher adds a byte of a key stream: what is sent is the pair of the byte's place and
the place in the key stream it was encrypted with, and decrypting gives the byte back
when the receiver uses the same place.  The destination is a function from positions,
with one position of each neighbouring shard on either side.  `uv_async_send` sets
`event`; several calls become one callback; `uv_close` takes back an event that was not
served, and calls its own callback, which frees the work.  Between two attempts the
code reports the failed one and waits for another farmer, which takes turns of the
loop: so the handle of the last attempt is closed by then, which is a guard of
`queue_request_shard` and `queue_push_shard`.  `Truncate` is a user who shortens the
file while it is uploaded.

### `ShardSize`, `GaloisField`, `ReedSolomon`, `CodedFile`

`ShardSize` is `determine_shard_size` with its recursion as a recursive function, and the
counts `prepare_upload_state` takes from it.  Its comparison is one of a quotient of
doubles with 1, which is exact for files below 2^53 bytes.  `GaloisField` builds the powers,
logarithms and products of `rs.c` for `GF_BITS` bits (the code is built with 8, and TLC
checks it with 8).  `ReedSolomon` is the coding matrix, `invert_mat` with its pivots and its
undoing of swaps, `code_some_shards`, encode, decode and reconstruct; its actions are
`CreateParityShards`, then `FetchShard` or `GiveUpShard` for each shard, in any order,
then `recover_shards`.  A shard given up leaves bytes of its failed attempts in the
destination: those of `Stale`.  `CodedFile` puts the two together, for a file of any
size of `FileSizes`.

`mul`, with which `code_some_shards` starts an output, writes only as many bytes as the
input has, and `CodeShard` keeps the rest of what was there, as the code does
(finding 6).

### `FecTables`

`fec_init` one loop body at a time, in any number of threads, on the tables that are
global variables of `rs.c`.  A read or write of one element is taken to be atomic.

### `BridgeCalls`, `Looper`

`call[c]` is the request of the application's `c`-th call, from `storj_bridge_*`
through its worker (`request_worker`) to its completion callback, each of which is an
operator of its own that says what it tells the application, whether it does so in a
block on the main queue, and what becomes of the process.  `response` is what
`fetch_json` parsed, as far as callbacks tell it apart.  Of a freed request only what the
properties ask about is remembered.

`Looper` adds the environments and the threads.  A thread of `startLooper` is in
`looper`, with the environment whose loop it runs; the application is one thread, which
runs a loop of its own in `registerUser` and `verifyKeys`, spins in `verifyKeys`
until a callback has told it the outcome (`waiting`), and is between the two halves of
`importKeys` (`importing`).  `uv_run` runs the callback of a call in whichever of these
threads runs the loop of its environment.  Where freed memory is used (`Misuse`) the
process may crash or go on.

### `Wrapper`

| Action | Code |
|---|---|
| `TransferRefused`, `NoLocalFile`, `StartTransfer` | `uploadFile`, `downloadFile` and their private halves in `StorjWrapper.m`, up to the return of `storj_bridge_store_file` or `storj_bridge_resolve_file` |
| `LookAtError` | the test of `state->error_status` after it, and what is returned |
| `cancel` | `cancelUpload`, `cancelDownload` |
| `NotesError`, `TransferEnds` | the transfer itself, as `Transfer` promises it: an error with jobs still to drain, and the last callback with `file_upload_completion_callback` or `file_download_completion_callback` |
| `RunTransferBlock` | the block these dispatch to the main queue |
| `TransferFault` | a transfer on an environment that was destroyed |

`transfer[t]` is the state of a transfer together with what the application holds
(`handle`) and has heard (`told`), and what waits on the main queue (`block`).  `starting`
is the transfer between its start and the look at its state; no other call is made
meanwhile, but threads and blocks run.  The look reads anything when the state is freed
already, and is then marked `late`.  `misused` ends the behaviour when a freed state or
environment is used.  Starting a transfer checks the environment as a call does
(`TransferEnvironment` of `Looper`), and a loop with a transfer on it does not return.

## Runs

| Run | Question | Instance | Result |
|---|---|---|---|
| `download_safety` | Do the invariants, the action properties and the refinement hold for every order of callbacks and every answer, and does a plain file's download always end, and a canceled one? | up to 3 shards in pages of 2, 2 downloads at once, 1 mirror, 2 report and pointer tries, 1 info try; eight kinds of file | holds, 460,419 states |
| `download_stall` | Has a download with nothing outstanding called `finished_cb`, as `downloader.h` promises? | a coded file of 3 shards, pages of 1, 1 mirror | **violated**: finding 1 |
| `download_start` | Is the first pass of a download over before a callback runs, as "all managed within one thread" in `storj.h` says? | plain files of 1 and 2 shards | **violated**: finding 2 |
| `upload_safety` | Do the invariants, the action properties and the refinement hold for every order of callbacks and every answer, and does every upload end? | a plain file of 3 shards, a coded one of 1 + 1, one too small for parity, an empty one; 1 shard hashed, 1 contract, 2 pushes at once; 2 tries of everything | holds, 375,616 states |
| `upload_cancel` | Is each shard in `PUSHING_SHARD` queued or in progress, as the cancel's comment says? | a plain file of 2 shards | **violated**: finding 3 |
| `upload_prepare` | Does a cancel find the shards it loops over, as it would if no worker modified the state? | the same | **violated**: finding 4 |
| `upload_entry` | Has the bridge confirmed the entry of a completed upload? | the same | **violated**: finding 5 |
| `shard_trip` | Is what one application decrypts what another uploaded, whatever curl's pieces, retries and cancels, does reported progress go back only between attempts, and do both ends get to their end? | shards of 1, 4 and 7 bytes, blocks of 2, chunks of up to 3, reads of up to 5, decryption by 4; 3 pushes, 2 downloads | holds, 484,340 states |
| `coded_file` | Is every file cut as it should be, and every coded file repaired? | every size up to 140 units for the cut; codes 1 + 1, 2 + 2 and 3 + 2 over GF(256), every set of lost shards, any order | holds, 197,429 states |
| `code_stale` | Does recovery repair missing data, as `rs.h` says? | 2 + 2 shards, the second short, bytes of failed attempts in the destination | **violated**: finding 6 |
| `fec_race` | Does a worker that called `fec_init` code with right tables? | two threads, GF(4) | **violated**: finding 7 |
| `app` | Is each bridge call and each transfer answered truly, do handles name what is there, is what is freed used only in the known cases, and does what the application waits for come? | 1 call and 1 transfer of any kind, 2 environments, codes 200, 201, 404 and no answer | holds, 503,157 states |

Why these bounds are enough to be of interest.

*State machines.*  With 3 shards two of which are parity there are one and two erasures
(recoverable), three (not), a recovery that begins while the shard of a pointer that was
given up is on the way, a page that is full and one that is not, a download that
waits for a slot, and a pointer that waits behind another one's replacement.  Two tries
make the difference between a retry and the last attempt (the request for the file's info, which
nothing else waits for but the shards, gets one), and the mirror the difference between
a replacement and giving up.  The constants' real values (24
downloads, 5 mirrors, 6 tries) only make the same sequences longer; the proofs do not
depend on them.  Counters are bounded by the code itself: every one of them stops at
the limit the code compares it with, so no bound is added in a guard.  For an upload,
three shards under a limit of one and of two make shards wait for a slot behind others;
a push that fails twice meets both the retry and the last try; a report that fails once
keeps its shard waiting; and one data and one parity shard take every step of the coded
preamble.  The real values are 1, 32 and 32 at once and 6 tries (`uploader.c` uses 6
for reports too; the `STORJ_MAX_REPORT_TRIES` of `uploader.h`, 2, is not used there).

*Bytes.*  A shard of 7 bytes with blocks of 2 has several blocks and a last one that is
cut; one of 4 has none cut; one of 1 is less than a block.  Chunks of 3 leave every tail
there is (0 or 1 byte) and grow the tail buffer; the progress interval of 1 makes
some writes send an event and some not.  `MaxAttempts` and `MaxPushes` bound the tries,
`MaxChunk` and `MaxRead` the room of one call.

*Codes.*  The field is that of the code.  Codes of up to five shards have every pivot
situation of a swap (first survivor a parity shard, a middle one, all), short and full
last shards, and one byte per column, since columns are coded independently; `Bytes`
and `Stale` have a zero and a value whose logarithm is not special.  For the cut, units
of 2 to 8 bytes and 2 halvings stand for 2 MB to 4 GB and 4; sizes up to 140 go past the
largest size the recursion takes and past what 25 shards hold.  `MaxCoded` bounds the
files whose bytes are looked at.

*Application.*  Two environments are the one that is there and the one that is its own,
or the one before and after an import; the call and the transfer are one on each, or
share a loop.  What several calls or several transfers could do to one another is covered
by the proofs, which are for any number of them and for every code.

The models stop when the work is over, so deadlock is not checked but in `fec_race`;
`IdleOnlyWhenDone`, `NoForgottenShard`, `ProgressToTheEnd` and `WaitsEnd` say instead which
states may have nothing left to do.

### Properties

Of `Download`:

* `BookkeepingExact`: the counts and flags kept by hand in every callback agree with the
  jobs really outstanding (`CountersMatchWork`), so the structure is not freed under a
  job and finishes once (`NoUseAfterFree`).
* `ReplacementOwnsPointer`: while a replacement is on the way no job uses the
  strings and the report that installing it will free.
* `RecoverySound`: recovery starts only when every shard that is not an erasure is on
  disk and the erasures are few enough.  The one download that may still write to the
  file while it is rewritten is that of a pointer given up while it was running.
* `PointersMoveForward`: a pointer goes on in the order of its statuses, or to an error;
  a failed one goes back only to be replaced; and one given up moves again only if its
  download, or what replaces it, was on the way.
* `SuccessMeansWholeFile`: success is reported only for a complete, uncanceled file
  whose hmac is not known to be wrong.
* `NoForgottenPointer`, `IdleOnlyWhenDone`: every pointer in a passing status has the
  job outstanding that will move it on, downloads stay under their limit, and the one
  way for a download to rest unfinished is finding 1.
* `DrainsAfterError`, `KeepsPromise`: after an error or a cancel nothing is queued,
  and the error stays an error.
* `DownloadEnds`: every retry is bounded, so the download of a plain file ends, and so
  does a canceled one with work outstanding.

Of a download that is started under a running loop:

* `ManagedInOneThread` (what `storj.h` says, and not so): outside an update the books
  agree with the jobs, and the state is there as long as its caller uses it.

Of `Upload`, besides the properties of the same names:

* `ReportKeepsPointer`: a report that is being sent names the farmer by a string that
  the next contract frees, and is itself freed by the next push; that neither comes
  too early rests on one test of `send_status` in two places.
* `EntryOnlyWhenStored`, `ResultMatchesEntry`: the bucket entry is what makes the file
  visible.  It is asked for only when every shard is stored from files that were open
  and prepared; success means that the shards are stored, and an entry stays behind a
  failed upload only if that was canceled after it.
* `NoForgottenShard`: every shard in a passing progress has its job, limits are kept,
  and nothing outstanding means that the upload has finished, without exception: an
  upload does not stall.
* `NewContractForRetry`: a push that failed goes back for another contract, and a
  stored shard stays stored.
* `DrainsWhenOver`, `Terminates`: as for the download.  The tries are compared with
  `==`, so a count that skipped its limit would retry for ever.

Of one shard:

* `TailKept`: whatever the pieces, what is in the file and then in the tail is what was
  received, in order, the hash is over what is in the file, and less than a block
  waits.
* `NeighboursUntouched`, `DownloadedIsWhole`: a farmer that sends too much does not get
  into other regions of the file, and a shard that counts as downloaded is right.
* `StoredIsWhole`: the farmer gets the bytes in order under the key stream of their
  place, and an early answer or a file cut short does not pass for a stored shard.
* `TripIsWhole`: sender and receiver count positions and counters in different ways,
  and what is decrypted is what was uploaded all the same.
* `HandlesSafe`: no callback of a progress handle reads what is freed.
* `ProgressToTheEnd` is `ProgressInAttempts` (what an attempt has reported is not taken
  back within it) and `BothSettle` (the jobs and their handles end).  A download is back
  at nothing when an attempt begins; a push keeps the number of the failed attempt until
  the next one reports, and goes back with that first report alone.
  Which report is the first is not in the program's state: the history variable
  `reported` of `PutShard` (`push_reported` of `ShardTrip`) remembers it.

Of a coded file:

* `ShardSizesRight`: the shard size is the smallest whose allowed multiple covers the
  file, the shards cover it, only an empty file or one past the last size is refused,
  and a file for which no code exists is larger than three fifths of `DATA_SHARDS_MAX`
  shards of the largest size.
* `GeometriesAgree`: the download computes from pointers and flags the code the upload
  used.
* `EveryLossIsRepaired`, `RepairsOverStaleBytes`: whatever is missing within the parity,
  the matrix of the survivors is regular and the repaired bytes are those of the file,
  but for the case of finding 6.

Of the application:

* `ToldOnceAndTruly`: a call is answered at most once, whichever thread answers, and
  with success only if the bridge accepted it.
* `NothingFreedUsed`: as long as keys are not imported over an environment that is
  there, no loop has two threads and no environment is destroyed in use; and a freed
  request is read in two cases only: by the block on the main queue for a bucket that
  could not be deleted, and by `bridge_info_completion_callback` without an answer, which
  frees the request, reads its error code and ends the process.  The history field
  `readFreed` of a request remembers that it was read.  A block is taken to run after the
  request is freed, the worse of the two orders; what is read then is any number, and only
  the message printed and the code told with the error depend on it.
* `TransferToldTruly`: the application hears of a transfer once, or twice if it is a
  download that had failed when `downloadFile` looked; success and failure both only if
  that look read freed memory; and never the success of what it canceled.
* `HandlesNameTransfers`: a handle the application may still use names a running
  transfer, but while the block that tells of the end waits on the main queue; only
  then, or after an import of keys over an environment, is a freed state used; and what
  runs without a handle, so that nobody can cancel it, has failed.
* `WaitsEnd`: every call, every started upload and every download that has ended tell
  their outcome, and `registerUser` and `verifyKeys` return, unless the process is gone,
  something freed was used, keys were imported over an environment, or the bridge's list
  of buckets is empty.

### Fairness

In `Download` and `Upload` `Fairness` is weak fairness of each callback: a job that is
outstanding ends and its callback runs.  The code justifies it: `fetch_json` sets
`CURLOPT_TIMEOUT` (`src/http.c:567`, 60 seconds by default, `src/storj.h:118`), shard
transfers give up below 30 KiB/s for 20 seconds (`src/http.c:109-112`, `337-340`,
`src/storj.h:116-117`), recovery is a finite computation, and `uv_run` on the loop
thread runs every callback whose job ended.  Nothing is assumed of what is answered,
and the application is never assumed to cancel.  The conditions are written out there
as `[]<> ~ Outstanding(...) \/ []<><<...>>_vars`, which is `WF` of the action since a
callback is possible exactly when its job is outstanding.

`FetchShard` and `PutShard` state `WF` of the pool taking a queued job, of curl
returning (the same limits, and the size of the shard), and of the loop serving the
callback of the job and of the closed handle; not of the network bringing anything,
nor of the loop serving a progress event.  `Wrapper` states `WF` of each worker, of each
callback while a thread runs its loop, of each thread of `startLooper` entering the loop
of `_env`, of the main thread's next block, and of the application's thread inside a call
of the wrapper (a thread of the system each), and of an upload ending, which is
`Terminates` of `Upload`; not of a download ending, since a coded one may stall (finding
1), nor of the application making a call.

## Findings

1. **A download can stop for ever** (`download_stall`, `src/downloader.c:480-489`).
   `queue_request_pointers` gives up the first pointer that has used its mirrors and
   returns.  For a Reed-Solomon file that may be recoverable, so the download goes
   on, but this pass requested neither the next page nor another replacement.  If no
   other job is outstanding there is no next pass: `finished_cb` is never called, the
   state is never freed, and a cancel, which only sets flags, does not help.  A plain
   file is not affected: its missing shard ends the download in the same pass, which
   is why `DownloadEnds` holds for it.
2. **The first pass of a download races its callbacks** (`download_start`,
   `src/downloader.c:1921`, `StorjWrapper.m:650-667`).  `storj.h` says of the state that it
   "is all managed within one thread, the event loop thread", but the wrapper starts
   downloads from the application's thread under a running loop.  A callback between the
   statements of the first pass loses or gains a job in `pending_work_count`, or has its
   flag overwritten (`requesting_pointers` is set after the job is queued); and when the
   first answer is a refusal, it calls `finished_cb` and frees the state before the pass,
   or the wrapper's look at `error_status`, is over.
3. **A cancel may use a freed request** (`upload_cancel`, `src/uploader.c:634-639`).
   After the last failed push the shard stays in `PUSHING_SHARD`, while its work is
   freed when the progress handle closes.  The upload has failed, but lives until its
   other jobs are over; a cancel in that time calls `uv_cancel` on the freed work of
   every shard in `PUSHING_SHARD`.
4. **A cancel may loop over shards that are not there** (`upload_prepare`,
   `src/uploader.c:2445-2477`).  `prepare_upload_state` sets `total_shards` and then
   allocates and fills in the trackers, in a pool thread, although `uploader.h` says at
   every request that "state should not be modified in worker threads".  The
   application has the handle by then.
5. **An unanswered request may complete an upload** (`upload_entry`,
   `src/uploader.c:450`).  `status_code` is not initialized, `fetch_json` does not set it
   when curl fails, and the failure is only logged; what was on the stack is compared
   with 200 and 201.  The other workers initialize it with 0.
6. **A repaired file may be wrong** (`code_stale`, `src/rs.c:342-352`).  `mul`, the first
   step of an output, writes only as many bytes as its input has.  If the first survivor
   is the last, short data shard, the rest of each repaired shard keeps the bytes of
   failed downloads and the other survivors are added to them; recovery returns 0.
   Only the hmac of the file can still tell.
7. **The tables are rebuilt under their users** (`fec_race`, `src/rs.c:494-505`).  Every
   coded upload and every recovery calls `fec_init`, which rewrites the global tables in
   place, in its pool thread.  `reed_solomon_new` says "MUST use fec_init once time
   first".  The run needs two threads: with one worker no such state is reachable.

Seen in the code while it was modelled, without a run of their own:

* The cap on replacements ignores the status (`src/downloader.c:480`): `replace_count`
  reaches it when the last replacement is *installed*, so that a later pass gives up a
  shard that is being downloaded or is already stored.  `PointersMoveForward` and
  `RecoverySound` are stated with that exception: the late answer of such a shard may
  make a pointer downloaded that had been given up, and if it fails the pointer may be
  reported and replaced while the file is recovered without it, or after that.
* The upload's progress is silent once the shards prepared so far are sent
  (`src/uploader.c:767`).
* `prepare_upload_state` expects files "up to 10tb" (`src/uploader.c:2415`); a code holds
  153 data shards of 4 GB, and past that `reed_solomon_new` returns NULL, which
  `create_parity_shards` does not look at (`src/uploader.c:1934`).
* A short write of the encrypted copy is no error (`src/uploader.c:1633`).
* `bridge_info_completion_callback` frees the request when there is no answer
  (`StorjCompletionCallbacks.m:206`), reads the error code of what it has freed (208, 209
  and 212) and ends the process; `getBridgeInfo` uses `_env` without looking at it.
* `bucket_create_completion_callback` prints the name of a bucket after 404, which crashes
  if the answer had no body.  It does so in every build: the file itself defines `DEBUG`
  (`StorjCompletionCallbacks.m:8`).
* The block for a bucket that could not be deleted reads the freed request.
* An empty list of buckets tells nobody, so `verifyKeys` spins for ever.
* `importKeys` over an environment destroys it while its thread and its calls run, and
  starts a second thread that shares the new one.
* A download whose error `downloadFile` sees is told twice, directly and when it ends;
  and -1, which is returned for it, leaves the transfer running with no way to cancel it.
* The block that tells of a transfer's end may run before the call that started it has
  returned, when that was not made on the main thread.
* A local file that cannot be read for an upload, or made for a download, is told to
  nobody: only the -1 says so.

## Proofs

### `DownloadProofs`

For any number of shards, any files and any positive limits (`DownloadAssumption`):

| Theorem | Property |
|---|---|
| `Invariance` | the inductive invariant `IInv` |
| `TypeCorrect` | `TypeOK` |
| `BookkeepingCorrect` | `BookkeepingExact`, that is `CountersMatchWork` (`CountersCorrect`) and `NoUseAfterFree` (`FreedSafely`) |
| `ReplacementSafe` | `ReplacementOwnsPointer` |
| `ErrorsDrain` | `DrainsAfterError` |
| `ImplementsTransfer` | `KeepsPromise`, the refinement of `Transfer` |

None of these properties is inductive.  That `pending_work_count` can be decremented
for the right job needs that each flag stands for one job; that a shard's callback
may write a pointer needs that the pointer is allocated; that no report is in flight
when a replacement is queued needs that a pointer in `POINTER_ERROR_REPORTED` is
*settled* (its report was accepted or its tries are used up) and stays so.  `Good`
is the conjunction: the types, `Counted` (counters), `Flagged` (flags), `Owns` (what
an outstanding job says about the status and the report of its pointer), `Closed`
(the callback and the end of the work), and that a canceled download has an error.
`IInv` is `Good` of the current state and of the file.

The argument follows the code.  A callback first takes its job out (`Complete` and
its own assignments): lemmas named `...Done` show that the result is *done*, that is
good but for being possibly without work.  Then `queue_next_work` queues more: lemmas
named `...Live` show that each of its five queueing functions keeps a live state
live, and `...Settles` that finishing is allowed only with no job left.  `Handled`
joins the two to one fact per callback, which also says what `Transfer` and
`DrainsAfterError` need: the jobs of the new state are the old ones without the one
handled, plus new ones only if there was no error.

### `DownloadFlowProofs`

`Good` says that the books agree with the jobs.  What a download does with its pointers
needs more, and is proved under the same assumption:

| Theorem | Property |
|---|---|
| `FlowInvariance` | the inductive invariant `FlowInv`, `IInv` of `DownloadProofs` and `Flow` |
| `RecoveryReadsWhole` | `RecoverySound` |
| `SuccessIsWholeFile` | `SuccessMeansWholeFile` |
| `PointersCared` | `NoForgottenPointer` |
| `StallsOneWay` | `IdleOnlyWhenDone` |
| `PointersForward` | `PointersMoveForward` |

`Flow` is `Placed`, `Served` and `Ended`.  `Placed` holds after the assignments of a
callback as well as after its `queue_next_work`: the pointers are those listed so far
(`Listed`), recovery has the info and the whole list and comes once (`Informed`), a
pointer's status says which job it has and how its report stands (`Traced`), what the
recovery job leaves alone is on disk with nobody writing to it (`Recovering`), and the
slots are within their limit (`Limited`).  `Served` (what waits, waits for a reason) and
`Ended` (nothing outstanding means the end, or finding 1) are what `queue_next_work`
establishes, whatever it is called with.

`RecoverySound` is the one that needs most of it.  `queue_recover_shards` looks at statuses
only; that `POINTER_DOWNLOADED` means bytes on disk fails for a job that was dequeued, whose
request has no error, and is saved by the error a cancel leaves behind (`Traced`).  While
the job runs, later callbacks must not undo what it was given: `Intact` is about the
shards that are no erasures, and every other pointer may still move.  That erasures are
within the parity follows from the count of parity pointers being that of the list, which
a page with a malformed entry would break, had it not ended the download.

For `NoForgottenPointer` a pass has to fill every slot: the loop of
`queue_request_shards` takes created pointers in index order while there is a slot, which
the model says with the rank of a pointer among those created.  `FirstOnes` is that as many
have a low rank as are asked for, and `ToDownloadFills` that after the pass there is no
created pointer or no slot.  For `PointersMoveForward` a callback takes each pointer by
`Moved` and the pass after it by `Requeued`, which compose.  The attempt to prove that
showed the property as it was stated before to be false, for two parity shards: see the
cap on replacements above.

### `UploadProofs`

For any number of shards, any files and any positive limits (`UploadAssumption`):

| Theorem | Property |
|---|---|
| `Invariance` | the inductive invariant `IInv` |
| `TypeCorrect` | `TypeOK` |
| `BookkeepingCorrect` | `BookkeepingExact` |
| `ReportSafe` | `ReportKeepsPointer` |
| `EntryLast` | `EntryOnlyWhenStored` |
| `ResultTrue` | `ResultMatchesEntry` |
| `ShardsCared` | `NoForgottenShard` |
| `RetriesAnew` | `NewContractForRetry` |
| `OverDrains` | `DrainsWhenOver` |
| `ImplementsTransfer` | `KeepsPromise` |

`IInv` is `Good` and `Busy` of the state.  `Good` holds before and after
`queue_next_work`: the single steps come one at a time and in order (`Sequenced`), the
counts of shards are those of the file (`Sized`), a flag stands for its job (`Flagged`), a
job is queued only with a try left (`Bounded`), tracker and jobs agree (`Owns`), the limits
hold (`Slotted`), the counter, the entry and the end agree with the shards (`Stored`,
`Closed`).  `Busy` is what `queue_next_work` adds: something is outstanding until the
callback, and every shard that goes on has its job, its report or no slot (`Saturated`).

`Bounded` is there because counts are compared with `==`: an attempt at the limit would
count past it, so every place that queues one needs that the last one failed below it.
`ReportKeepsPointer` needs that a tracker with a report to send is left waiting by both
loops, which is `KeptWaiting`.  `EntryOnlyWhenStored` is `Stored` with `Sized`: the entry
is asked for when the counter has reached `total_shards`, and the counter is the number of
trackers stored, among as many trackers as the file has shards.  Each callback is a
lemma that its job is handled and the rest of the state is as `Good` wants it (`Handles`);
`Settles` says what `queue_next_work` makes of such a state, for each of its returns; and
the steps of `prepare_upload_state` and of a cancel queue nothing (`Waits`).

### `FetchShardProofs`, `ShardTripProofs`

For a shard of any size, blocks and buffers of any size, chunks of any length and any
number of attempts (`FetchAssumption`):

| Theorem | Property |
|---|---|
| `Invariance` | the inductive invariant `IInv` |
| `TypeCorrect` | `TypeOK` |
| `NothingLost` | `TailKept` |
| `OwnRegionOnly` | `NeighboursUntouched` |
| `DownloadedWhole` | `DownloadedIsWhole` |
| `ProgressSafe` | `NoProgressAfterFree`, half of `HandlesSafe` |
| `ReportsForward` | `ProgressForward`, the download part of `ProgressInAttempts` |
| `TripImplementsFetch` | `TripSpec => Spec` |
| `TripDownloads` | the properties above, along the whole way of a shard |
| `TripInvariance` | `IInv`, the invariant `PushInv` of the upload's end, and `TripGood` |
| `TripTypes` | `TypesOK` |
| `TripStored` | `StoredIsWhole` |
| `TripHandles` | `HandlesSafe` |
| `TripWhole` | `TripIsWhole` |
| `TripReports` | `ProgressInAttempts`, the safety half of `ProgressToTheEnd` |

`IInv` is `Types`, `Kept` (the file up to `length`, followed by the tail, is what was
received; the hash is over that part; `length` is whole blocks before the end), `Agree`
(what the handle, the worker and the pointer say of one another), `NeighboursUntouched`,
and `Truthful` (a request without an error, and a pointer downloaded, mean that the whole
region is right, but for a job taken out of the pool).  The step that matters is
`ReceiveStep`: the tail and the chunk together are cut at a whole number of blocks or at
the end of the shard (`WriteLengthBounds`, from `Division`), `Appended` shows that
writing the first part at `length` and keeping the second leaves the concatenation what
it was, and `Accepted` that the write ends within the region.  `TripImplementsFetch` is
that a step of the upload, of the decryption and of the change between the two leaves
the variables of the download alone, so that nothing has to be proved twice.

`PushInv` is `PushTypes`, `PushSent` (bytes are sent in order, and the block counter times
the size of a block is what was sent, unless nothing more will be read: a block cut short
is the last), `PushAgree` (job, handle and tracker, and that once an attempt has reported,
the tracker is at no more than what its worker announced last, which `TripReports` rests
on) and `PushTruthful` (success means that everything was sent, though the file may have
been cut short meanwhile).  That the receiver decrypts with the right key stream
(`DecryptInPlace`) rests on `DECRYPT_LEN` being a whole number of blocks, which is in
`TripAssumption` because it is so in the code.

### `LooperProofs`

For any number of calls and environments and any codes of HTTP (`CallAssumption`,
`LooperAssumption`):

| Theorem | Property |
|---|---|
| `Invariance` | the inductive invariant `IInv` |
| `TypeCorrect` | `TypeOK` |
| `ToldOnce` | `ToldOnceAndTruly` |
| `NothingFreed` | `NothingFreedUsed` |

`IInv` is `CallInv` and `EnvInv`.  `CallInv` says of a call that it has told nothing until
its callback ran, that an answer without an error has a code of the bridge, and that a
block on the main queue is the only one of its call, which is freed and has told nothing:
that is why a block that runs later does not tell a second time.  It also says which
freed requests were read: that the callback of the bridge's information is the last step
of the process keeps its read from standing beside a running one.  `CallbackSound` is one
case per completion callback.  `EnvInv` says that the environment of `registerUser` and
`verifyKeys` is neither the shared one nor destroyed while it runs (`OwnLoop`), and that
until keys are imported over it there is one shared environment with one thread, and no
call is outstanding on a destroyed one (`OneLooper`).  The steps that make an environment
rest on `NewNumber` (a new one is none of the old ones); the one that destroys one in
the ordinary way on nothing being outstanding when `uv_run` returns.

### `WrapperProofs`

For any number of transfers as well (`WrapperAssumption`):

| Theorem | Property |
|---|---|
| `WrapperImplementsLooper` | `WrapperSpec => Spec` |
| `TransferInvariance` | the inductive invariant, `IInv` of `LooperProofs` and `TransferInv` |
| `WrapperTypeCorrect` | `WrapperTypeOK` |
| `CallsAmongTransfers` | `ToldOnceAndTruly` and `NothingFreedUsed`, among transfers |
| `ToldOfTransfers` | `TransferToldTruly` |
| `HandlesName` | `HandlesNameTransfers` |

Each step of the wrapper is one of `Looper`, or none (`StepOfLooper`), so that the theorems
about calls carry over.  The properties of transfers are not inductive: that nothing is told
twice needs what was told at each point of a transfer's life.  `Consistent` says that: before
the end nothing but the error `downloadFile` saw (`BeforeEnd`), after the block has run also
what the block said, in either order (`AfterEnd`), success only without an error, and a
handle of -1 only with an error or after a late look.  `OnTheEnvironment` says that a running
transfer is on the one shared environment until keys are imported over it
(`EnvironmentStays`), which with `OneLooper` is why a destroyed environment under a transfer
means an import (`TransferFaultStep`).  `OneChanges` and `GoesOn` do once what each action on
one transfer needs.

### `CodedFileProofs`

For files of any size, for any smallest size and any number of halvings, and for a largest
size that is some doublings of the smallest (`CodedFileAssumption`, which also says that a
code holds the shards a file is meant to be cut into, with their parity: 16 and 11 of 255):

| Theorem | Property |
|---|---|
| `SizesRight` | `ShardSizesRight` |
| `CodesAgree` | `GeometriesAgree` |
| `CutTypes` | `TypeOK` of the cut: part of `TypesOK` |
| `TypesHold` | `TypesOK`, if the operations of the field stay in it (`FieldClosed`) |
| `AcceptedRecovers` | `AcceptedIsRecovered`: half of `EveryLossIsRepaired` |
| `FetchedKept` | `FetchedStay`: half of `RepairsOverStaleBytes` |
| `FetchedIsTheFile` | a fetched data shard is the uploader's, before and after recovery |
| `WholeWithoutLoss` | a file of which no data shard was given up is recovered whole, whatever bytes the parity shards hold |

The difficulty is not the state machine, which makes one cut, but its recursions.  A
recursive function is a choice among the functions that solve its equation, so each first
needs one that does.  For `PowerOf2` it is put together from its beginnings
(`PowersBegin`); for the two recursions of `determine_shard_size` it is written down
(`CappedHopsIs`, `FromSolved`: sizes grow with the accumulator, so that once a file fits it
fits from there on), and so for the sum of the lengths in `Received` (`LengthsAdd`).  What
the chosen one returns is then shown by induction, in the form the provers can use, over a
set of numbers (`NatSetInduction`, from the least member of its complement).

`SizeReturned` puts it together: a size is `Suitable` if fewer doublings would not do and
either `SHARD_MULTIPLES_BACK` more cover the file or it is the largest.  `ShardSizesRight`
follows from that (`SuitableIsSmallest`, `SuitableCovers`), its last part with a count: a
size below the largest makes no more shards than are aimed at, and those fit a code; at
the largest size two thirds more than three fifths are the whole (`TooManyShards`).

`GeometriesAgree` is not obvious for a file of one data shard, where the download takes the
length of the file for the shard size.  `OneShardIsFull` says that they are the same: a file
that is coded has at least `MIN_SHARD_SIZE`, and a larger size is given only to a file of
more than one shard, since `SHARD_MULTIPLES_BACK` is not 0.

The theorems on recovery hold for every code in `Geometries` and every order of fetches and
failures.  Their invariant is `FetchInv`: no shard is both fetched and given up, a fetched
one equals what was stored, and recovery starts when there are no others.  `SortedLists`
says that `Sorted` lists a set once and in order, whence `ParityIsEnough`: at most as many
missing as there are parity shards leaves as many parity rows as data rows are missing.
`DecodeKeeps` and `Reconstructs` say that only what was given up is written.

`TypesHold` is about lengths and ranges, and goes through the whole computation: products
and sums of `code_some_shards`, the short last shard that stops it, the elimination of
`invert_mat` and the two ends of `reed_solomon_decode`.  Its invariant is `BytesInv` (each
shard has the length of its part of the file, and bytes of the field).  The recursions have
one argument that counts up, so that three lemmas serve them all: `IterSolved` (there is a
function that solves the equation), `IterTyped` (one that stays in a set if its step does),
and `Stays`, the induction.  Two things are taken as given.  `CodesGiven`, an assumption of
`CodedFile`, says that `Geometries` has the code of each file that is coded; TLC evaluates
it.  `FieldClosed` is the hypothesis of the theorem: sums, products, powers and inverses of
elements are elements.  For a given width that is a computation over the tables, which no
prover here does, and which TLC does for the 8 bits of the code (`FieldIsClosed` in
`MCCodedFile`).

### Only model-checked

Of coded files what a repaired byte is.  That the survivors' matrix is regular
(`AnyRowsSuffice`) rests on the polynomial of the field being primitive, which is a
computation, and that a repaired byte is that of the file (`RepairsButForTail`) is algebra
over sums and matrices which are recursive functions.  So `EveryLossIsRepaired` and
`RepairsOverStaleBytes` are checked for the codes of their run; their other halves are
proved.

Liveness: `DownloadEnds`, `Terminates`, `BothSettle` (of `ProgressToTheEnd`) and
`WaitsEnd`, which need `ENABLED` and well-founded arguments over fairness.  What is proved of it is its safety
part: `IdleOnlyWhenDone` and `NoForgottenShard` say that there is always a job to wait for,
`Bounded` and `TypeOK` that tries are limited.

## Not modelled

* Failures of `malloc` and of `uv_queue_work` itself, and a nonzero status of a
  callback other than that of a dequeued shard: each is a return with an error
  status, in places that would double the size of the model.  (`uv_cancel` is called
  for shard transfers only, so no other callback is ever told `UV_ECANCELED`.)
* The sums over shards that the progress callbacks report, and the log.
* What goes into hashes, contracts, challenges and the entry's hmac; the ciphers and
  key derivations of `crypto.c`, which call nettle; the word list and the conversions of
  `bip39.c`, which have no state and their own test vectors; the encrypted file of
  credentials.
* A cancel from another thread in the middle of a callback.  The structure's comment
  says it is managed by the loop thread; the wrapper cancels from any thread.  (For an
  upload, a cancel while `prepare_upload_state` runs is modelled, except where it would
  read what is not there.)
* A cancel by an application that has heard of the end.  (Until the block has run it
  may not know, and that is modelled: `HandlesNameTransfers`.)
* What happens inside libuv when `uv_queue_work` is called from the application's thread,
  which it does not allow; two application threads that both find no environment
  (`StorjWrapper.m:310`); callback objects that are not retained.
* The first pass of an upload is only the queueing of `prepare_upload_state`
  (`src/uploader.c:2716`), after which the wrapper looks at `error_status`: what comes of
  that look is in `Wrapper`, and there is no pass for callbacks to run into.
* The list of excluded farmers, and which farmer is asked.
* The bridge repeating or reordering list entries: it lists the shards in order.
* `src/cli.c`, a development tool: option parsing, prompts, printing, and calls of the
  same API.  It includes a header that is not in the repository, and is not part of the
  framework.
* The headers under `../libraries` (curl, gmp, microhttpd, nettle, uv) and the word list
  `bip39_english.h` declare other people's code or hold data; there is nothing of this
  program in them to model.  They and `cli.c` are most of the lines of C in the
  repository.
