------------------------------ MODULE Download ------------------------------
(***************************************************************************)
(* A file download, as downloader.c runs it on the libuv event loop.       *)
(*                                                                         *)
(* storj_bridge_resolve_file allocates one storj_download_state_t and      *)
(* calls queue_next_work.  From then on everything is event driven: a job  *)
(* is queued on the thread pool, its after_* callback later updates the    *)
(* state on the loop thread and calls queue_next_work again, which queues  *)
(* whatever has become possible.  Jobs finish in any order, and the        *)
(* application may cancel at any moment.                                   *)
(*                                                                         *)
(* One action below is one after_* callback, the call of queue_next_work   *)
(* that ends it included; what the bridge and the farmers answer is the    *)
(* nondeterministic parameter of the action.                               *)
(***************************************************************************)
EXTENDS Integers, Sequences, FiniteSets, FiniteSetsExt

CONSTANTS
  MaxShards,                   \* no file of the model has more shards
  Files,                       \* the files that may be asked for, see FileType
  PointerLimit,                \* pointers in one answer: "limit=3" in the query
  STORJ_DOWNLOAD_CONCURRENCY,  \* shard downloads in flight
  STORJ_DEFAULT_MIRRORS,       \* replacements of one pointer
  STORJ_MAX_REPORT_TRIES,      \* attempts to send one exchange report
  STORJ_MAX_POINTER_TRIES,     \* failed pointer requests in a row
  STORJ_MAX_INFO_TRIES         \* failed file info requests

(***************************************************************************)
(* The bridge's description of a file: how many pointers it lists, how     *)
(* many of them (the last ones) are parity shards, the erasure code named  *)
(* by the file info, and how the info's hmac compares with the hmac of the *)
(* shard hashes.                                                           *)
(***************************************************************************)
FileType == [shards    : 0..MaxShards,
             parity    : 0..MaxShards,
             erasure   : {"none", "reedsolomon", "other"},
             integrity : {"match", "mismatch", "absent", "unhashable"}]

ASSUME DownloadAssumption ==
  /\ MaxShards \in Nat \ {0}
  /\ Files \subseteq FileType
  /\ \A f \in Files : f.parity <= f.shards
  /\ PointerLimit \in Nat \ {0}
  /\ STORJ_DOWNLOAD_CONCURRENCY \in Nat \ {0}
  /\ STORJ_DEFAULT_MIRRORS \in Nat \ {0}
  /\ STORJ_MAX_REPORT_TRIES \in Nat \ {0}
  /\ STORJ_MAX_POINTER_TRIES \in Nat \ {0}
  /\ STORJ_MAX_INFO_TRIES \in Nat \ {0}

VARIABLES
  file,   \* the file being downloaded, fixed by the request
  state   \* the storj_download_state_t, the pool's view of it and history

vars == <<file, state>>

-----------------------------------------------------------------------------
(* storj_pointer_status_t, with the enumeration's numbers. *)

POINTER_UNINITIALIZED    == -4   \* memory no pointer has been written to
POINTER_BEING_REPLACED   == -3
POINTER_ERROR_REPORTED   == -2
POINTER_ERROR            == -1
POINTER_CREATED          == 0
POINTER_BEING_DOWNLOADED == 1
POINTER_DOWNLOADED       == 2
POINTER_MISSING          == 3
POINTER_FINISHED         == 4

Index == 0..(MaxShards - 1)

(* The part of storj_pointer_t and of its exchange report that steers the  *)
(* download; timed says that the report's start and end are set.           *)
PointerType == [status        : -4..4,
                replace_count : Nat,
                send_status   : 0..2,
                send_count    : Nat,
                timed         : BOOLEAN]

Uninitialized == [status        |-> POINTER_UNINITIALIZED,
                  replace_count |-> 0,
                  send_status   |-> 0,
                  send_count    |-> 0,
                  timed         |-> FALSE]

(* Error codes, by what the download does about them. *)
ErrorStatus == {"OK", "CANCELED", "BRIDGE", "SHARD_MISSING", "RECOVERY",
                "MEMORY", "INTEGRITY"}

JobKind == {"pointers", "replace", "info", "shard", "report", "recover"}

(***************************************************************************)
(* Five fields are not in the C structure: work is the set of jobs handed  *)
(* to the pool whose after_* callback has not run, dequeued the shard jobs *)
(* that uv_cancel took out of the pool before they started, fetched the    *)
(* shards whose bytes are in the destination file, zilch the erasures the  *)
(* recovery job was given, and callbacks what finished_cb was called with. *)
(***************************************************************************)
StateType ==
  [info                  : BOOLEAN,
   requesting_info       : BOOLEAN,
   info_fail_count       : Nat,
   finished              : BOOLEAN,
   canceled              : BOOLEAN,
   completed_shards      : Nat,
   resolving_shards      : Int,
   pointers              : [Index -> PointerType],
   total_pointers        : 0..MaxShards,
   total_parity_pointers : Nat,
   rs                    : BOOLEAN,
   recovering_shards     : BOOLEAN,
   truncated             : BOOLEAN,
   pointers_completed    : BOOLEAN,
   pointer_fail_count    : Nat,
   requesting_pointers   : BOOLEAN,
   error_status          : ErrorStatus,
   pending_work_count    : Int,
   work                  : SUBSET (JobKind \X Index),
   dequeued              : SUBSET Index,
   fetched               : SUBSET Index,
   zilch                 : SUBSET Index,
   callbacks             : Seq(ErrorStatus)]

NewState ==
  [info                  |-> FALSE,
   requesting_info       |-> FALSE,
   info_fail_count       |-> 0,
   finished              |-> FALSE,
   canceled              |-> FALSE,
   completed_shards      |-> 0,
   resolving_shards      |-> 0,
   pointers              |-> [i \in Index |-> Uninitialized],
   total_pointers        |-> 0,
   total_parity_pointers |-> 0,
   rs                    |-> FALSE,
   recovering_shards     |-> FALSE,
   truncated             |-> TRUE,
   pointers_completed    |-> FALSE,
   pointer_fail_count    |-> 0,
   requesting_pointers   |-> FALSE,
   error_status          |-> "OK",
   pending_work_count    |-> 0,
   work                  |-> {},
   dequeued              |-> {},
   fetched               |-> {},
   zilch                 |-> {},
   callbacks             |-> << >>]

-----------------------------------------------------------------------------
(* The pool: uv_queue_work with its pending_work_count++, and the          *)
(* pending_work_count-- every callback starts with.                        *)

Queue(s, jobs) ==
  [s EXCEPT !.work = @ \cup jobs,
            !.pending_work_count = @ + Cardinality(jobs)]

Complete(s, job) ==
  [s EXCEPT !.work = @ \ {job},
            !.pending_work_count = @ - 1]

Allocated(s) == {i \in Index : i < s.total_pointers}

WithStatus(s, status) == {i \in Allocated(s) : s.pointers[i].status = status}

-----------------------------------------------------------------------------
(* queue_next_work and the five functions it queues work with.  Each takes *)
(* the state and returns the state it leaves.                              *)

Marked(p, status) == [p EXCEPT !.status = status]

(* The first pointer in index order that is out of mirrors or waits to be  *)
(* replaced ends the scan; only when there is none is the next page of     *)
(* pointers requested.                                                     *)
NeedsAttention(s) ==
  {i \in Allocated(s) : \/ s.pointers[i].replace_count >= STORJ_DEFAULT_MIRRORS
                        \/ s.pointers[i].status = POINTER_ERROR_REPORTED}

GivenUp(p) == [p EXCEPT !.replace_count = 0, !.status = POINTER_MISSING]

GiveUp(s, i) == [s EXCEPT !.pointers[i] = GivenUp(@)]

RequestReplacement(s, i) ==
  [Queue(s, {<<"replace", i>>}) EXCEPT
     !.pointers[i] = Marked(@, POINTER_BEING_REPLACED),
     !.requesting_pointers = TRUE]

RequestNextPointers(s) ==
  [Queue(s, {<<"pointers", 0>>}) EXCEPT !.requesting_pointers = TRUE]

ServeFirst(s) ==
  LET first == Min(NeedsAttention(s)) IN
  IF s.pointers[first].replace_count >= STORJ_DEFAULT_MIRRORS
  THEN GiveUp(s, first)
  ELSE RequestReplacement(s, first)

queue_request_pointers(s) ==
  IF s.requesting_pointers \/ s.canceled THEN s
  ELSE IF NeedsAttention(s) # {} THEN ServeFirst(s)
  ELSE IF s.pointers_completed THEN s
  ELSE RequestNextPointers(s)

queue_request_info(s) ==
  IF s.info \/ s.requesting_info \/ s.canceled
  THEN s
  ELSE [Queue(s, {<<"info", 0>>}) EXCEPT !.requesting_info = TRUE]

(* Created pointers in index order, as many as there are free slots. *)
ToDownload(s) ==
  LET created == WithStatus(s, POINTER_CREATED) IN
  {i \in created : Cardinality({j \in created : j < i}) + s.resolving_shards
                      < STORJ_DOWNLOAD_CONCURRENCY}

StartDownloads(s, starting) ==
  [Queue(s, {"shard"} \X starting) EXCEPT
     !.resolving_shards = @ + Cardinality(starting),
     !.fetched = @ \ starting,
     !.pointers = [i \in Index |->
        IF i \in starting THEN Marked(@[i], POINTER_BEING_DOWNLOADED)
                          ELSE @[i]]]

queue_request_shards(s) ==
  IF s.canceled THEN s ELSE StartDownloads(s, ToDownload(s))

Missing(s) == WithStatus(s, POINTER_MISSING)

queue_recover_shards(s) ==
  IF /\ ~ s.recovering_shards
     /\ s.pointers_completed
     /\ Allocated(s) = Missing(s) \cup WithStatus(s, POINTER_DOWNLOADED)
  THEN [Queue(s, {<<"recover", 0>>}) EXCEPT !.recovering_shards = TRUE,
                                           !.zilch = Missing(s)]
  ELSE s

(* Wrong on purpose: a report that failed is never sent again. *)
ReportOnce(s) ==
  {i \in Allocated(s) : s.pointers[i].send_count = 0 /\ s.pointers[i].timed}

ToReport(s) ==
  {i \in Allocated(s) : /\ s.pointers[i].send_status < 1
                        /\ s.pointers[i].send_count < STORJ_MAX_REPORT_TRIES
                        /\ s.pointers[i].timed}

Reporting(p) == [p EXCEPT !.send_status = 1, !.send_count = @ + 1]

StartReports(s, sending) ==
  [Queue(s, {"report"} \X sending) EXCEPT
     !.pointers = [i \in Index |->
        IF i \in sending THEN Reporting(@[i]) ELSE @[i]]]

queue_send_exchange_reports(s) ==
  IF s.canceled THEN s ELSE StartReports(s, ToReport(s))

(* Wrong on purpose: one erasure more than there are parity shards. *)
UnrecoverableOffByOne(s) ==
  IF s.rs
  THEN s.pointers_completed /\ Cardinality(Missing(s)) > s.total_parity_pointers + 1
  ELSE Missing(s) # {}

(* can_recover_shards for Reed-Solomon files, has_missing_shard for others. *)
Unrecoverable(s) ==
  IF s.rs
  THEN s.pointers_completed /\ Cardinality(Missing(s)) > s.total_parity_pointers
  ELSE Missing(s) # {}

Finish(s, status) ==
  [s EXCEPT !.error_status = status,
            !.finished = TRUE,
            !.callbacks = Append(@, status)]

Idle(s) == ~ s.finished /\ s.pending_work_count = 0

FinishFailed(s) == IF Idle(s) THEN Finish(s, s.error_status) ELSE s

(* Wrong on purpose: the hmac is not compared. *)
UnverifiedStatus(s) == "OK"

(* prepare_file_hmac over the shard hashes, compared with the info's hmac  *)
(* if there is one.                                                        *)
VerifiedStatus(s) ==
  IF \/ file.integrity = "unhashable" /\ s.total_pointers > 0
     \/ file.integrity = "mismatch" /\ s.info
  THEN "INTEGRITY" ELSE "OK"

AllRecovered(s) ==
  /\ s.pointers_completed
  /\ s.completed_shards = s.total_pointers
  /\ s.truncated

QueueRequests(s) ==
  LET t == queue_request_info(queue_request_pointers(s)) IN
  IF t.info THEN queue_request_shards(t) ELSE t

QueueRecoveryAndReports(s) ==
  queue_send_exchange_reports(IF s.info THEN queue_recover_shards(s) ELSE s)

QueueMore(s) ==
  IF s.info /\ Unrecoverable(s)
  THEN FinishFailed([s EXCEPT !.error_status = "SHARD_MISSING"])
  ELSE QueueRecoveryAndReports(s)

FinishRecovered(s) == IF Idle(s) THEN Finish(s, VerifiedStatus(s)) ELSE s

(* Wrong on purpose: an error does not stop new work. *)
QueueDespiteError(s) ==
  IF s.error_status # "OK" /\ Idle(s) THEN FinishFailed(s)
  ELSE IF AllRecovered(s) THEN FinishRecovered(s)
  ELSE QueueMore(QueueRequests(s))

queue_next_work(s) ==
  IF s.error_status # "OK" THEN FinishFailed(s)
  ELSE IF AllRecovered(s) THEN FinishRecovered(s)
  ELSE QueueMore(QueueRequests(s))

-----------------------------------------------------------------------------
(* storj_bridge_resolve_file: the first queue_next_work runs in the call. *)
Init ==
  /\ file \in Files
  /\ state = queue_next_work(NewState)

Step(s) == state' = queue_next_work(s) /\ UNCHANGED file

Outstanding(kind, i) == <<kind, i>> \in state.work

Fail(s, status) == [s EXCEPT !.error_status = status]

-----------------------------------------------------------------------------
(* after_request_pointers *)

(* A request the bridge did not answer, or answered with 5xx, is retried   *)
(* until the count of failures reaches its bound.                          *)
PointerRequestFailed(s) ==
  IF s.pointer_fail_count + 1 >= STORJ_MAX_POINTER_TRIES
  THEN Fail([s EXCEPT !.pointer_fail_count = 0], "BRIDGE")
  ELSE [s EXCEPT !.pointer_fail_count = @ + 1]

(* What the bridge's list may say of a shard: an address and a token, no   *)
(* farmer at hand, or an entry that lacks a field the parser insists on.   *)
Entry == {"farmer", "no_farmer", "malformed"}

SetPointer(pointer, entry, replaced) ==
  [pointer EXCEPT
     !.replace_count = IF replaced THEN @ + 1 ELSE 0,
     !.status = IF entry = "farmer" THEN POINTER_CREATED ELSE POINTER_MISSING,
     !.send_status = 0,
     !.send_count = 0,
     !.timed = FALSE]

(* Wrong on purpose: every page is taken to be full. *)
AppendFullPage(s, page) ==
  [s EXCEPT
     !.total_pointers = @ + PointerLimit,
     !.pointers = [i \in Index |->
        IF i \in DOMAIN page THEN SetPointer(@[i], page[i], FALSE) ELSE @[i]]]

(* append_pointers_to_state: the new entries of the array are set one by   *)
(* one; a malformed one stays as the allocator left it, and the download   *)
(* fails, but the following ones are still set.                            *)
AppendPointers(s, page) ==
  LET added == DOMAIN page IN
  [s EXCEPT
     !.total_pointers = @ + Cardinality(added),
     !.total_parity_pointers =
         @ + Cardinality({i \in added : i >= file.shards - file.parity}),
     !.pointers = [i \in Index |->
        IF i \in added /\ page[i] # "malformed"
        THEN SetPointer(@[i], page[i], FALSE)
        ELSE @[i]],
     !.error_status = IF \E i \in added : page[i] = "malformed"
                      THEN "BRIDGE" ELSE @]

(* The bridge lists the shards after the first total_pointers, at most     *)
(* PointerLimit of them, and an empty list once there are no more.         *)
PageIndex(s) == {i \in Index : /\ i >= s.total_pointers
                               /\ i < s.total_pointers + PointerLimit
                               /\ i < file.shards}

PointersAnswered(s) ==
  IF PageIndex(s) = {}
  THEN Step([s EXCEPT !.pointers_completed = TRUE])
  ELSE \E page \in [PageIndex(s) -> Entry] : Step(AppendPointers(s, page))

AfterRequestPointers ==
  /\ Outstanding("pointers", 0)
  /\ LET s == [Complete(state, <<"pointers", 0>>) EXCEPT
                 !.requesting_pointers = FALSE]
     IN \/ PointersAnswered(s)
        \/ Step(PointerRequestFailed(s))
        \/ Step(Fail(s, "BRIDGE"))    \* 4xx, a rate limit, or not an array

-----------------------------------------------------------------------------
(* after_request_replace_pointer *)

(* Wrong on purpose: the pointer is left waiting for its replacement. *)
ReplacementForgotten(s, i) == s

(* Wrong on purpose: a replacement that keeps failing is never given up. *)
ReplacementRetried(s, i) ==
  [s EXCEPT !.pointer_fail_count = (@ + 1) % STORJ_MAX_POINTER_TRIES,
            !.pointers[i] = Marked(@, POINTER_ERROR_REPORTED)]

ReplacementFailed(s, i) ==
  IF s.pointer_fail_count + 1 >= STORJ_MAX_POINTER_TRIES
  THEN [s EXCEPT !.pointer_fail_count = 0,
                 !.pointers[i] = Marked(@, POINTER_MISSING)]
  ELSE [s EXCEPT !.pointer_fail_count = @ + 1,
                 !.pointers[i] = Marked(@, POINTER_ERROR_REPORTED)]

(* 4xx: there is no other farmer for this shard. *)
ReplacementRefused(s, i) ==
  [s EXCEPT !.pointers[i] = Marked(@, POINTER_MISSING)]

Replaced(s, i, entry) ==
  [s EXCEPT !.pointers[i] = SetPointer(@, entry, TRUE)]

AfterRequestReplacePointer(i) ==
  /\ Outstanding("replace", i)
  /\ LET s == [Complete(state, <<"replace", i>>) EXCEPT
                 !.requesting_pointers = FALSE]
     IN \/ \E entry \in Entry \ {"malformed"} :
             \/ Step(Replaced(s, i, entry))
             \/ Step(Fail(Replaced(s, i, entry), "BRIDGE"))  \* another index
        \/ Step(ReplacementRefused(s, i))
        \/ Step(ReplacementFailed(s, i))
        \/ Step(Fail(s, "BRIDGE"))   \* a rate limit, or a malformed answer

-----------------------------------------------------------------------------
(* after_request_shard *)

(* A job that uv_cancel removed from the pool comes back with status       *)
(* UV_ECANCELED and the request as it was queued: no error, and times      *)
(* never written.  The callback does not look at that status.              *)
ShardResult(i) ==
  IF i \in state.dequeued
  THEN [error : {FALSE}, stored : {FALSE}, timed : BOOLEAN]
  ELSE {[error |-> FALSE, stored |-> TRUE, timed |-> TRUE],
        [error |-> TRUE, stored |-> FALSE, timed |-> TRUE]}

(* Wrong on purpose: a failed shard is tried again at the same farmer. *)
AnsweredForRetry(p, result) ==
  [p EXCEPT
     !.timed = result.timed,
     !.status = IF result.error THEN POINTER_CREATED ELSE POINTER_DOWNLOADED]

Answered(p, result) ==
  [p EXCEPT
     !.timed = result.timed,
     !.status = IF result.error THEN POINTER_ERROR ELSE POINTER_DOWNLOADED]

(* Wrong on purpose: the slot of the download is not given back. *)
ShardKeepsSlot(s, i, result) ==
  [s EXCEPT
     !.dequeued = @ \ {i},
     !.fetched = IF result.stored THEN @ \cup {i} ELSE @,
     !.pointers[i] = Answered(@, result)]

ShardDone(s, i, result) ==
  [s EXCEPT
     !.resolving_shards = @ - 1,
     !.dequeued = @ \ {i},
     !.fetched = IF result.stored THEN @ \cup {i} ELSE @,
     !.pointers[i] = Answered(@, result)]

AfterRequestShard(i) ==
  /\ Outstanding("shard", i)
  /\ \E result \in ShardResult(i) :
       Step(ShardDone(Complete(state, <<"shard", i>>), i, result))

-----------------------------------------------------------------------------
(* after_send_exchange_report: a reported failure may now be replaced. *)

(* Wrong on purpose: replaceable although its report will be sent again. *)
ReportedAtOnce(p, accepted) ==
  [p EXCEPT
     !.send_status = IF accepted THEN 2 ELSE 0,
     !.status = IF @ = POINTER_ERROR THEN POINTER_ERROR_REPORTED ELSE @]

Reported(p, accepted) ==
  LET settled == accepted \/ p.send_count >= STORJ_MAX_REPORT_TRIES IN
  [p EXCEPT
     !.send_status = IF accepted THEN 2 ELSE 0,
     !.status = IF settled /\ @ = POINTER_ERROR THEN POINTER_ERROR_REPORTED
                                                ELSE @]

ReportDone(s, i, accepted) == [s EXCEPT !.pointers[i] = Reported(@, accepted)]

AfterSendExchangeReport(i) ==
  /\ Outstanding("report", i)
  /\ \E accepted \in BOOLEAN :
       Step(ReportDone(Complete(state, <<"report", i>>), i, accepted))

-----------------------------------------------------------------------------
(* after_request_info *)

(* determine_decryption_key runs whatever the erasure code, and may fail. *)
InfoAnswered(s, key) ==
  [s EXCEPT
     !.info = TRUE,
     !.rs = @ \/ file.erasure = "reedsolomon",
     !.truncated = @ /\ file.erasure # "reedsolomon",
     !.error_status = IF ~ key THEN "MEMORY"
                      ELSE IF file.erasure = "other" THEN "BRIDGE" ELSE @]

InfoRequestFailed(s) ==
  IF s.info_fail_count + 1 >= STORJ_MAX_INFO_TRIES
  THEN Fail([s EXCEPT !.info_fail_count = 0], "BRIDGE")
  ELSE [s EXCEPT !.info_fail_count = @ + 1]

AfterRequestInfo ==
  /\ Outstanding("info", 0)
  /\ LET s == [Complete(state, <<"info", 0>>) EXCEPT !.requesting_info = FALSE]
     IN \/ \E key \in BOOLEAN : Step(InfoAnswered(s, key))
        \/ Step(InfoRequestFailed(s))
        \/ Step(Fail(s, "BRIDGE"))    \* not authorized, not found

-----------------------------------------------------------------------------
(* after_recover_shards *)

Recovered(s) ==
  [s EXCEPT
     !.completed_shards = @ + s.total_pointers,
     !.pointers = [i \in Index |->
        IF i \in Allocated(s) THEN Marked(@[i], POINTER_FINISHED)
                              ELSE @[i]]]

AfterRecoverShards ==
  /\ Outstanding("recover", 0)
  /\ LET s == [Complete(state, <<"recover", 0>>) EXCEPT
                 !.recovering_shards = FALSE, !.truncated = TRUE]
     IN \/ Step(Recovered(s))
        \/ Step(Fail(s, "RECOVERY"))

-----------------------------------------------------------------------------
(* Wrong on purpose: a cancel that leaves the error status as it was. *)
CancelWithoutError ==
  /\ ~ state.finished
  /\ ~ state.canceled
  /\ state' = [state EXCEPT !.canceled = TRUE]
  /\ UNCHANGED file

(* storj_bridge_resolve_file_cancel, called by the application while it    *)
(* still owns the handle: finished_cb ends its right to use it.  uv_cancel *)
(* succeeds on the shard jobs no pool thread has started yet.              *)
ResolveFileCancel ==
  /\ ~ state.finished
  /\ ~ state.canceled
  /\ \E dequeued \in SUBSET WithStatus(state, POINTER_BEING_DOWNLOADED) :
       state' = [state EXCEPT !.canceled = TRUE,
                              !.error_status = "CANCELED",
                              !.dequeued = dequeued]
  /\ UNCHANGED file

AfterWork ==
  \/ AfterRequestPointers
  \/ AfterRequestInfo
  \/ AfterRecoverShards
  \/ \E i \in Index : \/ AfterRequestReplacePointer(i)
                      \/ AfterRequestShard(i)
                      \/ AfterSendExchangeReport(i)

Next == AfterWork \/ ResolveFileCancel

Spec == Init /\ [][Next]_vars

(* Every job ends (its HTTP request has a time limit or a low speed limit) *)
(* and the loop thread runs the callback of every job that ended.  This is *)
(* weak fairness of each callback, with its enabling condition, which is   *)
(* that its job is outstanding, written out: TLC would look for a whole    *)
(* successor of every callback in every state to find it enabled.          *)
Fairness ==
  /\ []<> ~ Outstanding("pointers", 0) \/ []<><<AfterRequestPointers>>_vars
  /\ []<> ~ Outstanding("info", 0) \/ []<><<AfterRequestInfo>>_vars
  /\ []<> ~ Outstanding("recover", 0) \/ []<><<AfterRecoverShards>>_vars
  /\ \A i \in Index :
       /\ []<> ~ Outstanding("replace", i)
            \/ []<><<AfterRequestReplacePointer(i)>>_vars
       /\ []<> ~ Outstanding("shard", i) \/ []<><<AfterRequestShard(i)>>_vars
       /\ []<> ~ Outstanding("report", i)
            \/ []<><<AfterSendExchangeReport(i)>>_vars

FairSpec == Spec /\ Fairness

-----------------------------------------------------------------------------
(* Properties.                                                             *)

JobsOf(s, kinds) == {job \in s.work : job[1] \in kinds}

(* Every value is of the kind its C declaration gives it. *)
TypeOK == file \in Files /\ state \in StateType

(* The counters and flags that decide what is queued next agree with the   *)
(* jobs that are really outstanding: pending_work_count, resolving_shards, *)
(* and requesting_pointers, requesting_info and recovering_shards, each of *)
(* which stands for at most one job (downloader.c counts by hand in every  *)
(* callback, and frees the state when the count says zero).                *)
CountersMatchWork ==
  /\ state.pending_work_count = Cardinality(state.work)
  /\ state.resolving_shards = Cardinality(JobsOf(state, {"shard"}))
  /\ Cardinality(JobsOf(state, {"pointers", "replace"}))
       = IF state.requesting_pointers THEN 1 ELSE 0
  /\ JobsOf(state, {"info"}) # {} <=> state.requesting_info
  /\ JobsOf(state, {"recover"}) # {} <=> state.recovering_shards

(* The state is freed as soon as finished_cb returns; no job whose         *)
(* callback will dereference it is outstanding then, and finished_cb is    *)
(* called at most once.                                                    *)
NoUseAfterFree ==
  /\ state.finished => state.work = {}
  /\ Len(state.callbacks) = IF state.finished THEN 1 ELSE 0

(* Both: the books are right, and what is freed by them is used no more.   *)
BookkeepingExact == CountersMatchWork /\ NoUseAfterFree

(* set_pointer_from_json frees the token, the hash and the report of the   *)
(* pointer it replaces.  A shard download holds the first two and a report *)
(* job the third, so neither may be outstanding for a pointer while its    *)
(* replacement is on the way.                                              *)
ReplacementOwnsPointer ==
  \A i \in Index :
    Outstanding("replace", i) => ~ Outstanding("shard", i) /\ ~ Outstanding("report", i)

(* recover_shards reads every shard that is not among its erasures from    *)
(* the destination file: all of those have been stored, all pointers are   *)
(* known, and there are no more erasures than parity shards (none at all   *)
(* for a file without erasure code).  While it rewrites that file no       *)
(* download writes to it, but for a download whose pointer was given up    *)
(* while it was running, which recovery treats as an erasure.              *)
RecoverySound ==
  Outstanding("recover", 0) =>
    /\ Allocated(state) \ state.zilch \subseteq state.fetched
    /\ state.total_pointers = file.shards
    /\ Cardinality(state.zilch) <= IF state.rs THEN file.parity ELSE 0
    /\ \A i \in Index : Outstanding("shard", i) => state.rs /\ i \in state.zilch

(* finished_cb says success only for a file all of whose shards the bridge *)
(* listed and recovery went through, whose info arrived, whose hmac is not *)
(* known to be wrong, and that was not canceled.  (An empty list of        *)
(* pointers is the one case that needs no info.)                           *)
SuccessMeansWholeFile ==
  state.callbacks = <<"OK">> =>
    /\ state.completed_shards = file.shards
    /\ file.shards > 0 => state.info
    /\ state.info => file.integrity # "mismatch"
    /\ ~ state.canceled

(* As long as nothing failed and there is something left to recover, each  *)
(* pointer in a passing status has the job outstanding that will move it   *)
(* on, or waits for a slot that is in use, or behind a pointer given up;   *)
(* and no more slots are in use than there are.                            *)
NoForgottenPointer ==
  /\ Cardinality(JobsOf(state, {"shard"})) <= STORJ_DOWNLOAD_CONCURRENCY
  /\ state.error_status = "OK" /\ ~ AllRecovered(state) =>
       \A i \in Allocated(state) :
         LET p == state.pointers[i] IN
         /\ p.status = POINTER_CREATED =>
              \/ Outstanding("info", 0)
              \/ state.resolving_shards >= STORJ_DOWNLOAD_CONCURRENCY
         /\ p.status = POINTER_BEING_DOWNLOADED => Outstanding("shard", i)
         /\ p.status = POINTER_ERROR => Outstanding("report", i)
         /\ p.status = POINTER_BEING_REPLACED => Outstanding("replace", i)
         /\ p.status = POINTER_ERROR_REPORTED =>
              state.requesting_pointers \/ Missing(state) # {}

(* A download with nothing outstanding has finished, or has just given up  *)
(* on a pointer of a Reed-Solomon file: that pass of                       *)
(* queue_request_pointers requests nothing, and there is no next pass.     *)
StalledByGivingUp ==
  /\ state.rs
  /\ Missing(state) # {}
  /\ state.error_status \in {"OK", "CANCELED"}
  /\ \/ ~ state.pointers_completed
     \/ WithStatus(state, POINTER_ERROR_REPORTED) # {}

IdleOnlyWhenDone == state.work = {} => state.finished \/ StalledByGivingUp

(* Once the download has failed or was canceled nothing is queued any      *)
(* more: the outstanding jobs only drain, and the error stays an error.    *)
DrainsAfterError ==
  [][state.error_status # "OK" => /\ state'.work \subseteq state.work
                                  /\ state'.error_status # "OK"]_vars

(* The download is a transfer: the callback comes once, after the last     *)
(* job, nothing is started after a cancel and no canceled download reports *)
(* success.                                                                *)
Promise == INSTANCE Transfer WITH
  Jobs      <- JobKind \X Index,
  Results   <- ErrorStatus,
  Success   <- "OK",
  running   <- state.work,
  canceled  <- state.canceled,
  callbacks <- state.callbacks

KeepsPromise == Promise!TransferSpec

(* A download of a file without Reed-Solomon parity ends with finished_cb, *)
(* whatever the bridge and the farmers answer: every retry is bounded.     *)
Terminates == file.erasure # "reedsolomon" => <>state.finished

(* "This method is called after each individual work is complete, and will *)
(* determine and queue the next set of work ... Once the file is           *)
(* completely downloaded, it will call the finished callback"              *)
(* (downloader.h): only the end of a job makes a download go on, so one    *)
(* with nothing outstanding has called finished_cb.                        *)
CallsFinishedCallback == state.work = {} => state.finished

(* A canceled download that is not already stalled reports to finished_cb. *)
CancelTerminates == state.canceled /\ state.work # {} ~> state.finished

(* Both: a download ends.                                                  *)
DownloadEnds == Terminates /\ CancelTerminates

(* "A pointer will begin as created, and move forward until an error       *)
(* occurs, in which case it will start moving backwards from the error     *)
(* state until it has been replaced" (downloader.h).  The exception comes  *)
(* of replace_count, which is at its cap from the last replacement on: a   *)
(* pointer is given up while its shard is on the way.  The late answer     *)
(* then moves it on from POINTER_MISSING, or, when it is late enough for   *)
(* the others to have been recovered without it, from POINTER_FINISHED;    *)
(* and an error that is late may be reported, and the pointer replaced,    *)
(* during the recovery and after it.                                       *)
MovesForward(i) ==
  LET old == state.pointers[i].status
      new == state'.pointers[i].status
      late == \E kind \in {"shard", "replace"} : Outstanding(kind, i)
  IN /\ old >= POINTER_CREATED =>
          \/ new >= old \/ new = POINTER_ERROR
          \/ old \in {POINTER_MISSING, POINTER_FINISHED} /\ late
     /\ old \in {POINTER_ERROR, POINTER_ERROR_REPORTED} =>
          new <= old \/ new \in {POINTER_MISSING, POINTER_FINISHED}

PointersMoveForward == [][\A i \in Index : MovesForward(i)]_vars

=============================================================================
