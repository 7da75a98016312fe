---------------------------- MODULE DownloadStart ----------------------------
(***************************************************************************)
(* The start of a download that the wrapper asks for.                      *)
(*                                                                         *)
(* storj_bridge_resolve_file calls queue_next_work itself.  The command    *)
(* line client does so before it runs the loop, so that the first pass is  *)
(* over when the first callback runs: Init of Download.  _downloadFile of  *)
(* StorjWrapper.m does so in the thread of the application, while a thread *)
(* of startLooper runs the loop: the callbacks come between the statements *)
(* of the first pass, and between its end and the look that _downloadFile  *)
(* takes at state->error_status.                                           *)
(*                                                                         *)
(* The first pass is taken apart where it writes what callbacks read or    *)
(* write; a callback is still one step, and so is the pass's remainder,    *)
(* which does nothing unless callbacks have brought the file info.         *)
(***************************************************************************)
EXTENDS Download

VARIABLES
  caller,    \* the statement the application's thread comes to next
  counted    \* pending_work_count as queue_request_info has read it

startVars == <<vars, caller, counted>>

-----------------------------------------------------------------------------
(* storj_bridge_resolve_file, up to queue_next_work.                       *)
StartInit ==
  /\ file \in Files
  /\ state = NewState
  /\ caller = "pointers"
  /\ counted = 0

(* The caller's next statement, on a state that was not freed.             *)
At(statement, next) ==
  /\ caller = statement
  /\ caller' = next
  /\ ~state.finished
  /\ UNCHANGED file

(* queue_request_pointers: the first page, and last of all its flag.       *)
QueuePointers ==
  /\ At("pointers", "requesting_pointers")
  /\ state' = Queue(state, {<<"pointers", 0>>})
  /\ UNCHANGED counted

SetRequestingPointers ==
  /\ At("requesting_pointers", "requesting_info")
  /\ state' = [state EXCEPT !.requesting_pointers = TRUE]
  /\ UNCHANGED counted

(* queue_request_info, where pending_work_count++ is a load and a store.   *)
InfoIsThere ==
  /\ At("requesting_info", "rest")
  /\ state.info \/ state.requesting_info
  /\ UNCHANGED <<state, counted>>

SetRequestingInfo ==
  /\ At("requesting_info", "load")
  /\ ~state.info /\ ~state.requesting_info
  /\ state' = [state EXCEPT !.requesting_info = TRUE]
  /\ UNCHANGED counted

LoadCount ==
  /\ At("load", "store")
  /\ counted' = state.pending_work_count
  /\ UNCHANGED state

StoreCount ==
  /\ At("store", "info")
  /\ state' = [state EXCEPT !.pending_work_count = counted + 1]
  /\ UNCHANGED counted

QueueInfo ==
  /\ At("info", "rest")
  /\ state' = [state EXCEPT !.work = @ \cup {<<"info", 0>>}]
  /\ UNCHANGED counted

(* The rest of queue_next_work: shards, recovery and reports.              *)
QueueRest ==
  /\ At("rest", "error_status")
  /\ state' = QueueMore(IF state.info THEN queue_request_shards(state) ELSE state)
  /\ UNCHANGED counted

(* _downloadFile looks at error_status, and returns the handle or -1.      *)
LookAtError ==
  /\ At("error_status", "returned")
  /\ UNCHANGED <<state, counted>>

FirstPass ==
  \/ QueuePointers \/ SetRequestingPointers
  \/ InfoIsThere \/ SetRequestingInfo \/ LoadCount \/ StoreCount \/ QueueInfo
  \/ QueueRest \/ LookAtError

(* The looper runs the callback of a job that has ended.                   *)
LooperRuns ==
  /\ ~state.finished
  /\ AfterWork
  /\ UNCHANGED <<caller, counted>>

StartNext == FirstPass \/ LooperRuns

StartSpec == StartInit /\ [][StartNext]_startVars

-----------------------------------------------------------------------------
(* Between the statements of an update the books may differ.               *)
Updating == caller \in {"requesting_pointers", "load", "store", "info"}

(* "The state is all managed within one thread, the event loop thread"     *)
(* (storj.h): then a pass is over before the next callback runs, so that   *)
(* outside an update the counters and flags agree with the jobs            *)
(* outstanding, and the state is not freed while a pass or its caller uses *)
(* it.                                                                     *)
ManagedInOneThread ==
  /\ Updating \/ CountersMatchWork
  /\ caller # "returned" => ~state.finished

=============================================================================
