------------------------------ MODULE BridgeCalls ------------------------------
(***************************************************************************)
(* The bridge calls of the wrapper: a request is made and queued by a      *)
(* storj_bridge_* function (storj.c), a pool thread runs its worker, which *)
(* fills in what fetch_json (http.c) got, and the completion callback      *)
(* (StorjCompletionCallbacks.m) looks at it, tells the application and     *)
(* frees it.  Some callbacks tell the application in a block they dispatch *)
(* to the main queue, when the request is freed already.                   *)
(*                                                                         *)
(* Looper.tla says which thread runs a callback, and when.                 *)
(***************************************************************************)
EXTENDS Integers, Sequences

CONSTANTS
  MaxCalls,     \* a bound on the calls of the application
  StatusCodes   \* the codes of HTTP that the bridge may answer with

ASSUME CallAssumption ==
  /\ MaxCalls \in Nat
  /\ StatusCodes \subseteq Nat

VARIABLES
  call,       \* the request of each call, and what the application was told
  main,       \* the main queue: blocks that have not run
  process     \* "running", "exited" or "crashed"

call_vars == <<call, main, process>>

Calls == 1..MaxCalls

-----------------------------------------------------------------------------
Kinds == {"register", "get_info", "get_buckets", "create_bucket",
          "delete_bucket", "list_files", "delete_file"}

Lists == {"get_buckets", "list_files"}

(* What the bridge may answer, as far as the worker and the callback tell  *)
(* it apart: JSON as the call expects it, other JSON such as an error or   *)
(* an empty list, or nothing that can be parsed.                           *)
Responses(kind) ==
  CASE kind \in Lists -> {"expected", "other"}
    [] kind = "get_info" -> {"NULL", "expected", "other"}
    [] kind = "create_bucket" -> {"NULL", "expected"}
    [] OTHER -> {"other"}

(* readFreed is history: the request was read after it was freed.          *)
NewRequest(kind, stage, told) ==
  [kind |-> kind, stage |-> stage, error_code |-> 0, status_code |-> 0,
   response |-> "NULL", total |-> 0, bucket |-> FALSE, readFreed |-> FALSE, told |-> told]

NoRequest == NewRequest("none", "unused", <<>>)

CallInit ==
  /\ call = [c \in Calls |-> NoRequest]
  /\ main = <<>>
  /\ process = "running"

(* json_request_new and its kin, and uv_queue_work.                        *)
Queued(kind) == NewRequest(kind, "queued", <<>>)

(* fetch_json: a status and maybe a response, or the error code of curl.   *)
fetch_json(kind) ==
  {[error_code |-> 7, status_code |-> 0, response |-> "NULL"]}
    \union [error_code : {0}, status_code : StatusCodes, response : Responses(kind)]

(* The worker of the call, in a pool thread.                               *)
Answered(r, got) ==
  [kind |-> r.kind, stage |-> "returned", told |-> r.told,
   error_code |-> got.error_code, status_code |-> got.status_code,
   response |-> got.response,
   total |-> IF r.kind \in Lists /\ got.response = "expected" THEN 1 ELSE 0,
   bucket |-> r.kind = "create_bucket" /\ got.response # "NULL",
   readFreed |-> r.readFreed]

request_worker(c) ==
  /\ call[c].stage = "queued"
  /\ \E got \in fetch_json(call[c].kind) :
       call' = [call EXCEPT ![c] = Answered(call[c], got)]
  /\ UNCHANGED <<main, process>>

-----------------------------------------------------------------------------
(* What a completion callback does: what it tells ("success", "error", or  *)
(* "nothing"), whether in a block on the main queue, whether the request   *)
(* is read after the callback has freed it, by the callback itself or by   *)
(* its block, and what becomes of the process.                             *)
Ending(told, became) ==
  [told |-> told, dispatched |-> FALSE, reads |-> FALSE, process |-> became]

Directly(told) == Ending(told, "running")

(* What is read of freed memory may be any number, but only which message  *)
(* is printed and which code is told with the error depend on it.          *)
AfterFree(told, became) ==
  [told |-> told, dispatched |-> FALSE, reads |-> TRUE, process |-> became]

Dispatched(told, reads) ==
  [told |-> told, dispatched |-> TRUE, reads |-> reads, process |-> "running"]

register_completion_callback(r) ==
  Directly(IF r.status_code = 201 THEN "success" ELSE "error")

(* The block of the default case reads req->status_code.                   *)
bucket_delete_completion_callback(r) ==
  CASE r.status_code \in {200, 204} -> Dispatched("success", FALSE)
    [] r.status_code = 401 -> Dispatched("error", FALSE)
    [] OTHER -> Dispatched("error", TRUE)

(* An empty list is success that nobody is told of.                        *)
bucket_list_completion_callback(r) ==
  IF r.status_code \notin {200, 304} THEN Directly("error")
  ELSE Directly(IF r.total > 0 THEN "success" ELSE "nothing")

(* Wrong on purpose: a name that exists counts as created.                 *)
BucketCreateExisting(r) ==
  CASE r.status_code = 401 -> Directly("error")
    [] r.status_code \notin {201, 404} -> Directly("error")
    [] r.bucket -> Directly("success")
    [] OTHER -> Directly("error")

(* After 404 the name of the bucket is printed, without a bucket if the    *)
(* answer had no body.                                                     *)
bucket_create_completion_callback(r) ==
  CASE r.status_code = 404 ->
         Ending("error", IF r.bucket THEN "running" ELSE "crashed")
    [] r.status_code = 401 -> Directly("error")
    [] r.status_code \notin {201, 401, 404} -> Directly("error")
    [] OTHER -> Directly(IF r.bucket THEN "success" ELSE "error")

(* Without an answer the request is freed, its error code is read, for the *)
(* message and for the application, and the process exits; a string the    *)
(* answer lacks raises an exception in initWithUTF8String.  The status is  *)
(* not looked at.                                                          *)
bridge_info_completion_callback(r) ==
  CASE r.error_code # 0 \/ r.response = "NULL" ->
         AfterFree("error", "exited")
    [] r.response = "other" -> Ending("nothing", "crashed")
    [] OTHER -> Directly("success")

file_delete_completion_callback(r) ==
  Directly(IF r.status_code \in {200, 204} THEN "success" ELSE "error")

file_list_completion_callback(r) ==
  Directly(IF r.status_code = 200 THEN "success" ELSE "error")

CompletionCallback(r) ==
  CASE r.kind = "register" -> register_completion_callback(r)
    [] r.kind = "get_info" -> bridge_info_completion_callback(r)
    [] r.kind = "get_buckets" -> bucket_list_completion_callback(r)
    [] r.kind = "create_bucket" -> bucket_create_completion_callback(r)
    [] r.kind = "delete_bucket" -> bucket_delete_completion_callback(r)
    [] r.kind = "list_files" -> file_list_completion_callback(r)
    [] r.kind = "delete_file" -> file_delete_completion_callback(r)

(* The request at the end of the callback: what the properties ask about   *)
(* is remembered.                                                          *)
Finished(r, told, late) ==
  [kind |-> r.kind, stage |-> "freed", told |-> told, error_code |-> 0,
   status_code |-> r.status_code, response |-> "NULL", total |-> r.total,
   bucket |-> FALSE, readFreed |-> late]

(* The loop runs the callback, which frees the request.                    *)
Complete(c) ==
  /\ call[c].stage = "returned"
  /\ LET did == CompletionCallback(call[c])
         tells == did.told # "nothing" /\ ~did.dispatched
         told == IF tells THEN Append(call[c].told, did.told) ELSE call[c].told
         late == did.reads /\ ~did.dispatched
     IN /\ call' = [call EXCEPT ![c] = Finished(call[c], told, late)]
        /\ main' = IF did.dispatched
                   THEN Append(main, [call |-> c, told |-> did.told, reads |-> did.reads])
                   ELSE main
        /\ process' = did.process

(* The main thread runs the next block: here always after the request is   *)
(* freed, the worse of the two orders.                                     *)
RunBlock ==
  /\ main # <<>>
  /\ main' = Tail(main)
  /\ call' = [call EXCEPT ![Head(main).call].told = Append(@, Head(main).told),
                          ![Head(main).call].readFreed = @ \/ Head(main).reads]
  /\ UNCHANGED process

(* The next call of the application.                                       *)
Unused(c) ==
  /\ call[c].stage = "unused"
  /\ \A d \in Calls : d < c => call[d].stage # "unused"

(* The wrapper itself tells the application that there are no keys.        *)
Refuse(c, kind) ==
  /\ Unused(c)
  /\ call' = [call EXCEPT ![c] = NewRequest(kind, "refused", <<"error">>)]
  /\ UNCHANGED <<main, process>>

-----------------------------------------------------------------------------
CallTypeOK ==
  /\ \A c \in Calls :
       /\ call[c].kind \in Kinds \union {"none"}
       /\ call[c].stage \in {"unused", "queued", "returned", "freed", "refused"}
       /\ call[c].response \in {"NULL", "expected", "other"}
       /\ call[c].told \in Seq({"success", "error"})
       /\ call[c].readFreed \in BOOLEAN
  /\ \A b \in DOMAIN main : main[b].call \in Calls
  /\ process \in {"running", "exited", "crashed"}

=============================================================================
