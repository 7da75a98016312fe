------------------------------- MODULE Wrapper -------------------------------
(***************************************************************************)
(* The transfers of the wrapper (StorjWrapper.m), among its other calls.   *)
(* uploadFile and downloadFile start a transfer, look once more at its     *)
(* state, and return the address of that state as a handle, or -1.  The    *)
(* state is freed when the transfer has ended (Download, Upload); the      *)
(* application hears of that in a block on the main queue, and names the   *)
(* transfer by its handle in a cancel until then.                          *)
(*                                                                         *)
(* Of a transfer only its promise is here (Transfer): it runs, may note an *)
(* error, and ends once, in the thread that runs the loop.                 *)
(***************************************************************************)
EXTENDS Looper

CONSTANT MaxTransfers   \* a bound on the transfers of the application

ASSUME WrapperAssumption == MaxTransfers \in Nat

VARIABLES
  transfer,   \* the state of each transfer, its handle, what was told of it
  starting,   \* the transfer whose state is not looked at yet, or 0
  misused     \* something freed was used: the behaviour ends

transfer_vars == <<transfer, starting, misused>>

wrapper_vars == <<vars, transfer_vars>>

Transfers == 1..MaxTransfers

TransferKinds == {"upload", "download"}

-----------------------------------------------------------------------------
(* error_status is whether it is set; handle what the application holds;   *)
(* block what the block on the main queue will tell; late that the wrapper *)
(* looked at the state when it was freed already.                          *)
NewTransfer(kind, stage, e, handle, told) ==
  [kind |-> kind, stage |-> stage, onEnvironment |-> e, error_status |-> FALSE,
   canceled |-> FALSE, handle |-> handle, told |-> told, block |-> "none",
   late |-> FALSE]

NoTransfer == NewTransfer("none", "unused", 0, "none", <<>>)

WrapperInit ==
  /\ Init
  /\ transfer = [t \in Transfers |-> NoTransfer]
  /\ starting = 0
  /\ misused = FALSE

Active(e) ==
  {t \in Transfers : transfer[t].onEnvironment = e /\ transfer[t].stage = "running"}

NextTransfer(t) ==
  /\ transfer[t].stage = "unused"
  /\ \A u \in Transfers : u < t => transfer[u].stage # "unused"

Free == app = "idle" /\ starting = 0

-----------------------------------------------------------------------------
(* uploadFile and downloadFile without keys.                               *)
TransferRefused(t, kind) ==
  /\ Free
  /\ ~keys
  /\ NextTransfer(t)
  /\ transfer' = [transfer EXCEPT ![t] =
                    NewTransfer(kind, "refused", 0, "-1", <<"error">>)]
  /\ UNCHANGED <<vars, starting, misused>>

(* The local file cannot be read or made, which is told to nobody, or, for *)
(* a download, not be opened.                                              *)
NoLocalFile(t, kind) ==
  /\ Free
  /\ NextTransfer(t)
  /\ TransferEnvironment
  /\ \E told \in {<<>>} \union {x \in {<<"error">>} : kind = "download"} :
       transfer' = [transfer EXCEPT ![t] =
                      NewTransfer(kind, "refused", 0, "-1", told)]
  /\ UNCHANGED <<starting, misused>>

(* Up to the return of storj_bridge_store_file or ..._resolve_file.        *)
StartTransfer(t, kind) ==
  /\ Free
  /\ NextTransfer(t)
  /\ TransferEnvironment
  /\ transfer' = [transfer EXCEPT ![t] =
                    NewTransfer(kind, "running", _env', "none", <<>>)]
  /\ starting' = t
  /\ UNCHANGED misused

(* What state->error_status reads as; of freed memory, anything.           *)
ReadError(t) ==
  IF transfer[t].stage = "running" THEN {transfer[t].error_status} ELSE BOOLEAN

(* An error that is there makes both return -1, and downloadFile tell it   *)
(* at once; the transfer goes on to its end.                               *)
Looked(t, error) ==
  [transfer[t] EXCEPT
     !.handle = IF error THEN "-1" ELSE "held",
     !.told = IF error /\ transfer[t].kind = "download" THEN Append(@, "error") ELSE @,
     !.late = transfer[t].stage = "freed"]

LookAtError ==
  /\ starting # 0
  /\ \E error \in ReadError(starting) :
       transfer' = [transfer EXCEPT ![starting] = Looked(starting, error)]
  /\ starting' = 0
  /\ UNCHANGED <<vars, misused>>

(* The application has a handle, and has not heard of the end: it may      *)
(* cancel, or will drop the handle when it hears.                          *)
Cancelable(t) == transfer[t].handle = "held" /\ transfer[t].told = <<>>

(* Wrong on purpose: the cancel does not count as an error.                *)
CanceledOnly(t) == [transfer[t] EXCEPT !.canceled = TRUE]

Canceled(t) == [transfer[t] EXCEPT !.canceled = TRUE, !.error_status = TRUE]

(* cancelUpload and cancelDownload.                                        *)
cancel(t) ==
  /\ Free
  /\ Cancelable(t)
  /\ IF transfer[t].stage = "running"
     THEN transfer' = [transfer EXCEPT ![t] = Canceled(t)] /\ UNCHANGED misused
     ELSE misused' = TRUE /\ UNCHANGED transfer
  /\ UNCHANGED <<vars, starting>>

-----------------------------------------------------------------------------
(* A callback of the transfer notes an error, with jobs still to drain.    *)
Failed(t) == [transfer[t] EXCEPT !.error_status = TRUE]

NotesError(t) ==
  /\ transfer[t].stage = "running"
  /\ ~transfer[t].error_status
  /\ Runners(transfer[t].onEnvironment) # {}
  /\ transfer' = [transfer EXCEPT ![t] = Failed(t)]
  /\ UNCHANGED <<vars, starting, misused>>

(* Wrong on purpose: an error that is logged is told to nobody.            *)
ErrorOnlyLogged(t, result) ==
  [transfer[t] EXCEPT !.stage = "freed",
                      !.block = IF result = "error" THEN "none" ELSE result]

(* The last callback: finished_cb is file_upload_completion_callback or    *)
(* file_download_completion_callback, which dispatch a block; the state is *)
(* freed.                                                                  *)
Ended(t, result) ==
  [transfer[t] EXCEPT !.stage = "freed", !.block = result]

TransferEnds(t) ==
  /\ transfer[t].stage = "running"
  /\ Runners(transfer[t].onEnvironment) # {}
  /\ \E result \in {"error"} \union {x \in {"success"} : ~transfer[t].error_status} :
       transfer' = [transfer EXCEPT ![t] = Ended(t, result)]
  /\ UNCHANGED <<vars, starting, misused>>

(* The main thread runs the block.                                         *)
Told(t) ==
  [transfer[t] EXCEPT !.told = Append(@, transfer[t].block), !.block = "none"]

RunTransferBlock(t) ==
  /\ transfer[t].block # "none"
  /\ transfer' = [transfer EXCEPT ![t] = Told(t)]
  /\ UNCHANGED <<vars, starting, misused>>

(* A transfer runs on an environment that was destroyed.                   *)
TransferFault ==
  /\ \E e \in destroyed : Active(e) # {}
  /\ misused' = TRUE
  /\ UNCHANGED <<vars, transfer, starting>>

TransferNext ==
  \E t \in Transfers :
    \/ \E kind \in TransferKinds :
         TransferRefused(t, kind) \/ NoLocalFile(t, kind) \/ StartTransfer(t, kind)
    \/ cancel(t) \/ NotesError(t) \/ TransferEnds(t) \/ RunTransferBlock(t)

(* The other calls are made between the starts of transfers, and uv_run    *)
(* does not return while a transfer is on its loop.                        *)
WrapperNext ==
  /\ process = "running" /\ ~misused
  /\ \/ TransferNext \/ LookAtError \/ TransferFault
     \/ /\ \/ Application /\ starting = 0
           \/ \E c \in Calls : uv_run(c) \/ (request_worker(c) /\ UNCHANGED env_vars)
           \/ RunBlock /\ UNCHANGED env_vars
           \/ \E n \in DOMAIN looper :
                EnterLoop(n) \/ (LeaveLoop(n) /\ Active(looper[n]) = {})
           \/ Fault
        /\ UNCHANGED transfer_vars

(* The pool runs what is queued, each thread that runs a loop gets on, the *)
(* application does not stop half way in a call of the wrapper, the main   *)
(* thread gets to its queue, and an upload ends (Upload); of a coded       *)
(* download that is not so (Download).                                     *)
Running(A) == process = "running" /\ ~misused /\ A

Going(A) == Running(A /\ UNCHANGED transfer_vars)

WrapperFairness ==
  /\ \A c \in Calls :
       /\ WF_wrapper_vars(Going(request_worker(c) /\ UNCHANGED env_vars))
       /\ WF_wrapper_vars(Going(uv_run(c)))
  /\ \A n \in 1..MaxEnvironments :
       WF_wrapper_vars(Going(n \in DOMAIN looper /\ EnterLoop(n)))
  /\ WF_wrapper_vars(Going(LeaveOwnLoop))
  /\ WF_wrapper_vars(Going(Verified))
  /\ WF_wrapper_vars(Going(KeysImported))
  /\ WF_wrapper_vars(Going(RunBlock /\ UNCHANGED env_vars))
  /\ WF_wrapper_vars(Running(LookAtError))
  /\ \A t \in Transfers :
       /\ WF_wrapper_vars(Running(transfer[t].kind = "upload" /\ TransferEnds(t)))
       /\ WF_wrapper_vars(Running(RunTransferBlock(t)))

WrapperSpec == WrapperInit /\ [][WrapperNext]_wrapper_vars /\ WrapperFairness

-----------------------------------------------------------------------------
WrapperTypeOK ==
  /\ TypeOK
  /\ \A t \in Transfers :
       /\ transfer[t].kind \in TransferKinds \union {"none"}
       /\ transfer[t].stage \in {"unused", "refused", "running", "freed"}
       /\ transfer[t].onEnvironment \in 0..made
       /\ transfer[t].handle \in {"none", "held", "-1"}
       /\ transfer[t].block \in {"none", "success", "error"}
       /\ transfer[t].told \in Seq({"success", "error"})
  /\ starting \in 0..MaxTransfers

(* The application hears of a transfer once, but for a download whose      *)
(* error downloadFile saw, which it hears of twice; it is never told       *)
(* success and error, unless downloadFile looked too late; and what it     *)
(* canceled is not told to have succeeded.                                 *)
TransferToldTruly ==
  \A t \in Transfers :
    LET told == {transfer[t].told[i] : i \in DOMAIN transfer[t].told} IN
    /\ Len(transfer[t].told) <= 1
         \/ /\ Len(transfer[t].told) = 2
            /\ transfer[t].kind = "download" /\ transfer[t].handle = "-1"
    /\ Cardinality(told) <= 1 \/ transfer[t].late
    /\ transfer[t].canceled => "success" \notin told

(* A handle that the application may use names a transfer that runs, but   *)
(* while the block that tells of its end waits on the main queue; only     *)
(* then, and after an import of keys over an environment, is a freed state *)
(* used.  A transfer that runs without a handle, so that nobody can cancel *)
(* it, has failed and drains.                                              *)
HandlesNameTransfers ==
  /\ \A t \in Transfers :
       /\ Cancelable(t) => transfer[t].stage = "running" \/ transfer[t].block # "none"
       /\ transfer[t].handle = "-1" /\ transfer[t].stage = "running"
            => transfer[t].error_status
  /\ misused => replaced \/ \E t \in Transfers : Cancelable(t) /\ transfer[t].block # "none"

(* The process is gone, what was freed is used, or keys were imported over *)
(* an environment: nothing is promised.                                    *)
Over == process # "running" \/ misused \/ replaced

(* A list of buckets that the bridge gave without any bucket in it.        *)
NoBuckets(c) ==
  /\ call[c].kind = "get_buckets" /\ call[c].stage = "freed"
  /\ call[c].status_code \in {200, 304} /\ call[c].total = 0

(* Every call tells the application its outcome in the end, every upload   *)
(* that was started, and every download that has ended; the one call it    *)
(* may wait for in vain is a list of buckets without buckets.              *)
EverythingAnswered ==
  /\ \A c \in Calls :
       call[c].stage # "unused" ~> Over \/ call[c].told # <<>> \/ NoBuckets(c)
  /\ \A t \in Transfers :
       transfer[t].stage \in {"running", "freed"} ~>
         \/ Over \/ transfer[t].told # <<>>
         \/ transfer[t].kind = "download" /\ transfer[t].stage = "running"

(* registerUser and verifyKeys get back to the application, but for that   *)
(* case.                                                                   *)
VerifyReturns ==
  app \in {"registering", "verifying", "waiting"} ~>
    \/ Over \/ app \notin {"registering", "verifying", "waiting"}
    \/ \E c \in Calls : onEnvironment[c] = own /\ NoBuckets(c)

(* Both: what the application waits for comes.                             *)
WaitsEnd == EverythingAnswered /\ VerifyReturns

=============================================================================
