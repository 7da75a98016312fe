-------------------------------- MODULE Looper --------------------------------
(***************************************************************************)
(* The environments of the wrapper and the threads that run their event    *)
(* loops (StorjWrapper.m).  The application's own calls go to the loop of  *)
(* _env, which a thread of startLooper runs for ever; registerUser and     *)
(* verifyKeys make an environment of their own and run its loop in the     *)
(* thread of the application.                                              *)
(*                                                                         *)
(* The application is one thread.  Environments are numbered as they are   *)
(* made, 0 is NULL; a pointer to a destroyed one keeps its number.         *)
(***************************************************************************)
EXTENDS BridgeCalls, FiniteSets

CONSTANT MaxEnvironments     \* a bound on storj_init_env

ASSUME LooperAssumption == MaxEnvironments \in Nat

VARIABLES
  _env,          \* what the wrapper points to
  made,          \* how many environments were made
  destroyed,     \* destroyEnvironment was called on them
  onEnvironment, \* of each call
  looper,        \* for each thread of startLooper: the environment whose
                 \* loop it runs, 0 before it looks at _env
  app,           \* where the application's thread is
  own,           \* the environment of its own that it runs
  keys,          \* _keys, or the file they are in
  replaced       \* importKeys has destroyed an environment

env_vars == <<_env, made, destroyed, onEnvironment, looper, app, own, keys, replaced>>

vars == <<call_vars, env_vars>>

-----------------------------------------------------------------------------
Init ==
  /\ CallInit
  /\ _env = 0
  /\ made = 0
  /\ destroyed = {}
  /\ onEnvironment = [c \in Calls |-> 0]
  /\ looper = <<>>
  /\ app = "idle"
  /\ own = 0
  /\ keys \in BOOLEAN
  /\ replaced = FALSE

Outstanding(e) ==
  {c \in Calls : onEnvironment[c] = e /\ call[c].stage \in {"queued", "returned"}}

(* Wrong on purpose: a thread is started for every call.                   *)
CheckStartsLooper ==
  /\ keys
  /\ looper' = Append(looper, 0)
  /\ IF _env = 0
     THEN made < MaxEnvironments /\ made' = made + 1 /\ _env' = made + 1
     ELSE UNCHANGED <<_env, made>>

(* checkEnvironment, which makes the first environment and its thread.     *)
checkEnvironment ==
  /\ keys
  /\ IF _env = 0
     THEN /\ made < MaxEnvironments
          /\ made' = made + 1
          /\ _env' = made + 1
          /\ looper' = Append(looper, 0)
     ELSE UNCHANGED <<_env, made, looper>>

BridgeCall(c, kind) ==
  /\ app = "idle"
  /\ Unused(c)
  /\ kind \in Kinds \ {"register", "get_info"}
  /\ checkEnvironment
  /\ call' = [call EXCEPT ![c] = Queued(kind)]
  /\ onEnvironment' = [onEnvironment EXCEPT ![c] = _env']
  /\ UNCHANGED <<main, process, destroyed, app, own, keys, replaced>>

NoEnvironment(c, kind) ==
  /\ app = "idle"
  /\ ~keys
  /\ kind \in Kinds \ {"register", "get_info"}
  /\ Refuse(c, kind)
  /\ UNCHANGED env_vars

(* A transfer is started (Wrapper.tla): what it does here is to check the  *)
(* environment.                                                            *)
TransferEnvironment ==
  /\ app = "idle"
  /\ checkEnvironment
  /\ UNCHANGED <<call_vars, destroyed, onEnvironment, app, own, keys, replaced>>

(* getBridgeInfo does not check the environment.                           *)
getBridgeInfo(c) ==
  /\ app = "idle"
  /\ Unused(c)
  /\ IF _env = 0
     THEN process' = "crashed" /\ UNCHANGED <<call, onEnvironment>>
     ELSE /\ call' = [call EXCEPT ![c] = Queued("get_info")]
          /\ onEnvironment' = [onEnvironment EXCEPT ![c] = _env]
          /\ UNCHANGED process
  /\ UNCHANGED <<main, _env, made, destroyed, looper, app, own, keys, replaced>>

(* registerUser and verifyKeysWithUserEmail, up to runEventLoop.           *)
OnOwnEnvironment(c, kind) ==
  /\ app = "idle"
  /\ Unused(c)
  /\ made < MaxEnvironments
  /\ made' = made + 1
  /\ own' = made + 1
  /\ app' = IF kind = "register" THEN "registering" ELSE "verifying"
  /\ call' = [call EXCEPT ![c] = Queued(kind)]
  /\ onEnvironment' = [onEnvironment EXCEPT ![c] = made + 1]
  /\ UNCHANGED <<main, process, _env, destroyed, looper, keys, replaced>>

registerUser(c) == OnOwnEnvironment(c, "register")
verifyKeys(c) == OnOwnEnvironment(c, "get_buckets")

(* Wrong on purpose: the environment is destroyed after one round.         *)
LeaveOwnLoopAtOnce ==
  /\ app \in {"registering", "verifying"}
  /\ destroyed' = destroyed \union {own}
  /\ IF app = "verifying"
     THEN app' = "waiting" /\ UNCHANGED own
     ELSE app' = "idle" /\ own' = 0
  /\ UNCHANGED <<call_vars, _env, made, onEnvironment, looper, keys, replaced>>

(* runEventLoop has returned: nothing is active on the loop.               *)
LeaveOwnLoop ==
  /\ app \in {"registering", "verifying"}
  /\ Outstanding(own) = {}
  /\ destroyed' = destroyed \union {own}
  /\ IF app = "verifying"
     THEN app' = "waiting" /\ UNCHANGED own
     ELSE app' = "idle" /\ own' = 0
  /\ UNCHANGED <<call_vars, _env, made, onEnvironment, looper, keys, replaced>>

(* while(!isCompleted) of verifyKeysWithUserEmail.                         *)
Verified ==
  /\ app = "waiting"
  /\ \E c \in Calls : onEnvironment[c] = own /\ call[c].told # <<>>
  /\ app' = "idle"
  /\ own' = 0
  /\ UNCHANGED <<call_vars, _env, made, destroyed, onEnvironment, looper, keys, replaced>>

(* importKeys, up to destroyEnvironment: uv_loop_close refuses a loop that *)
(* is active, but what it returns is not looked at.  _env still points to  *)
(* what was freed.                                                         *)
importKeys ==
  /\ app = "idle"
  /\ made < MaxEnvironments
  /\ keys' = TRUE
  /\ app' = "importing"
  /\ destroyed' = IF _env = 0 THEN destroyed ELSE destroyed \union {_env}
  /\ replaced' = (replaced \/ _env # 0)
  /\ UNCHANGED <<call_vars, _env, made, onEnvironment, looper, own>>

KeysImported ==
  /\ app = "importing"
  /\ made' = made + 1
  /\ _env' = made + 1
  /\ looper' = Append(looper, 0)
  /\ app' = "idle"
  /\ UNCHANGED <<call_vars, destroyed, onEnvironment, own, keys, replaced>>

(* The environment of the deleted keys is still there, and still run.      *)
deleteAuthFile ==
  /\ app = "idle"
  /\ keys
  /\ keys' = FALSE
  /\ UNCHANGED <<call_vars, _env, made, destroyed, onEnvironment, looper, app, own,
                 replaced>>

(* Wrong on purpose: the thread stays with its first environment.          *)
EnterLoopOnce(t) ==
  /\ looper[t] = 0
  /\ _env = t
  /\ looper' = [looper EXCEPT ![t] = _env]
  /\ UNCHANGED <<call_vars, _env, made, destroyed, onEnvironment, app, own, keys,
                 replaced>>

(* A thread of startLooper: while(_env) [self runEventLoop: _env].         *)
EnterLoop(t) ==
  /\ looper[t] = 0
  /\ _env # 0
  /\ looper' = [looper EXCEPT ![t] = _env]
  /\ UNCHANGED <<call_vars, _env, made, destroyed, onEnvironment, app, own, keys,
                 replaced>>

(* uv_run has returned zero.                                               *)
LeaveLoop(t) ==
  /\ looper[t] # 0
  /\ Outstanding(looper[t]) = {}
  /\ looper' = [looper EXCEPT ![t] = 0]
  /\ UNCHANGED <<call_vars, _env, made, destroyed, onEnvironment, app, own, keys,
                 replaced>>

(* Who runs the loop of an environment: threads of startLooper and, under  *)
(* the number 0, the application's own.                                    *)
Runners(e) ==
  {t \in DOMAIN looper : looper[t] = e}
    \union {t \in {0} : app \in {"registering", "verifying"} /\ own = e}

uv_run(c) ==
  /\ Runners(onEnvironment[c]) # {}
  /\ Complete(c)
  /\ UNCHANGED env_vars

(* What was freed is used, by a worker, by a thread that runs the loop, or *)
(* by two threads at once: nothing may come of it, or a crash.             *)
Misuse ==
  \E e \in 1..made :
    \/ e \in destroyed /\ (Runners(e) # {} \/ Outstanding(e) # {})
    \/ Cardinality(Runners(e)) > 1

Fault ==
  /\ Misuse
  /\ process' = "crashed"
  /\ UNCHANGED <<call, main, env_vars>>

Application ==
  \/ \E c \in Calls :
       \/ \E kind \in Kinds : BridgeCall(c, kind) \/ NoEnvironment(c, kind)
       \/ getBridgeInfo(c) \/ registerUser(c) \/ verifyKeys(c)
  \/ LeaveOwnLoop \/ Verified \/ importKeys \/ KeysImported \/ deleteAuthFile

Next ==
  /\ process = "running"
  /\ \/ Application
     \/ TransferEnvironment
     \/ \E c \in Calls : uv_run(c) \/ (request_worker(c) /\ UNCHANGED env_vars)
     \/ RunBlock /\ UNCHANGED env_vars
     \/ \E t \in DOMAIN looper : EnterLoop(t) \/ LeaveLoop(t)
     \/ Fault

(* What is fair is said in Wrapper.tla.                                    *)
Spec == Init /\ [][Next]_vars

-----------------------------------------------------------------------------
TypeOK ==
  /\ CallTypeOK
  /\ made \in 0..MaxEnvironments /\ _env \in 0..made /\ own \in 0..made
  /\ destroyed \subseteq 1..made
  /\ onEnvironment \in [Calls -> 0..made]
  /\ Len(looper) <= made /\ \A t \in DOMAIN looper : looper[t] \in 0..made
  /\ app \in {"idle", "registering", "verifying", "waiting", "importing"}

(* The application hears of each call at most once, whichever thread tells *)
(* it: the thread that made the call, a looper, or the main thread; and of *)
(* success only for a call that the bridge accepted.                       *)
Accepted(kind) ==
  CASE kind = "register" -> {201}
    [] kind = "create_bucket" -> {201}
    [] kind = "get_buckets" -> {200, 304}
    [] kind = "list_files" -> {200}
    [] kind = "get_info" -> StatusCodes
    [] OTHER -> {200, 204}

ToldOnceAndTruly ==
  \A c \in Calls :
    /\ Len(call[c].told) <= 1
    /\ call[c].told = <<"success">> => call[c].status_code \in Accepted(call[c].kind)

(* A callback frees its request, and neither the rest of it nor a block    *)
(* that it left on the main queue looks at the request again, but for two: *)
(* the block for a bucket that could not be deleted, and the callback of   *)
(* the bridge's information without an answer, which then ends the process.*)
FreedRequestsRead ==
  \A c \in Calls :
    call[c].readFreed =>
      \/ call[c].kind = "delete_bucket" /\ call[c].status_code \notin {200, 204, 401}
      \/ call[c].kind = "get_info" /\ process # "running"

(* As long as keys are not imported over an environment that is there, no  *)
(* loop is run by two threads, and no environment is destroyed while its   *)
(* loop runs or a request uses its options.                                *)
MisuseOnlyAfterImport == Misuse => replaced

(* Both: what is freed is not used, with these three exceptions: the two   *)
(* requests, and an environment that keys were imported over.              *)
NothingFreedUsed == FreedRequestsRead /\ MisuseOnlyAfterImport

=============================================================================
