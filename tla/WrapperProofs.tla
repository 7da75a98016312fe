---------------------------- MODULE WrapperProofs ----------------------------
(***************************************************************************)
(* Proofs about Wrapper for any number of transfers, calls and             *)
(* environments: it implements Looper, so that what is proved of the calls *)
(* holds among transfers; the application is told truly of each transfer;  *)
(* and its handles name what is there, but for a window at the end.        *)
(***************************************************************************)
EXTENDS Wrapper, LooperProofs

-----------------------------------------------------------------------------
(* The inductive invariant.                                                *)
Words == {"success", "error"}

ToldSoFar ==
  {<<>>} \union {<<x>> : x \in Words} \union {<<x, y>> : x, y \in Words}

TransferState ==
  [kind : TransferKinds \union {"none"},
   stage : {"unused", "refused", "running", "freed"},
   onEnvironment : Nat, error_status : BOOLEAN, canceled : BOOLEAN,
   handle : {"none", "held", "-1"},
   told : ToldSoFar, block : Words \union {"none"}, late : BOOLEAN]

(* downloadFile has told the error that it saw.                            *)
ToldDirectly(r) ==
  r.kind = "download" /\ r.handle = "-1" /\ r.stage \in {"running", "freed"}

BeforeEnd(r) == r.told = IF ToldDirectly(r) THEN <<"error">> ELSE <<>>

(* What was told when: nothing but the error seen until the block has run, *)
(* and then what it said as well, before or after.                         *)
AfterEnd(r) ==
  \E x \in Words :
    /\ IF ToldDirectly(r) THEN r.told \in {<<x, "error">>, <<"error", x>>}
                          ELSE r.told = <<x>>
    /\ x = "success" => ~r.error_status

Consistent(r) ==
  /\ r.stage = "unused" => r.told = <<>> /\ r.handle = "none"
  /\ r.stage = "refused" => r.told \in {<<>>, <<"error">>} /\ r.handle = "-1"
  /\ r.stage \in {"unused", "refused"} => ~r.canceled
  /\ r.stage # "freed" => r.block = "none"
  /\ r.stage = "running" => BeforeEnd(r) /\ ~r.late
  /\ r.stage = "freed" => IF r.block = "none" THEN AfterEnd(r) ELSE BeforeEnd(r)
  /\ r.block = "success" => ~r.error_status
  /\ r.canceled => r.error_status
  /\ r.handle = "-1" /\ r.stage \in {"running", "freed"} => r.error_status \/ r.late

(* Until keys are imported over it a transfer runs on the one environment. *)
OnTheEnvironment(r) ==
  /\ r.onEnvironment \in 0..made
  /\ r.stage = "running" /\ ~replaced => r.onEnvironment = _env /\ _env # 0

WindowOnly ==
  misused => replaced \/ \E t \in Transfers : Cancelable(t) /\ transfer[t].block # "none"

TransferInv ==
  /\ transfer \in [Transfers -> TransferState]
  /\ \A t \in Transfers : Consistent(transfer[t]) /\ OnTheEnvironment(transfer[t])
  /\ starting \in 0..MaxTransfers
  /\ starting # 0 => transfer[starting].stage \in {"running", "freed"}
                     /\ transfer[starting].handle = "none"
  /\ WindowOnly

-----------------------------------------------------------------------------
(* Each step of the wrapper is one of the environments, or none.           *)
LEMMA StepOfLooper ==
  ASSUME [WrapperNext]_wrapper_vars
  PROVE  [Next]_vars
<1>1. CASE UNCHANGED wrapper_vars
  BY <1>1 DEF wrapper_vars
<1>2. CASE WrapperNext /\ TransferNext
  <2>1. process = "running"
    BY <1>2 DEF WrapperNext
  <2>2. TransferEnvironment \/ UNCHANGED vars
    BY <1>2 DEF TransferNext, TransferRefused, NoLocalFile, StartTransfer, cancel,
                NotesError, TransferEnds, RunTransferBlock
  <2> QED
    BY <2>1, <2>2 DEF Next
<1>3. CASE WrapperNext /\ (LookAtError \/ TransferFault)
  BY <1>3 DEF LookAtError, TransferFault
<1>4. CASE /\ WrapperNext
           /\ \/ Application
              \/ \E c \in Calls : uv_run(c) \/ (request_worker(c) /\ UNCHANGED env_vars)
              \/ RunBlock /\ UNCHANGED env_vars
              \/ \E n \in DOMAIN looper : EnterLoop(n) \/ LeaveLoop(n)
              \/ Fault
  BY <1>4 DEF WrapperNext, Next
<1> QED
  BY <1>1, <1>2, <1>3, <1>4 DEF WrapperNext

(* The wrapper with its transfers implements the environments and their    *)
(* threads.                                                                *)
THEOREM WrapperImplementsLooper == WrapperSpec => Spec
<1>1. [WrapperNext]_wrapper_vars => [Next]_vars
  BY StepOfLooper
<1>2. WrapperInit => Init
  BY DEF WrapperInit
<1> QED
  BY <1>1, <1>2, PTL DEF WrapperSpec, Spec

(* The environment stays until keys are imported over it.                  *)
LEMMA EnvironmentStays ==
  ASSUME IInv, [Next]_vars
  PROVE  /\ made \in Nat /\ made' \in Nat /\ made <= made'
         /\ ~replaced' => ~replaced /\ (_env # 0 => _env' = _env)
<1>1. /\ made \in Nat /\ OneLooper
  BY LooperAssumption DEF IInv, EnvInv, EnvTypes
<1>2. CASE UNCHANGED env_vars
  BY <1>1, <1>2 DEF env_vars
<1>3. ASSUME UNCHANGED <<_env, made, replaced>>
      PROVE  /\ made \in Nat /\ made' \in Nat /\ made <= made'
             /\ ~replaced' => ~replaced /\ (_env # 0 => _env' = _env)
  BY <1>1, <1>3
<1>4. CASE checkEnvironment /\ UNCHANGED replaced
  BY <1>1, <1>4 DEF checkEnvironment
<1>5. CASE importKeys
  <2>1. made' = made /\ _env' = _env
    BY <1>5 DEF importKeys
  <2>2. ~replaced' => ~replaced
    BY <1>5, Zenon DEF importKeys
  <2> QED
    BY <1>1, <2>1, <2>2
<1>6. CASE KeysImported
  BY <1>1, <1>6 DEF KeysImported, OneLooper
<1>7. ASSUME NEW c \in Calls, NEW kind, OnOwnEnvironment(c, kind)
      PROVE  /\ made \in Nat /\ made' \in Nat /\ made <= made'
             /\ ~replaced' => ~replaced /\ (_env # 0 => _env' = _env)
  BY <1>1, <1>7 DEF OnOwnEnvironment
<1>8. CASE Application
  <2>1. CASE \E c \in Calls, kind \in Kinds : BridgeCall(c, kind)
    BY <1>4, <2>1 DEF BridgeCall
  <2>2. CASE \E c \in Calls, kind \in Kinds : NoEnvironment(c, kind)
    BY <1>2, <2>2 DEF NoEnvironment
  <2>3. CASE \E c \in Calls : getBridgeInfo(c)
    BY <1>3, <2>3 DEF getBridgeInfo
  <2>4. CASE \E c \in Calls : registerUser(c) \/ verifyKeys(c)
    BY <1>7, <2>4 DEF registerUser, verifyKeys
  <2>5. CASE LeaveOwnLoop \/ Verified \/ deleteAuthFile
    BY <1>3, <2>5 DEF LeaveOwnLoop, Verified, deleteAuthFile
  <2> QED
    BY <1>5, <1>6, <1>8, <2>1, <2>2, <2>3, <2>4, <2>5 DEF Application
<1>9. CASE TransferEnvironment
  BY <1>4, <1>9 DEF TransferEnvironment
<1>10. CASE \E n \in DOMAIN looper : EnterLoop(n) \/ LeaveLoop(n)
  BY <1>3, <1>10 DEF EnterLoop, LeaveLoop
<1>11. CASE \/ \E c \in Calls : uv_run(c) \/ (request_worker(c) /\ UNCHANGED env_vars)
            \/ RunBlock /\ UNCHANGED env_vars
            \/ Fault
  BY <1>2, <1>11 DEF uv_run, Fault
<1>12. CASE UNCHANGED vars
  BY <1>2, <1>12 DEF vars
<1> QED
  BY <1>8, <1>9, <1>10, <1>11, <1>12 DEF Next

-----------------------------------------------------------------------------
LEMMA AppendWord ==
  ASSUME NEW x \in Words, NEW y \in Words
  PROVE  Append(<<>>, x) = <<x>> /\ Append(<<y>>, x) = <<y, x>>
<1>1. Append(<<>>, x) = <<x>>
  OBVIOUS
<1>2. Append(<<y>>, x) = <<y, x>>
  <2>1. /\ <<y>> \in Seq(Words) /\ <<y, x>> \in Seq(Words)
        /\ Append(<<y>>, x) \in Seq(Words)
    OBVIOUS
  <2>2. Len(Append(<<y>>, x)) = 2 /\ Len(<<y, x>>) = 2
    BY <2>1
  <2>3. \A i \in 1..2 : Append(<<y>>, x)[i] = <<y, x>>[i]
    BY <2>1
  <2> QED
    BY <2>1, <2>2, <2>3, SeqEqual
<1> QED
  BY <1>1, <1>2

LEMMA NewTransferState ==
  ASSUME NEW kind \in TransferKinds \union {"none"},
         NEW stage \in {"unused", "refused", "running"}, NEW e \in Nat,
         NEW handle \in {"none", "held", "-1"}, NEW told \in {<<>>, <<"error">>},
         stage = "unused" => told = <<>> /\ handle = "none",
         stage = "refused" => handle = "-1",
         stage = "running" => told = <<>> /\ handle = "none"
  PROVE  /\ NewTransfer(kind, stage, e, handle, told) \in TransferState
         /\ Consistent(NewTransfer(kind, stage, e, handle, told))
<1>1. told \in ToldSoFar
  BY DEF Words, ToldSoFar
<1>2. NewTransfer(kind, stage, e, handle, told) \in TransferState
  BY <1>1 DEF NewTransfer, TransferState, Words
<1> QED
  BY <1>2 DEF NewTransfer, Consistent, BeforeEnd, ToldDirectly

(* A step that makes one transfer r.                                       *)
LEMMA OneChanges ==
  ASSUME TransferInv, IInv, [Next]_vars,
         NEW t \in Transfers, NEW r \in TransferState, Consistent(r),
         transfer' = [transfer EXCEPT ![t] = r],
         r.onEnvironment \in 0..made',
         r.stage = "running" /\ ~replaced' => r.onEnvironment = _env' /\ _env' # 0,
         starting' \in 0..MaxTransfers,
         starting' # 0 => /\ transfer'[starting'].stage \in {"running", "freed"}
                          /\ transfer'[starting'].handle = "none",
         ~misused'
  PROVE  TransferInv'
<1>1. transfer' \in [Transfers -> TransferState]
  BY DEF TransferInv
<1>2. ASSUME NEW u \in Transfers
      PROVE  Consistent(transfer'[u]) /\ OnTheEnvironment(transfer[u])'
  <2>1. CASE u = t
    BY <2>1 DEF TransferInv, OnTheEnvironment
  <2>2. CASE u # t
    <3>1. transfer'[u] = transfer[u]
      BY <2>2 DEF TransferInv
    <3>2. /\ made \in Nat /\ made' \in Nat /\ made <= made'
          /\ ~replaced' => ~replaced /\ (_env # 0 => _env' = _env)
      BY EnvironmentStays
    <3>3. transfer[u].onEnvironment \in 0..made
      BY DEF TransferInv, OnTheEnvironment
    <3>4. transfer[u].onEnvironment \in 0..made'
      BY <3>2, <3>3
    <3> QED
      BY <3>1, <3>2, <3>4 DEF TransferInv, OnTheEnvironment
  <2> QED
    BY <2>1, <2>2
<1>3. Consistent(transfer[t])' <=> Consistent(transfer'[t])
  OBVIOUS
<1> QED
  BY <1>1, <1>2 DEF TransferInv, WindowOnly, Consistent, BeforeEnd, AfterEnd, ToldDirectly

(* A step of a transfer t that is there, which leaves it where it is.      *)
LEMMA SameEnvironment ==
  ASSUME TransferInv, NEW t \in Transfers, UNCHANGED vars
  PROVE  /\ transfer[t] \in TransferState /\ Consistent(transfer[t])
         /\ transfer[t].onEnvironment \in 0..made'
         /\ transfer[t].stage = "running" /\ ~replaced'
              => transfer[t].onEnvironment = _env' /\ _env' # 0
BY DEF TransferInv, OnTheEnvironment, vars, env_vars

-----------------------------------------------------------------------------
(* The steps of a transfer, one action each.                               *)
LEMMA StartingStep ==
  ASSUME TransferInv, IInv, [Next]_vars, ~misused, NEW t \in Transfers,
         NEW kind \in TransferKinds,
         TransferRefused(t, kind) \/ NoLocalFile(t, kind) \/ StartTransfer(t, kind)
  PROVE  TransferInv'
<1>1. made \in Nat /\ made' \in Nat /\ starting = 0 /\ starting' \in 0..MaxTransfers
  BY EnvironmentStays, WrapperAssumption
     DEF TransferRefused, NoLocalFile, StartTransfer, Free, Transfers
<1>2. ASSUME NEW told \in {<<>>, <<"error">>},
             transfer' = [transfer EXCEPT ![t] =
                            NewTransfer(kind, "refused", 0, "-1", told)],
             UNCHANGED <<starting, misused>>
      PROVE  TransferInv'
  <2> DEFINE r == NewTransfer(kind, "refused", 0, "-1", told)
  <2>1. r \in TransferState /\ Consistent(r)
    BY NewTransferState
  <2>2. r.onEnvironment \in 0..made' /\ r.stage = "refused"
    BY <1>1 DEF NewTransfer
  <2>3. transfer' = [transfer EXCEPT ![t] = r] /\ starting' = 0 /\ ~misused'
    BY <1>1, <1>2
  <2> HIDE DEF r
  <2> QED
    BY <1>1, <2>1, <2>2, <2>3, OneChanges
<1>3. CASE TransferRefused(t, kind)
  BY <1>2, <1>3 DEF TransferRefused
<1>4. CASE NoLocalFile(t, kind)
  <2>1. PICK told \in {<<>>, <<"error">>} :
          transfer' = [transfer EXCEPT ![t] =
                         NewTransfer(kind, "refused", 0, "-1", told)]
    BY <1>4 DEF NoLocalFile
  <2> QED
    BY <1>2, <1>4, <2>1 DEF NoLocalFile
<1>5. CASE StartTransfer(t, kind)
  <2> DEFINE r == NewTransfer(kind, "running", _env', "none", <<>>)
  <2>1. _env' \in 1..made'
    BY <1>5 DEF StartTransfer, TransferEnvironment, checkEnvironment, IInv, EnvInv,
                EnvTypes
  <2>2. r \in TransferState /\ Consistent(r)
    BY <1>1, <2>1, NewTransferState
  <2>3. r.onEnvironment = _env' /\ r.stage = "running" /\ r.handle = "none"
    BY DEF NewTransfer
  <2>4. transfer' = [transfer EXCEPT ![t] = r] /\ starting' = t /\ ~misused'
    BY <1>5 DEF StartTransfer
  <2>5. transfer'[t] = r
    BY <2>4 DEF TransferInv
  <2> HIDE DEF r
  <2>6. /\ r.onEnvironment \in 0..made'
        /\ r.stage = "running" /\ ~replaced' => r.onEnvironment = _env' /\ _env' # 0
    BY <1>1, <2>1, <2>3
  <2>7. starting' # 0 => /\ transfer'[starting'].stage \in {"running", "freed"}
                         /\ transfer'[starting'].handle = "none"
    BY <2>3, <2>4, <2>5
  <2> QED
    BY <1>1, <2>2, <2>4, <2>6, <2>7, OneChanges
<1> QED
  BY <1>3, <1>4, <1>5

LEMMA CancelStep ==
  ASSUME TransferInv, IInv, [Next]_vars, ~misused, NEW t \in Transfers, cancel(t)
  PROVE  TransferInv'
<1>1. /\ UNCHANGED vars /\ starting = 0 /\ starting' = 0
      /\ Cancelable(t)
  BY DEF cancel, Free
<1>2. /\ transfer[t] \in TransferState /\ Consistent(transfer[t])
      /\ transfer[t].onEnvironment \in 0..made'
      /\ transfer[t].stage = "running" /\ ~replaced'
           => transfer[t].onEnvironment = _env' /\ _env' # 0
  BY <1>1, SameEnvironment
<1>3. CASE transfer[t].stage = "running"
  <2> DEFINE r == Canceled(t)
  <2>1. r \in TransferState
    BY <1>2 DEF Canceled, TransferState
  <2>2. /\ r.stage = "running" /\ r.canceled /\ r.error_status
        /\ r.kind = transfer[t].kind /\ r.onEnvironment = transfer[t].onEnvironment
        /\ r.handle = transfer[t].handle /\ r.told = transfer[t].told
        /\ r.block = transfer[t].block /\ r.late = transfer[t].late
    BY <1>2, <1>3 DEF Canceled, TransferState
  <2>3. Consistent(r)
    BY <1>1, <1>2, <1>3, <2>2 DEF Consistent, BeforeEnd, ToldDirectly, Cancelable
  <2>4. transfer' = [transfer EXCEPT ![t] = r] /\ ~misused'
    BY <1>3 DEF cancel
  <2>5. starting' \in 0..MaxTransfers
    BY <1>1, WrapperAssumption
  <2> HIDE DEF r
  <2>6. /\ r.onEnvironment \in 0..made'
        /\ r.stage = "running" /\ ~replaced' => r.onEnvironment = _env' /\ _env' # 0
    BY <1>2, <1>3, <2>2
  <2> QED
    BY <1>1, <2>1, <2>3, <2>4, <2>5, <2>6, OneChanges
<1>4. CASE transfer[t].stage # "running"
  <2>1. transfer[t].block # "none"
    BY <1>1, <1>2, <1>4 DEF TransferState, Consistent, AfterEnd, Cancelable, Words
  <2>2. UNCHANGED transfer
    BY <1>4 DEF cancel
  <2>3. Cancelable(t)' /\ transfer'[t].block # "none"
    BY <1>1, <2>1, <2>2 DEF Cancelable
  <2>4. WindowOnly'
    BY <2>3 DEF WindowOnly
  <2>5. UNCHANGED <<made, _env, replaced>>
    BY <1>1 DEF vars, env_vars
  <2> QED
    BY <1>1, <2>2, <2>4, <2>5 DEF TransferInv, OnTheEnvironment, Consistent, BeforeEnd,
                                  AfterEnd, ToldDirectly
<1> QED
  BY <1>3, <1>4

(* The steps after which starting is as before, and the transfer, too, but *)
(* for what the application learns of it.                                  *)
LEMMA GoesOn ==
  ASSUME TransferInv, IInv, [Next]_vars, ~misused, NEW t \in Transfers,
         UNCHANGED <<vars, misused>>, starting' \in {0, starting},
         NEW r \in TransferState, Consistent(r),
         transfer' = [transfer EXCEPT ![t] = r],
         r.onEnvironment = transfer[t].onEnvironment,
         r.stage = "running" => transfer[t].stage = "running",
         starting' = t => r.stage \in {"running", "freed"} /\ r.handle = "none"
  PROVE  TransferInv'
<1>1. /\ transfer[t].onEnvironment \in 0..made'
      /\ transfer[t].stage = "running" /\ ~replaced'
           => transfer[t].onEnvironment = _env' /\ _env' # 0
  BY SameEnvironment
<1>2. /\ r.onEnvironment \in 0..made'
      /\ r.stage = "running" /\ ~replaced' => r.onEnvironment = _env' /\ _env' # 0
  BY <1>1
<1>3. starting' \in 0..MaxTransfers
  BY WrapperAssumption DEF TransferInv
<1>4. starting' # 0 => /\ transfer'[starting'].stage \in {"running", "freed"}
                       /\ transfer'[starting'].handle = "none"
  <2>1. CASE starting' = t
    BY <2>1 DEF TransferInv
  <2>2. CASE starting' # t
    <3>1. starting' # 0 => /\ starting' = starting /\ starting \in Transfers
                           /\ transfer'[starting] = transfer[starting]
      BY <2>2, WrapperAssumption DEF TransferInv, Transfers
    <3> QED
      BY <3>1 DEF TransferInv
  <2> QED
    BY <2>1, <2>2
<1>5. ~misused'
  OBVIOUS
<1> QED
  BY <1>2, <1>3, <1>4, <1>5, OneChanges

LEMMA NotesErrorStep ==
  ASSUME TransferInv, IInv, [Next]_vars, ~misused, NEW t \in Transfers, NotesError(t)
  PROVE  TransferInv'
<1> DEFINE r == Failed(t)
<1>1. transfer[t] \in TransferState /\ Consistent(transfer[t])
  BY DEF TransferInv
<1>2. r \in TransferState
  BY <1>1 DEF Failed, TransferState
<1>3. /\ r.stage = "running" /\ transfer[t].stage = "running" /\ r.error_status
      /\ r.kind = transfer[t].kind /\ r.onEnvironment = transfer[t].onEnvironment
      /\ r.handle = transfer[t].handle /\ r.told = transfer[t].told
      /\ r.block = transfer[t].block /\ r.late = transfer[t].late
      /\ r.canceled = transfer[t].canceled
  BY <1>1 DEF Failed, TransferState, NotesError
<1>4. Consistent(r)
  BY <1>1, <1>3 DEF Consistent, BeforeEnd, ToldDirectly
<1>5. starting' = t => r.handle = "none"
  BY <1>3 DEF TransferInv, NotesError, Transfers
<1>6. /\ transfer' = [transfer EXCEPT ![t] = r]
      /\ UNCHANGED <<vars, misused>> /\ starting' \in {0, starting}
  BY DEF NotesError
<1> HIDE DEF r
<1> QED
  BY <1>2, <1>3, <1>4, <1>5, <1>6, GoesOn

LEMMA TransferEndsStep ==
  ASSUME TransferInv, IInv, [Next]_vars, ~misused, NEW t \in Transfers,
         TransferEnds(t)
  PROVE  TransferInv'
<1>1. PICK result \in Words :
        /\ result = "success" => ~transfer[t].error_status
        /\ transfer' = [transfer EXCEPT ![t] = Ended(t, result)]
  BY DEF TransferEnds, Words
<1> DEFINE r == Ended(t, result)
<1>2. transfer[t] \in TransferState /\ Consistent(transfer[t])
      /\ transfer[t].stage = "running"
  BY DEF TransferInv, TransferEnds
<1>3. r \in TransferState
  BY <1>2 DEF Ended, TransferState
<1>4. /\ r.stage = "freed" /\ r.block = result
      /\ r.kind = transfer[t].kind /\ r.onEnvironment = transfer[t].onEnvironment
      /\ r.handle = transfer[t].handle /\ r.told = transfer[t].told
      /\ r.late = transfer[t].late /\ r.canceled = transfer[t].canceled
      /\ r.error_status = transfer[t].error_status
  BY <1>2 DEF Ended, TransferState
<1>5. Consistent(r)
  BY <1>1, <1>2, <1>4 DEF Consistent, BeforeEnd, ToldDirectly, Words
<1>6. starting' = t => r.handle = "none"
  BY <1>4 DEF TransferInv, TransferEnds, Transfers
<1>7. UNCHANGED <<vars, misused>> /\ starting' \in {0, starting}
  BY DEF TransferEnds
<1> HIDE DEF r
<1>8. transfer' = [transfer EXCEPT ![t] = r]
  BY <1>1 DEF r
<1> QED
  BY <1>3, <1>4, <1>5, <1>6, <1>7, <1>8, GoesOn

LEMMA RunTransferBlockStep ==
  ASSUME TransferInv, IInv, [Next]_vars, ~misused, NEW t \in Transfers,
         RunTransferBlock(t)
  PROVE  TransferInv'
<1> DEFINE r == Told(t)
<1> DEFINE x == transfer[t].block
<1>1. /\ transfer[t] \in TransferState /\ Consistent(transfer[t])
      /\ x \in Words /\ transfer[t].stage = "freed" /\ BeforeEnd(transfer[t])
      /\ x = "success" => ~transfer[t].error_status
  BY DEF TransferInv, TransferState, RunTransferBlock, Consistent
<1>2. /\ r.stage = "freed" /\ r.block = "none" /\ r.told = Append(transfer[t].told, x)
      /\ r.kind = transfer[t].kind /\ r.onEnvironment = transfer[t].onEnvironment
      /\ r.handle = transfer[t].handle
      /\ r.late = transfer[t].late /\ r.canceled = transfer[t].canceled
      /\ r.error_status = transfer[t].error_status
  BY <1>1 DEF Told, TransferState
<1>3. AfterEnd(r) /\ r.told \in ToldSoFar
  <2>1. CASE ToldDirectly(transfer[t])
    <3>1. "error" \in Words /\ transfer[t].told = <<"error">>
      BY <1>1, <2>1 DEF BeforeEnd, Words
    <3>2. r.told = <<"error", x>>
      BY <1>1, <1>2, <3>1, AppendWord
    <3>3. ToldDirectly(r)
      BY <1>1, <1>2, <2>1 DEF ToldDirectly
    <3>4. AfterEnd(r)
      BY <1>1, <1>2, <3>2, <3>3, Zenon DEF AfterEnd
    <3>5. x \in Words
      BY <1>1
    <3>6. <<"error", x>> \in ToldSoFar
      BY <3>1, <3>5 DEF ToldSoFar
    <3> HIDE DEF r, x
    <3> QED
      BY <3>2, <3>4, <3>6
  <2>2. CASE ~ToldDirectly(transfer[t])
    <3>1. r.told = <<x>>
      BY <1>1, <1>2, <2>2, AppendWord DEF BeforeEnd
    <3> QED
      BY <1>1, <1>2, <2>2, <3>1 DEF AfterEnd, ToldDirectly, ToldSoFar
  <2> QED
    BY <2>1, <2>2
<1>4. r \in TransferState
  <2>1. /\ r.told = Append(transfer[t].told, x)
        /\ r = [transfer[t] EXCEPT !.told = Append(transfer[t].told, x), !.block = "none"]
    BY <1>2 DEF Told
  <2> QED
    BY <1>1, <1>3, <2>1 DEF TransferState
<1>5. Consistent(r)
  BY <1>1, <1>2, <1>3 DEF Consistent
<1>6. starting' = t => r.handle = "none"
  BY <1>2 DEF TransferInv, RunTransferBlock, Transfers
<1>7. /\ transfer' = [transfer EXCEPT ![t] = r]
      /\ UNCHANGED <<vars, misused>> /\ starting' \in {0, starting}
  BY DEF RunTransferBlock
<1> HIDE DEF r
<1> QED
  BY <1>2, <1>4, <1>5, <1>6, <1>7, GoesOn

LEMMA LookAtErrorStep ==
  ASSUME TransferInv, IInv, [Next]_vars, ~misused, LookAtError
  PROVE  TransferInv'
<1> DEFINE t == starting
<1>1. /\ t \in Transfers /\ transfer[t] \in TransferState /\ Consistent(transfer[t])
      /\ transfer[t].stage \in {"running", "freed"} /\ transfer[t].handle = "none"
  BY WrapperAssumption DEF TransferInv, LookAtError, Transfers
<1>2. PICK error \in ReadError(t) : transfer' = [transfer EXCEPT ![t] = Looked(t, error)]
  BY DEF LookAtError
<1>3. /\ error \in BOOLEAN
      /\ transfer[t].stage = "running" => error = transfer[t].error_status
  BY <1>1 DEF ReadError, TransferState
<1> DEFINE r == Looked(t, error)
<1> DEFINE direct == error /\ transfer[t].kind = "download"
<1>4. /\ r.handle = (IF error THEN "-1" ELSE "held")
      /\ r.told = (IF direct THEN Append(transfer[t].told, "error") ELSE transfer[t].told)
      /\ r.late = (transfer[t].stage = "freed")
      /\ r.stage = transfer[t].stage /\ r.block = transfer[t].block
      /\ r.kind = transfer[t].kind /\ r.onEnvironment = transfer[t].onEnvironment
      /\ r.canceled = transfer[t].canceled
      /\ r.error_status = transfer[t].error_status
  BY <1>1 DEF Looked, TransferState
<1>5. ToldDirectly(r) <=> direct
  BY <1>1, <1>3, <1>4 DEF ToldDirectly
<1>6. ~ToldDirectly(transfer[t])
  BY <1>1 DEF ToldDirectly
<1>7. ASSUME BeforeEnd(transfer[t])
      PROVE  BeforeEnd(r) /\ r.told \in ToldSoFar
  <2>1. transfer[t].told = <<>>
    BY <1>6, <1>7 DEF BeforeEnd
  <2>2. r.told = IF direct THEN <<"error">> ELSE <<>>
    BY <1>4, <2>1, AppendWord DEF Words
  <2> QED
    BY <1>5, <2>2 DEF BeforeEnd, ToldSoFar, Words
<1>8. ASSUME AfterEnd(transfer[t])
      PROVE  AfterEnd(r) /\ r.told \in ToldSoFar
  <2>1. PICK x \in Words : /\ transfer[t].told = <<x>>
                           /\ x = "success" => ~transfer[t].error_status
    BY <1>6, <1>8 DEF AfterEnd
  <2>2. "error" \in Words
    BY DEF Words
  <2>3. r.told = IF direct THEN <<x, "error">> ELSE <<x>>
    BY <1>4, <2>1, <2>2, AppendWord
  <2> QED
    BY <1>4, <1>5, <2>1, <2>2, <2>3 DEF AfterEnd, ToldSoFar
<1>9. r.told \in ToldSoFar
  BY <1>1, <1>7, <1>8 DEF Consistent
<1>10. r \in TransferState
  BY <1>1, <1>4, <1>9 DEF Looked, TransferState
<1>11. Consistent(r)
  BY <1>1, <1>3, <1>4, <1>7, <1>8 DEF Consistent
<1>12. /\ transfer' = [transfer EXCEPT ![t] = r] /\ starting' = 0
       /\ UNCHANGED <<vars, misused>> /\ starting' \in {0, starting}
  BY <1>2 DEF LookAtError
<1>13. starting' # t
  BY <1>12 DEF LookAtError
<1> HIDE DEF r, direct
<1> QED
  BY <1>1, <1>4, <1>10, <1>11, <1>12, <1>13, GoesOn

(* A step in which no transfer takes part.                                 *)
LEMMA OthersStep ==
  ASSUME TransferInv, IInv, [Next]_vars, UNCHANGED <<transfer, starting>>,
         misused' => misused \/ replaced'
  PROVE  TransferInv'
<1>1. /\ made \in Nat /\ made' \in Nat /\ made <= made'
      /\ ~replaced' => ~replaced /\ (_env # 0 => _env' = _env)
  BY EnvironmentStays
<1>2. \A t \in Transfers : OnTheEnvironment(transfer[t])'
  BY <1>1 DEF TransferInv, OnTheEnvironment
<1>3. \A t \in Transfers : Cancelable(t)' <=> Cancelable(t)
  BY DEF Cancelable
<1>4. WindowOnly'
  BY <1>1, <1>3 DEF TransferInv, WindowOnly
<1> QED
  BY <1>2, <1>4 DEF TransferInv, Consistent, BeforeEnd, AfterEnd, ToldDirectly

LEMMA TransferFaultStep ==
  ASSUME TransferInv, IInv, TransferFault
  PROVE  replaced' /\ UNCHANGED vars
<1>1. PICK e \in destroyed : Active(e) # {}
  BY DEF TransferFault
<1>2. PICK t \in Transfers : /\ transfer[t].onEnvironment = e
                             /\ transfer[t].stage = "running"
  BY <1>1 DEF Active
<1>3. ~replaced => _env \in destroyed
  BY <1>1, <1>2 DEF TransferInv, OnTheEnvironment
<1>4. ~replaced => _env \notin destroyed
  BY DEF IInv, EnvInv, OneLooper
<1>5. UNCHANGED vars
  BY DEF TransferFault
<1> QED
  BY <1>3, <1>4, <1>5 DEF vars, env_vars

-----------------------------------------------------------------------------
LEMMA InitTransferInv ==
  ASSUME WrapperInit
  PROVE  TransferInv
<1>1. /\ transfer = [t \in Transfers |-> NoTransfer] /\ starting = 0 /\ ~misused
      /\ made = 0
  BY DEF WrapperInit, Init
<1>2. NoTransfer \in TransferState /\ Consistent(NoTransfer)
  BY NewTransferState DEF NoTransfer
<1>3. NoTransfer.stage = "unused" /\ NoTransfer.onEnvironment = 0
  BY DEF NoTransfer, NewTransfer
<1> HIDE DEF NoTransfer
<1>4. \A t \in Transfers : transfer[t] = NoTransfer
  BY <1>1
<1>5. \A t \in Transfers : Consistent(transfer[t]) /\ OnTheEnvironment(transfer[t])
  BY <1>1, <1>2, <1>3, <1>4 DEF OnTheEnvironment
<1> QED
  BY <1>1, <1>2, <1>5, WrapperAssumption DEF TransferInv, WindowOnly

LEMMA WrapperNextKeeps ==
  ASSUME TransferInv, IInv, [WrapperNext]_wrapper_vars
  PROVE  TransferInv'
<1>1. [Next]_vars
  BY StepOfLooper
<1>2. CASE UNCHANGED wrapper_vars
  BY <1>1, <1>2, OthersStep DEF wrapper_vars, transfer_vars
<1>3. CASE ~misused /\ TransferNext
  <2>1. PICK t \in Transfers :
          \/ \E kind \in TransferKinds :
               TransferRefused(t, kind) \/ NoLocalFile(t, kind) \/ StartTransfer(t, kind)
          \/ cancel(t) \/ NotesError(t) \/ TransferEnds(t) \/ RunTransferBlock(t)
    BY <1>3 DEF TransferNext
  <2> QED
    BY <1>1, <1>3, <2>1, StartingStep, CancelStep, NotesErrorStep, TransferEndsStep,
       RunTransferBlockStep
<1>4. CASE ~misused /\ LookAtError
  BY <1>1, <1>4, LookAtErrorStep
<1>5. CASE TransferFault
  <2>1. replaced' /\ UNCHANGED <<transfer, starting>>
    BY <1>5, TransferFaultStep DEF TransferFault
  <2> QED
    BY <1>1, <2>1, OthersStep
<1>6. CASE UNCHANGED transfer_vars
  BY <1>1, <1>6, OthersStep DEF transfer_vars
<1> QED
  BY <1>2, <1>3, <1>4, <1>5, <1>6 DEF WrapperNext

(* Of each transfer the application was told what its state says; its      *)
(* states run on the one environment until keys are imported over it.      *)
THEOREM TransferInvariance == WrapperSpec => [](IInv /\ TransferInv)
<1>1. WrapperInit => IInv /\ TransferInv
  BY InitIInv, InitTransferInv DEF WrapperInit
<1>2. IInv /\ TransferInv /\ [WrapperNext]_wrapper_vars => (IInv /\ TransferInv)'
  BY StepOfLooper, NextKeeps, WrapperNextKeeps
<1> QED
  BY <1>1, <1>2, PTL DEF WrapperSpec

(* Every transfer is told of once, or twice when downloadFile saw its      *)
(* error; never as a success and a failure unless that was read from freed *)
(* memory; never as a success when it was canceled.                        *)
THEOREM ToldOfTransfers == WrapperSpec => []TransferToldTruly
<1>1. ASSUME TransferInv PROVE TransferToldTruly
  <2> SUFFICES ASSUME NEW t \in Transfers
      PROVE  LET told == {transfer[t].told[i] : i \in DOMAIN transfer[t].told} IN
             /\ Len(transfer[t].told) <= 1
                  \/ /\ Len(transfer[t].told) = 2
                     /\ transfer[t].kind = "download" /\ transfer[t].handle = "-1"
             /\ Cardinality(told) <= 1 \/ transfer[t].late
             /\ transfer[t].canceled => "success" \notin told
    BY DEF TransferToldTruly
  <2> DEFINE r == transfer[t]
  <2> DEFINE told == {r.told[i] : i \in DOMAIN r.told}
  <2>1. r \in TransferState /\ Consistent(r)
    BY <1>1 DEF TransferInv
  <2> HIDE DEF r
  <2>2. CASE r.told = <<>>
    <3>1. told = {} /\ Len(r.told) = 0
      BY <2>2
    <3> QED
      BY <3>1, FS_EmptySet DEF r
  <2>3. ASSUME NEW x \in Words, r.told = <<x>>
        PROVE  told = {x} /\ Len(r.told) = 1 /\ Cardinality(told) = 1
    <3>1. told = {x} /\ Len(r.told) = 1
      BY <2>3
    <3> QED
      BY <3>1, FS_Singleton
  <2>4. CASE r.stage \in {"unused", "refused"} \/ BeforeEnd(r)
    <3>1. CASE r.told = <<"error">>
      <4>1. told = {"error"} /\ Len(r.told) = 1 /\ Cardinality(told) = 1
        BY <2>3, <3>1 DEF Words
      <4> QED
        BY <4>1 DEF r
    <3> QED
      BY <2>1, <2>2, <2>4, <3>1 DEF Consistent, BeforeEnd
  <2>5. CASE r.stage = "freed" /\ AfterEnd(r)
    <3>1. PICK x \in Words :
            /\ IF ToldDirectly(r) THEN r.told \in {<<x, "error">>, <<"error", x>>}
                                  ELSE r.told = <<x>>
            /\ x = "success" => ~r.error_status
      BY <2>5 DEF AfterEnd
    <3>2. r.canceled => x # "success"
      BY <2>1, <3>1 DEF Consistent
    <3>3. CASE ~ToldDirectly(r)
      <4>1. told = {x} /\ Len(r.told) = 1 /\ Cardinality(told) = 1
        BY <2>3, <3>1, <3>3
      <4> QED
        BY <3>2, <4>1 DEF r
    <3>4. CASE ToldDirectly(r)
      <4>1. told = {x, "error"} /\ Len(r.told) = 2
        BY <3>1, <3>4
      <4>2. r.kind = "download" /\ r.handle = "-1"
        BY <3>4 DEF ToldDirectly
      <4>3. x = "error" => Cardinality(told) = 1
        BY <4>1, FS_Singleton
      <4>4. x = "success" => r.late
        BY <2>1, <2>5, <3>1, <4>2 DEF Consistent
      <4> QED
        BY <3>2, <4>1, <4>2, <4>3, <4>4 DEF r, Words
    <3> QED
      BY <3>3, <3>4
  <2> QED
    BY <2>1, <2>4, <2>5 DEF Consistent, TransferState
<1> QED
  BY <1>1, TransferInvariance, PTL

(* A handle that may be used names a transfer that runs, but while the     *)
(* block that tells of its end waits; what runs without a handle has       *)
(* failed; and nothing freed is used but in that window, or after an       *)
(* import of keys over an environment.                                     *)
THEOREM HandlesName == WrapperSpec => []HandlesNameTransfers
<1>1. ASSUME TransferInv PROVE HandlesNameTransfers
  <2>1. ASSUME NEW t \in Transfers
        PROVE  /\ Cancelable(t) => transfer[t].stage = "running"
                                     \/ transfer[t].block # "none"
               /\ transfer[t].handle = "-1" /\ transfer[t].stage = "running"
                    => transfer[t].error_status
    <3>1. transfer[t] \in TransferState /\ Consistent(transfer[t])
      BY <1>1 DEF TransferInv
    <3>2. ASSUME AfterEnd(transfer[t]) PROVE transfer[t].told # <<>>
      <4>1. PICK x, y \in Words : transfer[t].told \in {<<x>>, <<x, y>>}
        BY <3>2 DEF AfterEnd, Words
      <4>2. <<x>> # <<>> /\ <<x, y>> # <<>>
        OBVIOUS
      <4> QED
        BY <4>1, <4>2
    <3>3. transfer[t].stage \in {"unused", "refused", "running", "freed"}
      BY <3>1 DEF TransferState
    <3> QED
      BY <3>1, <3>2, <3>3 DEF Consistent, Cancelable
  <2> QED
    BY <1>1, <2>1 DEF HandlesNameTransfers, TransferInv, WindowOnly
<1> QED
  BY <1>1, TransferInvariance, PTL

(* Every reachable state of the wrapper has the declared types.            *)
THEOREM WrapperTypeCorrect == WrapperSpec => []WrapperTypeOK
<1>1. ASSUME TransferInv, TypeOK PROVE WrapperTypeOK
  <2>1. ASSUME NEW t \in Transfers
        PROVE  /\ transfer[t].kind \in TransferKinds \union {"none"}
               /\ transfer[t].stage \in {"unused", "refused", "running", "freed"}
               /\ transfer[t].onEnvironment \in 0..made
               /\ transfer[t].handle \in {"none", "held", "-1"}
               /\ transfer[t].block \in {"none", "success", "error"}
               /\ transfer[t].told \in Seq({"success", "error"})
    <3>1. transfer[t] \in TransferState /\ OnTheEnvironment(transfer[t])
      BY <1>1 DEF TransferInv
    <3>2. transfer[t].told \in Seq(Words)
      <4>1. transfer[t].told \in ToldSoFar
        BY <3>1 DEF TransferState
      <4>2. \A x, y \in Words : /\ <<>> \in Seq(Words) /\ <<x>> \in Seq(Words)
                                /\ <<x, y>> \in Seq(Words)
        OBVIOUS
      <4>3. \/ transfer[t].told = <<>>
            \/ \E x, y \in Words : transfer[t].told \in {<<x>>, <<x, y>>}
        BY <4>1 DEF ToldSoFar
      <4> QED
        BY <4>2, <4>3 DEF Words
    <3> QED
      BY <3>1, <3>2 DEF TransferState, OnTheEnvironment, Words
  <2> QED
    BY <1>1, <2>1 DEF WrapperTypeOK, TransferInv
<1> QED
  BY <1>1, WrapperImplementsLooper, TypeCorrect, TransferInvariance, PTL

(* What is proved of the calls alone holds among transfers.                *)
THEOREM CallsAmongTransfers == WrapperSpec => [](ToldOnceAndTruly /\ NothingFreedUsed)
BY WrapperImplementsLooper, ToldOnce, NothingFreed, PTL

=============================================================================
