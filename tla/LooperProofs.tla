----------------------------- MODULE LooperProofs -----------------------------
(***************************************************************************)
(* Proofs about Looper for any number of calls and environments and every  *)
(* code of HTTP: the application is told once and truly, and without an    *)
(* import over an environment nothing is used after it was freed.          *)
(***************************************************************************)
EXTENDS Looper, SequenceTheorems, FiniteSetTheorems, TLAPS

-----------------------------------------------------------------------------
(* The inductive invariant, first of the calls.                            *)
Request ==
  [kind : Kinds \union {"none"},
   stage : {"unused", "queued", "returned", "freed", "refused"},
   error_code : Int, status_code : Int,
   response : {"NULL", "expected", "other"}, total : Int, bucket : BOOLEAN,
   readFreed : BOOLEAN, told : Seq({"success", "error"})]

Block == [call : Calls, told : {"success", "error"}, reads : BOOLEAN]

CallTypes ==
  /\ call \in [Calls -> Request]
  /\ main \in Seq(Block)
  /\ process \in {"running", "exited", "crashed"}

Truly(c) == call[c].status_code \in Accepted(call[c].kind)

(* Which requests are read after they are freed.                           *)
LateRead(r) == r.kind = "delete_bucket" /\ r.status_code \notin {200, 204, 401}

LastRead(r) == r.kind = "get_info"

(* What a call has told, and when it may still tell it; and that what is   *)
(* freed is read only late, or last of all.                                *)
CallTold(c) ==
  /\ call[c].told \in {<<>>, <<"success">>, <<"error">>}
  /\ call[c].stage \in {"unused", "queued", "returned"} => call[c].told = <<>>
  /\ call[c].stage \in {"queued", "returned"} => call[c].kind \in Kinds
  /\ call[c].stage = "returned" /\ call[c].error_code = 0
       => call[c].status_code \in StatusCodes
  /\ call[c].told = <<"success">> => Truly(c)
  /\ call[c].stage # "freed" => call[c].readFreed = FALSE
  /\ call[c].readFreed =>
       LateRead(call[c]) \/ (LastRead(call[c]) /\ process # "running")

(* A block on the main queue is the only one of its call, which is freed   *)
(* and has told nothing.                                                   *)
BlockTold(b) ==
  /\ call[main[b].call].stage = "freed" /\ call[main[b].call].told = <<>>
  /\ main[b].told = "success" => Truly(main[b].call)
  /\ main[b].reads => LateRead(call[main[b].call])

CallInv ==
  /\ CallTypes
  /\ \A c \in Calls : CallTold(c)
  /\ \A b \in 1..Len(main) : BlockTold(b)
  /\ \A a, b \in 1..Len(main) : main[a].call = main[b].call => a = b

(* Then of the environments.                                               *)
EnvTypes ==
  /\ made \in 0..MaxEnvironments /\ _env \in 0..made /\ own \in 0..made
  /\ destroyed \subseteq 1..made
  /\ onEnvironment \in [Calls -> 0..made]
  /\ looper \in Seq(0..made) /\ Len(looper) <= made
  /\ app \in {"idle", "registering", "verifying", "waiting", "importing"}
  /\ replaced \in BOOLEAN

(* The environment that the application runs itself is not the shared one, *)
(* and not destroyed while it runs.                                        *)
OwnLoop ==
  /\ app \in {"idle", "importing"} => own = 0
  /\ own # 0 => own # _env
  /\ app \in {"registering", "verifying"} => own # 0 /\ own \notin destroyed
  /\ app = "importing" => made < MaxEnvironments

(* Until keys are imported over it there is one shared environment, with   *)
(* one thread, and what was destroyed has no call outstanding.             *)
Live(c) == call[c].stage \in {"queued", "returned"}

OneLooper ==
  ~replaced =>
    /\ Len(looper) = IF _env = 0 THEN 0 ELSE 1
    /\ \A t \in 1..Len(looper) : looper[t] \in {0, _env}
    /\ _env \notin destroyed
    /\ app = "importing" => _env = 0
    /\ \A c \in Calls : Live(c) => onEnvironment[c] \notin destroyed

EnvInv == EnvTypes /\ OwnLoop /\ OneLooper

IInv == CallInv /\ EnvInv

-----------------------------------------------------------------------------
(* What a completion callback may do about the request r.                  *)
Sound(r, did) ==
  /\ did.told \in {"success", "error", "nothing"}
  /\ did.dispatched \in BOOLEAN /\ did.reads \in BOOLEAN
  /\ did.process \in {"running", "exited", "crashed"}
  /\ did.dispatched => did.told # "nothing"
  /\ did.told = "success" => r.status_code \in Accepted(r.kind)
  /\ did.reads => \/ did.dispatched /\ LateRead(r)
                  \/ ~did.dispatched /\ LastRead(r) /\ did.process # "running"

LEMMA CallbackSound ==
  ASSUME NEW r \in Request, r.kind \in Kinds,
         r.error_code = 0 => r.status_code \in StatusCodes
  PROVE  Sound(r, CompletionCallback(r))
<1>1. r.status_code \in Int /\ r.bucket \in BOOLEAN
  BY DEF Request
<1>2. ASSUME NEW became \in {"running", "exited", "crashed"},
             NEW told \in {"error", "nothing"}
      PROVE  Sound(r, Ending(told, became))
  BY DEF Sound, Ending
<1>3. ASSUME r.status_code \in Accepted(r.kind)
      PROVE  Sound(r, Directly("success"))
  BY <1>3 DEF Sound, Ending, Directly
<1>4. Sound(r, Directly("error")) /\ Sound(r, Directly("nothing"))
  BY <1>2 DEF Directly
<1>5. CASE r.kind = "register"
  <2>1. CompletionCallback(r) = register_completion_callback(r)
    BY <1>5 DEF CompletionCallback
  <2>2. r.status_code = 201 => r.status_code \in Accepted(r.kind)
    BY <1>5 DEF Accepted
  <2> QED
    BY <1>3, <1>4, <2>1, <2>2 DEF register_completion_callback
<1>6. CASE r.kind = "get_info"
  <2>1. CompletionCallback(r) = bridge_info_completion_callback(r)
    BY <1>6 DEF CompletionCallback
  <2>2. r.error_code = 0 => r.status_code \in Accepted(r.kind)
    BY <1>6 DEF Accepted
  <2>3. Sound(r, AfterFree("error", "exited"))
    BY <1>6 DEF Sound, AfterFree, LastRead
  <2> QED
    BY <1>2, <1>3, <2>1, <2>2, <2>3 DEF bridge_info_completion_callback
<1>7. CASE r.kind = "get_buckets"
  <2>1. CompletionCallback(r) = bucket_list_completion_callback(r)
    BY <1>7 DEF CompletionCallback
  <2>2. r.status_code \in {200, 304} => r.status_code \in Accepted(r.kind)
    BY <1>7 DEF Accepted
  <2> HIDE DEF Sound, Directly
  <2>3. CASE r.status_code \notin {200, 304}
    BY <1>4, <2>1, <2>3 DEF bucket_list_completion_callback
  <2>4. CASE r.status_code \in {200, 304} /\ r.total > 0
    BY <1>3, <2>1, <2>2, <2>4 DEF bucket_list_completion_callback
  <2>5. CASE r.status_code \in {200, 304} /\ ~(r.total > 0)
    BY <1>4, <2>1, <2>5 DEF bucket_list_completion_callback
  <2> QED
    BY <2>3, <2>4, <2>5
<1>8. CASE r.kind = "create_bucket"
  <2>1. CompletionCallback(r) = bucket_create_completion_callback(r)
    BY <1>8 DEF CompletionCallback
  <2>2. r.status_code = 201 => r.status_code \in Accepted(r.kind)
    BY <1>8 DEF Accepted
  <2>3. Sound(r, Ending("error", "running")) /\ Sound(r, Ending("error", "crashed"))
    BY <1>2
  <2> HIDE DEF Sound, Ending, Directly
  <2>4. CASE r.status_code = 404
    <3>1. bucket_create_completion_callback(r)
            = Ending("error", IF r.bucket THEN "running" ELSE "crashed")
      BY <2>4 DEF bucket_create_completion_callback
    <3>2. CASE r.bucket
      BY <2>1, <2>3, <3>1, <3>2
    <3>3. CASE ~r.bucket
      BY <2>1, <2>3, <3>1, <3>3
    <3> QED
      BY <3>2, <3>3
  <2>5. CASE r.status_code \notin {201, 404}
    <3>1. bucket_create_completion_callback(r) = Directly("error")
      BY <1>1, <2>5 DEF bucket_create_completion_callback
    <3> QED
      BY <1>4, <2>1, <3>1
  <2>6. CASE r.status_code = 201
    <3>1. bucket_create_completion_callback(r)
            = Directly(IF r.bucket THEN "success" ELSE "error")
      BY <2>6 DEF bucket_create_completion_callback
    <3>2. CASE r.bucket
      BY <1>3, <2>1, <2>2, <2>6, <3>1, <3>2
    <3>3. CASE ~r.bucket
      BY <1>4, <2>1, <3>1, <3>3
    <3> QED
      BY <3>2, <3>3
  <2> QED
    BY <2>4, <2>5, <2>6
<1>9. CASE r.kind = "delete_bucket"
  <2>1. CompletionCallback(r) = bucket_delete_completion_callback(r)
    BY <1>9 DEF CompletionCallback
  <2> QED
    BY <1>9, <2>1 DEF bucket_delete_completion_callback, Dispatched, Sound, Accepted, LateRead
<1>10. CASE r.kind = "list_files"
  <2>1. CompletionCallback(r) = file_list_completion_callback(r)
    BY <1>10 DEF CompletionCallback
  <2>2. r.status_code = 200 => r.status_code \in Accepted(r.kind)
    BY <1>10 DEF Accepted
  <2> QED
    BY <1>3, <1>4, <2>1, <2>2 DEF file_list_completion_callback
<1>11. CASE r.kind = "delete_file"
  <2>1. CompletionCallback(r) = file_delete_completion_callback(r)
    BY <1>11 DEF CompletionCallback
  <2>2. r.status_code \in {200, 204} => r.status_code \in Accepted(r.kind)
    BY <1>11 DEF Accepted
  <2> QED
    BY <1>3, <1>4, <2>1, <2>2 DEF file_delete_completion_callback
<1> QED
  BY <1>5, <1>6, <1>7, <1>8, <1>9, <1>10, <1>11 DEF Kinds

-----------------------------------------------------------------------------
(* The calls.                                                              *)
LEMMA Tellings ==
  /\ <<>> # <<"success">> /\ <<>> # <<"error">> /\ <<"success">> # <<"error">>
  /\ <<>> \in Seq({"success", "error"}) /\ <<"success">> \in Seq({"success", "error"})
  /\ <<"error">> \in Seq({"success", "error"})
  /\ \A told : Append(<<>>, told) = <<told>>
OBVIOUS

(* A call that is not freed yet becomes r; no block is about it.           *)
LEMMA RequestChanges ==
  ASSUME CallInv, NEW c \in Calls, call[c].stage \in {"unused", "queued"},
         NEW r \in Request, call' = [call EXCEPT ![c] = r],
         UNCHANGED <<main, process>>,
         r.told = <<>> \/ (r.stage = "refused" /\ r.told = <<"error">>),
         r.kind \in Kinds, r.readFreed = FALSE,
         r.stage = "returned" /\ r.error_code = 0 => r.status_code \in StatusCodes
  PROVE  CallInv'
<1>1. /\ call \in [Calls -> Request] /\ main \in Seq(Block) /\ CallTypes
      /\ \A d \in Calls : CallTold(d)
      /\ \A b \in 1..Len(main) : BlockTold(b)
      /\ \A a, b \in 1..Len(main) : main[a].call = main[b].call => a = b
  BY DEF CallInv, CallTypes
<1>2. /\ call'[c] = r
      /\ \A d \in Calls \ {c} : call'[d] = call[d]
      /\ call' \in [Calls -> Request]
  BY <1>1
<1>3. CallTypes'
  BY <1>1, <1>2 DEF CallTypes
<1>4. CallTold(c)'
  BY <1>2, Tellings DEF CallTold
<1>5. ASSUME NEW d \in Calls \ {c} PROVE CallTold(d)'
  BY <1>1, <1>2 DEF CallTold, Truly
<1>6. ASSUME NEW b \in 1..Len(main) PROVE BlockTold(b)'
  <2>1. main[b].call \in Calls
    <3>1. main[b] \in Block
      BY <1>1, ElementOfSeq
    <3> QED
      BY <3>1 DEF Block
  <2>2. BlockTold(b)
    BY <1>1
  <2>3. main[b].call # c
    BY <2>2 DEF BlockTold
  <2> QED
    BY <1>2, <2>1, <2>2, <2>3 DEF BlockTold, Truly
<1> QED
  BY <1>1, <1>3, <1>4, <1>5, <1>6 DEF CallInv

LEMMA QueueKeeps ==
  ASSUME CallInv, NEW c \in Calls, Unused(c), NEW kind \in Kinds,
         call' = [call EXCEPT ![c] = Queued(kind)], UNCHANGED <<main, process>>
  PROVE  CallInv'
<1>1. Queued(kind) \in Request
  <2>1. <<>> \in Seq({"success", "error"})
    BY EmptySeq
  <2> QED
    BY <2>1 DEF Queued, NewRequest, Request
<1>2. Queued(kind).told = <<>> /\ Queued(kind).kind = kind /\ Queued(kind).stage = "queued"
      /\ Queued(kind).readFreed = FALSE
  BY DEF Queued, NewRequest
<1> QED
  BY <1>1, <1>2, RequestChanges DEF Unused

LEMMA RefuseKeeps ==
  ASSUME CallInv, NEW c \in Calls, NEW kind \in Kinds, Refuse(c, kind)
  PROVE  CallInv'
<1> DEFINE r == NewRequest(kind, "refused", <<"error">>)
<1>1. r \in Request
  <2>1. <<"error">> \in Seq({"success", "error"})
    OBVIOUS
  <2> QED
    BY <2>1 DEF NewRequest, Request
<1>2. r.told = <<"error">> /\ r.kind = kind /\ r.stage = "refused"
      /\ r.readFreed = FALSE
  BY DEF NewRequest
<1>3. /\ call[c].stage = "unused" /\ call' = [call EXCEPT ![c] = r]
      /\ UNCHANGED <<main, process>>
  BY DEF Refuse, Unused
<1> HIDE DEF r
<1> QED
  BY <1>1, <1>2, <1>3, RequestChanges

LEMMA AnswerFields ==
  ASSUME NEW A, NEW B, NEW C,
         NEW got \in [error_code : A, status_code : B, response : C]
  PROVE  got.error_code \in A /\ got.status_code \in B /\ got.response \in C
OBVIOUS

LEMMA WorkerKeeps ==
  ASSUME CallInv, NEW c \in Calls, request_worker(c)
  PROVE  CallInv'
<1>1. /\ call \in [Calls -> Request] /\ call[c] \in Request /\ CallTold(c)
      /\ call[c].stage = "queued" /\ call[c].kind \in Kinds
      /\ call[c].told = <<>> /\ call[c].readFreed = FALSE
      /\ UNCHANGED <<main, process>>
  BY DEF CallInv, CallTypes, CallTold, request_worker
<1>2. PICK got \in fetch_json(call[c].kind) :
        call' = [call EXCEPT ![c] = Answered(call[c], got)]
  BY DEF request_worker
<1>3. /\ got.response \in {"NULL", "expected", "other"}
      /\ got.error_code \in Int /\ got.status_code \in Int
      /\ got.error_code = 0 => got.status_code \in StatusCodes
  <2>1. Responses(call[c].kind) \subseteq {"NULL", "expected", "other"}
    BY Zenon DEF Responses
  <2>2. \/ got = [error_code |-> 7, status_code |-> 0, response |-> "NULL"]
        \/ got \in [error_code : {0}, status_code : StatusCodes,
                    response : Responses(call[c].kind)]
    BY DEF fetch_json
  <2>3. StatusCodes \subseteq Int
    BY CallAssumption
  <2>4. CASE got = [error_code |-> 7, status_code |-> 0, response |-> "NULL"]
    BY <2>4
  <2>5. CASE got \in [error_code : {0}, status_code : StatusCodes,
                     response : Responses(call[c].kind)]
    <3>1. /\ got.error_code \in {0} /\ got.status_code \in StatusCodes
          /\ got.response \in Responses(call[c].kind)
      BY <2>5, AnswerFields
    <3>2. got.response \in {"NULL", "expected", "other"}
      BY <2>1, <3>1, Zenon
    <3>3. got.status_code \in Int
      BY <2>3, <3>1, Zenon
    <3>4. got.error_code = 0
      BY <3>1
    <3>5. got.error_code \in Int
      BY <3>4
    <3> QED
      BY <3>1, <3>2, <3>3, <3>5
  <2> QED
    BY <2>2, <2>4, <2>5
<1> DEFINE r == Answered(call[c], got)
<1>4. r \in Request
  BY <1>1, <1>3 DEF Answered, Request
<1>5. /\ r.told = <<>> /\ r.kind \in Kinds /\ r.error_code = got.error_code
      /\ r.status_code = got.status_code /\ r.readFreed = FALSE
  BY <1>1 DEF Answered
<1> HIDE DEF r
<1>6. r.stage = "returned" /\ r.error_code = 0 => r.status_code \in StatusCodes
  BY <1>3, <1>5
<1>7. call' = [call EXCEPT ![c] = r]
  BY <1>2 DEF r
<1> QED
  BY <1>1, <1>4, <1>5, <1>6, <1>7, RequestChanges

(* A callback tells at once, leaves a block that will tell, or tells       *)
(* nothing.                                                                *)
LEMMA CompleteKeeps ==
  ASSUME CallInv, NEW c \in Calls, process = "running", Complete(c)
  PROVE  CallInv'
<1> DEFINE r == call[c]
           did == CompletionCallback(r)
           tells == did.told # "nothing" /\ ~did.dispatched
           told == IF tells THEN Append(r.told, did.told) ELSE r.told
           late == did.reads /\ ~did.dispatched
           block == [call |-> c, told |-> did.told, reads |-> did.reads]
<1>1. /\ call \in [Calls -> Request] /\ main \in Seq(Block) /\ r \in Request
      /\ \A d \in Calls : CallTold(d)
      /\ \A b \in 1..Len(main) : BlockTold(b)
      /\ \A a, b \in 1..Len(main) : main[a].call = main[b].call => a = b
  BY DEF CallInv, CallTypes
<1>2. /\ r.stage = "returned" /\ r.kind \in Kinds /\ r.told = <<>>
      /\ r.error_code = 0 => r.status_code \in StatusCodes
  BY <1>1 DEF CallTold, Complete
<1>3. Sound(r, did)
  BY <1>1, <1>2, CallbackSound
<1>4. /\ call' = [call EXCEPT ![c] = Finished(r, told, late)]
      /\ main' = IF did.dispatched THEN Append(main, block) ELSE main
      /\ process' = did.process
  BY DEF Complete
<1> HIDE DEF did
<1>5. \A b \in 1..Len(main) : main[b] \in Block /\ main[b].call \in Calls /\ main[b].call # c
  <2> SUFFICES ASSUME NEW b \in 1..Len(main)
               PROVE  main[b] \in Block /\ main[b].call \in Calls /\ main[b].call # c
    OBVIOUS
  <2>1. main[b] \in Block
    BY <1>1, ElementOfSeq
  <2>2. BlockTold(b)
    BY <1>1
  <2> QED
    BY <1>2, <2>1, <2>2 DEF Block, BlockTold
<1>6. /\ told \in {<<>>, <<"success">>, <<"error">>}
      /\ told = <<"success">> => did.told = "success"
      /\ did.dispatched => told = <<>>
  <2>1. CASE tells
    <3>1. told = <<did.told>> /\ did.told \in {"success", "error"}
      BY <1>2, <1>3, <2>1, Tellings DEF Sound
    <3> QED
      BY <2>1, <3>1, Tellings
  <2>2. CASE ~tells
    <3>1. told = <<>>
      BY <1>2, <2>2
    <3> QED
      BY <3>1, Tellings
  <2> QED
    BY <2>1, <2>2
<1> HIDE DEF told
<1>7. Finished(r, told, late) \in Request
  <2>1. told \in Seq({"success", "error"})
    BY <1>6, Tellings
  <2>2. /\ r.kind \in Kinds \union {"none"} /\ r.status_code \in Int
        /\ r.total \in Int /\ late \in BOOLEAN
    BY <1>1 DEF Request
  <2> HIDE DEF r
  <2> QED
    BY <2>1, <2>2 DEF Finished, Request
<1>8. /\ call'[c] = Finished(r, told, late) /\ \A d \in Calls \ {c} : call'[d] = call[d]
      /\ call' \in [Calls -> Request]
  BY <1>1, <1>4, <1>7
<1>9. did.dispatched => block \in Block
  BY <1>3 DEF Sound, Block
<1>10. main' \in Seq(Block)
  BY <1>1, <1>4, <1>9, AppendProperties
<1>11. CallTypes'
  BY <1>3, <1>4, <1>8, <1>10 DEF CallTypes, Sound
<1>12. CallTold(c)'
  <2>1. /\ call'[c].kind = r.kind /\ call'[c].status_code = r.status_code
        /\ call'[c].readFreed = late
    BY <1>8 DEF Finished
  <2>2. late => LastRead(r) /\ process' # "running"
    BY <1>3, <1>4 DEF Sound
  <2>3. call'[c].readFreed => LastRead(call'[c]) /\ process' # "running"
    BY <2>1, <2>2 DEF LastRead
  <2> QED
    BY <1>3, <1>6, <1>8, <2>3 DEF CallTold, Truly, Finished, Sound
<1>13. ASSUME NEW d \in Calls \ {c} PROVE CallTold(d)'
  BY <1>1, <1>8 DEF CallTold, Truly
<1>14. ASSUME NEW b \in 1..Len(main), main'[b] = main[b] PROVE BlockTold(b)'
  <2>1. BlockTold(b) /\ main[b].call \in Calls \ {c}
    BY <1>1, <1>5
  <2> QED
    BY <1>8, <1>14, <2>1 DEF BlockTold, Truly
<1>15. CASE ~did.dispatched
  BY <1>1, <1>4, <1>11, <1>12, <1>13, <1>14, <1>15 DEF CallInv
<1>16. CASE did.dispatched
  <2>1. PICK n \in Nat : n = Len(main)
    BY <1>1, LenProperties
  <2>2. /\ Len(main') = n + 1 /\ main'[n + 1] = block
        /\ \A b \in 1..n : main'[b] = main[b]
    BY <1>1, <1>4, <1>9, <1>16, <2>1, AppendProperties
  <2>3. \A b \in 1..(n + 1) : b \in 1..n \/ b = n + 1
    BY <2>2
  <2>4. BlockTold(n + 1)'
    <3>1. /\ main'[n + 1].call = c /\ main'[n + 1].told = did.told
          /\ main'[n + 1].reads = did.reads
      BY <2>2
    <3>2. /\ call'[c].stage = "freed" /\ call'[c].told = <<>>
          /\ call'[c].kind = r.kind /\ call'[c].status_code = r.status_code
      BY <1>6, <1>8, <1>16 DEF Finished
    <3>3. /\ did.told = "success" => r.status_code \in Accepted(r.kind)
          /\ did.reads => LateRead(r)
      BY <1>3, <1>16 DEF Sound
    <3> QED
      BY <3>1, <3>2, <3>3 DEF BlockTold, Truly, LateRead
  <2>5. ASSUME NEW b \in 1..n PROVE BlockTold(b)'
    BY <1>14, <2>1, <2>2
  <2>6. \A b \in 1..(n + 1) : BlockTold(b)'
    <3> SUFFICES ASSUME NEW b \in 1..(n + 1) PROVE BlockTold(b)'
      OBVIOUS
    <3>1. CASE b \in 1..n
      BY <2>5, <3>1
    <3>2. CASE b = n + 1
      BY <2>4, <3>2
    <3> QED
      BY <2>3, <3>1, <3>2
  <2>7. \A a, b \in 1..(n + 1) : main'[a].call = main'[b].call => a = b
    <3>1. \A b \in 1..n : main'[b].call # c
      BY <1>5, <2>1, <2>2
    <3>2. main'[n + 1].call = c
      BY <2>2
    <3>3. \A a, b \in 1..n : main'[a].call = main'[b].call => a = b
      BY <1>1, <2>1, <2>2
    <3> QED
      BY <2>3, <3>1, <3>2, <3>3
  <2> QED
    BY <1>11, <1>12, <1>13, <2>2, <2>6, <2>7 DEF CallInv
<1> QED
  BY <1>15, <1>16

(* The main thread takes the first block, and tells what it says.          *)
LEMMA RunBlockKeeps ==
  ASSUME CallInv, RunBlock
  PROVE  CallInv'
<1>1. /\ call \in [Calls -> Request] /\ main \in Seq(Block) /\ CallTypes
      /\ \A d \in Calls : CallTold(d)
      /\ \A b \in 1..Len(main) : BlockTold(b)
      /\ \A a, b \in 1..Len(main) : main[a].call = main[b].call => a = b
  BY DEF CallInv, CallTypes
<1>2. /\ main # <<>> /\ main' = Tail(main) /\ UNCHANGED process
      /\ call' = [call EXCEPT ![Head(main).call].told = Append(@, Head(main).told),
                              ![Head(main).call].readFreed = @ \/ Head(main).reads]
  BY DEF RunBlock
<1>3. /\ Len(main) \in Nat \ {0} /\ Head(main) = main[1]
      /\ main' \in Seq(Block) /\ Len(main') = Len(main) - 1
      /\ \A b \in 1..Len(main') : main'[b] = main[b + 1]
  BY <1>1, <1>2, HeadTailProperties, LenProperties
<1>4. PICK block \in Block : block = main[1]
  BY <1>1, <1>3, ElementOfSeq
<1>5. PICK c \in Calls : c = block.call
  BY DEF Block
<1>6. block.told \in {"success", "error"} /\ block.reads \in BOOLEAN
  BY DEF Block
<1>7. BlockTold(1)
  BY <1>1, <1>3
<1> DEFINE r == [call[c] EXCEPT !.told = Append(@, block.told),
                               !.readFreed = @ \/ block.reads]
<1>8. /\ call[c].stage = "freed" /\ call[c].told = <<>> /\ call[c] \in Request
      /\ block.told = "success" => Truly(c)
      /\ block.reads => LateRead(call[c])
  BY <1>5, <1>1, <1>4, <1>7 DEF BlockTold
<1>9. call' = [call EXCEPT ![c] = r]
  BY <1>5, <1>2, <1>3, <1>4
<1> DEFINE q == call[c]
<1>10. /\ r \in Request /\ r.told = <<block.told>> /\ r.stage = q.stage
      /\ r.kind = q.kind /\ r.status_code = q.status_code
      /\ r.error_code = q.error_code
      /\ r.readFreed = (q.readFreed \/ block.reads)
  <2>1. Append(q.told, block.told) = <<block.told>>
    BY <1>8, Tellings
  <2>2. <<block.told>> \in Seq({"success", "error"})
    BY <1>6, Tellings
  <2>3. r = [q EXCEPT !.told = <<block.told>>, !.readFreed = q.readFreed \/ block.reads]
    BY <2>1
  <2>4. q \in Request /\ (q.readFreed \/ block.reads) \in BOOLEAN
    BY <1>8
  <2> HIDE DEF q, r
  <2> QED
    BY <2>2, <2>3, <2>4 DEF Request
<1>11. /\ call'[c] = r /\ \A d \in Calls \ {c} : call'[d] = call[d]
      /\ call' \in [Calls -> Request]
  BY <1>1, <1>9, <1>10
<1>12. CallTypes'
  BY <1>1, <1>2, <1>3, <1>11 DEF CallTypes
<1>13. CallTold(c)'
  <2>1. CallTold(c) /\ call'[c] = r /\ process' = process
    BY <1>1, <1>2, <1>11
  <2>2. LateRead(r) = LateRead(q) /\ LastRead(r) = LastRead(q)
    BY <1>10 DEF LateRead, LastRead
  <2>3. r.readFreed => LateRead(r) \/ (LastRead(r) /\ process' # "running")
    BY <1>8, <1>10, <2>1, <2>2, Zenon DEF CallTold
  <2> QED
    BY <1>8, <1>10, <1>6, <2>1, <2>3, Tellings DEF CallTold, Truly
<1>14. ASSUME NEW d \in Calls \ {c} PROVE CallTold(d)'
  BY <1>1, <1>2, <1>11 DEF CallTold, Truly
<1>15. ASSUME NEW b \in 1..Len(main') PROVE BlockTold(b)'
  <2>1. b + 1 \in 1..Len(main) /\ b + 1 # 1
    BY <1>3
  <2>2. BlockTold(b + 1) /\ main[b + 1] \in Block /\ main'[b] = main[b + 1]
    BY <1>1, <1>3, <2>1, ElementOfSeq
  <2>3. main[b + 1].call # c
    BY <1>5, <1>1, <1>3, <1>4, <2>1
  <2>4. main[b + 1].call \in Calls \ {c}
    BY <2>2, <2>3 DEF Block
  <2> QED
    BY <1>11, <2>2, <2>4 DEF BlockTold, Truly
<1>16. \A a, b \in 1..Len(main') : main'[a].call = main'[b].call => a = b
  <2> SUFFICES ASSUME NEW a \in 1..Len(main'), NEW b \in 1..Len(main'),
                      main'[a].call = main'[b].call
               PROVE  a = b
    OBVIOUS
  <2>1. a + 1 \in 1..Len(main) /\ b + 1 \in 1..Len(main)
    BY <1>3
  <2>2. a + 1 = b + 1
    BY <1>1, <1>3, <2>1
  <2> QED
    BY <2>2
<1> QED
  BY <1>12, <1>13, <1>14, <1>15, <1>16 DEF CallInv

-----------------------------------------------------------------------------
(* The environments.                                                       *)
LEMMA InitIInv == Init => IInv
<1> SUFFICES ASSUME Init PROVE IInv
  OBVIOUS
<1>1. CallInv
  <2>1. NoRequest \in Request
    <3>1. <<>> \in Seq({"success", "error"})
      BY EmptySeq
    <3> QED
      BY <3>1 DEF NoRequest, NewRequest, Request
  <2>2. call = [c \in Calls |-> NoRequest] /\ main = <<>> /\ process = "running"
    BY DEF Init, CallInit
  <2>3. /\ NoRequest.told = <<>> /\ NoRequest.stage = "unused"
        /\ NoRequest.readFreed = FALSE
    BY DEF NoRequest, NewRequest
  <2>4. CallTypes
    BY <2>1, <2>2, EmptySeq DEF CallTypes
  <2>5. ASSUME NEW c \in Calls PROVE CallTold(c)
    BY <2>2, <2>3, Tellings DEF CallTold
  <2>6. Len(main) = 0
    BY <2>2
  <2> QED
    BY <2>4, <2>5, <2>6 DEF CallInv
<1>2. EnvTypes
  <2>1. /\ _env = 0 /\ made = 0 /\ destroyed = {} /\ own = 0 /\ app = "idle"
        /\ onEnvironment = [c \in Calls |-> 0] /\ looper = <<>> /\ replaced = FALSE
    BY DEF Init
  <2>2. looper \in Seq(0..made) /\ Len(looper) = 0
    BY <2>1, EmptySeq
  <2>3. onEnvironment \in [Calls -> 0..made]
    BY <2>1
  <2>4. /\ made \in 0..MaxEnvironments /\ _env \in 0..made /\ own \in 0..made
        /\ destroyed \subseteq 1..made /\ Len(looper) <= made
    BY <2>1, <2>2, LooperAssumption
  <2> QED
    BY <2>1, <2>2, <2>3, <2>4 DEF EnvTypes
<1>3. OwnLoop /\ OneLooper
  BY DEF Init, OwnLoop, OneLooper
<1> QED
  BY <1>1, <1>2, <1>3 DEF IInv, EnvInv

(* Calls that go on, and loops that are entered and left, do not change    *)
(* which environments there are.                                           *)
LEMMA CallsGoOn ==
  ASSUME EnvInv, UNCHANGED env_vars, \A c \in Calls : Live(c)' => Live(c)
  PROVE  EnvInv'
BY DEF EnvInv, env_vars, EnvTypes, OwnLoop, OneLooper

(* A call is made on environment e, the last one if it is new.             *)
LEMMA CallIsMade ==
  ASSUME CallInv, EnvInv, NEW c \in Calls, NEW kind, NEW e \in 0..made',
         made' \in {made, made + 1},
         call' = [call EXCEPT ![c] = Queued(kind)],
         onEnvironment' = [onEnvironment EXCEPT ![c] = e],
         UNCHANGED <<destroyed, replaced>>
  PROVE  /\ onEnvironment' \in [Calls -> 0..made']
         /\ ~replaced /\ e \notin destroyed =>
              \A d \in Calls : Live(d)' => onEnvironment'[d] \notin destroyed
<1>1. /\ call \in [Calls -> Request] /\ onEnvironment \in [Calls -> 0..made]
      /\ made \in Nat
  BY LooperAssumption DEF CallInv, CallTypes, EnvInv, EnvTypes
<1>2. \A d \in Calls : onEnvironment[d] \in 0..made'
  BY <1>1
<1>3. /\ onEnvironment'[c] = e /\ onEnvironment' \in [Calls -> 0..made']
      /\ \A d \in Calls \ {c} : call'[d] = call[d] /\ onEnvironment'[d] = onEnvironment[d]
  BY <1>1, <1>2
<1>4. ASSUME ~replaced, e \notin destroyed, NEW d \in Calls, Live(d)'
      PROVE  onEnvironment'[d] \notin destroyed
  <2>1. CASE d = c
    BY <1>3, <1>4, <2>1
  <2>2. CASE d # c
    BY <1>3, <1>4, <2>2 DEF EnvInv, OneLooper, Live
  <2> QED
    BY <2>1, <2>2
<1> QED
  BY <1>3, <1>4

(* The number of a new environment is not that of any other.               *)
LEMMA NewNumber ==
  ASSUME EnvInv, made < MaxEnvironments
  PROVE  /\ made \in Nat /\ made + 1 \in 1..MaxEnvironments
         /\ made + 1 \notin destroyed /\ made + 1 # _env /\ made + 1 # own
         /\ _env \in 0..(made + 1) /\ own \in 0..(made + 1)
         /\ destroyed \subseteq 1..(made + 1)
         /\ looper \in Seq(0..(made + 1)) /\ Len(looper) \in 0..made
         /\ onEnvironment \in [Calls -> 0..(made + 1)]
<1>1. /\ made \in Nat /\ made \in 0..MaxEnvironments /\ _env \in 0..made
      /\ own \in 0..made /\ destroyed \subseteq 1..made /\ looper \in Seq(0..made)
      /\ Len(looper) <= made /\ onEnvironment \in [Calls -> 0..made]
  BY LooperAssumption DEF EnvInv, EnvTypes
<1>2. Len(looper) \in 0..made
  BY <1>1, LenProperties
<1>3. looper \in Seq(0..(made + 1))
  <2>1. \A t \in 1..Len(looper) : looper[t] \in 0..(made + 1)
    BY <1>1, ElementOfSeq
  <2> QED
    BY <1>1, <1>2, <2>1
<1>4. onEnvironment \in [Calls -> 0..(made + 1)]
  BY <1>1
<1> QED
  BY <1>1, <1>2, <1>3, <1>4, LooperAssumption

(* A thread is started, which has not looked at _env.                      *)
LEMMA ThreadStarted ==
  ASSUME EnvInv, made < MaxEnvironments, looper' = Append(looper, 0)
  PROVE  /\ looper' \in Seq(0..(made + 1)) /\ Len(looper') = Len(looper) + 1
         /\ Len(looper') <= made + 1
         /\ Len(looper) = 0 => looper'[1] = 0
<1>1. /\ made \in Nat /\ looper \in Seq(0..(made + 1)) /\ Len(looper) \in 0..made
  BY NewNumber
<1>2. 0 \in 0..(made + 1)
  BY <1>1
<1> QED
  BY <1>1, <1>2, AppendProperties

(* checkEnvironment may make the environment of the call, with its thread. *)
LEMMA BridgeCallStep ==
  ASSUME IInv, NEW c \in Calls, NEW kind \in Kinds, BridgeCall(c, kind)
  PROVE  IInv'
<1>1. CallInv'
  <2>1. /\ Unused(c) /\ call' = [call EXCEPT ![c] = Queued(kind)]
        /\ UNCHANGED <<main, process>>
    BY DEF BridgeCall
  <2> QED
    BY <2>1, QueueKeeps DEF IInv
<1>2. /\ EnvInv /\ CallInv /\ EnvTypes /\ OwnLoop /\ OneLooper
  BY DEF IInv, EnvInv
<1>3. CASE _env # 0
  <2>1. /\ call' = [call EXCEPT ![c] = Queued(kind)]
        /\ onEnvironment' = [onEnvironment EXCEPT ![c] = _env]
        /\ UNCHANGED <<_env, made, destroyed, looper, app, own, keys, replaced>>
    BY <1>3 DEF BridgeCall, checkEnvironment
  <2>2. _env \in 0..made'
    BY <1>2, <2>1 DEF EnvTypes
  <2>3. /\ onEnvironment' \in [Calls -> 0..made']
        /\ ~replaced /\ _env \notin destroyed =>
             \A d \in Calls : Live(d)' => onEnvironment'[d] \notin destroyed
    BY <1>2, <2>1, <2>2, CallIsMade
  <2>4. EnvTypes' /\ OwnLoop'
    BY <1>2, <2>1, <2>3 DEF EnvTypes, OwnLoop
  <2>5. OneLooper'
    BY <1>2, <2>1, <2>3 DEF OneLooper
  <2> QED
    BY <1>1, <2>4, <2>5 DEF IInv, EnvInv
<1>4. CASE _env = 0
  <2>1. /\ app = "idle" /\ made < MaxEnvironments /\ made' = made + 1 /\ _env' = made + 1
        /\ looper' = Append(looper, 0)
        /\ call' = [call EXCEPT ![c] = Queued(kind)]
        /\ onEnvironment' = [onEnvironment EXCEPT ![c] = made + 1]
        /\ UNCHANGED <<destroyed, app, own, keys, replaced>>
    BY <1>4 DEF BridgeCall, checkEnvironment
  <2>2. /\ made \in Nat /\ made + 1 \in 1..MaxEnvironments
        /\ made + 1 \notin destroyed /\ own \in 0..(made + 1)
        /\ destroyed \subseteq 1..(made + 1) /\ made + 1 # own
    BY <1>2, <2>1, NewNumber
  <2>3. /\ looper' \in Seq(0..(made + 1)) /\ Len(looper') = Len(looper) + 1
        /\ Len(looper') <= made + 1 /\ Len(looper) = 0 => looper'[1] = 0
    BY <1>2, <2>1, ThreadStarted
  <2>4. /\ onEnvironment' \in [Calls -> 0..made']
        /\ ~replaced => \A d \in Calls : Live(d)' => onEnvironment'[d] \notin destroyed
    <3>1. made + 1 \in 0..made'
      BY <2>1, <2>2
    <3> QED
      BY <1>2, <2>1, <2>2, <3>1, CallIsMade
  <2>5. EnvTypes'
    BY <1>2, <2>1, <2>2, <2>3, <2>4 DEF EnvTypes
  <2>6. OwnLoop'
    BY <1>2, <2>1, <2>2 DEF OwnLoop
  <2>7. OneLooper'
    BY <1>2, <1>4, <2>1, <2>2, <2>3, <2>4 DEF OneLooper
  <2> QED
    BY <1>1, <2>5, <2>6, <2>7 DEF IInv, EnvInv
<1> QED
  BY <1>3, <1>4

(* A transfer may make it as well, without a call.                         *)
LEMMA TransferEnvironmentStep ==
  ASSUME IInv, TransferEnvironment
  PROVE  IInv'
<1>1. /\ EnvInv /\ CallInv /\ EnvTypes /\ OwnLoop /\ OneLooper
  BY DEF IInv, EnvInv
<1>2. UNCHANGED call_vars /\ UNCHANGED <<destroyed, onEnvironment, app, own, keys, replaced>>
  BY DEF TransferEnvironment
<1>3. CallInv' /\ \A d \in Calls : Live(d)' => Live(d)
  BY <1>1, <1>2 DEF CallInv, CallTypes, CallTold, BlockTold, Truly, Live, call_vars
<1>4. CASE _env # 0
  <2>1. UNCHANGED env_vars
    BY <1>2, <1>4 DEF TransferEnvironment, checkEnvironment, env_vars
  <2> QED
    BY <1>1, <1>3, <2>1, CallsGoOn DEF IInv
<1>5. CASE _env = 0
  <2>1. /\ app = "idle" /\ made < MaxEnvironments /\ made' = made + 1 /\ _env' = made + 1
        /\ looper' = Append(looper, 0)
    BY <1>5 DEF TransferEnvironment, checkEnvironment
  <2>2. /\ made \in Nat /\ made + 1 \in 1..MaxEnvironments
        /\ made + 1 \notin destroyed /\ own \in 0..(made + 1)
        /\ destroyed \subseteq 1..(made + 1) /\ made + 1 # own
        /\ onEnvironment \in [Calls -> 0..(made + 1)]
    BY <1>1, <2>1, NewNumber
  <2>3. /\ looper' \in Seq(0..(made + 1)) /\ Len(looper') = Len(looper) + 1
        /\ Len(looper') <= made + 1 /\ Len(looper) = 0 => looper'[1] = 0
    BY <1>1, <2>1, ThreadStarted
  <2>4. EnvTypes'
    BY <1>1, <1>2, <2>1, <2>2, <2>3 DEF EnvTypes
  <2>5. OwnLoop'
    BY <1>1, <1>2, <2>1, <2>2 DEF OwnLoop
  <2>6. OneLooper'
    BY <1>1, <1>2, <1>3, <1>5, <2>1, <2>2, <2>3 DEF OneLooper
  <2> QED
    BY <1>3, <2>4, <2>5, <2>6 DEF IInv, EnvInv
<1> QED
  BY <1>4, <1>5

(* getBridgeInfo takes the environment that is there, or crashes.          *)
LEMMA BridgeInfoStep ==
  ASSUME IInv, NEW c \in Calls, getBridgeInfo(c)
  PROVE  IInv'
<1>1. /\ EnvInv /\ CallInv /\ EnvTypes /\ OwnLoop /\ OneLooper
  BY DEF IInv, EnvInv
<1>2. CASE _env = 0
  <2>1. /\ process' = "crashed"
        /\ UNCHANGED <<call, main, onEnvironment, _env, made, destroyed, looper, app,
                       own, keys, replaced>>
    BY <1>2 DEF getBridgeInfo
  <2>2. CallInv'
    BY <1>1, <2>1 DEF CallInv, CallTypes, CallTold, BlockTold, Truly
  <2>3. EnvInv'
    BY <1>1, <2>1, CallsGoOn DEF Live, env_vars
  <2> QED
    BY <2>2, <2>3 DEF IInv
<1>3. CASE _env # 0
  <2>1. /\ Unused(c) /\ call' = [call EXCEPT ![c] = Queued("get_info")]
        /\ onEnvironment' = [onEnvironment EXCEPT ![c] = _env]
        /\ UNCHANGED <<main, process, _env, made, destroyed, looper, app, own, keys,
                       replaced>>
    BY <1>3 DEF getBridgeInfo
  <2>2. CallInv'
    <3>1. "get_info" \in Kinds
      BY DEF Kinds
    <3> QED
      BY <1>1, <2>1, <3>1, QueueKeeps
  <2>3. /\ onEnvironment' \in [Calls -> 0..made']
        /\ ~replaced /\ _env \notin destroyed =>
             \A d \in Calls : Live(d)' => onEnvironment'[d] \notin destroyed
    <3>1. _env \in 0..made'
      BY <1>1, <2>1 DEF EnvTypes
    <3> QED
      BY <1>1, <2>1, <3>1, CallIsMade
  <2>4. EnvTypes' /\ OwnLoop'
    BY <1>1, <2>1, <2>3 DEF EnvTypes, OwnLoop
  <2>5. OneLooper'
    BY <1>1, <2>1, <2>3 DEF OneLooper
  <2> QED
    BY <2>2, <2>4, <2>5 DEF IInv, EnvInv
<1> QED
  BY <1>2, <1>3

(* registerUser and verifyKeys make an environment of their own.           *)
LEMMA OwnEnvironmentStep ==
  ASSUME IInv, NEW c \in Calls, NEW kind \in Kinds, OnOwnEnvironment(c, kind)
  PROVE  IInv'
<1>1. /\ EnvInv /\ CallInv /\ EnvTypes /\ OwnLoop /\ OneLooper
  BY DEF IInv, EnvInv
<1>2. /\ app = "idle" /\ Unused(c) /\ made < MaxEnvironments
      /\ made' = made + 1 /\ own' = made + 1 /\ app' \in {"registering", "verifying"}
      /\ call' = [call EXCEPT ![c] = Queued(kind)]
      /\ onEnvironment' = [onEnvironment EXCEPT ![c] = made + 1]
      /\ UNCHANGED <<main, process, _env, destroyed, looper, keys, replaced>>
  BY DEF OnOwnEnvironment
<1>3. CallInv'
  BY <1>1, <1>2, QueueKeeps
<1>4. /\ made \in Nat /\ made + 1 \in 1..MaxEnvironments
      /\ made + 1 \notin destroyed /\ _env \in 0..(made + 1) /\ made + 1 # _env
      /\ destroyed \subseteq 1..(made + 1)
      /\ looper \in Seq(0..(made + 1)) /\ Len(looper) \in 0..made
  BY <1>1, <1>2, NewNumber
<1>5. /\ onEnvironment' \in [Calls -> 0..made']
      /\ ~replaced => \A d \in Calls : Live(d)' => onEnvironment'[d] \notin destroyed
  <2>1. made + 1 \in 0..made'
    BY <1>2, <1>4
  <2> QED
    BY <1>1, <1>2, <1>4, <2>1, CallIsMade
<1>6. EnvTypes'
  BY <1>1, <1>2, <1>4, <1>5 DEF EnvTypes
<1>7. OwnLoop'
  BY <1>2, <1>4 DEF OwnLoop
<1>8. OneLooper'
  BY <1>1, <1>2, <1>5 DEF OneLooper
<1> QED
  BY <1>3, <1>6, <1>7, <1>8 DEF IInv, EnvInv

(* A call that goes on does not become live.                               *)
LEMMA NothingMade ==
  ASSUME CallInv, \/ \E c \in Calls, kind \in Kinds : Refuse(c, kind)
                  \/ \E c \in Calls : request_worker(c) \/ Complete(c)
                  \/ RunBlock
                  \/ UNCHANGED call
  PROVE  \A d \in Calls : Live(d)' => Live(d)
<1>1. call \in [Calls -> Request] /\ main \in Seq(Block)
  BY DEF CallInv, CallTypes
<1>2. ASSUME NEW c \in Calls, NEW r, call' = [call EXCEPT ![c] = r],
             r.stage \in {"queued", "returned"} => Live(c)
      PROVE  \A d \in Calls : Live(d)' => Live(d)
  BY <1>1, <1>2 DEF Live
<1>3. ASSUME NEW c \in Calls, NEW kind \in Kinds, Refuse(c, kind)
      PROVE  \A d \in Calls : Live(d)' => Live(d)
  <2>1. NewRequest(kind, "refused", <<"error">>).stage = "refused"
    BY DEF NewRequest
  <2> QED
    BY <1>2, <1>3, <2>1 DEF Refuse
<1>4. ASSUME NEW c \in Calls, request_worker(c)
      PROVE  \A d \in Calls : Live(d)' => Live(d)
  BY <1>2, <1>4 DEF request_worker, Live
<1>5. ASSUME NEW c \in Calls, Complete(c)
      PROVE  \A d \in Calls : Live(d)' => Live(d)
  <2>1. PICK told, late : call' = [call EXCEPT ![c] = Finished(call[c], told, late)]
    BY <1>5 DEF Complete
  <2>2. Finished(call[c], told, late).stage = "freed"
    BY DEF Finished
  <2> QED
    BY <1>2, <2>1, <2>2
<1>6. CASE RunBlock
  <2>1. \A d \in Calls : call'[d].stage = call[d].stage
    BY <1>1, <1>6 DEF RunBlock, Request
  <2> QED
    BY <2>1 DEF Live
<1>7. CASE UNCHANGED call
  BY <1>7 DEF Live
<1> QED
  BY <1>3, <1>4, <1>5, <1>6, <1>7

LEMMA CallStep ==
  ASSUME IInv, process = "running", UNCHANGED env_vars,
         \/ \E c \in Calls, kind \in Kinds : Refuse(c, kind)
         \/ \E c \in Calls : request_worker(c) \/ Complete(c)
         \/ RunBlock
  PROVE  IInv'
<1>1. CallInv /\ EnvInv
  BY DEF IInv
<1>2. CallInv'
  BY <1>1, RefuseKeeps, WorkerKeeps, CompleteKeeps, RunBlockKeeps
<1>3. EnvInv'
  <2>1. \A d \in Calls : Live(d)' => Live(d)
    BY <1>1, NothingMade
  <2> QED
    BY <1>1, <2>1, CallsGoOn
<1> QED
  BY <1>2, <1>3 DEF IInv

(* Nothing happens to the calls, but the process may crash.                *)
LEMMA CallsRest ==
  ASSUME CallInv, UNCHANGED <<call, main>>, process' \in {process, "crashed"}
  PROVE  CallInv'
BY DEF CallInv, CallTypes, CallTold, BlockTold, Truly

(* A loop is left, and destroyed, when nothing is outstanding on it.       *)
LEMMA LeaveOwnLoopStep ==
  ASSUME IInv, LeaveOwnLoop
  PROVE  IInv'
<1>1. /\ CallInv /\ EnvTypes /\ OwnLoop /\ OneLooper
  BY DEF IInv, EnvInv
<1>2. /\ app \in {"registering", "verifying"} /\ Outstanding(own) = {}
      /\ destroyed' = destroyed \union {own}
      /\ \/ app' = "waiting" /\ own' = own
         \/ app' = "idle" /\ own' = 0
      /\ UNCHANGED <<call, main, process, _env, made, onEnvironment, looper, keys,
                     replaced>>
  BY DEF LeaveOwnLoop, call_vars
<1>3. own # 0 /\ own # _env /\ own \in 1..made
  BY <1>1, <1>2, LooperAssumption DEF OwnLoop, EnvTypes
<1>4. CallInv'
  BY <1>1, <1>2, CallsRest
<1>5. EnvTypes'
  BY <1>1, <1>2, <1>3 DEF EnvTypes
<1>6. OwnLoop'
  BY <1>1, <1>2, <1>3 DEF OwnLoop
<1>7. \A d \in Calls : Live(d) => onEnvironment[d] # own
  BY <1>2 DEF Outstanding, Live
<1>8. OneLooper'
  BY <1>1, <1>2, <1>3, <1>7 DEF OneLooper, Live
<1> QED
  BY <1>4, <1>5, <1>6, <1>8 DEF IInv, EnvInv

LEMMA VerifiedStep ==
  ASSUME IInv, Verified
  PROVE  IInv'
<1>1. /\ CallInv /\ EnvTypes /\ OwnLoop /\ OneLooper
  BY DEF IInv, EnvInv
<1>2. /\ app' = "idle" /\ own' = 0
      /\ UNCHANGED <<call, main, process, _env, made, destroyed, onEnvironment, looper,
                     keys, replaced>>
  BY DEF Verified, call_vars
<1>3. CallInv'
  BY <1>1, <1>2, CallsRest
<1>4. EnvTypes' /\ OwnLoop' /\ OneLooper'
  BY <1>1, <1>2, LooperAssumption DEF EnvTypes, OwnLoop, OneLooper, Live
<1> QED
  BY <1>3, <1>4 DEF IInv, EnvInv

(* Keys are imported over an environment, or there is none yet.            *)
LEMMA ImportKeysStep ==
  ASSUME IInv, importKeys
  PROVE  IInv'
<1>1. /\ CallInv /\ EnvTypes /\ OwnLoop /\ OneLooper
  BY DEF IInv, EnvInv
<1>2. /\ app = "idle" /\ made < MaxEnvironments /\ app' = "importing"
      /\ destroyed' = IF _env = 0 THEN destroyed ELSE destroyed \union {_env}
      /\ replaced' = (replaced \/ _env # 0)
      /\ UNCHANGED <<call, main, process, _env, made, onEnvironment, looper, own>>
  BY DEF importKeys, call_vars
<1>3. CallInv'
  BY <1>1, <1>2, CallsRest
<1>4. EnvTypes'
  BY <1>1, <1>2, LooperAssumption DEF EnvTypes
<1>5. OwnLoop'
  BY <1>1, <1>2 DEF OwnLoop
<1>6. OneLooper'
  BY <1>1, <1>2 DEF OneLooper, Live
<1> QED
  BY <1>3, <1>4, <1>5, <1>6 DEF IInv, EnvInv

LEMMA KeysImportedStep ==
  ASSUME IInv, KeysImported
  PROVE  IInv'
<1>1. /\ CallInv /\ EnvInv /\ EnvTypes /\ OwnLoop /\ OneLooper
  BY DEF IInv, EnvInv
<1>2. /\ app = "importing" /\ app' = "idle" /\ made' = made + 1 /\ _env' = made + 1
      /\ looper' = Append(looper, 0)
      /\ UNCHANGED <<call, main, process, destroyed, onEnvironment, own, keys, replaced>>
  BY DEF KeysImported, call_vars
<1>3. made < MaxEnvironments /\ own = 0
  BY <1>1, <1>2 DEF OwnLoop
<1>4. /\ made \in Nat /\ made + 1 \in 1..MaxEnvironments /\ made + 1 \notin destroyed
      /\ destroyed \subseteq 1..(made + 1)
      /\ onEnvironment \in [Calls -> 0..(made + 1)]
  BY <1>1, <1>3, NewNumber
<1>5. /\ looper' \in Seq(0..(made + 1)) /\ Len(looper') = Len(looper) + 1
      /\ Len(looper') <= made + 1 /\ Len(looper) = 0 => looper'[1] = 0
  BY <1>1, <1>2, <1>3, ThreadStarted
<1>6. CallInv'
  BY <1>1, <1>2, CallsRest
<1>7. EnvTypes'
  BY <1>1, <1>2, <1>3, <1>4, <1>5 DEF EnvTypes
<1>8. OwnLoop'
  BY <1>2, <1>3 DEF OwnLoop
<1>9. OneLooper'
  BY <1>1, <1>2, <1>4, <1>5 DEF OneLooper, Live
<1> QED
  BY <1>6, <1>7, <1>8, <1>9 DEF IInv, EnvInv

LEMMA DeleteAuthFileStep ==
  ASSUME IInv, deleteAuthFile
  PROVE  IInv'
<1>1. UNCHANGED <<call, main, process, _env, made, destroyed, onEnvironment, looper,
                  app, own, replaced>>
  BY DEF deleteAuthFile, call_vars
<1>2. CallInv'
  BY <1>1, CallsRest DEF IInv
<1>3. EnvInv'
  BY <1>1 DEF IInv, EnvInv, EnvTypes, OwnLoop, OneLooper, Live
<1> QED
  BY <1>2, <1>3 DEF IInv

(* A thread enters the loop of _env, or leaves a loop.                     *)
LEMMA LooperStep ==
  ASSUME IInv, NEW t \in DOMAIN looper, EnterLoop(t) \/ LeaveLoop(t)
  PROVE  IInv'
<1>1. /\ CallInv /\ EnvTypes /\ OwnLoop /\ OneLooper
  BY DEF IInv, EnvInv
<1>2. PICK e \in {0, _env} :
        /\ looper' = [looper EXCEPT ![t] = e]
        /\ UNCHANGED <<call, main, process, _env, made, destroyed, onEnvironment, app,
                       own, keys, replaced>>
  BY DEF EnterLoop, LeaveLoop, call_vars
<1>3. looper \in Seq(0..made) /\ t \in 1..Len(looper) /\ e \in 0..made
  BY <1>1, <1>2, LooperAssumption, LenProperties DEF EnvTypes
<1>4. /\ looper' \in Seq(0..made) /\ Len(looper') = Len(looper) /\ looper'[t] = e
      /\ \A s \in 1..Len(looper) : s # t => looper'[s] = looper[s]
  BY <1>2, <1>3, ExceptSeq
<1>5. CallInv'
  BY <1>1, <1>2, CallsRest
<1>6. EnvTypes' /\ OwnLoop'
  BY <1>1, <1>2, <1>4 DEF EnvTypes, OwnLoop
<1>7. OneLooper'
  BY <1>1, <1>2, <1>4 DEF OneLooper, Live
<1> QED
  BY <1>5, <1>6, <1>7 DEF IInv, EnvInv

-----------------------------------------------------------------------------
LEMMA NextKeeps ==
  ASSUME IInv, [Next]_vars
  PROVE  IInv'
<1>1. CallInv /\ EnvInv
  BY DEF IInv
<1>2. ASSUME NEW c \in Calls, NEW kind \in Kinds, BridgeCall(c, kind)
      PROVE  IInv'
  BY <1>2, BridgeCallStep
<1>3. ASSUME NEW c \in Calls, NEW kind \in Kinds, process = "running",
             NoEnvironment(c, kind)
      PROVE  IInv'
  BY <1>3, CallStep DEF NoEnvironment
<1>4. ASSUME NEW c \in Calls, getBridgeInfo(c) PROVE IInv'
  BY <1>4, BridgeInfoStep
<1>5. ASSUME NEW c \in Calls, registerUser(c) \/ verifyKeys(c) PROVE IInv'
  <2>1. "register" \in Kinds /\ "get_buckets" \in Kinds
    BY DEF Kinds
  <2> QED
    BY <1>5, <2>1, OwnEnvironmentStep DEF registerUser, verifyKeys
<1>6. ASSUME process = "running", Application PROVE IInv'
  BY <1>2, <1>3, <1>4, <1>5, <1>6, LeaveOwnLoopStep, VerifiedStep, ImportKeysStep,
     KeysImportedStep, DeleteAuthFileStep DEF Application
<1>7. ASSUME process = "running", NEW c \in Calls,
             uv_run(c) \/ (request_worker(c) /\ UNCHANGED env_vars)
      PROVE  IInv'
  BY <1>7, CallStep DEF uv_run
<1>8. ASSUME process = "running", RunBlock, UNCHANGED env_vars PROVE IInv'
  BY <1>8, CallStep
<1>9. ASSUME NEW t \in DOMAIN looper, EnterLoop(t) \/ LeaveLoop(t) PROVE IInv'
  BY <1>9, LooperStep
<1>10. ASSUME UNCHANGED <<call, main, env_vars>>, process' \in {process, "crashed"}
       PROVE  IInv'
  <2>1. CallInv'
    BY <1>1, <1>10, CallsRest
  <2>2. \A d \in Calls : Live(d)' => Live(d)
    BY <1>10 DEF Live
  <2> QED
    BY <1>1, <1>10, <2>1, <2>2, CallsGoOn DEF IInv
<1>11. CASE Fault
  BY <1>10, <1>11 DEF Fault
<1>12. CASE UNCHANGED vars
  BY <1>10, <1>12 DEF vars, call_vars
<1> QED
  BY <1>6, <1>7, <1>8, <1>9, <1>11, <1>12, TransferEnvironmentStep DEF Next

(* The invariant holds in every behaviour of the wrapper.                  *)
THEOREM Invariance == Spec => []IInv
<1>1. IInv /\ [Next]_vars => IInv'
  BY NextKeeps
<1> QED
  BY <1>1, InitIInv, PTL DEF Spec

(* Every reachable state has the declared types.                           *)
THEOREM TypeCorrect == Spec => []TypeOK
<1>1. ASSUME IInv PROVE TypeOK
  <2>1. call \in [Calls -> Request] /\ main \in Seq(Block) /\ CallTypes /\ EnvTypes
    BY <1>1 DEF IInv, CallInv, CallTypes, EnvInv
  <2>2. ASSUME NEW c \in Calls
        PROVE  /\ call[c].kind \in Kinds \union {"none"}
               /\ call[c].stage \in {"unused", "queued", "returned", "freed", "refused"}
               /\ call[c].response \in {"NULL", "expected", "other"}
               /\ call[c].told \in Seq({"success", "error"})
               /\ call[c].readFreed \in BOOLEAN
    <3>1. call[c] \in Request
      BY <2>1
    <3> QED
      BY <3>1 DEF Request
  <2>3. ASSUME NEW b \in DOMAIN main PROVE main[b].call \in Calls
    <3>1. main[b] \in Block
      BY <2>1, ElementOfSeq, LenProperties
    <3> QED
      BY <3>1 DEF Block
  <2>4. \A t \in DOMAIN looper : looper[t] \in 0..made
    BY <2>1, ElementOfSeq, LenProperties DEF EnvTypes
  <2> QED
    BY <2>1, <2>2, <2>3, <2>4 DEF TypeOK, CallTypeOK, CallTypes, EnvTypes
<1> QED
  BY <1>1, Invariance, PTL

(* The application hears of each call at most once, in whichever thread,   *)
(* and of success only for a call that the bridge accepted.                *)
THEOREM ToldOnce == Spec => []ToldOnceAndTruly
<1>1. ASSUME IInv PROVE ToldOnceAndTruly
  <2> SUFFICES ASSUME NEW c \in Calls
               PROVE  /\ Len(call[c].told) <= 1
                      /\ call[c].told = <<"success">> =>
                           call[c].status_code \in Accepted(call[c].kind)
    BY DEF ToldOnceAndTruly
  <2>1. CallTold(c)
    BY <1>1 DEF IInv, CallInv
  <2>2. Len(<<>>) <= 1 /\ Len(<<"success">>) <= 1 /\ Len(<<"error">>) <= 1
    OBVIOUS
  <2>3. call[c].told \in {<<>>, <<"success">>, <<"error">>}
    BY <2>1 DEF CallTold
  <2>4. Len(call[c].told) <= 1
    BY <2>2, <2>3, Zenon
  <2> QED
    BY <2>1, <2>4, Zenon DEF CallTold, Truly
<1> QED
  BY <1>1, Invariance, PTL

(* Until keys are imported over an environment, one thread at most runs a  *)
(* loop, and what is destroyed is not used; a freed request is read only   *)
(* by the block for a bucket that could not be deleted, and by the         *)
(* callback of the bridge's information on its way out of the process.     *)
THEOREM NothingFreed == Spec => []NothingFreedUsed
<1>1. ASSUME IInv PROVE FreedRequestsRead
  <2>1. \A c \in Calls : CallTold(c)
    BY <1>1 DEF IInv, CallInv
  <2> QED
    BY <2>1, Zenon DEF FreedRequestsRead, CallTold, LateRead, LastRead
<1>2. ASSUME IInv, ~replaced, NEW e \in 1..made
      PROVE  /\ e \notin destroyed \/ (Runners(e) = {} /\ Outstanding(e) = {})
             /\ ~(Cardinality(Runners(e)) > 1)
  <2>1. EnvTypes /\ OwnLoop /\ OneLooper /\ e # 0
    BY <1>2, LooperAssumption DEF IInv, EnvInv, EnvTypes
  <2>2. /\ DOMAIN looper \subseteq {1}
        /\ \A t \in DOMAIN looper : looper[t] = e => e = _env
    <3>1. DOMAIN looper = 1..Len(looper)
      BY <2>1, LenProperties DEF EnvTypes
    <3> QED
      BY <1>2, <2>1, <3>1 DEF OneLooper
  <2>3. \/ Runners(e) = {}
        \/ Runners(e) = {1} /\ e = _env
        \/ Runners(e) = {0} /\ e = own /\ app \in {"registering", "verifying"}
    BY <2>1, <2>2 DEF Runners, OwnLoop
  <2>4. ~(Cardinality(Runners(e)) > 1)
    <3>1. Runners(e) = {} => Cardinality(Runners(e)) = 0
      BY FS_EmptySet
    <3>2. \A x : Runners(e) = {x} => Cardinality(Runners(e)) = 1
      BY FS_Singleton
    <3>3. Cardinality(Runners(e)) \in {0, 1}
      BY <2>3, <3>1, <3>2
    <3> QED
      BY <3>3
  <2>5. ASSUME e \in destroyed PROVE Runners(e) = {} /\ Outstanding(e) = {}
    BY <1>2, <2>1, <2>3, <2>5 DEF OwnLoop, OneLooper, Outstanding, Live
  <2> QED
    BY <2>4, <2>5
<1>3. ASSUME IInv PROVE MisuseOnlyAfterImport
  BY <1>2, <1>3 DEF MisuseOnlyAfterImport, Misuse
<1>4. IInv => NothingFreedUsed
  BY <1>1, <1>3 DEF NothingFreedUsed
<1> QED
  BY <1>4, Invariance, PTL

=============================================================================
