---------------------------- MODULE ShardTripProofs ----------------------------
(***************************************************************************)
(* Proofs about the whole way of a shard.  What FetchShardProofs shows of  *)
(* the download holds along it, whatever PutShard does at its other end;   *)
(* the upload sends every byte under the key stream of its place; and what *)
(* is decrypted at the end is the file, for every size of a shard, a block *)
(* and a piece of the decryption.                                          *)
(***************************************************************************)
EXTENDS ShardTrip, FetchShardProofs

trip_vars == <<size, stage, plain, fetch_vars, push_vars>>

(* The upload does not change the size of the shard it sends. *)
LEMMA PutKeepsSize ==
  ASSUME Put!Next
  PROVE  UNCHANGED size
BY DEF Put!Next, Put!push_shard, Put!body_shard_send, Put!Truncate, Put!PutFailed, Put!PutAnswered,
       Put!progress_put_shard, Put!after_push_shard, Put!free_push_shard_work,
       Put!queue_push_shard, Put!store_file_cancel

(* A step of the way is a step of the download, or leaves it alone. *)
LEMMA TripStep ==
  ASSUME [TripNext]_trip_vars
  PROVE  [Next]_vars
<1>1. CASE store_file
  BY <1>1, PutKeepsSize DEF store_file, fetch_vars, vars
<1>2. CASE cleanup_state
  BY <1>2 DEF cleanup_state, fetch_vars, vars
<1>3. CASE resolve_file
  BY <1>3 DEF resolve_file
<1>4. CASE recover_shards
  BY <1>4 DEF recover_shards, fetch_vars, vars
<1>5. CASE UNCHANGED trip_vars
  BY <1>5 DEF trip_vars, fetch_vars, vars
<1> QED
  BY <1>1, <1>2, <1>3, <1>4, <1>5 DEF TripNext

(* The whole way implements the download: every theorem about Spec holds   *)
(* for it.                                                                 *)
THEOREM TripImplementsFetch == TripSpec => Spec
<1>1. TripInit => Init
  BY DEF TripInit
<1>2. [TripNext]_trip_vars => [Next]_vars
  BY TripStep
<1> QED
  BY <1>1, <1>2, PTL DEF TripSpec, Spec, trip_vars

(* Along the way no byte is lost, written outside the shard's region or    *)
(* taken for downloaded when it is not, and the reports go forward.        *)
THEOREM TripDownloads ==
  TripSpec => [](TailKept /\ NeighboursUntouched /\ DownloadedIsWhole) /\ ProgressForward
BY TripImplementsFetch, NothingLost, OwnRegionOnly, DownloadedWhole, ReportsForward, PTL


-----------------------------------------------------------------------------
(* The inductive invariant of the upload's end.                            *)

PushTypes ==
  /\ size \in Nat \ {0} /\ on_disk \in 0..size
  /\ encrypted \in BOOLEAN /\ push_canceled \in BOOLEAN /\ push_event \in BOOLEAN
  /\ push_worker \in {"queued", "perform", "returned", "dequeued", "none"}
  /\ push_body \in [remain : 0..size, total_sent : 0..size,
                    bytes_since_progress : Nat, counter : Nat]
  /\ push_body.remain + push_body.total_sent = size
  /\ sent \in Seq([byte : Nat, key : Nat])
  /\ push_handle \in {"open", "closing", "closed"}
  /\ push_progress \in Put!Freed..size
  /\ shard \in [progress : {"AWAITING_PUSH_FRAME", "PUSHING_SHARD",
                            "COMPLETED_PUSH_SHARD"},
                uploaded_size : 0..size]
  /\ push_attempt \in 1..MaxPushes /\ push_reported \in BOOLEAN

(* The bytes that were sent, and where the next key stream starts: a block *)
(* that is not whole is the last one that is read.                         *)
PushSent ==
  /\ \A k \in 1..Len(sent) : sent[k].byte = k /\ (encrypted => sent[k].key = k)
  /\ push_worker = "perform" =>
       /\ Len(sent) = push_body.total_sent
       /\ \/ push_body.counter * AES_BLOCK_SIZE = push_body.total_sent
          \/ on_disk <= push_body.total_sent
          \/ push_body.remain = 0

(* What the job, its handle and the tracker say of each other.             *)
PushAgree ==
  /\ push_handle = "open" <=> push_worker # "none"
  /\ push_worker # "none" => shard.progress = "PUSHING_SHARD"
  /\ push_handle = "open" => push_progress # Put!Freed
  /\ push_worker = "queued" => push_progress = 0
  /\ push_worker = "perform" => push_progress <= push_body.total_sent
  /\ (push_attempt = 1 \/ push_reported) /\ push_handle = "open" =>
       shard.uploaded_size <= push_progress
  /\ push_worker = "dequeued" => push_canceled
  /\ shard.progress = "AWAITING_PUSH_FRAME" => push_attempt < MaxPushes \/ push_canceled

(* A success, told by the job or by the tracker, is one.                   *)
PushTruthful ==
  /\ push_worker = "returned" /\ Put!Stored => Len(sent) = size
  /\ shard.progress = "COMPLETED_PUSH_SHARD" => Len(sent) = size

PushInv == PushTypes /\ PushSent /\ PushAgree /\ PushTruthful

(* What a division leaves. *)
LEMMA Remainder ==
  ASSUME NEW a \in Nat, NEW b \in Nat \ {0}
  PROVE  /\ a \div b \in Nat /\ a % b \in 0..(b - 1)
         /\ a = (a \div b) * b + (a % b)
OBVIOUS

(* Multiples stay multiples. *)
LEMMA Products ==
  ASSUME NEW a \in Nat, NEW b \in Nat, NEW c \in Nat
  PROVE  (a * b) * c = a * (b * c) /\ (a + b) * c = a * c + b * c
OBVIOUS

(* A multiple is no less than what it is of. *)
LEMMA Multiple ==
  ASSUME NEW a \in Nat \ {0}, NEW d \in Nat
  PROVE  d * a \in Nat /\ (d # 0 => d * a >= a)
OBVIOUS

(* Whole blocks are counted as what they are. *)
LEMMA WholeBlocks ==
  ASSUME NEW a \in Nat \ {0}, NEW k \in Nat
  PROVE  (k * a + a - 1) \div a = k
<1>1. PICK x \in Nat : x = k * a + a - 1
  BY Multiple
<1>2. PICK q \in Nat : q = x \div a
  BY <1>1, Remainder
<1>3. PICK r \in 0..(a - 1) : x = q * a + r
  BY <1>1, <1>2, Remainder
<1>4. ASSUME q < k PROVE FALSE
  <2>1. PICK d \in Nat \ {0} : k = q + d
    <3>1. k - q \in Nat \ {0} /\ k = q + (k - q)
      BY <1>4
    <3> QED
      BY <3>1
  <2>2. k * a = q * a + d * a /\ d * a >= a /\ q * a \in Nat /\ d * a \in Nat
    BY <2>1, Multiple, Products
  <2> QED
    BY <1>1, <1>3, <2>2
<1>5. ASSUME q > k PROVE FALSE
  <2>1. PICK d \in Nat \ {0} : q = k + d
    <3>1. q - k \in Nat \ {0} /\ q = k + (q - k)
      BY <1>5
    <3> QED
      BY <3>1
  <2>2. q * a = k * a + d * a /\ d * a >= a /\ k * a \in Nat /\ d * a \in Nat
    BY <2>1, Multiple, Products
  <2> QED
    BY <1>1, <1>3, <2>2
<1> QED
  BY <1>1, <1>2, <1>4, <1>5

(* The first attempt of the push begins with all of it. *)
LEMMA PushInitInv ==
  ASSUME Init, Put!Init
  PROVE  PushInv
<1>1. size \in Nat \ {0} /\ MaxPushes \in Nat \ {0}
  BY FetchAssumption, TripAssumption DEF Init
<1>2. <<>> \in Seq([byte : Nat, key : Nat]) /\ Len(<<>>) = 0
  BY EmptySeq
<1>3. /\ 0 \in 0..size /\ size \in 0..size /\ 0 \in (-1)..size /\ 1 \in 1..MaxPushes
  BY <1>1
<1>4. PushTypes
  <2>1. /\ push_body = [remain |-> size, total_sent |-> 0,
                        bytes_since_progress |-> 0, counter |-> 0]
        /\ shard = [progress |-> "PUSHING_SHARD", uploaded_size |-> 0]
    BY DEF Put!Init, Put!NewBody
  <2>2. push_body \in [remain : 0..size, total_sent : 0..size,
                       bytes_since_progress : Nat, counter : Nat]
    BY <1>3, <2>1
  <2>3. shard \in [progress : {"AWAITING_PUSH_FRAME", "PUSHING_SHARD",
                               "COMPLETED_PUSH_SHARD"},
                   uploaded_size : 0..size]
    BY <1>3, <2>1
  <2>4. push_body.remain + push_body.total_sent = size
    BY <1>1, <2>1
  <2> QED
    BY <1>1, <1>2, <1>3, <2>2, <2>3, <2>4 DEF PushTypes, Put!Init, Put!Freed
<1>5. PushSent /\ PushAgree /\ PushTruthful
  BY <1>1, <1>2 DEF PushSent, PushAgree, PushTruthful, Put!Init, Put!Freed
<1> QED
  BY <1>4, <1>5 DEF PushInv

(* A call of body_shard_send reads no more than there is to send, and      *)
(* whole blocks unless it comes to the end of the shard or of the file.    *)
LEMMA ReadBytesBounds ==
  ASSUME PushTypes, NEW room \in 1..MaxRead
  PROVE  LET n == Put!ReadBytes(room) IN
         /\ n \in 0..push_body.remain
         /\ n > 0 => on_disk > push_body.total_sent
         /\ \/ \E k \in Nat : n = k * AES_BLOCK_SIZE
            \/ n = push_body.remain
            \/ n > 0 => on_disk <= push_body.total_sent + n
<1>1. /\ room \in Nat /\ AES_BLOCK_SIZE \in Nat \ {0}
      /\ on_disk \in Nat /\ push_body.remain \in Nat /\ push_body.total_sent \in Nat
  BY FetchAssumption, TripAssumption DEF PushTypes
<1>2. PICK k \in Nat : k = room \div AES_BLOCK_SIZE
  BY <1>1, Remainder
<1>3. PICK buflen \in Nat : buflen = k * AES_BLOCK_SIZE
  BY <1>1
<1>4. PICK rest \in Nat : rest = IF on_disk > push_body.total_sent
                                 THEN on_disk - push_body.total_sent ELSE 0
  BY <1>1
<1>5. PICK n : n = Put!ReadBytes(room)
  OBVIOUS
<1>6. n = Put!Least(Put!Least(buflen, push_body.remain), rest)
  BY <1>2, <1>3, <1>4, <1>5 DEF Put!ReadBytes
<1>7. /\ n \in {buflen, push_body.remain, rest}
      /\ n <= buflen /\ n <= push_body.remain /\ n <= rest
  BY <1>1, <1>3, <1>4, <1>6 DEF Put!Least
<1>8. n \in 0..push_body.remain
  BY <1>1, <1>3, <1>4, <1>7
<1>9. n > 0 => on_disk > push_body.total_sent
  BY <1>1, <1>4, <1>7, <1>8
<1>10. n = rest /\ n > 0 => on_disk <= push_body.total_sent + n
  BY <1>1, <1>4
<1> QED
  BY <1>3, <1>5, <1>7, <1>8, <1>9, <1>10

(* What is sent continues what was sent, byte and key stream.              *)
LEMMA EncryptAppends ==
  ASSUME PushTypes, PushSent, push_worker = "perform", NEW n \in Nat,
         push_body.counter * AES_BLOCK_SIZE = push_body.total_sent
  PROVE  LET t == sent \o Put!Encrypt(n) IN
         /\ t \in Seq([byte : Nat, key : Nat])
         /\ Len(t) = push_body.total_sent + n
         /\ \A k \in 1..Len(t) : t[k].byte = k /\ (encrypted => t[k].key = k)
<1>1. PICK m \in Nat : m = push_body.total_sent /\ Len(sent) = m
  BY DEF PushTypes, PushSent
<1>2. PICK e : e = Put!Encrypt(n)
  OBVIOUS
<1>3. e = [i \in 1..n |-> [byte |-> m + i, key |-> m + i]]
  BY <1>1, <1>2 DEF Put!Encrypt
<1>4. e \in [1..n -> [byte : Nat, key : Nat]]
  BY <1>1, <1>3
<1>5. e \in Seq([byte : Nat, key : Nat]) /\ Len(e) = n
  <2>1. e \in Seq([byte : Nat, key : Nat])
    BY <1>4, SeqDef
  <2> QED
    BY <1>4, <2>1
<1>6. sent \in Seq([byte : Nat, key : Nat])
  BY DEF PushTypes
<1>7. PICK t : t = sent \o e
  OBVIOUS
<1>8. /\ t \in Seq([byte : Nat, key : Nat]) /\ Len(t) = m + n
      /\ \A p \in 1..m : t[p] = sent[p]
      /\ \A i \in 1..n : t[m + i] = e[i]
  <2>1. /\ sent \o e \in Seq([byte : Nat, key : Nat])
        /\ Len(sent \o e) = Len(sent) + Len(e)
        /\ \A p \in 1..Len(sent) : (sent \o e)[p] = sent[p]
        /\ \A i \in 1..Len(e) : (sent \o e)[Len(sent) + i] = e[i]
    BY <1>5, <1>6, Appended
  <2> QED
    BY <1>1, <1>5, <1>7, <2>1
<1>9. ASSUME NEW k \in 1..(m + n) PROVE t[k].byte = k /\ (encrypted => t[k].key = k)
  <2>1. CASE k <= m
    <3>1. k \in 1..Len(sent) /\ t[k] = sent[k]
      BY <1>1, <1>8, <2>1
    <3> QED
      BY <3>1 DEF PushSent
  <2>2. CASE k > m
    <3>1. PICK i \in 1..n : k = m + i
      <4>1. k - m \in 1..n /\ k = m + (k - m)
        BY <1>1, <2>2
      <4> QED
        BY <4>1
    <3>2. t[k] = [byte |-> m + i, key |-> m + i]
      BY <1>3, <1>8, <3>1
    <3> QED
      BY <3>1, <3>2
  <2>3. k \in Int /\ (k <= m \/ k > m)
    BY <1>1
  <2> QED
    BY <2>1, <2>2, <2>3
<1> QED
  BY <1>1, <1>2, <1>7, <1>8, <1>9

-----------------------------------------------------------------------------
(* Each action of the push keeps it.  First those of the pool thread.      *)

(* A new attempt starts again at the beginning of the shard.               *)
LEMMA PushShardStep ==
  ASSUME PushInv, Put!push_shard
  PROVE  PushInv'
<1>1. /\ push_worker = "queued" /\ push_worker' = "perform"
      /\ push_body' = [remain |-> size, total_sent |-> 0,
                       bytes_since_progress |-> 0, counter |-> 0]
      /\ sent' = <<>>
      /\ UNCHANGED <<size, encrypted, on_disk, push_canceled, answer, push_handle,
                     push_progress, push_event, shard, push_attempt, push_reported>>
  BY DEF Put!push_shard, Put!NewBody
<1>2. PushTypes /\ PushSent /\ PushAgree /\ PushTruthful /\ size \in Nat
  BY DEF PushInv, PushTypes
<1>3. <<>> \in Seq([byte : Nat, key : Nat]) /\ Len(<<>>) = 0
  BY EmptySeq
<1>4. push_body' \in [remain : 0..size, total_sent : 0..size,
                      bytes_since_progress : Nat, counter : Nat]
  <2>1. 0 \in 0..size /\ size \in 0..size
    BY <1>2
  <2> QED
    BY <1>1, <2>1
<1>5. push_body'.remain + push_body'.total_sent = size
  BY <1>1, <1>2
<1>6. PushTypes'
  BY <1>1, <1>2, <1>3, <1>4, <1>5 DEF PushTypes, Put!Freed
<1>7. PushSent'
  <2>1. \A k \in 1..Len(sent') : FALSE
    BY <1>1, <1>3
  <2>2. /\ Len(sent') = push_body'.total_sent
        /\ push_body'.counter * AES_BLOCK_SIZE = push_body'.total_sent
    BY <1>1, <1>3, FetchAssumption
  <2> QED
    BY <2>1, <2>2 DEF PushSent
<1>8. PushAgree'
  BY <1>1, <1>2 DEF PushAgree
<1>9. PushTruthful'
  BY <1>1, <1>2 DEF PushTruthful, PushAgree
<1> QED
  BY <1>6, <1>7, <1>8, <1>9 DEF PushInv

(* A file that is cut short below what was sent ends the reading.          *)
LEMMA TruncateStep ==
  ASSUME PushInv, Put!Truncate
  PROVE  PushInv'
<1>1. /\ on_disk > 0 /\ on_disk' \in 0..(on_disk - 1)
      /\ UNCHANGED <<size, encrypted, push_canceled, push_worker, push_body, sent,
                     answer, push_handle, push_progress, push_event, shard,
                     push_attempt, push_reported>>
  BY DEF Put!Truncate
<1>2. PushTypes /\ PushSent /\ PushAgree /\ PushTruthful
  BY DEF PushInv
<1>3. /\ size \in Nat /\ on_disk \in 0..size /\ push_body.total_sent \in Nat
  BY <1>2 DEF PushTypes
<1>4. on_disk' \in 0..size /\ on_disk' <= on_disk
  BY <1>1, <1>3
<1>5. on_disk <= push_body.total_sent => on_disk' <= push_body.total_sent
  BY <1>1, <1>3
<1>6. PushTypes'
  BY <1>1, <1>2, <1>4 DEF PushTypes, Put!Freed
<1>7. PushSent'
  BY <1>1, <1>2, <1>5 DEF PushSent
<1>8. PushAgree'
  BY <1>1, <1>2 DEF PushAgree
<1>9. PushTruthful'
  BY <1>1, <1>2 DEF PushTruthful, Put!Stored
<1> QED
  BY <1>6, <1>7, <1>8, <1>9 DEF PushInv

(* What the next call reads is encrypted with the key stream of its place, *)
(* and the counter is that of the next place unless nothing more is read.  *)
LEMMA BodySendStep ==
  ASSUME PushInv, Put!body_shard_send
  PROVE  PushInv'
<1>1. /\ push_worker = "perform"
      /\ UNCHANGED <<size, encrypted, on_disk, push_canceled, push_worker, answer,
                     push_handle, shard, push_attempt, push_reported>>
  BY DEF Put!body_shard_send
<1>2. PushTypes /\ PushSent /\ PushAgree /\ PushTruthful
  BY DEF PushInv
<1>3. PICK room \in 1..MaxRead :
        LET n == Put!ReadBytes(room)
            since == push_body.bytes_since_progress + n
            sends == n > 0 /\ (since > SHARD_PROGRESS_INTERVAL \/ push_body.remain = n)
        IN /\ n > 0
           /\ push_body' = [remain |-> push_body.remain - n,
                            total_sent |-> push_body.total_sent + n,
                            bytes_since_progress |-> IF sends THEN 0 ELSE since,
                            counter |-> push_body.counter + Put!Blocks(n)]
           /\ sent' = sent \o Put!Encrypt(n)
           /\ push_progress' = IF sends THEN Put!Announced(n) ELSE push_progress
           /\ push_event' = (push_event \/ sends)
  BY DEF Put!body_shard_send
<1>4. PICK n : n = Put!ReadBytes(room)
  OBVIOUS
<1>5. /\ n \in 0..push_body.remain /\ n > 0 /\ on_disk > push_body.total_sent
      /\ \/ \E k \in Nat : n = k * AES_BLOCK_SIZE
         \/ n = push_body.remain
         \/ on_disk <= push_body.total_sent + n
  BY <1>2, <1>3, <1>4, ReadBytesBounds
<1>6. PICK sends \in BOOLEAN :
        sends = (n > 0 /\ (\/ push_body.bytes_since_progress + n > SHARD_PROGRESS_INTERVAL
                           \/ push_body.remain = n))
  OBVIOUS
<1>7. /\ push_body' = [remain |-> push_body.remain - n,
                       total_sent |-> push_body.total_sent + n,
                       bytes_since_progress |->
                         IF sends THEN 0 ELSE push_body.bytes_since_progress + n,
                       counter |-> push_body.counter + Put!Blocks(n)]
      /\ sent' = sent \o Put!Encrypt(n)
      /\ push_progress' = IF sends THEN push_body.total_sent + n ELSE push_progress
      /\ push_event' = (push_event \/ sends)
  BY <1>3, <1>4, <1>6 DEF Put!Announced
<1>8. /\ size \in Nat \ {0} /\ AES_BLOCK_SIZE \in Nat \ {0} /\ on_disk \in Nat
      /\ push_body.remain \in 0..size /\ push_body.total_sent \in 0..size
      /\ push_body.bytes_since_progress \in Nat /\ push_body.counter \in Nat
      /\ push_body.remain + push_body.total_sent = size
      /\ push_progress \in (-1)..size /\ n \in Nat
  BY <1>2, <1>5, FetchAssumption DEF PushTypes, Put!Freed
<1>9. /\ push_body.remain - n \in 0..size /\ push_body.total_sent + n \in 0..size
      /\ (push_body.remain - n) + (push_body.total_sent + n) = size
      /\ push_body.remain # 0
  BY <1>5, <1>8
<1>10. push_body.counter * AES_BLOCK_SIZE = push_body.total_sent
  BY <1>1, <1>2, <1>5, <1>8, <1>9 DEF PushSent
<1>11. PICK b \in Nat : b = Put!Blocks(n)
  <2>1. n + AES_BLOCK_SIZE - 1 \in Nat
    BY <1>8
  <2> QED
    BY <1>8, <2>1, Remainder DEF Put!Blocks
<1>12. /\ sent' \in Seq([byte : Nat, key : Nat])
       /\ Len(sent') = push_body.total_sent + n
       /\ \A k \in 1..Len(sent') : sent'[k].byte = k /\ (encrypted => sent'[k].key = k)
  BY <1>1, <1>2, <1>7, <1>8, <1>10, EncryptAppends
<1>13. /\ push_body'.remain = push_body.remain - n
       /\ push_body'.total_sent = push_body.total_sent + n
       /\ push_body'.counter = push_body.counter + b
  BY <1>7, <1>11
<1>14. push_body' \in [remain : 0..size, total_sent : 0..size,
                       bytes_since_progress : Nat, counter : Nat]
  <2>1. PICK since \in Nat :
          since = IF sends THEN 0 ELSE push_body.bytes_since_progress + n
    BY <1>8
  <2>2. PICK counter \in Nat : counter = push_body.counter + b
    BY <1>8
  <2>3. push_body' = [remain |-> push_body.remain - n,
                      total_sent |-> push_body.total_sent + n,
                      bytes_since_progress |-> since, counter |-> counter]
    BY <1>7, <1>11, <2>1, <2>2
  <2> QED
    BY <1>9, <2>3
<1>15. /\ push_progress' \in (-1)..size
       /\ push_progress' <= push_body.total_sent + n
       /\ push_progress <= push_progress'
       /\ push_progress' # -1
  <2>1. push_progress <= push_body.total_sent /\ push_progress # -1
    BY <1>1, <1>2 DEF PushAgree, Put!Freed
  <2>2. CASE sends
    <3>1. push_progress' = push_body.total_sent + n
      BY <1>7, <2>2
    <3> QED
      BY <1>8, <1>9, <2>1, <3>1
  <2>3. CASE ~sends
    <3>1. push_progress' = push_progress
      BY <1>7, <2>3
    <3> QED
      BY <1>8, <1>9, <2>1, <3>1
  <2> QED
    BY <2>2, <2>3
<1>16. push_event' \in BOOLEAN
  BY <1>2, <1>7, Zenon DEF PushTypes
<1>17. PushTypes'
  BY <1>1, <1>2, <1>9, <1>12, <1>13, <1>14, <1>15, <1>16 DEF PushTypes, Put!Freed
<1>18. \/ push_body'.counter * AES_BLOCK_SIZE = push_body'.total_sent
       \/ on_disk' <= push_body'.total_sent
       \/ push_body'.remain = 0
  <2>1. ASSUME NEW k \in Nat, n = k * AES_BLOCK_SIZE
        PROVE  push_body'.counter * AES_BLOCK_SIZE = push_body'.total_sent
    <3>1. b = k
      BY <1>8, <1>11, <2>1, WholeBlocks DEF Put!Blocks
    <3>2. (push_body.counter + k) * AES_BLOCK_SIZE
            = push_body.counter * AES_BLOCK_SIZE + k * AES_BLOCK_SIZE
      BY <1>8, Products
    <3> QED
      BY <1>10, <1>13, <2>1, <3>1, <3>2
  <2>2. n = push_body.remain => push_body'.remain = 0
    BY <1>8, <1>13
  <2>3. on_disk <= push_body.total_sent + n => on_disk' <= push_body'.total_sent
    BY <1>1, <1>13
  <2> QED
    BY <1>5, <2>1, <2>2, <2>3
<1>19. PushSent'
  BY <1>1, <1>12, <1>13, <1>18 DEF PushSent
<1>20. PushAgree'
  <2>1. push_attempt = 1 \/ push_reported => shard.uploaded_size <= push_progress'
    <3>1. push_attempt = 1 \/ push_reported => shard.uploaded_size <= push_progress
      BY <1>1, <1>2 DEF PushAgree
    <3>2. shard.uploaded_size \in Nat
      BY <1>2 DEF PushTypes
    <3> QED
      BY <1>8, <1>15, <3>1, <3>2
  <2> QED
    BY <1>1, <1>2, <1>13, <1>15, <2>1 DEF PushAgree, Put!Freed
<1>21. PushTruthful'
  BY <1>1, <1>2 DEF PushTruthful, PushAgree
<1> QED
  BY <1>17, <1>19, <1>20, <1>21 DEF PushInv

(* The request fails, or is answered: a success needs all that was to send.*)
LEMMA AnswerStep ==
  ASSUME PushInv, Put!PutFailed \/ Put!PutAnswered
  PROVE  PushInv'
<1>1. /\ push_worker = "perform" /\ push_worker' = "returned"
      /\ UNCHANGED <<size, encrypted, on_disk, push_canceled, push_body, sent,
                     push_handle, push_progress, push_event, shard, push_attempt, push_reported>>
  BY DEF Put!PutFailed, Put!PutAnswered
<1>2. PushTypes /\ PushSent /\ PushAgree /\ PushTruthful
  BY DEF PushInv
<1>3. answer'.error_status = 0 => push_body.total_sent = size
  BY DEF Put!PutFailed, Put!PutAnswered
<1>4. PushTypes'
  BY <1>1, <1>2 DEF PushTypes, Put!Freed
<1>5. PushSent'
  BY <1>1, <1>2 DEF PushSent
<1>6. PushAgree'
  BY <1>1, <1>2 DEF PushAgree
<1>7. PushTruthful'
  <2>1. Len(sent) = push_body.total_sent
    BY <1>1, <1>2 DEF PushSent
  <2> QED
    BY <1>1, <1>2, <1>3, <2>1 DEF PushTruthful, Put!Stored
<1> QED
  BY <1>4, <1>5, <1>6, <1>7 DEF PushInv

-----------------------------------------------------------------------------
(* Then those of the loop thread.                                          *)

(* The tracker's fields, when one of them is given a new value. *)
LEMMA TrackerProgress ==
  ASSUME PushTypes, NEW status \in {"AWAITING_PUSH_FRAME", "PUSHING_SHARD",
                                    "COMPLETED_PUSH_SHARD"}
  PROVE  LET t == [shard EXCEPT !.progress = status] IN
         /\ t \in [progress : {"AWAITING_PUSH_FRAME", "PUSHING_SHARD",
                               "COMPLETED_PUSH_SHARD"},
                   uploaded_size : 0..size]
         /\ t.progress = status /\ t.uploaded_size = shard.uploaded_size
BY DEF PushTypes

LEMMA ReportPutStep ==
  ASSUME PushInv, Put!progress_put_shard
  PROVE  PushInv'
<1>1. /\ push_event /\ push_handle = "open" /\ push_event' = FALSE
      /\ push_reported' = TRUE
      /\ shard' = [shard EXCEPT !.uploaded_size = push_progress]
      /\ UNCHANGED <<size, encrypted, on_disk, push_canceled, push_worker,
                     push_body, sent, answer, push_handle, push_progress,
                     push_attempt>>
  BY DEF Put!progress_put_shard
<1>2. PushTypes /\ PushSent /\ PushAgree /\ PushTruthful
  BY DEF PushInv
<1>3. /\ size \in Nat /\ push_progress \in (-1)..size /\ push_progress # -1
      /\ shard \in [progress : {"AWAITING_PUSH_FRAME", "PUSHING_SHARD",
                                "COMPLETED_PUSH_SHARD"},
                    uploaded_size : 0..size]
  BY <1>1, <1>2 DEF PushTypes, PushAgree, Put!Freed
<1>4. push_progress \in 0..size /\ push_progress <= push_progress
  BY <1>3
<1>5. /\ shard' \in [progress : {"AWAITING_PUSH_FRAME", "PUSHING_SHARD",
                                 "COMPLETED_PUSH_SHARD"},
                     uploaded_size : 0..size]
      /\ shard'.progress = shard.progress /\ shard'.uploaded_size = push_progress
  BY <1>1, <1>3, <1>4, Zenon
<1>6. PushTypes'
  BY <1>1, <1>2, <1>5 DEF PushTypes, Put!Freed
<1>7. PushSent'
  BY <1>1, <1>2 DEF PushSent
<1>8. PushAgree'
  BY <1>1, <1>2, <1>4, <1>5 DEF PushAgree
<1>9. PushTruthful'
  BY <1>1, <1>2, <1>5 DEF PushTruthful, Put!Stored
<1> QED
  BY <1>6, <1>7, <1>8, <1>9 DEF PushInv

(* The job comes back: its success, its failure or its being taken out of  *)
(* the pool.                                                               *)
LEMMA AfterPushStep ==
  ASSUME PushInv, Put!after_push_shard
  PROVE  PushInv'
<1>1. /\ push_worker \in {"returned", "dequeued"} /\ push_worker' = "none"
      /\ push_progress' = -1 /\ push_handle' = "closing"
      /\ UNCHANGED <<size, encrypted, on_disk, push_canceled, push_body, sent,
                     answer, push_event, push_attempt, push_reported>>
  BY DEF Put!after_push_shard, Put!Freed
<1>2. PushTypes /\ PushSent /\ PushAgree /\ PushTruthful
  BY DEF PushInv
<1>3. size \in Nat \ {0} /\ -1 \in (-1)..size /\ size \in 0..size
  BY <1>2 DEF PushTypes
<1>4. /\ shard \in [progress : {"AWAITING_PUSH_FRAME", "PUSHING_SHARD",
                                "COMPLETED_PUSH_SHARD"},
                    uploaded_size : 0..size]
      /\ shard.progress = "PUSHING_SHARD"
  BY <1>1, <1>2 DEF PushTypes, PushAgree
<1>5. /\ shard' \in [progress : {"AWAITING_PUSH_FRAME", "PUSHING_SHARD",
                                 "COMPLETED_PUSH_SHARD"},
                     uploaded_size : 0..size]
      /\ shard'.progress = "COMPLETED_PUSH_SHARD" => Len(sent) = size
      /\ shard'.progress = "AWAITING_PUSH_FRAME" =>
           push_attempt < MaxPushes \/ push_canceled
  <2>1. CASE push_worker = "returned" /\ Put!Stored
    <3>1. shard' = [progress |-> "COMPLETED_PUSH_SHARD", uploaded_size |-> size]
      BY <2>1 DEF Put!after_push_shard
    <3>2. Len(sent) = size
      BY <1>2, <2>1 DEF PushTruthful
    <3> QED
      BY <1>3, <3>1, <3>2
  <2>2. CASE ~(push_worker = "returned" /\ Put!Stored)
             /\ (\/ push_worker = "dequeued"
                 \/ /\ push_worker = "returned" /\ ~Put!Stored
                    /\ ~push_canceled /\ push_attempt < MaxPushes)
    <3>1. shard' = [shard EXCEPT !.progress = "AWAITING_PUSH_FRAME"]
      BY <2>2 DEF Put!after_push_shard
    <3>2. push_attempt < MaxPushes \/ push_canceled
      BY <1>2, <2>2 DEF PushAgree
    <3> QED
      BY <1>2, <3>1, <3>2, TrackerProgress
  <2>3. CASE ~(push_worker = "returned" /\ Put!Stored)
             /\ ~(\/ push_worker = "dequeued"
                  \/ /\ push_worker = "returned" /\ ~Put!Stored
                     /\ ~push_canceled /\ push_attempt < MaxPushes)
    <3>1. shard' = shard
      BY <2>3 DEF Put!after_push_shard
    <3> QED
      BY <1>4, <3>1
  <2> QED
    BY <2>1, <2>2, <2>3
<1>6. PushTypes'
  BY <1>1, <1>2, <1>3, <1>5 DEF PushTypes, Put!Freed
<1>7. PushSent'
  BY <1>1, <1>2 DEF PushSent
<1>8. PushAgree'
  BY <1>1, <1>5 DEF PushAgree
<1>9. PushTruthful'
  BY <1>1, <1>5 DEF PushTruthful
<1> QED
  BY <1>6, <1>7, <1>8, <1>9 DEF PushInv

(* The handle is closed, and a shard that was not stored is queued again.  *)
LEMMA FreePushStep ==
  ASSUME PushInv, Put!free_push_shard_work
  PROVE  PushInv'
<1>1. /\ push_handle = "closing" /\ push_handle' = "closed" /\ push_event' = FALSE
      /\ UNCHANGED <<size, encrypted, on_disk, push_canceled, push_worker,
                     push_body, sent, answer, push_progress, shard, push_attempt, push_reported>>
  BY DEF Put!free_push_shard_work
<1>2. PushTypes /\ PushSent /\ PushAgree /\ PushTruthful
  BY DEF PushInv
<1>3. PushTypes'
  BY <1>1, <1>2 DEF PushTypes, Put!Freed
<1>4. PushSent'
  BY <1>1, <1>2 DEF PushSent
<1>5. PushAgree'
  BY <1>1, <1>2 DEF PushAgree
<1>6. PushTruthful'
  BY <1>1, <1>2 DEF PushTruthful, Put!Stored
<1> QED
  BY <1>3, <1>4, <1>5, <1>6 DEF PushInv

LEMMA QueuePushStep ==
  ASSUME PushInv, Put!queue_push_shard
  PROVE  PushInv'
<1>1. /\ shard.progress = "AWAITING_PUSH_FRAME" /\ ~push_canceled
      /\ push_handle = "closed" /\ push_attempt' = push_attempt + 1
      /\ push_worker' = "queued" /\ push_handle' = "open" /\ push_progress' = 0
      /\ push_reported' = FALSE
      /\ shard' = [shard EXCEPT !.progress = "PUSHING_SHARD"]
      /\ UNCHANGED <<size, encrypted, on_disk, push_canceled, push_body, sent,
                     push_event>>
  BY DEF Put!queue_push_shard
<1>2. PushTypes /\ PushSent /\ PushAgree /\ PushTruthful
  BY DEF PushInv
<1>3. /\ size \in Nat /\ push_attempt \in 1..MaxPushes /\ MaxPushes \in Nat \ {0}
  BY <1>2, TripAssumption DEF PushTypes
<1>4. push_attempt < MaxPushes
  BY <1>1, <1>2 DEF PushAgree
<1>5. /\ push_attempt' \in 1..MaxPushes /\ push_attempt' # 1 /\ 0 \in (-1)..size
      /\ 0 # -1
  BY <1>1, <1>3, <1>4
<1>6. /\ shard' \in [progress : {"AWAITING_PUSH_FRAME", "PUSHING_SHARD",
                                 "COMPLETED_PUSH_SHARD"},
                     uploaded_size : 0..size]
      /\ shard'.progress = "PUSHING_SHARD"
  BY <1>1, <1>2, TrackerProgress
<1>7. PushTypes'
  BY <1>1, <1>2, <1>5, <1>6 DEF PushTypes, Put!Freed
<1>8. PushSent'
  BY <1>1, <1>2 DEF PushSent
<1>9. PushAgree'
  BY <1>1, <1>5, <1>6 DEF PushAgree, Put!Freed
<1>10. PushTruthful'
  BY <1>1, <1>6 DEF PushTruthful
<1> QED
  BY <1>7, <1>8, <1>9, <1>10 DEF PushInv

(* A cancel takes the job out of the pool if it is still queued there.     *)
LEMMA CancelPutStep ==
  ASSUME PushInv, Put!store_file_cancel
  PROVE  PushInv'
<1>1. /\ push_canceled' = TRUE
      /\ push_worker' = IF push_worker = "queued" THEN "dequeued" ELSE push_worker
      /\ UNCHANGED <<size, encrypted, on_disk, push_body, sent, answer, push_handle,
                     push_progress, push_event, shard, push_attempt, push_reported>>
  BY DEF Put!store_file_cancel
<1>2. PushTypes /\ PushSent /\ PushAgree /\ PushTruthful
  BY DEF PushInv
<1>3. PushTypes'
  BY <1>1, <1>2 DEF PushTypes, Put!Freed
<1>4. PushSent'
  BY <1>1, <1>2 DEF PushSent
<1>5. PushAgree'
  BY <1>1, <1>2 DEF PushAgree
<1>6. PushTruthful'
  BY <1>1, <1>2 DEF PushTruthful, Put!Stored
<1> QED
  BY <1>3, <1>4, <1>5, <1>6 DEF PushInv

LEMMA PutStep ==
  ASSUME PushInv, Put!Next
  PROVE  PushInv'
BY PushShardStep, TruncateStep, BodySendStep, AnswerStep, ReportPutStep,
   AfterPushStep, FreePushStep, QueuePushStep, CancelPutStep DEF Put!Next

(* What the download does leaves the push as it is. *)
LEMMA PushAlone ==
  ASSUME PushInv, UNCHANGED <<size, push_vars>>
  PROVE  PushInv'
<1>1. UNCHANGED <<size, encrypted, on_disk, push_canceled, push_worker, push_body,
                  sent, answer, push_handle, push_progress, push_event, shard,
                  push_attempt, push_reported>>
  BY DEF push_vars
<1>2. PushTypes /\ PushSent /\ PushAgree /\ PushTruthful
  BY DEF PushInv
<1>3. PushTypes'
  BY <1>1, <1>2 DEF PushTypes, Put!Freed
<1>4. PushSent'
  BY <1>1, <1>2 DEF PushSent
<1>5. PushAgree'
  BY <1>1, <1>2 DEF PushAgree
<1>6. PushTruthful'
  BY <1>1, <1>2 DEF PushTruthful, Put!Stored
<1> QED
  BY <1>3, <1>4, <1>5, <1>6 DEF PushInv

(* The state of an upload that is done is freed.                           *)
LEMMA CleanupStep ==
  ASSUME PushInv, cleanup_state
  PROVE  PushInv'
<1>1. /\ shard.progress = "COMPLETED_PUSH_SHARD" /\ push_handle = "closed"
      /\ on_disk' = 0 /\ push_canceled' = FALSE /\ push_progress' = -1
      /\ push_body' = [remain |-> size, total_sent |-> 0,
                       bytes_since_progress |-> 0, counter |-> 0]
      /\ push_event' = FALSE /\ push_attempt' = 1 /\ push_reported' = FALSE
      /\ UNCHANGED <<size, encrypted, push_worker, sent, push_handle, shard>>
  BY DEF cleanup_state, Put!NewBody, Put!Freed
<1>2. PushTypes /\ PushSent /\ PushAgree /\ PushTruthful
  BY DEF PushInv
<1>3. /\ size \in Nat \ {0} /\ 0 \in 0..size /\ size \in 0..size
      /\ 1 \in 1..MaxPushes /\ -1 \in (-1)..size /\ size + 0 = size
  BY <1>2, TripAssumption DEF PushTypes
<1>4. push_body' \in [remain : 0..size, total_sent : 0..size,
                      bytes_since_progress : Nat, counter : Nat]
      /\ push_body'.remain + push_body'.total_sent = size
  BY <1>1, <1>3
<1>5. push_worker = "none"
  BY <1>1, <1>2 DEF PushAgree
<1>6. PushTypes'
  BY <1>1, <1>2, <1>3, <1>4 DEF PushTypes, Put!Freed
<1>7. PushSent'
  BY <1>1, <1>2, <1>5 DEF PushSent
<1>8. PushAgree'
  BY <1>1, <1>2, <1>5 DEF PushAgree
<1>9. PushTruthful'
  BY <1>1, <1>2, <1>5 DEF PushTruthful
<1> QED
  BY <1>6, <1>7, <1>8, <1>9 DEF PushInv

-----------------------------------------------------------------------------
(* Both ends and the decryption between them.                              *)

TripGood ==
  /\ stage \in {"store", "resolve"}
  /\ stage = "resolve" => shard.progress = "COMPLETED_PUSH_SHARD"
  /\ TripIsWhole

(* Every piece but the last is a whole number of blocks, so the decryption *)
(* of a position starts with the key stream of that position.              *)
LEMMA DecryptInPlace ==
  ASSUME NEW p \in Nat \ {0}
  PROVE  DecryptKey(p) = p
<1>1. AES_BLOCK_SIZE \in Nat \ {0} /\ DECRYPT_LEN \in Nat \ {0}
  BY FetchAssumption, TripAssumption
<1>2. PICK k \in Nat : DECRYPT_LEN = k * AES_BLOCK_SIZE
  <2>1. DECRYPT_LEN = (DECRYPT_LEN \div AES_BLOCK_SIZE) * AES_BLOCK_SIZE
                        + (DECRYPT_LEN % AES_BLOCK_SIZE)
        /\ DECRYPT_LEN \div AES_BLOCK_SIZE \in Nat
    BY <1>1, Remainder
  <2>2. PICK k \in Nat : k = DECRYPT_LEN \div AES_BLOCK_SIZE
    BY <2>1
  <2>3. k * AES_BLOCK_SIZE \in Nat
    BY <1>1, Multiple
  <2>4. DECRYPT_LEN = k * AES_BLOCK_SIZE
    BY <2>1, <2>2, <2>3, TripAssumption
  <2> QED
    BY <2>4
<1>3. Put!Blocks(DECRYPT_LEN) = k
  BY <1>1, <1>2, WholeBlocks DEF Put!Blocks
<1>4. PICK q \in Nat : q = (p - 1) \div DECRYPT_LEN
  BY <1>1, Remainder
<1>5. PICK r \in Nat : r = (p - 1) % DECRYPT_LEN
  BY <1>1, Remainder
<1>6. p - 1 = q * DECRYPT_LEN + r
  BY <1>1, <1>4, <1>5, Remainder
<1>7. q * k * AES_BLOCK_SIZE = q * DECRYPT_LEN /\ q * DECRYPT_LEN \in Nat
  BY <1>1, <1>2, Products, Multiple
<1>8. DecryptKey(p) = q * k * AES_BLOCK_SIZE + r + 1
  BY <1>3, <1>4, <1>5 DEF DecryptKey
<1> QED
  BY <1>6, <1>7, <1>8

(* What is decrypted is the file: each position holds the byte that was    *)
(* sent for it, under the key stream that it is decrypted with.            *)
LEMMA RecoverStep ==
  ASSUME IInv, PushInv, TripGood, recover_shards
  PROVE  TripGood'
<1>1. /\ stage = "resolve" /\ pointer.status = "POINTER_DOWNLOADED" /\ ~canceled
      /\ plain' = [p \in 1..size |-> LET c == Cipher(p) IN
                     IF c.key = DecryptKey(p) THEN c.byte ELSE Wrong]
      /\ UNCHANGED <<size, stage, sent, shard, encrypted>>
  BY DEF recover_shards, push_vars
<1>2. InPlace
  BY <1>1 DEF IInv, Truthful
<1>3. Len(sent) = size /\ size \in Nat
  BY <1>1 DEF TripGood, PushInv, PushTruthful, PushTypes
<1>4. /\ sent \in Seq([byte : Nat, key : Nat])
      /\ \A k \in 1..Len(sent) : sent[k].byte = k /\ (encrypted => sent[k].key = k)
  BY DEF PushInv, PushTypes, PushSent
<1>5. DOMAIN sent = 1..size
  BY <1>3, <1>4, LenProperties
<1>6. ASSUME NEW p \in 1..size
      PROVE  Cipher(p).byte = p /\ Cipher(p).key = p
  <2>1. destination[p] = p /\ p \in DOMAIN sent
    BY <1>2, <1>5 DEF InPlace
  <2>2. sent[p].byte = p /\ (encrypted => sent[p].key = p)
    BY <1>3, <1>4
  <2>3. Cipher(p) = IF encrypted THEN sent[p]
                    ELSE [byte |-> sent[p].byte, key |-> sent[p].byte]
    BY <2>1 DEF Cipher
  <2> QED
    BY <2>2, <2>3
<1>7. ASSUME NEW p \in 1..size PROVE DecryptKey(p) = p
  <2>1. p \in Nat \ {0}
    BY <1>3
  <2> QED
    BY <2>1, DecryptInPlace
<1>8. plain' = [p \in 1..size |-> p]
  BY <1>1, <1>6, <1>7
<1> QED
  BY <1>1, <1>8 DEF TripGood, TripIsWhole

LEMMA TripInitGood ==
  ASSUME TripInit
  PROVE  PushInv /\ TripGood
BY PushInitInv DEF TripInit, TripGood, TripIsWhole

LEMMA TripGoodStep ==
  ASSUME IInv, PushInv, TripGood, [TripNext]_trip_vars
  PROVE  PushInv' /\ TripGood'
<1>1. CASE store_file
  <2>1. Put!Next /\ stage = "store" /\ UNCHANGED <<stage, plain, size>>
    BY <1>1, PutKeepsSize DEF store_file
  <2>2. TripGood'
    BY <2>1 DEF TripGood, TripIsWhole
  <2> QED
    BY <2>1, <2>2, PutStep
<1>2. CASE cleanup_state
  <2>1. /\ shard.progress = "COMPLETED_PUSH_SHARD" /\ stage' = "resolve"
        /\ UNCHANGED <<shard, plain, size>>
    BY <1>2 DEF cleanup_state
  <2>2. TripGood'
    BY <2>1 DEF TripGood, TripIsWhole
  <2> QED
    BY <1>2, <2>2, CleanupStep
<1>3. CASE resolve_file
  <2>1. UNCHANGED <<stage, plain, push_vars>> /\ Next
    BY <1>3 DEF resolve_file
  <2>2. UNCHANGED size
    BY <2>1 DEF Next, request_shard, body_shard_receive, FetchFailed, FetchEnded,
                progress_request_shard, after_request_shard,
                free_request_shard_work, queue_request_shard, resolve_file_cancel
  <2>3. UNCHANGED shard
    BY <2>1 DEF push_vars
  <2>4. TripGood'
    BY <2>1, <2>2, <2>3 DEF TripGood, TripIsWhole
  <2> QED
    BY <2>1, <2>2, <2>4, PushAlone
<1>4. CASE recover_shards
  <2>1. UNCHANGED <<size, push_vars>>
    BY <1>4 DEF recover_shards
  <2> QED
    BY <1>4, <2>1, PushAlone, RecoverStep
<1>5. CASE UNCHANGED trip_vars
  <2>1. UNCHANGED <<size, stage, plain, push_vars>>
    BY <1>5 DEF trip_vars
  <2>2. UNCHANGED shard
    BY <2>1 DEF push_vars
  <2>3. TripGood'
    BY <2>1, <2>2 DEF TripGood, TripIsWhole
  <2> QED
    BY <2>1, <2>3, PushAlone
<1> QED
  BY <1>1, <1>2, <1>3, <1>4, <1>5 DEF TripNext

-----------------------------------------------------------------------------
(* The invariants of both ends and of what lies between them hold together *)
(* on the whole way of a shard.                                            *)
THEOREM TripInvariance == TripSpec => [](IInv /\ PushInv /\ TripGood)
<1>1. TripInit => PushInv /\ TripGood
  BY TripInitGood
<1>2. IInv /\ PushInv /\ TripGood /\ [TripNext]_trip_vars => (PushInv /\ TripGood)'
  BY TripGoodStep
<1>3. TripSpec => []IInv
  BY TripImplementsFetch, Invariance, PTL
<1> QED
  BY <1>1, <1>2, <1>3, PTL DEF TripSpec, trip_vars

(* The data of the upload, the download and of their handles stay within   *)
(* their declarations' ranges, on both sides of the farmer.                *)
THEOREM TripTypes == TripSpec => []TypesOK
<1>1. PushInv /\ IInv => Put!TypeOK
  <2> SUFFICES ASSUME PushInv, IInv PROVE Put!TypeOK
    OBVIOUS
  <2>1. size \in Sizes
    BY DEF IInv, Types
  <2>2. PushTypes
    BY DEF PushInv
  <2> QED
    BY <2>1, <2>2 DEF PushTypes, Put!TypeOK, Put!Freed
<1>2. TripSpec => []TypeOK
  BY TripImplementsFetch, TypeCorrect, PTL
<1>3. TripSpec => []Put!TypeOK
  BY <1>1, TripInvariance, PTL
<1>4. TypeOK /\ Put!TypeOK => TypesOK
  BY DEF TypesOK
<1> QED
  BY <1>2, <1>3, <1>4, PTL

(* Whatever room curl had for a read, whatever was cut off the file while  *)
(* it was sent and however often it was tried: the farmer got the bytes in *)
(* order under the key stream of their place, and all of them if the shard *)
(* counts as stored (body_shard_send, put_shard, after_push_shard).        *)
THEOREM TripStored == TripSpec => []StoredIsWhole
<1>1. PushInv => StoredIsWhole
  <2> SUFFICES ASSUME PushInv PROVE StoredIsWhole
    OBVIOUS
  <2>1. /\ PushSent /\ PushTruthful /\ sent \in Seq([byte : Nat, key : Nat])
    BY DEF PushInv, PushTypes
  <2>2. DOMAIN sent = 1..Len(sent)
    BY <2>1, LenProperties
  <2>3. Put!SentInPlace
    BY <2>1, <2>2 DEF PushSent, Put!SentInPlace
  <2>4. Put!CompletedIsWhole
    BY <2>1 DEF PushTruthful, Put!CompletedIsWhole
  <2> QED
    BY <2>3, <2>4 DEF StoredIsWhole
<1> QED
  BY <1>1, TripInvariance, PTL

(* The callback of a progress handle finds the progress in handle->data as *)
(* long as it may be called, on both ways (progress_put_shard and          *)
(* progress_request_shard against their after_ callbacks).                 *)
THEOREM TripHandles == TripSpec => []HandlesSafe
<1>1. PushInv => Put!NoProgressAfterFree
  BY DEF PushInv, PushAgree, Put!NoProgressAfterFree
<1>2. TripSpec => []NoProgressAfterFree
  BY TripImplementsFetch, ProgressSafe, PTL
<1>3. TripSpec => []Put!NoProgressAfterFree
  BY <1>1, TripInvariance, PTL
<1>4. NoProgressAfterFree /\ Put!NoProgressAfterFree => HandlesSafe
  BY DEF HandlesSafe
<1> QED
  BY <1>2, <1>3, <1>4, PTL

(* What is decrypted is the file that was sent, for every size of shard,   *)
(* of block and of decryption piece, every cut the network makes and every *)
(* number of attempts (recover_shards after put_shard and fetch_shard).    *)
THEOREM TripWhole == TripSpec => []TripIsWhole
<1>1. TripGood => TripIsWhole
  BY DEF TripGood
<1> QED
  BY <1>1, TripInvariance, PTL

(* The bytes reported for a shard that is pushed go back only at the first *)
(* report of a repeated attempt: after that the handle holds at least what *)
(* the tracker was given from it (progress_put_shard, queue_push_shard).   *)
LEMMA PushForward == TripSpec => PushProgressForward
<1>1. PushInv /\ [TripNext]_trip_vars
        => [shard'.uploaded_size < shard.uploaded_size =>
              /\ push_attempt > 1 /\ ~push_reported
              /\ shard.progress = "PUSHING_SHARD"]_shard
  <2> SUFFICES ASSUME PushInv, [TripNext]_trip_vars, shard' # shard,
                      shard'.uploaded_size < shard.uploaded_size
               PROVE  /\ push_attempt > 1 /\ ~push_reported
                      /\ shard.progress = "PUSHING_SHARD"
    OBVIOUS
  <2>1. PushTypes /\ PushAgree
    BY DEF PushInv
  <2>2. store_file
    BY DEF TripNext, trip_vars, push_vars, cleanup_state, resolve_file, recover_shards
  <2>3. Put!progress_put_shard \/ Put!after_push_shard \/ Put!queue_push_shard
    BY <2>2 DEF store_file, Put!Next, Put!push_shard, Put!Truncate,
                Put!body_shard_send, Put!PutFailed, Put!PutAnswered,
                Put!free_push_shard_work, Put!store_file_cancel
  <2>4. /\ size \in Nat /\ shard.uploaded_size \in 0..size
        /\ push_progress \in (-1)..size /\ push_attempt \in 1..MaxPushes
    BY <2>1 DEF PushTypes, Put!Freed
  <2>5. CASE Put!progress_put_shard
    <3>1. push_handle = "open" /\ shard' = [shard EXCEPT !.uploaded_size = push_progress]
      BY <2>5 DEF Put!progress_put_shard
    <3>2. shard'.uploaded_size = push_progress
      BY <2>1, <3>1 DEF PushTypes
    <3>3. push_attempt # 1 /\ ~push_reported
      BY <2>1, <2>4, <3>1, <3>2 DEF PushAgree
    <3>4. shard.progress = "PUSHING_SHARD"
      BY <2>1, <3>1 DEF PushAgree
    <3> QED
      BY <2>4, <3>3, <3>4, TripAssumption
  <2>6. CASE Put!after_push_shard
    <3>1. \/ shard' = [progress |-> "COMPLETED_PUSH_SHARD", uploaded_size |-> size]
          \/ shard' = [shard EXCEPT !.progress = "AWAITING_PUSH_FRAME"]
          \/ shard' = shard
      BY <2>6 DEF Put!after_push_shard
    <3>2. shard'.uploaded_size = size \/ shard'.uploaded_size = shard.uploaded_size
      BY <2>1, <3>1, TrackerProgress
    <3> QED
      BY <2>4, <3>2
  <2>7. CASE Put!queue_push_shard
    <3>1. shard'.uploaded_size = shard.uploaded_size
      BY <2>1, <2>7, TrackerProgress DEF Put!queue_push_shard
    <3> QED
      BY <2>4, <3>1
  <2> QED
    BY <2>3, <2>5, <2>6, <2>7
<1> QED
  BY <1>1, TripInvariance, PTL DEF TripSpec, trip_vars, PushProgressForward

(* On both ways, what an attempt has reported is not taken back before the *)
(* next one, and never once the shard is through (progress_put_shard and   *)
(* progress_request_shard).                                                *)
THEOREM TripReports == TripSpec => ProgressInAttempts
<1>1. TripSpec => ProgressForward
  BY TripImplementsFetch, ReportsForward, PTL
<1> QED
  BY <1>1, PushForward DEF ProgressInAttempts

=============================================================================
