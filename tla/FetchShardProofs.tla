--------------------------- MODULE FetchShardProofs ---------------------------
(***************************************************************************)
(* Proofs about FetchShard for every block size, every buffer, every size  *)
(* of a shard and every way the network cuts it: what arrives is neither   *)
(* lost, moved nor written elsewhere, and what counts as downloaded is the *)
(* shard.                                                                  *)
(***************************************************************************)
EXTENDS FetchShard, SequenceTheorems, TLAPS

-----------------------------------------------------------------------------
(* The inductive invariant.                                                *)

Types ==
  /\ size \in Sizes
  /\ canceled \in BOOLEAN /\ event \in BOOLEAN
  /\ worker \in {"queued", "perform", "returned", "none"}
  /\ body \in [tail : Seq(0..size), tail_length : Nat, length : 0..size,
               bytes_since_progress : Nat, hashed : Seq(0..size),
               received : Seq(0..size)]
  /\ destination \in [0..(size + 1) -> Before..size]
  /\ handle \in {"open", "closing", "closed"}
  /\ progress \in Freed..size
  /\ pointer \in [status : {"POINTER_CREATED", "POINTER_BEING_DOWNLOADED",
                             "POINTER_DOWNLOADED", "POINTER_ERROR"},
                 downloaded_size : 0..size]
  /\ attempt \in 0..MaxAttempts

(* What was received lies in the destination and then in the tail.         *)
Kept ==
  /\ Len(body.tail) <= body.tail_length
  /\ Len(body.tail) < AES_BLOCK_SIZE
  /\ Len(body.received) = body.length + Len(body.tail)
  /\ Len(body.hashed) = body.length
  /\ \A p \in 1..body.length : /\ body.hashed[p] = destination[p]
                               /\ body.received[p] = destination[p]
  /\ \A i \in 1..Len(body.tail) : body.received[body.length + i] = body.tail[i]

(* What the job, its handle and the pointer say of each other.             *)
Agree ==
  /\ handle = "open" <=> worker # "none"
  /\ worker # "none" => pointer.status = "POINTER_BEING_DOWNLOADED"
  /\ handle = "open" => pointer.downloaded_size <= progress
  /\ worker = "queued" => progress = 0
  /\ worker = "perform" => progress <= body.length

InPlace == \A p \in 1..size : destination[p] = p

(* A success, told by the job or by the pointer, is one.                   *)
Truthful ==
  ~canceled =>
    /\ worker = "returned" /\ error_status = "none" => InPlace
    /\ pointer.status = "POINTER_DOWNLOADED" => InPlace

IInv == Types /\ Kept /\ Agree /\ NeighboursUntouched /\ Truthful

-----------------------------------------------------------------------------
(* What curl passes is a sequence of bytes, and not empty.                 *)
LEMMA ChunkType ==
  ASSUME Types, NEW chunk \in Chunks
  PROVE  chunk \in Seq(0..size) /\ Len(chunk) \in Nat \ {0}
<1> DEFINE at == Len(body.received)
           right(n) == [i \in 1..n |-> IF at + i <= size THEN at + i ELSE Wrong]
<1>1. size \in Nat /\ at \in Nat
  BY FetchAssumption DEF Types
<1>2. PICK n \in 1..MaxChunk :
        chunk \in {right(n)} \union {[right(n) EXCEPT ![i] = Wrong] : i \in 1..n}
  BY DEF Chunks
<1>3. n \in Nat \ {0}
  BY FetchAssumption
<1>4. right(n) \in [1..n -> 0..size]
  BY <1>1, <1>3 DEF Wrong
<1>5. chunk \in [1..n -> 0..size]
  <2>1. CASE chunk = right(n)
    BY <2>1, <1>4
  <2>2. ASSUME NEW i \in 1..n, chunk = [right(n) EXCEPT ![i] = Wrong]
        PROVE  chunk \in [1..n -> 0..size]
    <3> HIDE DEF right
    <3> QED
      BY <2>2, <1>1, <1>4 DEF Wrong
  <2> QED
    BY <1>2, <2>1, <2>2
<1>6. chunk \in Seq(0..size)
  BY <1>3, <1>5, SeqDef
<1>7. Len(chunk) = n
  BY <1>3, <1>5, <1>6
<1> QED
  BY <1>3, <1>6, <1>7

(* Division leaves less than the divisor. *)
LEMMA Division ==
  ASSUME NEW a \in Nat, NEW b \in Nat \ {0}
  PROVE  /\ (a \div b) * b \in 0..a
         /\ a - (a \div b) * b < b
OBVIOUS

(* How much of the pending bytes is written: no more than there are, and   *)
(* less than a block is left.                                              *)
LEMMA WriteLengthBounds ==
  ASSUME Types, NEW pending \in Nat
  PROVE  /\ WriteLength(pending) \in 0..pending
         /\ pending - WriteLength(pending) < AES_BLOCK_SIZE
<1>1. AES_BLOCK_SIZE \in Nat \ {0}
  BY FetchAssumption
<1> QED
  BY <1>1, Division DEF WriteLength

-----------------------------------------------------------------------------
(* The initial states satisfy it.                                          *)
LEMMA InitIInv == Init => IInv
<1> SUFFICES ASSUME Init PROVE IInv
  OBVIOUS
<1> USE DEF Init, NewBody, Before, Freed
<1>1. size \in Nat \ {0}
  BY FetchAssumption
<1>2. <<>> \in Seq(0..size) /\ Len(<<>>) = 0
  BY EmptySeq
<1>3. Types
  <2>1. body \in [tail : Seq(0..size), tail_length : Nat, length : 0..size,
                 bytes_since_progress : Nat, hashed : Seq(0..size),
                 received : Seq(0..size)]
    BY <1>1, <1>2, FetchAssumption
  <2>2. destination \in [0..(size + 1) -> Before..size] /\ 0 \in 0..MaxAttempts
    BY <1>1, FetchAssumption
  <2>3. /\ progress \in Freed..size /\ canceled \in BOOLEAN /\ event \in BOOLEAN
        /\ pointer \in [status : {"POINTER_CREATED", "POINTER_BEING_DOWNLOADED",
                                  "POINTER_DOWNLOADED", "POINTER_ERROR"},
                        downloaded_size : 0..size]
    <3>1. -1 \in (-1)..size /\ 0 \in 0..size
      BY <1>1
    <3> QED
      BY <3>1
  <2> QED
    BY <2>1, <2>2, <2>3 DEF Types
<1>4. Kept
  BY <1>1, <1>2, FetchAssumption DEF Kept
<1> QED
  BY <1>1, <1>3, <1>4 DEF IInv, Agree, NeighboursUntouched, Truthful

(* A piece of a sequence. *)
LEMMA Piece ==
  ASSUME NEW S, NEW s \in Seq(S), NEW m \in Nat \ {0}, NEW n \in Nat, n <= Len(s)
  PROVE  /\ SubSeq(s, m, n) \in Seq(S)
         /\ m <= n + 1 => Len(SubSeq(s, m, n)) = n + 1 - m
         /\ \A i \in 1..(n + 1 - m) : SubSeq(s, m, n)[i] = s[m + i - 1]
<1>1. Len(s) \in Nat /\ \A i \in 1..Len(s) : s[i] \in S
  BY ElementOfSeq, LenProperties
<1>2. ASSUME NEW i \in m..n PROVE s[i] \in S
  BY <1>1
<1>3. m \in Int /\ n \in Int
  OBVIOUS
<1>4. /\ SubSeq(s, m, n) \in Seq(S)
      /\ Len(SubSeq(s, m, n)) = IF m <= n THEN n - m + 1 ELSE 0
      /\ \A i \in 1..(n - m + 1) : SubSeq(s, m, n)[i] = s[m + i - 1]
  BY <1>2, <1>3, SubSeqProperties
<1>5. n - m + 1 = n + 1 - m /\ (m <= n \/ (m <= n + 1 => n + 1 - m = 0))
  OBVIOUS
<1> QED
  BY <1>4, <1>5

(* What was pending cut in two: the first writelen bytes go to the file    *)
(* and into the hash, the others are kept.                                 *)
LEMMA PendingCut ==
  ASSUME NEW S, NEW pending \in Seq(S), NEW writelen \in 0..Len(pending)
  PROVE  /\ SubSeq(pending, writelen + 1, Len(pending)) \in Seq(S)
         /\ Len(SubSeq(pending, writelen + 1, Len(pending))) = Len(pending) - writelen
         /\ \A i \in 1..(Len(pending) - writelen) :
              SubSeq(pending, writelen + 1, Len(pending))[i] = pending[writelen + i]
         /\ SubSeq(pending, 1, writelen) \in Seq(S)
         /\ Len(SubSeq(pending, 1, writelen)) = writelen
         /\ \A i \in 1..writelen : SubSeq(pending, 1, writelen)[i] = pending[i]
<1> DEFINE n == Len(pending)
           m == writelen + 1
<1>1. n \in Nat /\ writelen \in 0..n
  BY LenProperties
<1>2. /\ m \in Nat \ {0} /\ m <= n + 1 /\ n + 1 - m = n - writelen
      /\ \A i \in 1..(n - writelen) : m + i - 1 = writelen + i
  BY <1>1
<1>3. /\ writelen \in Nat /\ writelen <= n /\ writelen + 1 - 1 = writelen
      /\ 1 <= writelen + 1 /\ \A i \in 1..writelen : 1 + i - 1 = i
  BY <1>1
<1> HIDE DEF m
<1>4. /\ SubSeq(pending, m, n) \in Seq(S)
      /\ m <= n + 1 => Len(SubSeq(pending, m, n)) = n + 1 - m
      /\ \A i \in 1..(n + 1 - m) : SubSeq(pending, m, n)[i] = pending[m + i - 1]
  BY <1>1, <1>2, Piece
<1>5. /\ SubSeq(pending, 1, writelen) \in Seq(S)
      /\ 1 <= writelen + 1 => Len(SubSeq(pending, 1, writelen)) = writelen + 1 - 1
      /\ \A i \in 1..(writelen + 1 - 1) :
           SubSeq(pending, 1, writelen)[i] = pending[1 + i - 1]
  BY <1>1, <1>3, Piece
<1>6. /\ Len(SubSeq(pending, m, n)) = n - writelen
      /\ \A i \in 1..(n - writelen) : SubSeq(pending, m, n)[i] = pending[writelen + i]
  BY <1>2, <1>4
<1>7. /\ Len(SubSeq(pending, 1, writelen)) = writelen
      /\ \A i \in 1..writelen : SubSeq(pending, 1, writelen)[i] = pending[i]
  BY <1>3, <1>5
<1> QED
  BY <1>4, <1>5, <1>6, <1>7 DEF m

(* What is appended to what is already placed is what follows it.          *)
LEMMA Appended ==
  ASSUME NEW S, NEW old \in Seq(S), NEW new \in Seq(S)
  PROVE  /\ old \o new \in Seq(S)
         /\ Len(old \o new) = Len(old) + Len(new)
         /\ \A p \in 1..Len(old) : (old \o new)[p] = old[p]
         /\ \A i \in 1..Len(new) : (old \o new)[Len(old) + i] = new[i]
<1> DEFINE m == Len(old)  n == Len(new)
<1>1. m \in Nat /\ n \in Nat
  BY LenProperties
<1>2. /\ old \o new \in Seq(S) /\ Len(old \o new) = m + n
      /\ \A p \in 1..(m + n) :
           (old \o new)[p] = IF p <= m THEN old[p] ELSE new[p - m]
  BY ConcatProperties
<1> HIDE DEF m, n
<1>3. \A p \in 1..m : p \in 1..(m + n) /\ p <= m
  BY <1>1
<1>4. \A i \in 1..n : m + i \in 1..(m + n) /\ ~(m + i <= m) /\ (m + i) - m = i
  BY <1>1
<1>5. \A i \in 1..n : (old \o new)[m + i] = new[i]
  BY <1>2, <1>4
<1> QED
  BY <1>2, <1>3, <1>5 DEF m, n

(* A call of body_shard_receive that is not refused: what there is to      *)
(* write fits into the shard, and less than a block stays pending.         *)
LEMMA Accepted ==
  ASSUME IInv, NEW chunk \in Chunks, ~Refused(chunk),
         NEW pending, pending = body.tail \o chunk
  PROVE  /\ pending \in Seq(0..size)
         /\ body.length + Len(pending) <= size
         /\ WriteLength(Len(pending)) \in 0..Len(pending)
         /\ Len(pending) - WriteLength(Len(pending)) < AES_BLOCK_SIZE
         /\ body.received \o chunk \in Seq(0..size)
         /\ Len(body.received \o chunk) = body.length + Len(pending)
         /\ \A p \in 1..body.length : (body.received \o chunk)[p] = body.received[p]
         /\ \A i \in 1..Len(pending) :
              (body.received \o chunk)[body.length + i] = pending[i]
<1> DEFINE tail == body.tail  received == body.received  length == body.length
<1>1. /\ tail \in Seq(0..size) /\ received \in Seq(0..size)
      /\ length \in Nat /\ size \in Nat /\ Types
  <2>1. size \in Nat /\ Types
    BY FetchAssumption DEF IInv, Types
  <2>2. body.length \in 0..size
    BY DEF IInv, Types
  <2>3. body.tail \in Seq(0..size) /\ body.received \in Seq(0..size)
    BY DEF IInv, Types
  <2> QED
    BY <2>1, <2>2, <2>3
<1>2. /\ Len(received) = length + Len(tail)
      /\ \A i \in 1..Len(tail) : received[length + i] = tail[i]
  BY DEF IInv, Kept
<1>3. chunk \in Seq(0..size) /\ Len(chunk) \in Nat
  BY <1>1, ChunkType
<1>4. length + Len(tail) + Len(chunk) <= size
  BY <1>1, <1>3, LenProperties DEF Refused
<1>5. Len(tail) \in Nat
  BY <1>1, LenProperties
<1> HIDE DEF tail, received, length
<1>6. /\ pending \in Seq(0..size) /\ Len(pending) = Len(tail) + Len(chunk)
      /\ \A i \in 1..Len(tail) : pending[i] = tail[i]
      /\ \A i \in 1..Len(chunk) : pending[Len(tail) + i] = chunk[i]
  <2>1. pending = tail \o chunk
    BY DEF tail
  <2> QED
    BY <1>1, <1>3, <2>1, Appended
<1>7. /\ received \o chunk \in Seq(0..size)
      /\ Len(received \o chunk) = Len(received) + Len(chunk)
      /\ \A p \in 1..Len(received) : (received \o chunk)[p] = received[p]
      /\ \A i \in 1..Len(chunk) : (received \o chunk)[Len(received) + i] = chunk[i]
  BY <1>1, <1>3, Appended
<1>8. ASSUME NEW i \in 1..Len(pending)
      PROVE  (received \o chunk)[length + i] = pending[i]
  <2>1. CASE i <= Len(tail)
    <3>1. i \in 1..Len(tail) /\ length + i \in 1..Len(received)
      BY <1>1, <1>2, <1>5, <2>1
    <3> QED
      BY <1>2, <1>6, <1>7, <3>1
  <2>2. CASE i > Len(tail)
    <3>1. PICK j \in 1..Len(chunk) : i = Len(tail) + j
      <4>1. i - Len(tail) \in 1..Len(chunk) /\ i = Len(tail) + (i - Len(tail))
        BY <1>3, <1>5, <1>6, <2>2
      <4> QED
        BY <4>1
    <3>2. length + i = Len(received) + j
      BY <1>1, <1>2, <1>3, <1>5, <3>1
    <3> QED
      BY <1>6, <1>7, <3>1, <3>2
  <2>3. i \in Int
    BY <1>3, <1>5, <1>6
  <2>4. i <= Len(tail) \/ i > Len(tail)
    BY <1>5, <2>3
  <2> QED
    BY <2>1, <2>2, <2>4
<1>9. \A p \in 1..length : (received \o chunk)[p] = received[p]
  BY <1>1, <1>2, <1>5, <1>7
<1>10. /\ Len(pending) \in Nat /\ length + Len(pending) <= size
       /\ Len(received \o chunk) = length + Len(pending)
  BY <1>1, <1>2, <1>3, <1>4, <1>5, <1>6, <1>7
<1> QED
  BY <1>1, <1>6, <1>7, <1>8, <1>9, <1>10, WriteLengthBounds DEF received, length

(* The invariant is kept by each action.                                   *)
LEMMA ReceiveStep ==
  ASSUME IInv, body_shard_receive
  PROVE  IInv'
<1>1. /\ worker = "perform"
      /\ UNCHANGED <<size, canceled, worker, error_status, handle, pointer, attempt>>
  BY DEF body_shard_receive
<1>2. /\ Types /\ Kept /\ Agree /\ NeighboursUntouched /\ Truthful
      /\ size \in Nat \ {0} /\ body.length \in 0..size /\ AES_BLOCK_SIZE \in Nat \ {0}
      /\ body.tail_length \in Nat /\ body.bytes_since_progress \in Nat
      /\ body.tail \in Seq(0..size) /\ body.hashed \in Seq(0..size)
      /\ Len(body.hashed) = body.length
  BY FetchAssumption DEF IInv, Types, Kept
<1>3. PICK chunk \in Chunks :
        LET pending == body.tail \o chunk
            writelen == WriteLength(Len(pending))
            since == body.bytes_since_progress + writelen
            sends == since > SHARD_PROGRESS_INTERVAL
        IN /\ ~Refused(chunk)
           /\ body' = [tail |-> SubSeq(pending, writelen + 1, Len(pending)),
                       tail_length |-> Resized(Len(pending)),
                       length |-> body.length + writelen,
                       bytes_since_progress |-> IF sends THEN 0 ELSE since,
                       hashed |-> body.hashed \o SubSeq(pending, 1, writelen),
                       received |-> body.received \o chunk]
           /\ destination' = [p \in DOMAIN destination |->
                                IF p - FilePosition \in 1..writelen
                                THEN pending[p - FilePosition] ELSE destination[p]]
           /\ progress' = IF sends THEN Announced(writelen) ELSE progress
           /\ event' = (event \/ sends)
  BY DEF body_shard_receive
<1> DEFINE pending == body.tail \o chunk
           writelen == WriteLength(Len(pending))
           since == body.bytes_since_progress + writelen
           sends == since > SHARD_PROGRESS_INTERVAL
           after == SubSeq(pending, writelen + 1, Len(pending))
           written == SubSeq(pending, 1, writelen)
           received == body.received \o chunk
           hashed == body.hashed \o written
<1>4. /\ body'.tail = after /\ body'.tail_length = Resized(Len(pending))
      /\ body'.length = body.length + writelen
      /\ body'.bytes_since_progress = IF sends THEN 0 ELSE since
      /\ body'.hashed = hashed /\ body'.received = received
      /\ body' = [tail |-> after, tail_length |-> Resized(Len(pending)),
                  length |-> body.length + writelen,
                  bytes_since_progress |-> IF sends THEN 0 ELSE since,
                  hashed |-> hashed, received |-> received]
  BY <1>3
<1>5. /\ destination' = [p \in DOMAIN destination |->
                           IF p - body.length \in 1..writelen
                           THEN pending[p - body.length] ELSE destination[p]]
      /\ progress' = IF sends THEN body.length + writelen ELSE progress
      /\ event' = (event \/ sends)
  BY <1>3 DEF FilePosition, Announced
<1>6. /\ pending \in Seq(0..size)
      /\ body.length + Len(pending) <= size
      /\ writelen \in 0..Len(pending)
      /\ Len(pending) - writelen < AES_BLOCK_SIZE
      /\ received \in Seq(0..size)
      /\ Len(received) = body.length + Len(pending)
      /\ \A p \in 1..body.length : received[p] = body.received[p]
      /\ \A i \in 1..Len(pending) : received[body.length + i] = pending[i]
  BY <1>3, Accepted
<1> HIDE DEF pending, writelen
<1>7. /\ after \in Seq(0..size) /\ Len(after) = Len(pending) - writelen
      /\ \A i \in 1..(Len(pending) - writelen) : after[i] = pending[writelen + i]
      /\ written \in Seq(0..size) /\ Len(written) = writelen
      /\ \A i \in 1..writelen : written[i] = pending[i]
  <2>1. pending \in Seq(0..size) /\ writelen \in 0..Len(pending)
    BY <1>6
  <2> QED
    BY <2>1, PendingCut
<1> HIDE DEF after, written, received
<1>8. /\ hashed \in Seq(0..size) /\ Len(hashed) = body.length + writelen
      /\ \A p \in 1..body.length : hashed[p] = body.hashed[p]
      /\ \A i \in 1..writelen : hashed[body.length + i] = pending[i]
  <2> DEFINE old == body.hashed
  <2>1. old \in Seq(0..size) /\ written \in Seq(0..size)
    BY <1>2, <1>7
  <2> HIDE DEF old
  <2>2. /\ old \o written \in Seq(0..size)
        /\ Len(old \o written) = Len(old) + Len(written)
        /\ \A p \in 1..Len(old) : (old \o written)[p] = old[p]
        /\ \A i \in 1..Len(written) : (old \o written)[Len(old) + i] = written[i]
    BY <2>1, Appended
  <2>3. hashed = old \o written /\ old = body.hashed
    BY DEF old
  <2> HIDE DEF hashed
  <2> QED
    BY <1>2, <1>7, <2>2, <2>3
<1> HIDE DEF hashed
<1>9. Len(pending) \in Nat /\ writelen \in Nat
  BY <1>6, LenProperties
<1>10. /\ body'.length = body.length + writelen /\ body'.length \in 0..size
       /\ body.length \in Nat
  <2>1. body.length \in Nat /\ size \in Nat /\ body'.length = body.length + writelen
    BY <1>2, <1>4
  <2>2. body.length + writelen <= size
    <3>1. body.length + Len(pending) <= size /\ writelen <= Len(pending)
      BY <1>6, <1>9
    <3> QED
      BY <1>9, <2>1, <3>1
  <2> QED
    BY <1>9, <2>1, <2>2
<1>11. /\ destination' \in [0..(size + 1) -> Before..size]
       /\ \A p \in 1..body.length : destination'[p] = destination[p]
       /\ \A i \in 1..writelen : destination'[body.length + i] = pending[i]
       /\ destination'[0] = destination[0]
       /\ destination'[size + 1] = destination[size + 1]
  <2>1. destination \in [0..(size + 1) -> Before..size]
    BY <1>2 DEF Types
  <2>2. ASSUME NEW i \in 1..writelen PROVE pending[i] \in Before..size
    <3>1. i \in 1..Len(pending)
      BY <1>6, <1>9
    <3>2. pending[i] \in 0..size
      BY <1>6, <3>1, ElementOfSeq
    <3> QED
      BY <1>2, <3>2 DEF Before
  <2>3. ASSUME NEW p \in 0..(size + 1)
        PROVE  (IF p - body.length \in 1..writelen
                THEN pending[p - body.length] ELSE destination[p]) \in Before..size
    BY <2>1, <2>2
  <2>4. /\ destination' \in [0..(size + 1) -> Before..size]
        /\ \A p \in 0..(size + 1) :
             destination'[p] = IF p - body.length \in 1..writelen
                               THEN pending[p - body.length] ELSE destination[p]
    BY <1>5, <2>1, <2>3
  <2>5. \A p \in 1..body.length : p \in 0..(size + 1) /\ p - body.length \notin 1..writelen
    BY <1>2, <1>9
  <2>6. \A i \in 1..writelen : /\ body.length + i \in 0..(size + 1)
                               /\ (body.length + i) - body.length = i
    <3>1. body.length + writelen <= size /\ size \in Nat
      BY <1>2, <1>10
    <3> QED
      BY <1>9, <1>10, <3>1
  <2>7. /\ 0 \in 0..(size + 1) /\ 0 - body.length \notin 1..writelen
        /\ size + 1 \in 0..(size + 1) /\ (size + 1) - body.length \notin 1..writelen
    <3>1. body.length + writelen <= size /\ size \in Nat
      BY <1>2, <1>10
    <3> QED
      BY <1>9, <1>10, <3>1
  <2> QED
    BY <2>4, <2>5, <2>6, <2>7
<1>12. Kept'
  <2>1. Len(after) < AES_BLOCK_SIZE /\ Len(after) <= Resized(Len(pending))
    <3>1. Len(pending) <= Resized(Len(pending))
      BY <1>2, <1>9 DEF Resized
    <3>2. Resized(Len(pending)) \in Nat
      BY <1>2, <1>9 DEF Resized
    <3> QED
      BY <1>6, <1>7, <1>9, <3>1, <3>2
  <2>2. Len(received) = (body.length + writelen) + Len(after)
    BY <1>6, <1>7, <1>9, <1>10
  <2>3. \A p \in 1..body.length : /\ body.hashed[p] = destination[p]
                                  /\ body.received[p] = destination[p]
    BY <1>2 DEF Kept
  <2>4. ASSUME NEW p \in 1..(body.length + writelen)
        PROVE  hashed[p] = destination'[p] /\ received[p] = destination'[p]
    <3>1. CASE p <= body.length
      <4>1. p \in 1..body.length
        BY <1>9, <1>10, <3>1
      <4> QED
        BY <1>6, <1>8, <1>11, <2>3, <4>1
    <3>2. CASE p > body.length
      <4>1. PICK i \in 1..writelen : p = body.length + i
        <5>1. p - body.length \in 1..writelen /\ p = body.length + (p - body.length)
          BY <1>9, <1>10, <3>2
        <5> QED
          BY <5>1
      <4>2. i \in 1..Len(pending)
        BY <1>6, <1>9
      <4> QED
        BY <1>6, <1>8, <1>11, <4>1, <4>2
    <3> QED
      BY <1>9, <1>10, <3>1, <3>2
  <2>5. ASSUME NEW i \in 1..Len(after)
        PROVE  received[(body.length + writelen) + i] = after[i]
    <3>1. /\ i \in 1..(Len(pending) - writelen) /\ writelen + i \in 1..Len(pending)
          /\ (body.length + writelen) + i = body.length + (writelen + i)
      <4>1. writelen <= Len(pending) /\ i \in 1..(Len(pending) - writelen)
        BY <1>6, <1>7
      <4> QED
        BY <1>9, <1>10, <4>1
    <3> QED
      BY <1>6, <1>7, <3>1
  <2> QED
    BY <1>4, <1>8, <2>1, <2>2, <2>4, <2>5 DEF Kept
<1>13. Types'
  <2>1. Resized(Len(pending)) \in Nat /\ (IF sends THEN 0 ELSE since) \in Nat
    BY <1>2, <1>9 DEF Resized
  <2>2. progress' \in Freed..size /\ event' \in BOOLEAN
    BY <1>2, <1>4, <1>5, <1>10 DEF Types, Freed
  <2> HIDE DEF since, sends
  <2>3. body' \in [tail : Seq(0..size), tail_length : Nat, length : 0..size,
                  bytes_since_progress : Nat, hashed : Seq(0..size),
                  received : Seq(0..size)]
    BY <1>4, <1>6, <1>7, <1>8, <1>10, <2>1
  <2> QED
    BY <1>1, <1>2, <1>11, <2>2, <2>3 DEF Types
<1>14. progress' >= progress /\ progress' <= body'.length
  <2>1. progress <= body.length /\ progress \in Int
    BY <1>1, <1>2 DEF Agree, Types, Freed
  <2>2. progress' = body.length + writelen \/ progress' = progress
    BY <1>5
  <2> QED
    BY <1>9, <1>10, <2>1, <2>2
<1>15. Agree'
  <2>1. pointer.downloaded_size \in Nat /\ progress \in Int /\ progress' \in Int
    BY <1>2, <1>13 DEF Types, Freed
  <2> QED
    BY <1>1, <1>2, <1>14, <2>1 DEF Agree
<1>16. NeighboursUntouched'
  BY <1>1, <1>2, <1>11 DEF NeighboursUntouched
<1>17. Truthful'
  BY <1>1, <1>2 DEF Truthful, Agree
<1> QED
  BY <1>12, <1>13, <1>15, <1>16, <1>17 DEF IInv

LEMMA FetchEndedStep ==
  ASSUME IInv, FetchEnded
  PROVE  IInv'
<1>1. /\ worker = "perform" /\ worker' = "returned"
      /\ ~Whole => error_status' # "none"
      /\ progress' = IF Whole THEN size ELSE progress
      /\ event' = (event \/ Whole)
      /\ UNCHANGED <<size, canceled, body, destination, handle, pointer, attempt>>
  BY DEF FetchEnded
<1>2. /\ Types /\ Kept /\ Agree /\ NeighboursUntouched /\ Truthful
      /\ size \in Nat \ {0} /\ body.length \in 0..size
  BY FetchAssumption DEF IInv, Types
<1>3. Types'
  <2>1. progress' \in Freed..size /\ event' \in BOOLEAN
    BY <1>1, <1>2 DEF Types, Freed
  <2> QED
    BY <1>1, <1>2, <2>1 DEF Types
<1>4. Kept'
  BY <1>1, <1>2 DEF Kept
<1>5. Agree'
  BY <1>1, <1>2 DEF Agree, Types, Freed
<1>6. Whole => InPlace
  BY <1>1, <1>2 DEF Whole, InPlace, Kept
<1>7. Truthful'
  BY <1>1, <1>2, <1>6 DEF Truthful, Agree, InPlace
<1> QED
  BY <1>1, <1>2, <1>3, <1>4, <1>5, <1>7 DEF IInv, NeighboursUntouched

(* The actions that leave the bytes alone.                                 *)
LEMMA OtherSteps ==
  ASSUME IInv,
         \/ FetchFailed \/ progress_request_shard \/ after_request_shard
         \/ free_request_shard_work \/ queue_request_shard
         \/ resolve_file_cancel \/ UNCHANGED vars
  PROVE  IInv'
<1>1. /\ Types /\ Kept /\ Agree /\ NeighboursUntouched /\ Truthful
      /\ size \in Nat \ {0} /\ body.length \in 0..size
      /\ progress \in Freed..size
      /\ pointer = [status |-> pointer.status, downloaded_size |-> pointer.downloaded_size]
  BY FetchAssumption DEF IInv, Types
<1>2. UNCHANGED <<size, body, destination>>
  BY DEF FetchFailed, progress_request_shard, after_request_shard,
         free_request_shard_work, queue_request_shard, resolve_file_cancel, vars
<1>3. Kept' /\ NeighboursUntouched' /\ (InPlace' <=> InPlace)
  BY <1>1, <1>2 DEF Kept, NeighboursUntouched, InPlace
<1>4. Types' /\ Agree' /\ Truthful' => IInv'
  BY <1>3 DEF IInv
<1>5. CASE FetchFailed
  BY <1>1, <1>2, <1>3, <1>4, <1>5 DEF FetchFailed, Types, Agree, Truthful
<1>6. CASE progress_request_shard
  <2>1. worker # "none" /\ progress \in 0..size
    BY <1>1, <1>6 DEF progress_request_shard, Agree, Types, Freed
  <2>2. Types'
    BY <1>1, <1>6, <2>1 DEF progress_request_shard, Types
  <2>3. Agree' /\ Truthful'
    BY <1>1, <1>3, <1>6, <2>1 DEF progress_request_shard, Agree, Truthful, Types
  <2> QED
    BY <1>4, <2>2, <2>3
<1>7. CASE after_request_shard
  <2>1. Types'
    <3>1. pointer' \in [status : {"POINTER_CREATED", "POINTER_BEING_DOWNLOADED",
                                "POINTER_DOWNLOADED", "POINTER_ERROR"},
                       downloaded_size : 0..size]
      <4>1. size \in 0..size
        BY <1>1
      <4>2. pointer.downloaded_size \in 0..size
        BY <1>1 DEF Types
      <4> QED
        BY <1>1, <1>7, <4>1, <4>2 DEF after_request_shard
    <3>2. progress' \in Freed..size
      BY <1>1, <1>7 DEF after_request_shard, Freed
    <3> QED
      BY <1>1, <1>7, <3>1, <3>2 DEF after_request_shard, Types
  <2>2. Agree'
    BY <1>1, <1>7 DEF after_request_shard, Agree
  <2>3. Truthful'
    BY <1>1, <1>3, <1>7 DEF after_request_shard, Truthful, Agree, Types
  <2> QED
    BY <1>4, <2>1, <2>2, <2>3
<1>8. CASE free_request_shard_work
  BY <1>1, <1>3, <1>4, <1>8 DEF free_request_shard_work, Types, Agree, Truthful
<1>9. CASE queue_request_shard
  <2>1. attempt' \in 0..MaxAttempts /\ progress' \in Freed..size
    BY <1>1, <1>9, FetchAssumption DEF queue_request_shard, Types, Freed
  <2>2. pointer' \in [status : {"POINTER_CREATED", "POINTER_BEING_DOWNLOADED",
                              "POINTER_DOWNLOADED", "POINTER_ERROR"},
                     downloaded_size : 0..size]
    BY <1>1, <1>9 DEF queue_request_shard
  <2>3. Types'
    BY <1>1, <1>9, <2>1, <2>2 DEF queue_request_shard, Types
  <2>4. Agree' /\ Truthful'
    BY <1>1, <1>3, <1>9 DEF queue_request_shard, Agree, Truthful, Types
  <2> QED
    BY <1>4, <2>3, <2>4
<1>10. CASE resolve_file_cancel
  <2>1. Types' /\ Agree' /\ Truthful'
    BY <1>1, <1>3, <1>10 DEF resolve_file_cancel, Types, Agree, Truthful
  <2> QED
    BY <1>4, <2>1
<1>11. CASE UNCHANGED vars
  BY <1>1, <1>3, <1>4, <1>11 DEF vars, Types, Agree, Truthful
<1> QED
  BY <1>5, <1>6, <1>7, <1>8, <1>9, <1>10, <1>11

(* A job that starts has received nothing yet.                             *)
LEMMA RequestStep ==
  ASSUME IInv, request_shard
  PROVE  IInv'
<1>1. /\ Types /\ Kept /\ Agree /\ NeighboursUntouched /\ Truthful
      /\ size \in Nat \ {0}
  BY FetchAssumption DEF IInv, Types
<1>2. /\ body' = NewBody /\ worker = "queued" /\ worker' = "perform"
      /\ UNCHANGED <<size, canceled, destination, error_status, handle, progress,
                     event, pointer, attempt>>
  BY DEF request_shard
<1>3. <<>> \in Seq(0..size) /\ Len(<<>>) = 0
  BY EmptySeq
<1>4. body' \in [tail : Seq(0..size), tail_length : Nat, length : 0..size,
                 bytes_since_progress : Nat, hashed : Seq(0..size),
                 received : Seq(0..size)]
  BY <1>1, <1>2, <1>3, FetchAssumption DEF NewBody
<1>5. Types'
  BY <1>1, <1>2, <1>4 DEF Types
<1>6. Kept'
  BY <1>2, <1>3, FetchAssumption DEF Kept, NewBody
<1>7. Agree'
  BY <1>1, <1>2 DEF Agree, NewBody
<1> QED
  BY <1>1, <1>2, <1>5, <1>6, <1>7 DEF IInv, NeighboursUntouched, Truthful, InPlace

(* IInv is an invariant.                                                   *)
THEOREM Invariance == Spec => []IInv
<1>1. IInv /\ [Next]_vars => IInv'
  BY ReceiveStep, FetchEndedStep, OtherSteps, RequestStep DEF Next
<1> QED
  BY InitIInv, <1>1, PTL DEF Spec

-----------------------------------------------------------------------------
(* The data are of the types their declarations give them.                 *)
THEOREM TypeCorrect == Spec => []TypeOK
<1>1. IInv => TypeOK
  BY DEF IInv, Types, TypeOK
<1> QED
  BY <1>1, Invariance, PTL

(* However the network cuts a shard, every byte received is in the file or *)
(* in the tail, in its order, and less than a block stays in the tail,     *)
(* within its buffer.                                                      *)
THEOREM NothingLost == Spec => []TailKept
<1>1. IInv => TailKept
  <2> SUFFICES ASSUME IInv PROVE TailKept
    OBVIOUS
  <2> DEFINE file == [p \in 1..body.length |-> destination[p]]
             tail == body.tail  received == body.received  hashed == body.hashed
             length == body.length
  <2>1. /\ tail \in Seq(0..size) /\ received \in Seq(0..size)
        /\ hashed \in Seq(0..size) /\ length \in 0..size /\ size \in Nat
    BY FetchAssumption DEF IInv, Types
  <2>2. /\ Len(received) = length + Len(tail) /\ Len(hashed) = length
        /\ \A p \in 1..length : hashed[p] = destination[p] /\ received[p] = destination[p]
        /\ \A i \in 1..Len(tail) : received[length + i] = tail[i]
    BY DEF IInv, Kept
  <2>3. file = hashed
    <3>1. hashed = [p \in 1..Len(hashed) |-> hashed[p]]
      BY <2>1, LenProperties
    <3> HIDE DEF hashed, length
    <3>2. file = [p \in 1..length |-> destination[p]]
      BY DEF length
    <3> QED
      BY <2>2, <3>1, <3>2
  <2>4. file \o tail = received
    <3> HIDE DEF file, tail, received, hashed, length
    <3>1. /\ file \o tail \in Seq(0..size) /\ Len(file \o tail) = Len(file) + Len(tail)
          /\ \A p \in 1..Len(file) : (file \o tail)[p] = file[p]
          /\ \A i \in 1..Len(tail) : (file \o tail)[Len(file) + i] = tail[i]
      BY <2>1, <2>3, Appended
    <3>2. Len(tail) \in Nat /\ length \in Nat /\ Len(file) = length
      BY <2>1, <2>2, <2>3, LenProperties
    <3>3. ASSUME NEW p \in 1..Len(received) PROVE (file \o tail)[p] = received[p]
      <4>1. CASE p \in 1..length
        BY <2>2, <2>3, <3>1, <3>2, <4>1
      <4>2. CASE p \in (length + 1)..(length + Len(tail))
        <5>1. PICK i \in 1..Len(tail) : p = length + i
          <6>1. p - length \in 1..Len(tail) /\ p = length + (p - length)
            BY <3>2, <4>2
          <6> QED
            BY <6>1
        <5> QED
          BY <2>2, <3>1, <3>2, <5>1
      <4> QED
        BY <2>2, <3>2, <4>1, <4>2
    <3>4. Len(file \o tail) = Len(received)
      BY <2>2, <3>1, <3>2
    <3>5. \A p \in 1..Len(file \o tail) : (file \o tail)[p] = received[p]
      BY <3>3, <3>4
    <3> QED
      BY <2>1, <3>1, <3>4, <3>5, SeqEqual
  <2>5. NothingLostInTail
    BY <2>3, <2>4 DEF NothingLostInTail
  <2>6. TailBounded
    BY DEF IInv, Kept, TailBounded
  <2> QED
    BY <2>5, <2>6 DEF TailKept
<1> QED
  BY <1>1, Invariance, PTL

(* A farmer that sends too much does not get into the regions of the       *)
(* destination that other threads write.                                   *)
THEOREM OwnRegionOnly == Spec => []NeighboursUntouched
<1>1. IInv => NeighboursUntouched
  BY DEF IInv
<1> QED
  BY <1>1, Invariance, PTL

(* A shard that counts as downloaded is in the file as it was uploaded.    *)
THEOREM DownloadedWhole == Spec => []DownloadedIsWhole
<1>1. IInv => DownloadedIsWhole
  BY DEF IInv, Truthful, InPlace, DownloadedIsWhole
<1> QED
  BY <1>1, Invariance, PTL

(* The progress event of a job never reads what its callback has freed.    *)
THEOREM ProgressSafe == Spec => []NoProgressAfterFree
<1>1. IInv => NoProgressAfterFree
  BY FetchAssumption DEF IInv, Types, Agree, NoProgressAfterFree, Freed
<1> QED
  BY <1>1, Invariance, PTL

(* What is reported for a shard goes back only with a new attempt: the     *)
(* handle of a job holds at least what the pointer was given from it.      *)
THEOREM ReportsForward == Spec => ProgressForward
<1>1. ASSUME IInv, [Next]_vars, attempt' = attempt
      PROVE  pointer'.downloaded_size >= pointer.downloaded_size
  <2>1. /\ pointer.downloaded_size \in 0..size /\ size \in Nat
        /\ progress \in Int /\ Agree
        /\ pointer = [status |-> pointer.status,
                      downloaded_size |-> pointer.downloaded_size]
    BY <1>1, FetchAssumption DEF IInv, Types, Freed
  <2>2. CASE progress_request_shard
    BY <2>1, <2>2 DEF progress_request_shard, Agree
  <2>3. CASE after_request_shard
    BY <2>1, <2>3 DEF after_request_shard
  <2>4. CASE queue_request_shard
    <3>1. attempt' = attempt + 1 /\ attempt \in Nat
      BY <1>1, <2>4, FetchAssumption DEF queue_request_shard, IInv, Types
    <3> QED
      BY <1>1, <3>1
  <2>5. CASE \/ request_shard \/ body_shard_receive \/ FetchFailed \/ FetchEnded
             \/ free_request_shard_work \/ resolve_file_cancel \/ UNCHANGED vars
    <3>1. UNCHANGED pointer
      BY <2>5 DEF request_shard, body_shard_receive, FetchFailed, FetchEnded,
                  free_request_shard_work, resolve_file_cancel, vars
    <3> QED
      BY <2>1, <3>1
  <2> QED
    BY <1>1, <2>2, <2>3, <2>4, <2>5 DEF Next
<1>2. IInv /\ [Next]_vars
        => [attempt' = attempt => pointer'.downloaded_size >= pointer.downloaded_size]_vars
  BY <1>1
<1> QED
  BY <1>2, Invariance, PTL DEF Spec, ProgressForward

=============================================================================
