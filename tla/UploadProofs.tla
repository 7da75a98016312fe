----------------------------- MODULE UploadProofs -----------------------------
(***************************************************************************)
(* Proofs about Upload for every file, every limit and every number of     *)
(* shards: type correctness with the bounds of the retries, agreement of   *)
(* the counters and flags with the outstanding jobs, what the bucket entry *)
(* and the callback say of the shards, that no shard is left without the   *)
(* job that moves it on, and that an upload is a Transfer.                 *)
(***************************************************************************)
EXTENDS Upload, TLAPS, FiniteSetTheorems, WellFoundedInduction

USE DEF AWAITING_PREPARE_FRAME, PREPARING_FRAME, AWAITING_PUSH_FRAME,
        PUSHING_FRAME, AWAITING_PUSH_SHARD, PUSHING_SHARD,
        COMPLETED_PUSH_SHARD, STORJ_REPORT_NOT_PREPARED,
        STORJ_REPORT_AWAITING_SEND, STORJ_REPORT_SENDING

-----------------------------------------------------------------------------
(* The inductive invariant, as a predicate on a state record.              *)

(* The steps that come one after the other. *)
SingleKinds == {"prepare", "bucket", "name", "frame_id", "encrypt", "parity"}

(* They are over: shards may be worked on. *)
Ready(s) ==
  /\ s.bucket_verified /\ s.file_verified /\ s.frame_id
  /\ s.rs => s.encrypted_file /\ s.parity_file

(* What is missing as long as the job of a single step is outstanding. *)
Awaited(s, kind) ==
  /\ kind \in {"prepare", "bucket"} => ~ s.bucket_verified
  /\ kind = "name" => ~ s.file_verified
  /\ kind = "frame_id" => ~ s.frame_id
  /\ kind = "encrypt" => s.rs /\ ~ s.encrypted_file
  /\ kind = "parity" => s.rs /\ ~ s.parity_file

Free(s) == \A job \in s.work : job[1] \notin SingleKinds

(* A single step is the only job there is, and shards and the entry come   *)
(* after the last of them.                                                 *)
Sequenced(s) ==
  /\ \/ \E kind \in SingleKinds : s.work = {<<kind, 0>>} /\ Awaited(s, kind)
     \/ Free(s) /\ (s.work # {} => Ready(s))
  /\ s.frame_id \/ <<"frame_id", 0>> \in s.work => s.bucket_verified /\ s.file_verified
  /\ s.parity_file \/ <<"parity", 0>> \in s.work
       => s.encrypted_file /\ ~ s.awaiting_parity_shards
  /\ s.error_status = "OK" /\ ~ s.awaiting_parity_shards
       => s.parity_file \/ <<"parity", 0>> \in s.work

(* What prepare_upload_state found out about the file. *)
Sized(s) ==
  /\ s.total_shards > 0 => /\ s.total_shards = Counted(file)
                           /\ s.rs = Coded(file)
                           /\ s.total_data_shards = file.data
  /\ s.prepared = "no" => s.total_shards = 0
  /\ s.prepared # "no" /\ s.error_status = "OK" => s.total_shards = Counted(file)
  /\ <<"prepare", 0>> \notin s.work => s.prepared = "done"

(* Each flag stands for its job. *)
Flagged(s) ==
  /\ <<"frame_id", 0>> \in s.work <=> s.requesting_frame
  /\ <<"encrypt", 0>> \in s.work <=> s.creating_encrypted_file
  /\ <<"entry", 0>> \in s.work <=> s.creating_bucket_entry

(* An attempt is made only while there is one left. *)
Bounded(s) ==
  /\ s.bucket_verify_count <= MaxRequestTries
  /\ ~ s.bucket_verified => s.bucket_verify_count < MaxRequestTries
  /\ s.file_verify_count <= MaxRequestTries
  /\ ~ s.file_verified => s.file_verify_count < MaxRequestTries
  /\ s.frame_request_count <= MaxRequestTries
  /\ s.requesting_frame \/ (~ s.frame_id /\ s.error_status = "OK")
       => s.frame_request_count < MaxRequestTries
  /\ s.create_encrypted_file_count <= MaxRequestTries
  /\ s.creating_encrypted_file \/ (~ s.encrypted_file /\ s.error_status = "OK")
       => s.create_encrypted_file_count < MaxRequestTries
  /\ s.add_bucket_entry_count <= MaxRequestTries
  /\ s.creating_bucket_entry \/ (~ s.completed_upload /\ s.error_status = "OK")
       => s.add_bucket_entry_count < MaxRequestTries

(* What the outstanding jobs for index i say about its tracker p, and, as  *)
(* long as there is no error, the tracker about the jobs.                  *)
Owns(s, i, p) ==
  /\ p.push_frame_request_count <= STORJ_MAX_PUSH_FRAME_COUNT
  /\ p.push_shard_request_count <= MaxPushRetries
  /\ p.send_count <= MaxReportTries
  /\ <<"prepare_frame", i>> \in s.work => p.progress = PREPARING_FRAME
  /\ <<"push_frame", i>> \in s.work =>
       /\ p.progress = PUSHING_FRAME
       /\ p.send_status = STORJ_REPORT_NOT_PREPARED
       /\ p.push_frame_request_count < STORJ_MAX_PUSH_FRAME_COUNT
  /\ <<"push_shard", i>> \in s.work =>
       /\ p.progress = PUSHING_SHARD
       /\ p.send_status = STORJ_REPORT_NOT_PREPARED
       /\ p.send_count = 0
  /\ <<"report", i>> \in s.work <=> p.send_status = STORJ_REPORT_SENDING
  /\ p.send_status # STORJ_REPORT_NOT_PREPARED => p.send_count < MaxReportTries
  /\ s.error_status = "OK" =>
       /\ p.progress = PREPARING_FRAME => <<"prepare_frame", i>> \in s.work
       /\ p.progress = PUSHING_FRAME => <<"push_frame", i>> \in s.work
       /\ p.progress = PUSHING_SHARD => <<"push_shard", i>> \in s.work
       /\ p.push_frame_request_count < STORJ_MAX_PUSH_FRAME_COUNT
  /\ i >= s.total_shards => p = NewShard

Slotted(s) ==
  /\ Cardinality(JobsOf(s, {"prepare_frame"})) <= PREPARE_FRAME_LIMIT
  /\ Cardinality(JobsOf(s, {"push_frame"})) <= PUSH_FRAME_LIMIT
  /\ Cardinality(JobsOf(s, {"push_shard"})) <= PUSH_SHARD_LIMIT

(* What the counter of stored shards, the entry and the end of the upload  *)
(* say about the shards.                                                   *)
Stored(s) ==
  /\ s.completed_shards = Cardinality(InProgress(s, COMPLETED_PUSH_SHARD))
  /\ s.completed_upload \/ s.creating_bucket_entry =>
       Ready(s) /\ AllStored(s) /\ (s.error_status = "OK" \/ s.canceled)
  /\ s.creating_bucket_entry => ~ s.completed_upload
  /\ s.entries <= 1
  /\ s.entries = 1 => s.completed_upload

Closed(s) ==
  /\ s.final_callback_called =>
       /\ s.work = {}
       /\ s.callbacks = <<s.error_status>>
       /\ s.error_status = "OK" => s.completed_upload
  /\ ~ s.final_callback_called => s.callbacks = << >>
  /\ s.canceled => s.error_status # "OK"
  /\ s.dequeued # {} => s.canceled

Good(s) ==
  /\ s \in StateType
  /\ s.pending_work_count = Cardinality(s.work)
  /\ Sequenced(s)
  /\ Sized(s)
  /\ Flagged(s)
  /\ Bounded(s)
  /\ \A i \in Index : Owns(s, i, s.shard[i])
  /\ Slotted(s)
  /\ Stored(s)
  /\ Closed(s)

(* An upload that may still be given work. *)
Live(s) ==
  /\ Good(s)
  /\ ~ s.final_callback_called
  /\ s.error_status = "OK"
  /\ ~ s.completed_upload
  /\ Free(s)

-----------------------------------------------------------------------------
(* Sets of indices and sets of jobs. *)

(* A set of indices is finite. *)
LEMMA IndexFinite ==
  ASSUME NEW S \in SUBSET Index
  PROVE  IsFiniteSet(S) /\ Cardinality(S) \in Nat
<1>1. IsFiniteSet(Index)
  BY UploadAssumption, FS_Interval DEF Index
<1> QED
  BY <1>1, FS_Subset, FS_CardinalityType

LEMMA KindFinite == IsFiniteSet(JobKind)
<1>1. IsFiniteSet({"prepare"})
  BY FS_Singleton
<1>2. IsFiniteSet({"prepare"} \cup {"bucket"})
  BY <1>1, FS_AddElement
<1>3. IsFiniteSet({"prepare"} \cup {"bucket"} \cup {"name"})
  BY <1>2, FS_AddElement
<1>4. IsFiniteSet({"prepare"} \cup {"bucket"} \cup {"name"} \cup {"frame_id"})
  BY <1>3, FS_AddElement
<1>5. PICK a : a = {"prepare"} \cup {"bucket"} \cup {"name"} \cup {"frame_id"}
                     \cup {"encrypt"} /\ IsFiniteSet(a)
  BY <1>4, FS_AddElement
<1>6. IsFiniteSet(a \cup {"parity"})
  BY <1>5, FS_AddElement
<1>7. IsFiniteSet(a \cup {"parity"} \cup {"entry"})
  BY <1>6, FS_AddElement
<1>8. IsFiniteSet(a \cup {"parity"} \cup {"entry"} \cup {"prepare_frame"})
  BY <1>7, FS_AddElement
<1>9. PICK b : b = a \cup {"parity"} \cup {"entry"} \cup {"prepare_frame"}
                     \cup {"push_frame"} /\ IsFiniteSet(b)
  BY <1>8, FS_AddElement
<1>10. IsFiniteSet(b \cup {"push_shard"})
  BY <1>9, FS_AddElement
<1>11. IsFiniteSet(b \cup {"push_shard"} \cup {"report"})
  BY <1>10, FS_AddElement
<1>12. JobKind = b \cup {"push_shard"} \cup {"report"}
  BY <1>5, <1>9 DEF JobKind, ShardJobs
<1> QED
  BY <1>11, <1>12

(* A set of jobs is finite. *)
LEMMA WorkFinite ==
  ASSUME NEW w \in SUBSET (JobKind \X Index)
  PROVE  IsFiniteSet(w) /\ Cardinality(w) \in Nat
<1>1. IsFiniteSet(JobKind \X Index)
  BY IndexFinite, KindFinite, FS_Product
<1> QED
  BY <1>1, FS_Subset, FS_CardinalityType

(* Jobs that are not outstanding yet are counted one by one. *)
LEMMA AddedCount ==
  ASSUME NEW w \in SUBSET (JobKind \X Index),
         NEW new \in SUBSET (JobKind \X Index),
         w \cap new = {}
  PROVE  Cardinality(w \cup new) = Cardinality(w) + Cardinality(new)
<1>1. IsFiniteSet(w) /\ Cardinality(w) \in Nat
  BY WorkFinite
<1>2. IsFiniteSet(new) /\ Cardinality(new) \in Nat
  BY WorkFinite
<1>3. Cardinality(w \cap new) = 0
  BY FS_EmptySet
<1>4. Cardinality(w \cup new)
        = Cardinality(w) + Cardinality(new) - Cardinality(w \cap new)
  BY <1>1, <1>2, FS_Union
<1> QED
  BY <1>1, <1>2, <1>3, <1>4

LEMMA RemovedCount ==
  ASSUME NEW w \in SUBSET (JobKind \X Index), NEW job \in w
  PROVE  Cardinality(w \ {job}) = Cardinality(w) - 1
  BY WorkFinite, FS_RemoveElement

(* One job for each of a set of shards. *)
LEMMA JobsPerShard ==
  ASSUME NEW kind \in JobKind, NEW S \in SUBSET Index
  PROVE  /\ Cardinality({kind} \X S) = Cardinality(S)
         /\ {kind} \X S \in SUBSET (JobKind \X Index)
<1>1. IsFiniteSet(S) /\ Cardinality(S) \in Nat
  BY IndexFinite
<1>2. IsFiniteSet({kind}) /\ Cardinality({kind}) = 1
  BY FS_Singleton
<1>3. Cardinality({kind} \X S) = 1 * Cardinality(S)
  BY <1>1, <1>2, FS_Product
<1> QED
  BY <1>1, <1>3

(* A nonempty set of indices has a first and a last one. *)
LEMMA FirstAndLast ==
  ASSUME NEW S \in SUBSET Index, S # {}
  PROVE  /\ \E x \in S : \A y \in S : x <= y
         /\ \E x \in S : \A y \in S : y <= x
<1>1. Index \subseteq Nat /\ MaxShards \in Nat
  BY UploadAssumption DEF Index
<1>2. IsWellFoundedOn(StrictSubsetOrdering(Nat), FiniteSubsetsOf(Nat))
  BY FS_StrictSubsetOrderingWellFounded
<1>3. \E x \in S : \A y \in S : x <= y
  <2>1. PICK T : T = {0..n : n \in S}
    OBVIOUS
  <2>2. ASSUME NEW n \in S PROVE IsFiniteSet(0..n) /\ 0..n \subseteq Nat
    BY <1>1, FS_Interval
  <2>3. T \subseteq FiniteSubsetsOf(Nat) /\ T # {}
    BY <2>1, <2>2 DEF FiniteSubsetsOf
  <2>4. PICK t \in T : \A u \in T : ~ (<<u, t>> \in StrictSubsetOrdering(Nat))
    BY <1>2, <2>3, WFMin
  <2>5. PICK x \in S : t = 0..x
    BY <2>1
  <2>6. ASSUME NEW y \in S PROVE x <= y
    <3>1. SUFFICES ASSUME y < x PROVE FALSE
      BY <1>1
    <3>2. 0..y \subseteq 0..x /\ x \in 0..x /\ x \notin 0..y
      BY <1>1, <3>1
    <3>3. <<0..y, t>> \in StrictSubsetOrdering(Nat)
      BY <2>2, <2>5, <3>2 DEF StrictSubsetOrdering
    <3> QED
      BY <2>1, <2>4, <3>3
  <2> QED
    BY <2>6
<1>4. \E x \in S : \A y \in S : y <= x
  <2>1. PICK T : T = {n..MaxShards : n \in S}
    OBVIOUS
  <2>2. ASSUME NEW n \in S
        PROVE  IsFiniteSet(n..MaxShards) /\ n..MaxShards \subseteq Nat /\ n <= MaxShards
    BY <1>1, FS_Interval DEF Index
  <2>3. T \subseteq FiniteSubsetsOf(Nat) /\ T # {}
    BY <2>1, <2>2 DEF FiniteSubsetsOf
  <2>4. PICK t \in T : \A u \in T : ~ (<<u, t>> \in StrictSubsetOrdering(Nat))
    BY <1>2, <2>3, WFMin
  <2>5. PICK x \in S : t = x..MaxShards
    BY <2>1
  <2>6. ASSUME NEW y \in S PROVE y <= x
    <3>1. SUFFICES ASSUME x < y PROVE FALSE
      BY <1>1
    <3>2. y..MaxShards \subseteq x..MaxShards /\ x \in x..MaxShards /\ x \notin y..MaxShards
      BY <1>1, <2>2, <3>1
    <3>3. <<y..MaxShards, t>> \in StrictSubsetOrdering(Nat)
      BY <2>2, <2>5, <3>2 DEF StrictSubsetOrdering
    <3> QED
      BY <2>1, <2>4, <3>3
  <2> QED
    BY <2>6
<1> QED
  BY <1>3, <1>4

(* Admitted lets in no more than there are slots, and leaves a candidate   *)
(* out only when every slot is taken.                                      *)
LEMMA AdmittedFits ==
  ASSUME NEW S \in SUBSET Index, NEW active \in SUBSET Index,
         S \cap active = {}, NEW limit \in Nat, Cardinality(active) <= limit
  PROVE  LET A == Admitted(S, active, limit) IN
         /\ A \in SUBSET S
         /\ Cardinality(active \cup A) <= limit
         /\ \A i \in S \ A : Cardinality(active \cup A) >= limit
<1>1. PICK A : A = Admitted(S, active, limit)
  OBVIOUS
<1>2. A \in SUBSET S
  BY <1>1 DEF Admitted
<1>3. PICK a \in Nat, n \in Nat : a = Cardinality(A) /\ n = Cardinality(active)
  BY <1>2, IndexFinite
<1>4. Cardinality(active \cup A) = n + a
  <2>1. IsFiniteSet(A) /\ IsFiniteSet(active)
    BY <1>2, IndexFinite
  <2>2. active \cap A = {} /\ Cardinality(active \cap A) = 0
    BY <1>2, FS_EmptySet
  <2>3. Cardinality(active \cup A) = n + a - Cardinality(active \cap A)
    BY <1>3, <2>1, FS_Union
  <2> QED
    BY <2>2, <2>3
<1>5. \A i \in S : i \in A <=> n + Cardinality({j \in S : j < i}) < limit
  BY <1>1, <1>3 DEF Admitted
<1>6. n + a <= limit
  <2>1. CASE A = {}
    BY <1>3, <2>1, FS_EmptySet
  <2>2. CASE A # {}
    <3>1. PICK m \in A : \A j \in A : j <= m
      BY <1>2, <2>2, FirstAndLast
    <3>2. PICK B \in SUBSET Index : B = {j \in S : j < m}
      OBVIOUS
    <3>3. IsFiniteSet(B) /\ Cardinality(B) \in Nat
      BY IndexFinite
    <3>4. A \subseteq B \cup {m} /\ m \notin B
      BY <1>2, <3>1, <3>2 DEF Index
    <3>5. IsFiniteSet(B \cup {m}) /\ Cardinality(B \cup {m}) = Cardinality(B) + 1
      BY <3>3, <3>4, FS_AddElement
    <3>6. a <= Cardinality(B) + 1
      BY <1>3, <3>4, <3>5, FS_Subset
    <3>7. n + Cardinality(B) < limit
      BY <1>2, <1>5, <3>1, <3>2
    <3> QED
      BY <3>3, <3>6, <3>7
  <2> QED
    BY <2>1, <2>2
<1>7. ASSUME NEW i \in S \ A PROVE n + a >= limit
  <2>1. PICK m \in S \ A : \A j \in S \ A : m <= j
    BY FirstAndLast
  <2>2. PICK B \in SUBSET Index : B = {j \in S : j < m}
    OBVIOUS
  <2>3. B \subseteq A
    BY <2>1, <2>2 DEF Index
  <2>4. Cardinality(B) <= a /\ Cardinality(B) \in Nat
    BY <1>2, <1>3, <2>3, IndexFinite, FS_Subset
  <2>5. n + Cardinality(B) >= limit
    BY <1>5, <2>1, <2>2, <2>4
  <2> QED
    BY <2>4, <2>5
<1> QED
  BY <1>1, <1>2, <1>4, <1>6, <1>7

-----------------------------------------------------------------------------
(* What the operations on one tracker leave of it. *)

LEMMA MovedShard ==
  ASSUME NEW p \in ShardType, NEW progress \in 1..7
  PROVE  /\ Moved(p, progress) \in ShardType
         /\ Moved(p, progress).progress = progress
         /\ Moved(p, progress).push_frame_request_count = p.push_frame_request_count
         /\ Moved(p, progress).push_shard_request_count = p.push_shard_request_count
         /\ Moved(p, progress).send_status = p.send_status
         /\ Moved(p, progress).send_count = p.send_count
  BY Zenon DEF Moved, ShardType

LEMMA PushingTracker ==
  ASSUME NEW p \in ShardType
  PROVE  LET q == PushingShard(p) IN
         /\ q \in ShardType
         /\ q.progress = PUSHING_SHARD
         /\ q.push_frame_request_count = p.push_frame_request_count
         /\ q.push_shard_request_count = p.push_shard_request_count
         /\ q.send_status = STORJ_REPORT_NOT_PREPARED
         /\ q.send_count = 0
<1>1. PICK progress \in 1..7, status \in 0..2, count \in Nat :
        progress = PUSHING_SHARD /\ status = STORJ_REPORT_NOT_PREPARED /\ count = 0
  OBVIOUS
<1>2. PICK q : q = [p EXCEPT !.progress = progress, !.send_status = status,
                            !.send_count = count]
  OBVIOUS
<1>3. q = PushingShard(p)
  BY <1>1, <1>2 DEF PushingShard
<1>4. /\ q \in ShardType
      /\ q.progress = progress
      /\ q.push_frame_request_count = p.push_frame_request_count
      /\ q.push_shard_request_count = p.push_shard_request_count
      /\ q.send_status = status
      /\ q.send_count = count
  BY <1>2, Zenon DEF ShardType
<1> QED
  BY <1>1, <1>3, <1>4

LEMMA ReportingTracker ==
  ASSUME NEW p \in ShardType
  PROVE  LET q == Reporting(p) IN
         /\ q \in ShardType
         /\ q.progress = p.progress
         /\ q.push_frame_request_count = p.push_frame_request_count
         /\ q.push_shard_request_count = p.push_shard_request_count
         /\ q.send_status = STORJ_REPORT_SENDING
         /\ q.send_count = p.send_count
<1>1. PICK status \in 0..2 : status = STORJ_REPORT_SENDING
  OBVIOUS
<1>2. PICK q : q = [p EXCEPT !.send_status = status]
  OBVIOUS
<1>3. q = Reporting(p)
  BY <1>1, <1>2 DEF Reporting
<1>4. /\ q \in ShardType
      /\ q.progress = p.progress
      /\ q.push_frame_request_count = p.push_frame_request_count
      /\ q.push_shard_request_count = p.push_shard_request_count
      /\ q.send_status = status
      /\ q.send_count = p.send_count
  BY <1>2, Zenon DEF ShardType
<1> QED
  BY <1>1, <1>3, <1>4

-----------------------------------------------------------------------------
(* Jobs for shards are queued. *)

(* Only the jobs and the trackers differ. *)
Alike(s, t) ==
  /\ t.rs = s.rs
  /\ t.total_data_shards = s.total_data_shards
  /\ t.total_shards = s.total_shards
  /\ t.completed_shards = s.completed_shards
  /\ t.bucket_verified = s.bucket_verified
  /\ t.bucket_verify_count = s.bucket_verify_count
  /\ t.file_verified = s.file_verified
  /\ t.file_verify_count = s.file_verify_count
  /\ t.frame_id = s.frame_id
  /\ t.requesting_frame = s.requesting_frame
  /\ t.frame_request_count = s.frame_request_count
  /\ t.encrypted_file = s.encrypted_file
  /\ t.creating_encrypted_file = s.creating_encrypted_file
  /\ t.create_encrypted_file_count = s.create_encrypted_file_count
  /\ t.awaiting_parity_shards = s.awaiting_parity_shards
  /\ t.parity_file = s.parity_file
  /\ t.creating_bucket_entry = s.creating_bucket_entry
  /\ t.add_bucket_entry_count = s.add_bucket_entry_count
  /\ t.completed_upload = s.completed_upload
  /\ t.canceled = s.canceled
  /\ t.final_callback_called = s.final_callback_called
  /\ t.error_status = s.error_status
  /\ t.prepared = s.prepared
  /\ t.dequeued = s.dequeued
  /\ t.entries = s.entries
  /\ t.callbacks = s.callbacks

(* The shard waits for its report before it gets another contract. *)
KeptWaiting(p) ==
  /\ p.progress = AWAITING_PUSH_FRAME
  /\ p.send_status # STORJ_REPORT_NOT_PREPARED

(* Work was added; a stored shard stays stored, and a shard that waits for *)
(* its report before it gets another contract keeps waiting.               *)
Grown(s, t) ==
  /\ s.work \subseteq t.work
  /\ t.canceled = s.canceled
  /\ t.callbacks = s.callbacks
  /\ \A i \in Index :
       /\ s.shard[i].progress = COMPLETED_PUSH_SHARD
            => t.shard[i].progress = COMPLETED_PUSH_SHARD
       /\ KeptWaiting(s.shard[i]) => KeptWaiting(t.shard[i])

LEMMA GrownTransitive ==
  ASSUME NEW s, NEW t, NEW u, Grown(s, t), Grown(t, u)
  PROVE  Grown(s, u)
  BY DEF Grown

JobsFor(kind, chosen) == {kind} \X chosen

Queued(s, kind, chosen, g) == [Queue(s, JobsFor(kind, chosen)) EXCEPT !.shard = g]

(* Jobs of one kind for the chosen shards, whose trackers change with it. *)
Queueable(s, kind, chosen, g) ==
  /\ s \in StateType /\ s.pending_work_count = Cardinality(s.work)
  /\ kind \in JobKind /\ chosen \in SUBSET Index
  /\ \A i \in chosen : <<kind, i>> \notin s.work
  /\ g \in [Index -> ShardType]

LEMMA QueuedFields ==
  ASSUME NEW s, NEW kind, NEW chosen, NEW g, Queueable(s, kind, chosen, g),
         NEW t, t = Queued(s, kind, chosen, g)
  PROVE  /\ t \in StateType
         /\ Alike(s, t)
         /\ t.work = s.work \cup JobsFor(kind, chosen)
         /\ t.pending_work_count = Cardinality(t.work)
         /\ t.shard = g
<1> USE DEF Queueable
<1>1. PICK new \in SUBSET (JobKind \X Index) : new = JobsFor(kind, chosen)
  BY JobsPerShard DEF JobsFor
<1>2. s.work \in SUBSET (JobKind \X Index)
  BY DEF StateType
<1>3. s.work \cap new = {}
  BY <1>1, <1>2 DEF JobsFor
<1>4. PICK w \in SUBSET (JobKind \X Index), n \in Int :
        w = s.work \cup new /\ n = s.pending_work_count + Cardinality(new)
  <2>1. Cardinality(new) \in Nat /\ s.pending_work_count \in Int
    BY WorkFinite DEF StateType
  <2>2. s.pending_work_count + Cardinality(new) \in Int
    BY <2>1
  <2>3. s.work \cup new \in SUBSET (JobKind \X Index)
    BY <1>2
  <2> QED
    BY <2>2, <2>3
<1>5. n = Cardinality(w)
  BY <1>2, <1>3, <1>4, AddedCount
<1>6. PICK u : u = [[s EXCEPT !.work = w, !.pending_work_count = n]
                      EXCEPT !.shard = g]
  OBVIOUS
<1>7. u = t
  BY <1>1, <1>4, <1>6 DEF Queued, Queue
<1>8. u \in StateType
  BY <1>6, ZenonT(60) DEF StateType
<1>9. Alike(s, u)
  BY <1>6, ZenonT(60) DEF StateType, Alike
<1>10. u.work = w /\ u.pending_work_count = n /\ u.shard = g
  BY <1>6, ZenonT(60) DEF StateType
<1> QED
  BY <1>1, <1>4, <1>5, <1>7, <1>8, <1>9, <1>10

LEMMA AlikeStored ==
  ASSUME NEW s, NEW t, Alike(s, t), Stored(s),
         \A i \in Index : s.shard[i].progress = COMPLETED_PUSH_SHARD
                            <=> t.shard[i].progress = COMPLETED_PUSH_SHARD
  PROVE  Stored(t)
<1>1. Shards(t) = Shards(s)
  BY DEF Alike, Shards
<1>2. InProgress(t, COMPLETED_PUSH_SHARD) = InProgress(s, COMPLETED_PUSH_SHARD)
  BY <1>1 DEF InProgress, Shards
<1>3. Ready(s) <=> Ready(t)
  BY DEF Alike, Ready
<1>4. AllStored(s) <=> AllStored(t)
  BY <1>1, <1>2 DEF Alike, AllStored
<1> QED
  BY <1>2, <1>3, <1>4 DEF Stored, Alike

(* What a new kind of job for the chosen shards may do to the trackers. *)
OnlyChosen(s, t, chosen) ==
  /\ \A i \in Index \ chosen : t.shard[i] = s.shard[i]
  /\ \A i \in chosen :
       /\ Owns(t, i, t.shard[i])
       /\ (s.shard[i].progress = COMPLETED_PUSH_SHARD
             <=> t.shard[i].progress = COMPLETED_PUSH_SHARD)

LEMMA QueuedLive ==
  ASSUME NEW s, Live(s), Ready(s), NEW kind \in ShardJobs,
         NEW chosen \in SUBSET Index,
         NEW t \in StateType, Alike(s, t),
         t.work = s.work \cup JobsFor(kind, chosen),
         t.pending_work_count = Cardinality(t.work),
         OnlyChosen(s, t, chosen),
         Slotted(t)
  PROVE  Live(t) /\ Ready(t)
<1>1. Good(s) /\ Free(s)
  BY DEF Live
<1>2. Ready(t)
  BY DEF Ready, Alike
<1>3. \A single \in SingleKinds \cup {"entry"} :
        <<single, 0>> \in t.work <=> <<single, 0>> \in s.work
  BY DEF SingleKinds, ShardJobs, JobsFor
<1>4. Free(t)
  BY <1>1 DEF Free, SingleKinds, ShardJobs, JobsFor
<1>5. Sequenced(t)
  BY <1>1, <1>2, <1>3, <1>4 DEF Sequenced, Good, Alike, SingleKinds
<1>6. Sized(t)
  BY <1>1, <1>3 DEF Sized, Good, Alike, SingleKinds
<1>7. Flagged(t)
  BY <1>1, <1>3 DEF Flagged, Good, Alike, SingleKinds
<1>8. Bounded(t)
  BY <1>1 DEF Bounded, Good, Alike
<1>9. ASSUME NEW i \in Index PROVE Owns(t, i, t.shard[i])
  <2>1. CASE i \in chosen
    BY <2>1 DEF OnlyChosen
  <2>2. CASE i \notin chosen
    <3>1. Owns(s, i, s.shard[i]) /\ t.shard[i] = s.shard[i]
      BY <1>1, <2>2 DEF Good, OnlyChosen
    <3>2. \A k : <<k, i>> \in t.work <=> <<k, i>> \in s.work
      BY <2>2 DEF JobsFor
    <3> QED
      BY <3>1, <3>2 DEF Owns, Alike
  <2> QED
    BY <2>1, <2>2
<1>10. Stored(t)
  <2>1. \A i \in Index : s.shard[i].progress = COMPLETED_PUSH_SHARD
                            <=> t.shard[i].progress = COMPLETED_PUSH_SHARD
    BY DEF OnlyChosen
  <2> QED
    BY <1>1, <2>1, AlikeStored DEF Good
<1>11. Closed(t) /\ ~ t.final_callback_called /\ t.error_status = "OK"
       /\ ~ t.completed_upload
  BY <1>1 DEF Closed, Good, Alike, Live
<1> QED
  BY <1>2, <1>4, <1>5, <1>6, <1>7, <1>8, <1>9, <1>10, <1>11 DEF Live, Good

(* The three steps of a shard that take a slot: the kind of their jobs,    *)
(* the progress before and during the step, and the number of slots.       *)
Stage(kind, waiting, going, limit) ==
  \/ /\ kind = "prepare_frame" /\ limit = PREPARE_FRAME_LIMIT
     /\ waiting = AWAITING_PREPARE_FRAME /\ going = PREPARING_FRAME
  \/ /\ kind = "push_frame" /\ limit = PUSH_FRAME_LIMIT
     /\ waiting = AWAITING_PUSH_FRAME /\ going = PUSHING_FRAME
  \/ /\ kind = "push_shard" /\ limit = PUSH_SHARD_LIMIT
     /\ waiting = AWAITING_PUSH_SHARD /\ going = PUSHING_SHARD

LEMMA StageKind ==
  ASSUME NEW kind, NEW waiting, NEW going, NEW limit,
         Stage(kind, waiting, going, limit)
  PROVE  kind \in ShardJobs /\ kind \in JobKind /\ limit \in Nat /\ waiting # going
  BY UploadAssumption DEF Stage, ShardJobs, JobKind

(* As long as there is no error the slots in use are the jobs outstanding. *)
LEMMA JobsOfStage ==
  ASSUME NEW s, Live(s), NEW kind, NEW waiting, NEW going, NEW limit,
         Stage(kind, waiting, going, limit)
  PROVE  /\ JobsOf(s, {kind}) = JobsFor(kind, InProgress(s, going))
         /\ InProgress(s, going) \in SUBSET Index
         /\ Cardinality(InProgress(s, going)) <= limit
<1>1. Good(s) /\ s.error_status = "OK" /\ s.work \in SUBSET (JobKind \X Index)
  BY DEF Live, Good, StateType
<1>2. ASSUME NEW i \in Index
      PROVE  <<kind, i>> \in s.work <=> i \in InProgress(s, going)
  <2>1. Owns(s, i, s.shard[i])
    BY <1>1 DEF Good
  <2>2. <<kind, i>> \in s.work <=> s.shard[i].progress = going
    BY <1>1, <2>1 DEF Owns, Stage
  <2>3. s.shard[i].progress = going => s.shard[i] # NewShard
    BY DEF Stage, NewShard
  <2>4. s.shard[i].progress = going => ~ (i >= s.total_shards)
    BY <2>1, <2>3 DEF Owns
  <2>5. i \in Int /\ s.total_shards \in Int
    BY <1>1 DEF Good, StateType, Index
  <2>6. s.shard[i].progress = going => i < s.total_shards
    BY <2>4, <2>5
  <2> QED
    BY <2>2, <2>6 DEF InProgress, Shards
<1>3. JobsOf(s, {kind}) = JobsFor(kind, InProgress(s, going))
  <2>1. ASSUME NEW job \in s.work, job[1] = kind
        PROVE  job = <<kind, job[2]>> /\ job[2] \in Index
    BY <1>1, <2>1
  <2>2. InProgress(s, going) \subseteq Index
    BY DEF InProgress, Shards
  <2> QED
    BY <1>2, <2>1, <2>2 DEF JobsOf, JobsFor
<1>4. InProgress(s, going) \in SUBSET Index
  BY DEF InProgress, Shards
<1>5. Cardinality(JobsOf(s, {kind})) <= limit
  BY <1>1 DEF Good, Slotted, Stage
<1> QED
  BY <1>3, <1>4, <1>5, StageKind, JobsPerShard DEF JobsFor

(* The slots of a stage that are in use. *)
Taken(s, kind) == Cardinality(JobsOf(s, {kind}))

(* A report holds its shard back from the stages that change the pointer.  *)
Candidates(s, kind, waiting) ==
  IF kind = "prepare_frame" THEN InProgress(s, waiting)
  ELSE InProgress(s, waiting) \cap Unreported(s)

(* What the trackers g have of those of s when the chosen ones have gone   *)
(* to the next stage.                                                      *)
Started(s, g, kind, going, chosen) ==
  /\ \A i \in Index \ chosen : g[i] = s.shard[i]
  /\ \A i \in chosen :
       /\ g[i].progress = going
       /\ g[i].push_frame_request_count = s.shard[i].push_frame_request_count
       /\ g[i].push_shard_request_count = s.shard[i].push_shard_request_count
       /\ g[i].send_status = s.shard[i].send_status
       /\ g[i].send_count \in {s.shard[i].send_count, 0}
       /\ kind = "push_shard" => g[i].send_count = 0

LEMMA StartedLive ==
  ASSUME NEW s, Live(s), Ready(s), NEW kind, NEW waiting, NEW going, NEW limit,
         Stage(kind, waiting, going, limit),
         NEW candidates, candidates = Candidates(s, kind, waiting),
         NEW chosen, chosen = Admitted(candidates, InProgress(s, going), limit),
         NEW g \in [Index -> ShardType], Started(s, g, kind, going, chosen),
         NEW t, t = Queued(s, kind, chosen, g)
  PROVE  /\ Live(t) /\ Ready(t)
         /\ Grown(s, t) /\ Alike(s, t)
         /\ t.work = s.work \cup JobsFor(kind, chosen)
         /\ t.shard = g
         /\ \A i \in candidates \ chosen : Taken(t, kind) >= limit
<1>1. /\ Good(s) /\ s \in StateType /\ s.error_status = "OK"
      /\ s.pending_work_count = Cardinality(s.work)
      /\ s.work \in SUBSET (JobKind \X Index)
  BY DEF Live, Good, StateType
<1>2. kind \in ShardJobs /\ kind \in JobKind /\ limit \in Nat /\ waiting # going
  BY StageKind
<1>3. PICK active \in SUBSET Index : active = InProgress(s, going)
  BY JobsOfStage
<1>4. /\ JobsOf(s, {kind}) = JobsFor(kind, active)
      /\ Cardinality(active) <= limit
  BY <1>3, JobsOfStage
<1>5. candidates \in SUBSET Index /\ candidates \cap active = {}
  BY <1>2, <1>3 DEF InProgress, Shards, Candidates
<1>6. /\ chosen \in SUBSET candidates
      /\ Cardinality(active \cup chosen) <= limit
      /\ \A i \in candidates \ chosen : Cardinality(active \cup chosen) >= limit
  BY <1>2, <1>3, <1>4, <1>5, AdmittedFits
<1>7. ASSUME NEW i \in chosen
      PROVE  /\ i \in Index /\ Owns(s, i, s.shard[i])
             /\ i < s.total_shards
             /\ s.shard[i].progress = waiting
             /\ kind # "prepare_frame"
                  => s.shard[i].send_status = STORJ_REPORT_NOT_PREPARED
  BY <1>1, <1>6 DEF Good, InProgress, Shards, Unreported, Candidates
<1>8. ASSUME NEW i \in chosen PROVE <<kind, i>> \notin s.work
  <2>1. Owns(s, i, s.shard[i]) /\ s.shard[i].progress = waiting
    BY <1>7
  <2> QED
    BY <2>1 DEF Owns, Stage
<1>10. /\ t \in StateType
       /\ Alike(s, t)
       /\ t.work = s.work \cup JobsFor(kind, chosen)
       /\ t.pending_work_count = Cardinality(t.work)
       /\ t.shard = g
  <2>1. chosen \in SUBSET Index
    BY <1>5, <1>6
  <2>2. \A i \in chosen : <<kind, i>> \notin s.work
    BY <1>8
  <2>3. Queueable(s, kind, chosen, g)
    BY <1>1, <1>2, <2>1, <2>2 DEF Queueable
  <2> QED
    BY <2>3, QueuedFields
<1>11. JobsOf(t, {kind}) = JobsFor(kind, active \cup chosen)
  <2>1. JobsOf(t, {kind}) = JobsOf(s, {kind}) \cup JobsFor(kind, chosen)
    BY <1>10 DEF JobsOf, JobsFor
  <2> QED
    BY <1>4, <2>1 DEF JobsFor
<1>12. Cardinality(JobsOf(t, {kind})) = Cardinality(active \cup chosen)
  <2>1. PICK both \in SUBSET Index : both = active \cup chosen
    BY <1>5, <1>6
  <2>2. Cardinality({kind} \X both) = Cardinality(both)
    BY <1>2, JobsPerShard
  <2> QED
    BY <1>11, <2>1, <2>2 DEF JobsFor
<1>13. Slotted(t)
  <2>1. \A k : k # kind => JobsOf(t, {k}) = JobsOf(s, {k})
    BY <1>10 DEF JobsOf, JobsFor
  <2>2. Slotted(s)
    BY <1>1 DEF Good
  <2>3. Cardinality(JobsOf(t, {kind})) <= limit
    BY <1>6, <1>12
  <2> QED
    BY <2>1, <2>2, <2>3 DEF Slotted, Stage
<1>14. ASSUME NEW i \in chosen
       PROVE  /\ Owns(t, i, t.shard[i])
              /\ s.shard[i].progress # COMPLETED_PUSH_SHARD
              /\ t.shard[i].progress # COMPLETED_PUSH_SHARD
              /\ kind = "push_frame" <=> waiting = AWAITING_PUSH_FRAME
  <2>1. PICK p, q : p = s.shard[i] /\ q = t.shard[i]
    OBVIOUS
  <2>2. /\ Owns(s, i, p) /\ i < s.total_shards /\ p.progress = waiting
        /\ kind # "prepare_frame" => p.send_status = STORJ_REPORT_NOT_PREPARED
        /\ t.total_shards = s.total_shards /\ t.error_status = "OK"
    BY <1>1, <1>7, <1>10, <2>1 DEF Alike
  <2>3. /\ q.progress = going
        /\ q.push_frame_request_count = p.push_frame_request_count
        /\ q.push_shard_request_count = p.push_shard_request_count
        /\ q.send_status = p.send_status
        /\ q.send_count \in {p.send_count, 0}
        /\ kind = "push_shard" => q.send_count = 0
    BY <1>10, <2>1 DEF Started
  <2>4. \A k : <<k, i>> \in t.work <=> <<k, i>> \in s.work \/ k = kind
    BY <1>10 DEF JobsFor
  <2>5. /\ <<"prepare_frame", i>> \notin s.work
        /\ <<"push_frame", i>> \notin s.work
        /\ <<"push_shard", i>> \notin s.work
    BY <2>2 DEF Owns, Stage
  <2>6. /\ q.send_count <= MaxReportTries
        /\ q.send_status # STORJ_REPORT_NOT_PREPARED => q.send_count < MaxReportTries
    BY <2>2, <2>3, UploadAssumption DEF Owns
  <2>7. p.push_frame_request_count < STORJ_MAX_PUSH_FRAME_COUNT
    BY <1>1, <2>2 DEF Owns
  <2>8. ~ (i >= t.total_shards)
    BY <1>1, <1>7, <2>2 DEF StateType, Index
  <2>9. Owns(t, i, q)
    <3>1. <<"report", i>> \in t.work <=> q.send_status = STORJ_REPORT_SENDING
      BY <1>2, <2>2, <2>3, <2>4 DEF Owns, Stage
    <3>2. CASE kind = "prepare_frame"
      BY <3>1, <3>2, <2>2, <2>3, <2>4, <2>5, <2>6, <2>7, <2>8 DEF Owns, Stage
    <3>3. CASE kind = "push_frame"
      BY <3>1, <3>3, <2>2, <2>3, <2>4, <2>5, <2>6, <2>7, <2>8 DEF Owns, Stage
    <3>4. CASE kind = "push_shard"
      BY <3>1, <3>4, <2>2, <2>3, <2>4, <2>5, <2>6, <2>7, <2>8 DEF Owns, Stage
    <3> QED
      BY <3>2, <3>3, <3>4 DEF Stage
  <2> QED
    BY <2>1, <2>2, <2>3, <2>9 DEF Stage
<1>15. \A i \in Index \ chosen : t.shard[i] = s.shard[i]
  BY <1>10 DEF Started
<1>16. Live(t) /\ Ready(t)
  <2>1. chosen \in SUBSET Index
    BY <1>5, <1>6
  <2>2. OnlyChosen(s, t, chosen)
    BY <1>14, <1>15 DEF OnlyChosen
  <2> QED
    BY <1>2, <1>10, <1>13, <2>1, <2>2, QueuedLive
<1>17. Grown(s, t)
  <2>1. ASSUME NEW i \in Index, KeptWaiting(s.shard[i])
        PROVE  t.shard[i] = s.shard[i]
    BY <1>7, <1>14, <1>15, <2>1 DEF Stage, KeptWaiting
  <2>2. ASSUME NEW i \in Index, s.shard[i].progress = COMPLETED_PUSH_SHARD
        PROVE  t.shard[i].progress = COMPLETED_PUSH_SHARD
    BY <1>14, <1>15, <2>2
  <2>3. s.work \subseteq t.work /\ t.canceled = s.canceled /\ t.callbacks = s.callbacks
    BY <1>10 DEF Alike
  <2> QED
    BY <2>1, <2>2, <2>3 DEF Grown
<1> QED
  BY <1>6, <1>10, <1>12, <1>16, <1>17 DEF Taken

LEMMA QueueKeepsShards ==
  ASSUME NEW s \in StateType, NEW jobs
  PROVE  Queue(s, jobs).shard = s.shard
  BY Zenon DEF Queue, StateType

(* What a queueing function for one stage leaves behind: no shard waits    *)
(* for the stage while a slot is free, unless its report holds it back.    *)
Full(t, kind, waiting, limit) ==
  \A i \in Shards(t) :
    /\ t.shard[i].progress = waiting
    /\ \/ kind = "prepare_frame"
       \/ t.shard[i].send_status = STORJ_REPORT_NOT_PREPARED
    => Taken(t, kind) >= limit

LEMMA StartedFull ==
  ASSUME NEW s, NEW kind, NEW waiting, NEW going, NEW limit,
         Stage(kind, waiting, going, limit),
         NEW candidates, candidates = Candidates(s, kind, waiting), NEW chosen,
         NEW t, Alike(s, t), Started(s, t.shard, kind, going, chosen),
         \A i \in candidates \ chosen : Taken(t, kind) >= limit
  PROVE  Full(t, kind, waiting, limit)
<1> SUFFICES ASSUME NEW i \in Shards(t), t.shard[i].progress = waiting,
                    \/ kind = "prepare_frame"
                    \/ t.shard[i].send_status = STORJ_REPORT_NOT_PREPARED
             PROVE  Taken(t, kind) >= limit
  BY DEF Full
<1>1. i \in Shards(s) /\ i \in Index
  BY DEF Shards, Alike
<1>2. i \notin chosen
  BY StageKind DEF Started
<1>3. t.shard[i] = s.shard[i]
  BY <1>1, <1>2 DEF Started
<1>4. i \in candidates
  BY <1>1, <1>3 DEF InProgress, Unreported, Candidates
<1> QED
  BY <1>2, <1>4

(* The chosen trackers are moved on to the stage. *)
LEMMA MovedLive ==
  ASSUME NEW s, Live(s), Ready(s), NEW kind, NEW waiting, NEW going, NEW limit,
         Stage(kind, waiting, going, limit), kind # "push_shard",
         NEW candidates, candidates = Candidates(s, kind, waiting),
         NEW chosen, chosen = Admitted(candidates, InProgress(s, going), limit),
         NEW g, g = [i \in Index |-> IF i \in chosen THEN Moved(s.shard[i], going)
                                     ELSE s.shard[i]],
         NEW t, t = Queued(s, kind, chosen, g)
  PROVE  /\ Live(t) /\ Ready(t) /\ Grown(s, t) /\ Alike(s, t)
         /\ t.work = s.work \cup JobsFor(kind, chosen)
         /\ Started(s, t.shard, kind, going, chosen)
         /\ Full(t, kind, waiting, limit)
<1>1. s \in StateType
  BY DEF Live, Good
<1>2. ASSUME NEW i \in Index
      PROVE  s.shard[i] \in ShardType /\ going \in 1..7
  BY <1>1 DEF StateType, Stage
<1>3. g \in [Index -> ShardType]
  BY <1>2, MovedShard
<1>4. chosen \subseteq Index
  BY DEF Admitted, Candidates, InProgress, Shards
<1>5. Started(s, g, kind, going, chosen)
  <2>1. ASSUME NEW i \in chosen
        PROVE  /\ g[i].progress = going
               /\ g[i].push_frame_request_count = s.shard[i].push_frame_request_count
               /\ g[i].push_shard_request_count = s.shard[i].push_shard_request_count
               /\ g[i].send_status = s.shard[i].send_status
               /\ g[i].send_count = s.shard[i].send_count
    <3>1. /\ g[i] = Moved(s.shard[i], going) /\ s.shard[i] \in ShardType
          /\ going \in 1..7
      BY <1>2, <1>4
    <3> QED
      BY <3>1, MovedShard
  <2> QED
    BY <2>1 DEF Started
<1>6. /\ Live(t) /\ Ready(t) /\ Grown(s, t) /\ Alike(s, t)
      /\ t.work = s.work \cup JobsFor(kind, chosen)
      /\ t.shard = g
      /\ \A i \in candidates \ chosen : Taken(t, kind) >= limit
  BY <1>3, <1>5, StartedLive
<1>7. Full(t, kind, waiting, limit)
  BY <1>5, <1>6, StartedFull
<1> QED
  BY <1>5, <1>6, <1>7

(* What the queueing function of a stage makes of a live upload. *)
Begun(s, t, kind, waiting, going, limit) ==
  /\ Live(t) /\ Ready(t) /\ Grown(s, t) /\ Alike(s, t)
  /\ \E chosen : /\ t.work = s.work \cup JobsFor(kind, chosen)
                 /\ Started(s, t.shard, kind, going, chosen)
  /\ Full(t, kind, waiting, limit)

LEMMA queue_prepare_framesLive ==
  ASSUME NEW s, Live(s), Ready(s)
  PROVE  Begun(s, queue_prepare_frames(s), "prepare_frame", AWAITING_PREPARE_FRAME,
               PREPARING_FRAME, PREPARE_FRAME_LIMIT)
<1>1. PICK kind, waiting, going, limit :
        /\ kind = "prepare_frame" /\ limit = PREPARE_FRAME_LIMIT
        /\ waiting = AWAITING_PREPARE_FRAME /\ going = PREPARING_FRAME
  OBVIOUS
<1>2. Stage(kind, waiting, going, limit) /\ kind # "push_shard"
  BY <1>1 DEF Stage
<1>3. PICK candidates : candidates = Candidates(s, kind, waiting)
  OBVIOUS
<1>4. PICK chosen : chosen = Admitted(candidates, InProgress(s, going), limit)
  OBVIOUS
<1>5. PICK g : g = [i \in Index |-> IF i \in chosen THEN Moved(s.shard[i], going)
                                    ELSE s.shard[i]]
  OBVIOUS
<1>6. PICK t : t = Queued(s, kind, chosen, g)
  OBVIOUS
<1>7. t = queue_prepare_frames(s)
  <2>1. Queue(s, JobsFor(kind, chosen)).shard = s.shard
    BY QueueKeepsShards DEF Live, Good
  <2>2. chosen = ToPrepare(s)
    BY <1>1, <1>3, <1>4 DEF ToPrepare, Candidates
  <2> QED
    BY <1>1, <1>5, <1>6, <2>1, <2>2 DEF Queued, queue_prepare_frames, JobsFor
<1>8. Begun(s, t, kind, waiting, going, limit)
  BY <1>2, <1>3, <1>4, <1>5, <1>6, MovedLive DEF Begun
<1> QED
  BY <1>1, <1>7, <1>8

LEMMA queue_push_framesLive ==
  ASSUME NEW s, Live(s), Ready(s)
  PROVE  Begun(s, queue_push_frames(s), "push_frame", AWAITING_PUSH_FRAME,
               PUSHING_FRAME, PUSH_FRAME_LIMIT)
<1>1. PICK kind, waiting, going, limit :
        /\ kind = "push_frame" /\ limit = PUSH_FRAME_LIMIT
        /\ waiting = AWAITING_PUSH_FRAME /\ going = PUSHING_FRAME
  OBVIOUS
<1>2. Stage(kind, waiting, going, limit) /\ kind # "push_shard"
  BY <1>1 DEF Stage
<1>3. PICK candidates : candidates = Candidates(s, kind, waiting)
  OBVIOUS
<1>4. PICK chosen : chosen = Admitted(candidates, InProgress(s, going), limit)
  OBVIOUS
<1>5. PICK g : g = [i \in Index |-> IF i \in chosen THEN Moved(s.shard[i], going)
                                    ELSE s.shard[i]]
  OBVIOUS
<1>6. PICK t : t = Queued(s, kind, chosen, g)
  OBVIOUS
<1>7. t = queue_push_frames(s)
  <2>1. Queue(s, JobsFor(kind, chosen)).shard = s.shard
    BY QueueKeepsShards DEF Live, Good
  <2>2. chosen = ToPushFrame(s)
    BY <1>1, <1>3, <1>4 DEF ToPushFrame, Candidates
  <2> QED
    BY <1>1, <1>5, <1>6, <2>1, <2>2 DEF Queued, queue_push_frames, JobsFor
<1>8. Begun(s, t, kind, waiting, going, limit)
  BY <1>2, <1>3, <1>4, <1>5, <1>6, MovedLive DEF Begun
<1> QED
  BY <1>1, <1>7, <1>8

LEMMA queue_push_shardsLive ==
  ASSUME NEW s, Live(s), Ready(s)
  PROVE  Begun(s, queue_push_shards(s), "push_shard", AWAITING_PUSH_SHARD,
               PUSHING_SHARD, PUSH_SHARD_LIMIT)
<1>1. PICK kind, waiting, going, limit :
        /\ kind = "push_shard" /\ limit = PUSH_SHARD_LIMIT
        /\ waiting = AWAITING_PUSH_SHARD /\ going = PUSHING_SHARD
  OBVIOUS
<1>2. Stage(kind, waiting, going, limit)
  BY <1>1 DEF Stage
<1>3. PICK candidates : candidates = Candidates(s, kind, waiting)
  OBVIOUS
<1>4. PICK chosen : chosen = Admitted(candidates, InProgress(s, going), limit)
  OBVIOUS
<1>5. PICK g : g = [i \in Index |-> IF i \in chosen THEN PushingShard(s.shard[i])
                                    ELSE s.shard[i]]
  OBVIOUS
<1>6. PICK t : t = Queued(s, kind, chosen, g)
  OBVIOUS
<1>7. t = queue_push_shards(s)
  <2>1. Queue(s, JobsFor(kind, chosen)).shard = s.shard
    BY QueueKeepsShards DEF Live, Good
  <2>2. chosen = ToPushShard(s)
    BY <1>1, <1>3, <1>4 DEF ToPushShard, Candidates
  <2> QED
    BY <1>1, <1>5, <1>6, <2>1, <2>2 DEF Queued, queue_push_shards, JobsFor
<1>8. ASSUME NEW i \in Index PROVE s.shard[i] \in ShardType
  BY DEF Live, Good, StateType
<1>9. g \in [Index -> ShardType]
  BY <1>5, <1>8, PushingTracker
<1>10. ASSUME NEW i \in chosen
       PROVE  i \in Index /\ s.shard[i].send_status = STORJ_REPORT_NOT_PREPARED
  BY <1>1, <1>3, <1>4 DEF Admitted, Candidates, InProgress, Shards, Unreported
<1>11. Started(s, g, kind, going, chosen)
  <2>1. ASSUME NEW i \in chosen
        PROVE  /\ g[i].progress = going
               /\ g[i].push_frame_request_count = s.shard[i].push_frame_request_count
               /\ g[i].push_shard_request_count = s.shard[i].push_shard_request_count
               /\ g[i].send_status = s.shard[i].send_status
               /\ g[i].send_count = 0
    <3>1. g[i] = PushingShard(s.shard[i]) /\ s.shard[i] \in ShardType
      BY <1>5, <1>8, <1>10
    <3> QED
      BY <1>1, <1>10, <3>1, PushingTracker
  <2> QED
    BY <1>5, <2>1 DEF Started
<1>12. /\ Live(t) /\ Ready(t) /\ Grown(s, t) /\ Alike(s, t)
       /\ t.work = s.work \cup JobsFor(kind, chosen)
       /\ t.shard = g
       /\ \A i \in candidates \ chosen : Taken(t, kind) >= limit
  BY <1>2, <1>3, <1>4, <1>6, <1>9, <1>11, StartedLive
<1>13. Full(t, kind, waiting, limit)
  BY <1>2, <1>3, <1>11, <1>12, StartedFull
<1> QED
  BY <1>1, <1>7, <1>11, <1>12, <1>13 DEF Begun

LEMMA queue_send_exchange_reportsLive ==
  ASSUME NEW s, Live(s), Ready(s)
  PROVE  LET t == queue_send_exchange_reports(s) IN
         /\ Live(t) /\ Ready(t) /\ Grown(s, t) /\ Alike(s, t)
         /\ \E chosen : t.work = s.work \cup JobsFor("report", chosen)
         /\ \A i \in Index :
              /\ t.shard[i].progress = s.shard[i].progress
              /\ t.shard[i].send_status # STORJ_REPORT_AWAITING_SEND
<1>1. /\ Good(s) /\ s \in StateType /\ s.error_status = "OK"
      /\ s.pending_work_count = Cardinality(s.work)
  BY DEF Live, Good
<1>2. PICK kind \in ShardJobs : kind = "report"
  BY DEF ShardJobs
<1>3. PICK chosen \in SUBSET Index : chosen = ToReport(s)
  BY DEF ToReport, Shards
<1>4. PICK g : g = [i \in Index |-> IF i \in chosen THEN Reporting(s.shard[i])
                                    ELSE s.shard[i]]
  OBVIOUS
<1>5. PICK t : t = Queued(s, kind, chosen, g)
  OBVIOUS
<1>6. t = queue_send_exchange_reports(s)
  <2>1. Queue(s, JobsFor(kind, chosen)).shard = s.shard
    BY <1>1, QueueKeepsShards
  <2> QED
    BY <1>2, <1>3, <1>4, <1>5, <2>1 DEF Queued, queue_send_exchange_reports, JobsFor
<1>7. ASSUME NEW i \in Index
      PROVE  /\ s.shard[i] \in ShardType /\ Owns(s, i, s.shard[i])
             /\ i \in chosen <=> s.shard[i].send_status = STORJ_REPORT_AWAITING_SEND
  <2>1. s.shard[i] \in ShardType /\ Owns(s, i, s.shard[i])
    BY <1>1 DEF Good, StateType
  <2>2. ASSUME s.shard[i].send_status = STORJ_REPORT_AWAITING_SEND PROVE i \in chosen
    <3>1. s.shard[i] # NewShard
      BY <2>2 DEF NewShard
    <3>2. ~ (i >= s.total_shards) /\ i \in Int /\ s.total_shards \in Int
      BY <1>1, <2>1, <3>1 DEF Owns, StateType, Index
    <3>3. s.shard[i].send_count < MaxReportTries /\ s.shard[i].send_count \in Nat
      BY <2>1, <2>2 DEF Owns, ShardType
    <3>4. s.shard[i].send_count # MaxReportTries
      BY <3>3, UploadAssumption
    <3> QED
      BY <1>3, <2>2, <3>2, <3>4 DEF ToReport, Shards
  <2> QED
    BY <1>3, <2>1, <2>2 DEF ToReport
<1>8. g \in [Index -> ShardType]
  BY <1>4, <1>7, ReportingTracker
<1>9. kind \in JobKind
  BY <1>2 DEF JobKind
<1>10. ASSUME NEW i \in chosen PROVE <<kind, i>> \notin s.work
  <2>1. /\ Owns(s, i, s.shard[i])
        /\ s.shard[i].send_status = STORJ_REPORT_AWAITING_SEND
    BY <1>7
  <2> QED
    BY <1>2, <2>1 DEF Owns
<1>11. /\ t \in StateType
       /\ Alike(s, t)
       /\ t.work = s.work \cup JobsFor(kind, chosen)
       /\ t.pending_work_count = Cardinality(t.work)
       /\ t.shard = g
  <2>1. \A i \in chosen : <<kind, i>> \notin s.work
    BY <1>10
  <2>2. Queueable(s, kind, chosen, g)
    BY <1>1, <1>8, <1>9, <2>1 DEF Queueable
  <2> QED
    BY <1>5, <2>2, QueuedFields
<1>12. ASSUME NEW i \in chosen
       PROVE  /\ t.shard[i].progress = s.shard[i].progress
              /\ t.shard[i].send_status = STORJ_REPORT_SENDING
              /\ Owns(t, i, t.shard[i])
  <2>1. PICK p, q : p = s.shard[i] /\ q = t.shard[i]
    OBVIOUS
  <2>2. q = Reporting(p) /\ p \in ShardType /\ Owns(s, i, p)
        /\ p.send_status = STORJ_REPORT_AWAITING_SEND
    BY <1>4, <1>7, <1>11, <2>1
  <2>3. /\ q.progress = p.progress
        /\ q.push_frame_request_count = p.push_frame_request_count
        /\ q.push_shard_request_count = p.push_shard_request_count
        /\ q.send_status = STORJ_REPORT_SENDING
        /\ q.send_count = p.send_count
    BY <2>2, ReportingTracker
  <2>4. \A k : <<k, i>> \in t.work <=> <<k, i>> \in s.work \/ k = "report"
    BY <1>2, <1>11 DEF JobsFor
  <2>5. p # NewShard
    BY <2>2 DEF NewShard
  <2>6. Owns(t, i, q)
    BY <2>2, <2>3, <2>4, <2>5, <1>11 DEF Owns, Alike
  <2> QED
    BY <2>1, <2>3, <2>6
<1>13. \A i \in Index \ chosen : t.shard[i] = s.shard[i]
  BY <1>4, <1>11
<1>14. OnlyChosen(s, t, chosen)
  BY <1>12, <1>13 DEF OnlyChosen
<1>15. Slotted(t)
  <2>1. ASSUME NEW k, k # "report" PROVE JobsOf(t, {k}) = JobsOf(s, {k})
    BY <1>2, <1>11, <2>1 DEF JobsOf, JobsFor
  <2> QED
    BY <1>1, <2>1 DEF Good, Slotted
<1>16. Live(t) /\ Ready(t)
  BY <1>11, <1>14, <1>15, QueuedLive
<1>17. ASSUME NEW i \in Index
       PROVE  /\ t.shard[i].progress = s.shard[i].progress
              /\ t.shard[i].send_status # STORJ_REPORT_AWAITING_SEND
              /\ KeptWaiting(s.shard[i]) => KeptWaiting(t.shard[i])
  BY <1>7, <1>12, <1>13 DEF KeptWaiting
<1>18. Grown(s, t)
  BY <1>11, <1>17 DEF Grown, Alike
<1> QED
  BY <1>2, <1>6, <1>11, <1>16, <1>17, <1>18

(* queue_create_bucket_entry *)
LEMMA queue_create_bucket_entryLive ==
  ASSUME NEW s, Live(s), Ready(s)
  PROVE  LET t == queue_create_bucket_entry(s) IN
         /\ Live(t) /\ Ready(t) /\ Grown(s, t)
         /\ t.total_shards = s.total_shards
         /\ t.shard = s.shard
         /\ \A k : k # "entry" => JobsOf(t, {k}) = JobsOf(s, {k})
         /\ AllStored(t) => t.creating_bucket_entry
<1>1. /\ Good(s) /\ s \in StateType /\ s.error_status = "OK"
      /\ s.pending_work_count = Cardinality(s.work)
      /\ ~ s.completed_upload /\ Free(s)
      /\ s.completed_shards = Cardinality(InProgress(s, COMPLETED_PUSH_SHARD))
      /\ s.total_shards \in Nat /\ s.total_shards <= MaxShards /\ MaxShards \in Nat
  BY UploadAssumption DEF Live, Good, Stored, StateType
<1>2. Cardinality(Shards(s)) = s.total_shards /\ IsFiniteSet(Shards(s))
  <2>1. Shards(s) = 0..(s.total_shards - 1)
    BY <1>1 DEF Shards, Index
  <2> QED
    BY <1>1, <2>1, FS_Interval
<1>3. PICK d \in SUBSET Shards(s) : d = InProgress(s, COMPLETED_PUSH_SHARD)
  BY DEF InProgress
<1>4. CASE ~ (s.completed_shards = s.total_shards /\ ~ s.creating_bucket_entry)
  <2>1. queue_create_bucket_entry(s) = s
    BY <1>4 DEF queue_create_bucket_entry
  <2>2. AllStored(s) => s.completed_shards = s.total_shards
    BY <1>1, <1>2 DEF AllStored
  <2> QED
    BY <1>4, <2>1, <2>2 DEF Grown
<1>5. CASE s.completed_shards = s.total_shards /\ ~ s.creating_bucket_entry
  <2>1. d = Shards(s)
    BY <1>1, <1>2, <1>3, <1>5, FS_Subset
  <2>2. <<"entry", 0>> \notin s.work
    BY <1>1, <1>5 DEF Good, Flagged
  <2>3. PICK job \in JobKind \X Index : job = <<"entry", 0>>
    <3>1. 0 \in Index
      BY UploadAssumption DEF Index
    <3>2. "entry" \in JobKind
      BY DEF JobKind
    <3> QED
      BY <3>1, <3>2
  <2>4. PICK w \in SUBSET (JobKind \X Index), n \in Int :
          w = s.work \cup {job} /\ n = s.pending_work_count + Cardinality({job})
    <3>1. s.work \cup {job} \in SUBSET (JobKind \X Index)
      BY <1>1 DEF StateType
    <3>2. Cardinality({job}) = 1 /\ s.pending_work_count \in Int
      BY <1>1, FS_Singleton DEF StateType
    <3>3. s.pending_work_count + Cardinality({job}) \in Int
      BY <3>2
    <3> QED
      BY <3>1, <3>3
  <2>5. n = Cardinality(w)
    <3>1. s.work \in SUBSET (JobKind \X Index) /\ {job} \in SUBSET (JobKind \X Index)
          /\ s.work \cap {job} = {}
      BY <1>1, <2>2, <2>3 DEF StateType
    <3> QED
      BY <1>1, <2>4, <3>1, AddedCount
  <2>6. PICK t : t = [[s EXCEPT !.work = w, !.pending_work_count = n]
                        EXCEPT !.creating_bucket_entry = TRUE]
    OBVIOUS
  <2>7. t = queue_create_bucket_entry(s)
    BY <1>1, <1>5, <2>3, <2>4, <2>6 DEF queue_create_bucket_entry, Queue
  <2>9. /\ t \in StateType
        /\ t.work = w /\ t.pending_work_count = n /\ t.shard = s.shard
        /\ t.creating_bucket_entry = TRUE
    BY <1>1, <2>6, ZenonT(60) DEF StateType
  <2>10. /\ t.rs = s.rs
         /\ t.total_data_shards = s.total_data_shards
         /\ t.total_shards = s.total_shards
         /\ t.completed_shards = s.completed_shards
         /\ t.bucket_verified = s.bucket_verified
         /\ t.bucket_verify_count = s.bucket_verify_count
         /\ t.file_verified = s.file_verified
         /\ t.file_verify_count = s.file_verify_count
         /\ t.frame_id = s.frame_id
         /\ t.requesting_frame = s.requesting_frame
         /\ t.frame_request_count = s.frame_request_count
         /\ t.encrypted_file = s.encrypted_file
         /\ t.creating_encrypted_file = s.creating_encrypted_file
         /\ t.create_encrypted_file_count = s.create_encrypted_file_count
         /\ t.awaiting_parity_shards = s.awaiting_parity_shards
         /\ t.parity_file = s.parity_file
         /\ t.add_bucket_entry_count = s.add_bucket_entry_count
    BY <1>1, <2>6, ZenonT(60) DEF StateType
  <2>11. /\ t.completed_upload = s.completed_upload
         /\ t.canceled = s.canceled
         /\ t.final_callback_called = s.final_callback_called
         /\ t.error_status = s.error_status
         /\ t.prepared = s.prepared
         /\ t.dequeued = s.dequeued
         /\ t.entries = s.entries
         /\ t.callbacks = s.callbacks
    BY <1>1, <2>6, ZenonT(60) DEF StateType
  <2>12. \A k, i : <<k, i>> \in t.work <=> <<k, i>> \in s.work \/ (k = "entry" /\ i = 0)
    BY <2>3, <2>4, <2>9
  <2>13. \A k : k # "entry" => JobsOf(t, {k}) = JobsOf(s, {k})
    BY <2>3, <2>4, <2>9 DEF JobsOf
  <2>14. Ready(t)
    BY <2>10 DEF Ready
  <2>15. Free(t)
    BY <1>1, <2>3, <2>4, <2>9 DEF Free, SingleKinds
  <2>16. Sequenced(t)
    BY <1>1, <2>10, <2>11, <2>12, <2>14, <2>15 DEF Sequenced, Good
  <2>17. Sized(t)
    BY <1>1, <2>10, <2>11, <2>12 DEF Sized, Good
  <2>18. Flagged(t)
    BY <1>1, <2>9, <2>10, <2>12 DEF Flagged, Good
  <2>19. Bounded(t)
    BY <1>1, <2>9, <2>10, <2>11 DEF Bounded, Good
  <2>20. ASSUME NEW i \in Index PROVE Owns(t, i, t.shard[i])
    <3>1. Owns(s, i, s.shard[i])
      BY <1>1 DEF Good
    <3> QED
      BY <3>1, <2>9, <2>10, <2>11, <2>12 DEF Owns
  <2>21. Slotted(t)
    BY <1>1, <2>13 DEF Slotted, Good
  <2>22. AllStored(t) /\ InProgress(t, COMPLETED_PUSH_SHARD) = d
    <3>1. Shards(t) = Shards(s) /\ InProgress(t, COMPLETED_PUSH_SHARD) = d
      BY <1>3, <2>9, <2>10 DEF Shards, InProgress
    <3>2. s.total_shards = Counted(file)
      BY <1>1 DEF Good, Sized, Free, SingleKinds
    <3> QED
      BY <2>1, <2>10, <3>1, <3>2 DEF AllStored, Counted
  <2>23. Stored(t)
    BY <1>1, <1>3, <2>9, <2>10, <2>11, <2>14, <2>22 DEF Stored, Good
  <2>24. Closed(t) /\ ~ t.final_callback_called /\ t.error_status = "OK"
         /\ ~ t.completed_upload
    BY <1>1, <2>11 DEF Closed, Good, Live
  <2>25. Live(t)
    BY <2>5, <2>9, <2>15, <2>16, <2>17, <2>18, <2>19, <2>20, <2>21, <2>23, <2>24
       DEF Live, Good
  <2>26. Grown(s, t)
    BY <2>4, <2>9, <2>11 DEF Grown
  <2> QED
    BY <2>7, <2>9, <2>10, <2>13, <2>14, <2>25, <2>26
<1> QED
  BY <1>4, <1>5

(* Every shard has the job outstanding that moves it on, waits for its     *)
(* report, or finds every slot of its next stage in use; and when all are  *)
(* stored the entry is on its way.                                         *)
Saturated(t) ==
  /\ \A i \in Shards(t) :
       LET progress == t.shard[i].progress IN
       /\ progress = AWAITING_PREPARE_FRAME
            => Taken(t, "prepare_frame") >= PREPARE_FRAME_LIMIT
       /\ progress = PREPARING_FRAME => <<"prepare_frame", i>> \in t.work
       /\ progress = AWAITING_PUSH_FRAME
            => \/ <<"report", i>> \in t.work
               \/ Taken(t, "push_frame") >= PUSH_FRAME_LIMIT
       /\ progress = PUSHING_FRAME => <<"push_frame", i>> \in t.work
       /\ progress = AWAITING_PUSH_SHARD
            => \/ <<"report", i>> \in t.work
               \/ Taken(t, "push_shard") >= PUSH_SHARD_LIMIT
       /\ progress = PUSHING_SHARD => <<"push_shard", i>> \in t.work
  /\ AllStored(t) => t.creating_bucket_entry

(* What a stage leaves to the others: their slots, and the shards it did   *)
(* not choose.                                                             *)
LEMMA BegunKeeps ==
  ASSUME NEW s, NEW t, NEW kind, NEW waiting, NEW going, NEW limit,
         Begun(s, t, kind, waiting, going, limit)
  PROVE  /\ \A k : k # kind => Taken(t, k) = Taken(s, k)
         /\ Shards(t) = Shards(s)
         /\ \A i \in Index : t.shard[i].progress # going => t.shard[i] = s.shard[i]
         /\ \A i \in Index : t.shard[i].send_status = s.shard[i].send_status
<1>1. PICK chosen : /\ t.work = s.work \cup JobsFor(kind, chosen)
                    /\ Started(s, t.shard, kind, going, chosen)
  BY DEF Begun
<1>2. ASSUME NEW k, k # kind PROVE JobsOf(t, {k}) = JobsOf(s, {k})
  BY <1>1, <1>2 DEF JobsOf, JobsFor
<1>3. Shards(t) = Shards(s)
  BY DEF Begun, Alike, Shards
<1> QED
  BY <1>1, <1>2, <1>3 DEF Started, Taken

LEMMA FullKept ==
  ASSUME NEW s, NEW t, NEW kind, NEW waiting, NEW limit,
         Full(s, kind, waiting, limit),
         Taken(t, kind) = Taken(s, kind), Shards(t) = Shards(s),
         \A i \in Index :
           t.shard[i].progress = waiting
             => /\ s.shard[i].progress = waiting
                /\ \/ kind = "prepare_frame"
                   \/ s.shard[i].send_status = t.shard[i].send_status
  PROVE  Full(t, kind, waiting, limit)
  BY DEF Full, Shards

LEMMA QueueShardWorkLive ==
  ASSUME NEW s, Live(s), Ready(s)
  PROVE  LET t == QueueShardWork(s) IN Live(t) /\ Grown(s, t) /\ Saturated(t)
<1>1. PICK a : a = queue_prepare_frames(s)
  OBVIOUS
<1>2. Begun(s, a, "prepare_frame", AWAITING_PREPARE_FRAME, PREPARING_FRAME,
            PREPARE_FRAME_LIMIT)
  BY <1>1, queue_prepare_framesLive
<1>3. /\ Live(a) /\ Ready(a) /\ Grown(s, a)
      /\ Full(a, "prepare_frame", AWAITING_PREPARE_FRAME, PREPARE_FRAME_LIMIT)
  BY <1>2 DEF Begun
<1>4. PICK b : b = queue_create_bucket_entry(a)
  OBVIOUS
<1>5. /\ Live(b) /\ Ready(b) /\ Grown(a, b)
      /\ b.total_shards = a.total_shards
      /\ b.shard = a.shard
      /\ \A k : k # "entry" => JobsOf(b, {k}) = JobsOf(a, {k})
      /\ AllStored(b) => b.creating_bucket_entry
  BY <1>3, <1>4, queue_create_bucket_entryLive
<1>6. PICK c : c = queue_send_exchange_reports(b)
  OBVIOUS
<1>7. /\ Live(c) /\ Ready(c) /\ Grown(b, c) /\ Alike(b, c)
      /\ \E chosen : c.work = b.work \cup JobsFor("report", chosen)
      /\ \A i \in Index :
           /\ c.shard[i].progress = b.shard[i].progress
           /\ c.shard[i].send_status # STORJ_REPORT_AWAITING_SEND
  BY <1>5, <1>6, queue_send_exchange_reportsLive
<1>8. PICK d : d = queue_push_frames(c)
  OBVIOUS
<1>9. Begun(c, d, "push_frame", AWAITING_PUSH_FRAME, PUSHING_FRAME, PUSH_FRAME_LIMIT)
  BY <1>7, <1>8, queue_push_framesLive
<1>10. /\ Live(d) /\ Ready(d) /\ Grown(c, d) /\ Alike(c, d)
       /\ Full(d, "push_frame", AWAITING_PUSH_FRAME, PUSH_FRAME_LIMIT)
  BY <1>9 DEF Begun
<1>11. PICK t : t = queue_push_shards(d)
  OBVIOUS
<1>12. Begun(d, t, "push_shard", AWAITING_PUSH_SHARD, PUSHING_SHARD, PUSH_SHARD_LIMIT)
  BY <1>10, <1>11, queue_push_shardsLive
<1>13. /\ Live(t) /\ Ready(t) /\ Grown(d, t) /\ Alike(d, t)
       /\ Full(t, "push_shard", AWAITING_PUSH_SHARD, PUSH_SHARD_LIMIT)
  BY <1>12 DEF Begun
<1>14. t = QueueShardWork(s)
  <2>1. c.frame_id
    BY <1>7 DEF Ready
  <2> QED
    BY <1>1, <1>4, <1>6, <1>8, <1>11, <2>1
       DEF QueueShardWork, queue_push_frame_and_shard
<1>15. Grown(s, t)
  BY <1>3, <1>5, <1>7, <1>10, <1>13, GrownTransitive
<1>16. /\ Shards(b) = Shards(a) /\ Shards(c) = Shards(b)
       /\ Shards(d) = Shards(c) /\ Shards(t) = Shards(d)
  BY <1>5, <1>7, <1>9, <1>12, BegunKeeps DEF Shards, Alike
<1>17. /\ \A k : k # "push_frame" => Taken(d, k) = Taken(c, k)
       /\ \A i \in Index : d.shard[i].progress # PUSHING_FRAME
                             => d.shard[i] = c.shard[i]
       /\ \A i \in Index : d.shard[i].send_status = c.shard[i].send_status
  BY <1>9, BegunKeeps
<1>18. /\ \A k : k # "push_shard" => Taken(t, k) = Taken(d, k)
       /\ \A i \in Index : t.shard[i].progress # PUSHING_SHARD
                             => t.shard[i] = d.shard[i]
       /\ \A i \in Index : t.shard[i].send_status = d.shard[i].send_status
  BY <1>12, BegunKeeps
<1>19. Full(t, "prepare_frame", AWAITING_PREPARE_FRAME, PREPARE_FRAME_LIMIT)
  <2>1. Taken(c, "prepare_frame") = Taken(a, "prepare_frame")
    <3>1. JobsOf(c, {"prepare_frame"}) = JobsOf(b, {"prepare_frame"})
      BY <1>7 DEF JobsOf, JobsFor
    <3>2. JobsOf(b, {"prepare_frame"}) = JobsOf(a, {"prepare_frame"})
      BY <1>5
    <3> QED
      BY <3>1, <3>2 DEF Taken
  <2>2. Taken(t, "prepare_frame") = Taken(a, "prepare_frame")
    BY <1>17, <1>18, <2>1
  <2>3. ASSUME NEW i \in Index, t.shard[i].progress = AWAITING_PREPARE_FRAME
        PROVE  a.shard[i].progress = AWAITING_PREPARE_FRAME
    <3>1. t.shard[i] = d.shard[i] /\ d.shard[i] = c.shard[i]
      BY <1>17, <1>18, <2>3
    <3> QED
      BY <1>5, <1>7, <2>3, <3>1
  <2> QED
    BY <1>3, <1>16, <2>2, <2>3 DEF Full, Shards
<1>20. Full(t, "push_frame", AWAITING_PUSH_FRAME, PUSH_FRAME_LIMIT)
  <2>1. Taken(t, "push_frame") = Taken(d, "push_frame")
    BY <1>18
  <2>2. ASSUME NEW i \in Index, t.shard[i].progress = AWAITING_PUSH_FRAME
        PROVE  t.shard[i] = d.shard[i]
    BY <1>18, <2>2
  <2> QED
    BY <1>10, <1>16, <2>1, <2>2 DEF Full, Shards
<1>21. AllStored(t) => t.creating_bucket_entry
  <2> SUFFICES ASSUME AllStored(t) PROVE t.creating_bucket_entry
    OBVIOUS
  <2>1. ASSUME NEW i \in Shards(t) PROVE b.shard[i].progress = COMPLETED_PUSH_SHARD
    <3>1. i \in Index /\ t.shard[i].progress = COMPLETED_PUSH_SHARD
      BY DEF AllStored, InProgress, Shards
    <3>2. t.shard[i] = d.shard[i] /\ d.shard[i] = c.shard[i]
      BY <1>17, <1>18, <3>1
    <3> QED
      BY <1>7, <3>1, <3>2
  <2>2. InProgress(b, COMPLETED_PUSH_SHARD) = Shards(b)
    BY <1>16, <2>1 DEF InProgress
  <2>3. b.total_shards = t.total_shards
        /\ t.creating_bucket_entry = b.creating_bucket_entry
    BY <1>7, <1>10, <1>13 DEF Alike
  <2>4. AllStored(b)
    BY <2>2, <2>3 DEF AllStored
  <2> QED
    BY <1>5, <2>3, <2>4
<1>22. ASSUME NEW i \in Shards(t)
       PROVE  /\ i \in Index
              /\ Owns(t, i, t.shard[i])
              /\ \/ t.shard[i].send_status = STORJ_REPORT_NOT_PREPARED
                 \/ t.shard[i].send_status = STORJ_REPORT_SENDING
  <2>1. i \in Index /\ Owns(t, i, t.shard[i]) /\ t.shard[i].send_status \in 0..2
    BY <1>13 DEF Live, Good, Shards, StateType, ShardType
  <2>2. t.shard[i].send_status # STORJ_REPORT_AWAITING_SEND
    BY <1>7, <1>17, <1>18, <2>1
  <2> QED
    BY <2>1, <2>2
<1>23. Saturated(t)
  <2> SUFFICES ASSUME NEW i \in Shards(t), NEW progress,
                      progress = t.shard[i].progress
      PROVE  /\ progress = AWAITING_PREPARE_FRAME
                  => Taken(t, "prepare_frame") >= PREPARE_FRAME_LIMIT
             /\ progress = PREPARING_FRAME => <<"prepare_frame", i>> \in t.work
             /\ progress = AWAITING_PUSH_FRAME
                  => \/ <<"report", i>> \in t.work
                     \/ Taken(t, "push_frame") >= PUSH_FRAME_LIMIT
             /\ progress = PUSHING_FRAME => <<"push_frame", i>> \in t.work
             /\ progress = AWAITING_PUSH_SHARD
                  => \/ <<"report", i>> \in t.work
                     \/ Taken(t, "push_shard") >= PUSH_SHARD_LIMIT
             /\ progress = PUSHING_SHARD => <<"push_shard", i>> \in t.work
    BY <1>21 DEF Saturated
  <2>1. t.error_status = "OK"
    BY <1>13 DEF Live
  <2>2. /\ Owns(t, i, t.shard[i])
        /\ <<"report", i>> \in t.work
             \/ t.shard[i].send_status = STORJ_REPORT_NOT_PREPARED
    BY <1>22 DEF Owns
  <2>3. /\ progress = PREPARING_FRAME => <<"prepare_frame", i>> \in t.work
        /\ progress = PUSHING_FRAME => <<"push_frame", i>> \in t.work
        /\ progress = PUSHING_SHARD => <<"push_shard", i>> \in t.work
    BY <2>1, <2>2 DEF Owns
  <2>4. progress = AWAITING_PREPARE_FRAME
          => Taken(t, "prepare_frame") >= PREPARE_FRAME_LIMIT
    BY <1>19 DEF Full
  <2>5. progress = AWAITING_PUSH_FRAME
          => \/ <<"report", i>> \in t.work
             \/ Taken(t, "push_frame") >= PUSH_FRAME_LIMIT
    BY <1>20, <2>2 DEF Full
  <2>6. progress = AWAITING_PUSH_SHARD
          => \/ <<"report", i>> \in t.work
             \/ Taken(t, "push_shard") >= PUSH_SHARD_LIMIT
    BY <1>13, <2>2 DEF Full
  <2> QED
    BY <2>3, <2>4, <2>5, <2>6
<1> QED
  BY <1>13, <1>14, <1>15, <1>23

-----------------------------------------------------------------------------
(* The steps that come one after the other.                                *)

(* A single step changes nothing of the shards and of the entry. *)
SameShards(s, t) ==
  /\ t.rs = s.rs
  /\ t.total_data_shards = s.total_data_shards
  /\ t.total_shards = s.total_shards
  /\ t.shard = s.shard
  /\ t.completed_shards = s.completed_shards
  /\ t.creating_bucket_entry = s.creating_bucket_entry
  /\ t.add_bucket_entry_count = s.add_bucket_entry_count
  /\ t.completed_upload = s.completed_upload
  /\ t.canceled = s.canceled
  /\ t.final_callback_called = s.final_callback_called
  /\ t.prepared = s.prepared
  /\ t.dequeued = s.dequeued
  /\ t.entries = s.entries
  /\ t.callbacks = s.callbacks

SameChecks(s, t) ==
  /\ t.bucket_verified = s.bucket_verified
  /\ t.bucket_verify_count = s.bucket_verify_count
  /\ t.file_verified = s.file_verified
  /\ t.file_verify_count = s.file_verify_count

SameFrame(s, t) ==
  /\ t.frame_id = s.frame_id
  /\ t.requesting_frame = s.requesting_frame
  /\ t.frame_request_count = s.frame_request_count

SameEncryption(s, t) ==
  /\ t.encrypted_file = s.encrypted_file
  /\ t.creating_encrypted_file = s.creating_encrypted_file
  /\ t.create_encrypted_file_count = s.create_encrypted_file_count

SameParity(s, t) ==
  /\ t.awaiting_parity_shards = s.awaiting_parity_shards
  /\ t.parity_file = s.parity_file

(* No shard is worked on, and no entry is being created. *)
Single(s) == \A job \in s.work : job[1] \in SingleKinds

LEMMA SingleGood ==
  ASSUME NEW s, Good(s), ~ s.final_callback_called, ~ s.completed_upload,
         NEW t \in StateType, SameShards(s, t), Single(s), Single(t),
         t.pending_work_count = Cardinality(t.work),
         t.error_status \in {s.error_status, "FAILED"},
         <<"prepare", 0>> \notin t.work => t.prepared = "done",
         Sequenced(t), Flagged(t), Bounded(t)
  PROVE  Good(t)
<1>1. ASSUME NEW k \in ShardJobs \cup {"entry"}, NEW i
      PROVE  <<k, i>> \notin s.work /\ <<k, i>> \notin t.work
  BY DEF Single, SingleKinds, ShardJobs
<1>2. ASSUME t.error_status = "OK" PROVE s.error_status = "OK"
  BY <1>2
<1>3. Sized(t)
  BY <1>2 DEF Good, Sized, SameShards
<1>4. ASSUME NEW i \in Index PROVE Owns(t, i, t.shard[i])
  <2>1. Owns(s, i, s.shard[i]) /\ t.shard[i] = s.shard[i]
    BY DEF Good, SameShards
  <2>2. t.total_shards = s.total_shards
    BY DEF SameShards
  <2> QED
    BY <1>1, <1>2, <2>1, <2>2 DEF Owns, ShardJobs
<1>5. Slotted(t)
  <2>1. ASSUME NEW k \in ShardJobs PROVE Cardinality(JobsOf(t, {k})) = 0
    <3>1. JobsOf(t, {k}) = {}
      BY <1>1 DEF JobsOf, Single, SingleKinds, ShardJobs
    <3> QED
      BY <3>1, FS_EmptySet
  <2> QED
    BY <2>1, UploadAssumption DEF Slotted, ShardJobs
<1>6. Stored(t)
  <2>1. InProgress(t, COMPLETED_PUSH_SHARD) = InProgress(s, COMPLETED_PUSH_SHARD)
    BY DEF InProgress, Shards, SameShards
  <2>2. ~ t.creating_bucket_entry
    BY <1>1 DEF Flagged
  <2> QED
    BY <2>1, <2>2 DEF Good, Stored, SameShards
<1>7. Closed(t)
  BY <1>2 DEF Good, Closed, SameShards
<1> QED
  BY <1>3, <1>4, <1>5, <1>6, <1>7 DEF Good

(* What begins with a step of its own: nothing else is outstanding. *)
LEMMA NothingOutstanding ==
  ASSUME NEW s, Live(s), ~ Ready(s)
  PROVE  /\ s.work = {} /\ Single(s)
         /\ s.pending_work_count = 0
         /\ ~ s.requesting_frame /\ ~ s.creating_encrypted_file
         /\ ~ s.creating_bucket_entry
         /\ s.prepared = "done"
<1>1. s.work = {}
  BY DEF Live, Good, Sequenced, Free
<1>2. s.pending_work_count = 0
  BY <1>1, FS_EmptySet DEF Live, Good
<1> QED
  BY <1>1, <1>2 DEF Live, Good, Flagged, Sized, Single

LEMMA OneJob ==
  ASSUME NEW kind \in JobKind
  PROVE  /\ {<<kind, 0>>} \in SUBSET (JobKind \X Index)
         /\ Cardinality({<<kind, 0>>}) = 1
<1>1. <<kind, 0>> \in JobKind \X Index
  BY UploadAssumption DEF Index
<1> QED
  BY <1>1, FS_Singleton

(* The job of a single step is queued, and its flag set. *)
Opened(s, t, kind) ==
  /\ t \in StateType
  /\ SameShards(s, t)
  /\ SameChecks(s, t)
  /\ t.work = {<<kind, 0>>}
  /\ t.pending_work_count = 1
  /\ t.error_status = s.error_status
  /\ t.frame_id = s.frame_id
  /\ t.frame_request_count = s.frame_request_count
  /\ t.encrypted_file = s.encrypted_file
  /\ t.create_encrypted_file_count = s.create_encrypted_file_count
  /\ t.parity_file = s.parity_file
  /\ (t.requesting_frame <=> kind = "frame_id" \/ s.requesting_frame)
  /\ (t.creating_encrypted_file <=> kind = "encrypt" \/ s.creating_encrypted_file)
  /\ (t.awaiting_parity_shards <=> kind # "parity" /\ s.awaiting_parity_shards)

LEMMA OpenedLive ==
  ASSUME NEW s, Live(s), ~ Ready(s),
         NEW kind \in SingleKinds \ {"prepare"}, Awaited(s, kind),
         kind = "frame_id" => s.bucket_verified /\ s.file_verified,
         kind = "parity" => s.encrypted_file,
         NEW t, Opened(s, t, kind)
  PROVE  Good(t)
<1>1. /\ s.work = {} /\ Single(s) /\ s.prepared = "done"
      /\ ~ s.requesting_frame /\ ~ s.creating_encrypted_file
      /\ ~ s.creating_bucket_entry
  BY NothingOutstanding
<1>2. /\ Good(s) /\ ~ s.final_callback_called /\ ~ s.completed_upload
      /\ s.error_status = "OK"
      /\ Sequenced(s) /\ Bounded(s)
  BY DEF Live, Good
<1>3. kind \in JobKind
  BY DEF SingleKinds, JobKind
<1>4. t.pending_work_count = Cardinality(t.work)
  BY <1>3, OneJob DEF Opened
<1>5. Awaited(t, kind)
  BY DEF Awaited, Opened, SameChecks, SameShards
<1>6. \A k : <<k, 0>> \in t.work <=> k = kind
  BY DEF Opened
<1>7. Sequenced(t)
  <2>1. t.frame_id \/ <<"frame_id", 0>> \in t.work => t.bucket_verified /\ t.file_verified
    BY <1>2, <1>6 DEF Sequenced, Opened, SameChecks
  <2>2. t.parity_file \/ <<"parity", 0>> \in t.work
          => t.encrypted_file /\ ~ t.awaiting_parity_shards
    BY <1>2, <1>6 DEF Sequenced, Opened
  <2>3. t.error_status = "OK" /\ ~ t.awaiting_parity_shards
          => t.parity_file \/ <<"parity", 0>> \in t.work
    BY <1>1, <1>2, <1>6 DEF Sequenced, Opened
  <2>4. \E k \in SingleKinds : t.work = {<<k, 0>>} /\ Awaited(t, k)
    BY <1>5 DEF Opened
  <2> QED
    BY <2>1, <2>2, <2>3, <2>4 DEF Sequenced
<1>8. Flagged(t)
  BY <1>1, <1>6 DEF Flagged, Opened, SameShards, SingleKinds
<1>9. Bounded(t)
  BY <1>1, <1>2 DEF Bounded, Opened, SameChecks, SameShards, Awaited
<1>10. Single(t)
  BY DEF Opened, Single
<1>11. t.prepared = "done" /\ t.error_status = "OK" /\ SameShards(s, t) /\ t \in StateType
  BY <1>1, <1>2 DEF Opened, SameShards
<1> QED
  BY <1>1, <1>2, <1>4, <1>7, <1>8, <1>9, <1>10, <1>11, SingleGood

LEMMA QueuedOne ==
  ASSUME NEW s \in StateType, s.work = {}, s.pending_work_count = 0,
         NEW kind \in JobKind, NEW t, t = Queue(s, {<<kind, 0>>})
  PROVE  /\ t \in StateType
         /\ SameShards(s, t) /\ SameChecks(s, t) /\ SameFrame(s, t)
         /\ SameEncryption(s, t) /\ SameParity(s, t)
         /\ t.work = {<<kind, 0>>} /\ t.pending_work_count = 1
         /\ t.error_status = s.error_status
<1>1. PICK w \in SUBSET (JobKind \X Index) : w = {<<kind, 0>>} /\ Cardinality(w) = 1
  BY OneJob, Zenon
<1>2. PICK n \in Int : n = 1
  OBVIOUS
<1>3. PICK u : u = [s EXCEPT !.work = w, !.pending_work_count = n]
  OBVIOUS
<1>4. u \in StateType
  BY <1>3, ZenonT(60) DEF StateType
<1>5. SameShards(s, u)
  BY <1>3, ZenonT(60) DEF StateType, SameShards
<1>6. SameChecks(s, u) /\ SameFrame(s, u)
  BY <1>3, ZenonT(60) DEF StateType, SameChecks, SameFrame
<1>7. SameEncryption(s, u) /\ SameParity(s, u)
  BY <1>3, ZenonT(60) DEF StateType, SameEncryption, SameParity
<1>8. u.work = w /\ u.pending_work_count = n /\ u.error_status = s.error_status
  BY <1>3, ZenonT(60) DEF StateType
<1>9. t = u
  <2>1. s.work \cup {<<kind, 0>>} = w /\ s.pending_work_count + Cardinality({<<kind, 0>>}) = n
    BY <1>1, <1>2
  <2> QED
    BY <1>3, <2>1 DEF Queue
<1> QED
  BY <1>1, <1>2, <1>4, <1>5, <1>6, <1>7, <1>8, <1>9

LEMMA QueuedSteps ==
  ASSUME NEW s, Live(s), ~ Ready(s)
  PROVE  /\ Opened(s, queue_verify_bucket_id(s), "bucket")
         /\ Opened(s, queue_verify_file_name(s), "name")
         /\ Opened(s, queue_request_frame_id(s), "frame_id")
         /\ s.rs => Opened(s, queue_create_encrypted_file(s), "encrypt")
         /\ s.rs => Opened(s, queue_create_parity_shards(s), "parity")
<1>1. /\ s \in StateType /\ s.work = {} /\ s.pending_work_count = 0
      /\ s.requesting_frame \in BOOLEAN /\ s.creating_encrypted_file \in BOOLEAN
      /\ s.awaiting_parity_shards \in BOOLEAN
  BY NothingOutstanding DEF Live, Good, StateType
<1>2. {"bucket", "name", "frame_id", "encrypt", "parity"} \subseteq JobKind
  BY DEF JobKind
<1>3. Opened(s, queue_verify_bucket_id(s), "bucket")
  BY <1>1, <1>2, QueuedOne
     DEF queue_verify_bucket_id, Opened, SameFrame, SameEncryption, SameParity
<1>4. Opened(s, queue_verify_file_name(s), "name")
  BY <1>1, <1>2, QueuedOne
     DEF queue_verify_file_name, Opened, SameFrame, SameEncryption, SameParity
<1>5. Opened(s, queue_request_frame_id(s), "frame_id")
  <2>1. PICK v : v = Queue(s, {<<"frame_id", 0>>})
    OBVIOUS
  <2>2. /\ v \in StateType
        /\ SameShards(s, v) /\ SameChecks(s, v) /\ SameFrame(s, v)
        /\ SameEncryption(s, v) /\ SameParity(s, v)
        /\ v.work = {<<"frame_id", 0>>} /\ v.pending_work_count = 1
        /\ v.error_status = s.error_status
    BY <1>1, <1>2, <2>1, QueuedOne
  <2>3. PICK t : t = [v EXCEPT !.requesting_frame = TRUE]
    OBVIOUS
  <2>4. /\ t \in StateType /\ t.requesting_frame = TRUE
        /\ t.frame_id = v.frame_id /\ t.frame_request_count = v.frame_request_count
        /\ t.work = v.work /\ t.pending_work_count = v.pending_work_count
        /\ t.error_status = v.error_status
    BY <2>2, <2>3, ZenonT(60) DEF StateType
  <2>5. SameShards(v, t)
    BY <2>2, <2>3, ZenonT(60) DEF StateType, SameShards
  <2>6. SameChecks(v, t) /\ SameEncryption(v, t) /\ SameParity(v, t)
    BY <2>2, <2>3, ZenonT(60) DEF StateType, SameChecks, SameEncryption, SameParity
  <2>7. SameShards(s, t) /\ SameChecks(s, t)
    BY <2>2, <2>5, <2>6 DEF SameShards, SameChecks
  <2> QED
    BY <1>1, <2>1, <2>2, <2>3, <2>4, <2>6, <2>7
       DEF queue_request_frame_id, Opened, SameFrame, SameEncryption, SameParity
<1>6. Opened(s, queue_create_encrypted_file(s), "encrypt")
  <2>1. PICK v : v = Queue(s, {<<"encrypt", 0>>})
    OBVIOUS
  <2>2. /\ v \in StateType
        /\ SameShards(s, v) /\ SameChecks(s, v) /\ SameFrame(s, v)
        /\ SameEncryption(s, v) /\ SameParity(s, v)
        /\ v.work = {<<"encrypt", 0>>} /\ v.pending_work_count = 1
        /\ v.error_status = s.error_status
    BY <1>1, <1>2, <2>1, QueuedOne
  <2>3. PICK t : t = [v EXCEPT !.creating_encrypted_file = TRUE]
    OBVIOUS
  <2>4. /\ t \in StateType /\ t.creating_encrypted_file = TRUE
        /\ t.encrypted_file = v.encrypted_file
        /\ t.create_encrypted_file_count = v.create_encrypted_file_count
        /\ t.work = v.work /\ t.pending_work_count = v.pending_work_count
        /\ t.error_status = v.error_status
    BY <2>2, <2>3, ZenonT(60) DEF StateType
  <2>5. SameShards(v, t)
    BY <2>2, <2>3, ZenonT(60) DEF StateType, SameShards
  <2>6. SameChecks(v, t) /\ SameFrame(v, t) /\ SameParity(v, t)
    BY <2>2, <2>3, ZenonT(60) DEF StateType, SameChecks, SameFrame, SameParity
  <2>7. SameShards(s, t) /\ SameChecks(s, t)
    BY <2>2, <2>5, <2>6 DEF SameShards, SameChecks
  <2> QED
    BY <1>1, <2>1, <2>2, <2>3, <2>4, <2>6, <2>7
       DEF queue_create_encrypted_file, Opened, SameFrame, SameEncryption, SameParity
<1>7. Opened(s, queue_create_parity_shards(s), "parity")
  <2>1. PICK v : v = Queue(s, {<<"parity", 0>>})
    OBVIOUS
  <2>2. /\ v \in StateType
        /\ SameShards(s, v) /\ SameChecks(s, v) /\ SameFrame(s, v)
        /\ SameEncryption(s, v) /\ SameParity(s, v)
        /\ v.work = {<<"parity", 0>>} /\ v.pending_work_count = 1
        /\ v.error_status = s.error_status
    BY <1>1, <1>2, <2>1, QueuedOne
  <2>3. PICK t : t = [v EXCEPT !.awaiting_parity_shards = FALSE]
    OBVIOUS
  <2>4. /\ t \in StateType /\ t.awaiting_parity_shards = FALSE
        /\ t.parity_file = v.parity_file
        /\ t.work = v.work /\ t.pending_work_count = v.pending_work_count
        /\ t.error_status = v.error_status
    BY <2>2, <2>3, ZenonT(60) DEF StateType
  <2>5. SameShards(v, t)
    BY <2>2, <2>3, ZenonT(60) DEF StateType, SameShards
  <2>6. SameChecks(v, t) /\ SameFrame(v, t) /\ SameEncryption(v, t)
    BY <2>2, <2>3, ZenonT(60) DEF StateType, SameChecks, SameFrame, SameEncryption
  <2>7. SameShards(s, t) /\ SameChecks(s, t)
    BY <2>2, <2>5, <2>6 DEF SameShards, SameChecks
  <2> QED
    BY <1>1, <2>1, <2>2, <2>3, <2>4, <2>6, <2>7
       DEF queue_create_parity_shards, Opened, SameFrame, SameEncryption, SameParity
<1> QED
  BY <1>3, <1>4, <1>5, <1>6, <1>7

-----------------------------------------------------------------------------
(* queue_next_work. *)

(* Something is outstanding until the callback came, and once the single   *)
(* steps are over every shard is looked after.                             *)
Busy(s) ==
  /\ s.work = {} => s.final_callback_called
  /\ ShardsGoOn(s) => Saturated(s)

(* What queue_next_work makes of a state that a callback has updated: the  *)
(* invariant holds again; jobs are added only while the upload goes on;    *)
(* the last callback tells the application; and stored shards and shards   *)
(* that wait for their reports stay what they are.                         *)
Settles(s, t) ==
  /\ Good(t)
  /\ Busy(t)
  /\ t.canceled = s.canceled
  /\ t.error_status = s.error_status
  /\ \/ t.callbacks = << >> /\ s.work \subseteq t.work
     \/ s.work = {} /\ t.work = {} /\ t.callbacks = <<t.error_status>>
  /\ ~ GoesOn(s) => t.work = s.work
  /\ \A i \in Index :
       /\ s.shard[i].progress = COMPLETED_PUSH_SHARD
            => t.shard[i].progress = COMPLETED_PUSH_SHARD
       /\ KeptWaiting(s.shard[i]) => KeptWaiting(t.shard[i])

LEMMA NoWork ==
  ASSUME NEW s, Good(s)
  PROVE  /\ s.pending_work_count > 0 <=> s.work # {}
         /\ s.pending_work_count \in Nat
<1>1. PICK w \in SUBSET (JobKind \X Index) : w = s.work
  BY DEF Good, StateType
<1>2. IsFiniteSet(w) /\ Cardinality(w) \in Nat
  BY WorkFinite
<1>3. Cardinality(w) = 0 <=> w = {}
  BY <1>2, FS_EmptySet
<1> QED
  BY <1>1, <1>2, <1>3 DEF Good

LEMMA cleanup_stateSettles ==
  ASSUME NEW s, Good(s), ~ s.final_callback_called, Over(s)
  PROVE  Settles(s, cleanup_state(s))
<1>1. s \in StateType /\ ~ GoesOn(s) /\ Closed(s) /\ Stored(s)
  BY DEF Good, Over, GoesOn
<1>2. CASE s.work # {}
  <2>1. cleanup_state(s) = s
    BY <1>2, NoWork DEF cleanup_state
  <2>2. Busy(s)
    BY <1>1, <1>2 DEF Busy, ShardsGoOn
  <2> QED
    BY <1>1, <2>1, <2>2 DEF Settles, Closed
<1>3. CASE s.work = {}
  <2>1. PICK told \in Seq(ErrorStatus) : told = <<s.error_status>>
    <3>1. PICK e \in ErrorStatus : e = s.error_status
      BY <1>1 DEF StateType
    <3>2. <<e>> \in Seq(ErrorStatus)
      OBVIOUS
    <3> QED
      BY <3>1, <3>2
  <2>2. s.callbacks = << >>
    BY <1>1 DEF Closed
  <2>3. Append(s.callbacks, s.error_status) = told
    BY <2>1, <2>2
  <2>4. PICK t : t = [s EXCEPT !.final_callback_called = TRUE, !.callbacks = told]
    OBVIOUS
  <2>5. t = cleanup_state(s)
    BY <1>3, <2>3, <2>4, NoWork DEF cleanup_state
  <2>6. t \in StateType
    BY <1>1, <2>4, ZenonT(60) DEF StateType
  <2>7. /\ t.final_callback_called = TRUE /\ t.callbacks = told
        /\ t.work = s.work /\ t.pending_work_count = s.pending_work_count
        /\ t.shard = s.shard /\ t.error_status = s.error_status
        /\ t.canceled = s.canceled /\ t.dequeued = s.dequeued
        /\ t.prepared = s.prepared
        /\ t.completed_shards = s.completed_shards /\ t.entries = s.entries
        /\ t.completed_upload = s.completed_upload
        /\ t.creating_bucket_entry = s.creating_bucket_entry
        /\ t.add_bucket_entry_count = s.add_bucket_entry_count
        /\ t.rs = s.rs /\ t.total_shards = s.total_shards
        /\ t.total_data_shards = s.total_data_shards
    BY <1>1, <2>4, ZenonT(60) DEF StateType
  <2>8. SameChecks(s, t) /\ SameFrame(s, t)
    BY <1>1, <2>4, ZenonT(60) DEF StateType, SameChecks, SameFrame
  <2>9. SameEncryption(s, t) /\ SameParity(s, t)
    BY <1>1, <2>4, ZenonT(60) DEF StateType, SameEncryption, SameParity
  <2> USE DEF SameChecks, SameFrame, SameEncryption, SameParity
  <2>10. Sequenced(t)
    BY <1>3, <2>7, <2>8, <2>9 DEF Good, Sequenced, Free, SingleKinds
  <2>11. Sized(t) /\ Flagged(t)
    BY <2>7, <2>8, <2>9 DEF Good, Sized, Flagged
  <2>12. Bounded(t)
    BY <2>7, <2>8, <2>9 DEF Good, Bounded
  <2>13. ASSUME NEW i \in Index PROVE Owns(t, i, t.shard[i])
    BY <2>7 DEF Good, Owns
  <2>14. Slotted(t)
    BY <2>7 DEF Good, Slotted, JobsOf
  <2>15. Stored(t)
    <3>1. /\ InProgress(t, COMPLETED_PUSH_SHARD) = InProgress(s, COMPLETED_PUSH_SHARD)
          /\ Shards(t) = Shards(s)
      BY <2>7 DEF InProgress, Shards
    <3> QED
      BY <1>1, <2>7, <2>8, <2>9, <3>1 DEF Stored, Ready, AllStored
  <2>16. Closed(t)
    BY <1>1, <1>3, <2>1, <2>7 DEF Closed, Over
  <2>17. Good(t)
    BY <2>6, <2>7, <2>10, <2>11, <2>12, <2>13, <2>14, <2>15, <2>16 DEF Good
  <2>18. Busy(t)
    BY <1>1, <2>7 DEF Busy, ShardsGoOn, GoesOn
  <2> QED
    BY <1>3, <2>1, <2>5, <2>7, <2>17, <2>18 DEF Settles
<1> QED
  BY <1>2, <1>3

(* The job of a single step is begun: there is nothing to do for shards.   *)
LEMMA OpenedSettles ==
  ASSUME NEW s, Live(s), ~ Ready(s),
         NEW kind \in SingleKinds \ {"prepare"}, Awaited(s, kind),
         kind = "frame_id" => s.bucket_verified /\ s.file_verified,
         kind = "encrypt" => ~ s.encrypted_file,
         kind = "parity" => s.encrypted_file,
         NEW t, Opened(s, t, kind)
  PROVE  Settles(s, t)
<1>1. Good(t)
  BY OpenedLive
<1>2. s.work = {} /\ Good(s) /\ ~ s.final_callback_called /\ s.error_status = "OK"
      /\ ~ s.canceled
  BY NothingOutstanding DEF Live, Good, Closed
<1>3. ~ ShardsGoOn(t)
  <2>1. /\ t.frame_id = s.frame_id /\ t.rs = s.rs /\ t.parity_file = s.parity_file
        /\ s.frame_id => s.bucket_verified /\ s.file_verified
        /\ s.parity_file => s.encrypted_file
    BY <1>2 DEF Opened, SameShards, Good, Sequenced
  <2> QED
    BY <2>1 DEF ShardsGoOn, Awaited, SingleKinds
<1>4. Busy(t)
  BY <1>3 DEF Busy, Opened
<1>5. GoesOn(s)
  BY <1>2 DEF GoesOn, Live
<1>6. t.callbacks = << >>
  BY <1>2 DEF Opened, SameShards, Good, Closed
<1> QED
  BY <1>1, <1>2, <1>4, <1>5, <1>6 DEF Settles, Opened, SameShards

(* With every shard stored the entry is on its way; until then some shard  *)
(* holds a job.                                                            *)
LEMMA SaturatedWorks ==
  ASSUME NEW s, Live(s), Saturated(s), s.prepared = "done"
  PROVE  s.work # {}
<1> SUFFICES ASSUME s.work = {} PROVE FALSE
  OBVIOUS
<1>1. ASSUME NEW k PROVE Taken(s, k) = 0
  <2>1. JobsOf(s, {k}) = {}
    BY DEF JobsOf
  <2> QED
    BY <2>1, FS_EmptySet DEF Taken
<1>2. /\ ~ (0 >= PREPARE_FRAME_LIMIT)
      /\ ~ (0 >= PUSH_FRAME_LIMIT)
      /\ ~ (0 >= PUSH_SHARD_LIMIT)
  BY UploadAssumption
<1>3. ASSUME NEW i \in Shards(s) PROVE s.shard[i].progress = COMPLETED_PUSH_SHARD
  <2>1. s.shard[i].progress \in 1..7
    BY DEF Live, Good, StateType, ShardType, Shards
  <2> QED
    BY <1>1, <1>2, <2>1 DEF Saturated
<1>4. Shards(s) = InProgress(s, COMPLETED_PUSH_SHARD)
  BY <1>3 DEF InProgress
<1>5. s.total_shards = file.data + ParityShards(file)
  BY DEF Live, Good, Sized, Counted
<1>6. s.creating_bucket_entry
  BY <1>4, <1>5 DEF Saturated, AllStored
<1> QED
  BY <1>6 DEF Live, Good, Flagged

LEMMA queue_next_workSettles ==
  ASSUME NEW s, Good(s), ~ s.final_callback_called, Free(s)
  PROVE  Settles(s, queue_next_work(s))
<1>1. CASE Over(s)
  BY <1>1, cleanup_stateSettles DEF queue_next_work
<1> SUFFICES ASSUME ~ Over(s) PROVE Settles(s, queue_next_work(s))
  BY <1>1
<1>2. Live(s) /\ GoesOn(s)
  BY DEF Live, Over, GoesOn
<1>3. Sequenced(s)
  BY DEF Good
<1> HIDE DEF Live
<1>4. CASE ~ s.bucket_verified
  <2>1. ~ Ready(s) /\ Awaited(s, "bucket")
    BY <1>4 DEF Ready, Awaited
  <2>2. Opened(s, queue_next_work(s), "bucket")
    BY <1>2, <1>4, <2>1, QueuedSteps DEF queue_next_work
  <2> QED
    BY <1>2, <2>1, <2>2, OpenedSettles DEF SingleKinds
<1>5. CASE s.bucket_verified /\ ~ s.file_verified
  <2>1. ~ Ready(s) /\ Awaited(s, "name")
    BY <1>5 DEF Ready, Awaited
  <2>2. Opened(s, queue_next_work(s), "name")
    BY <1>2, <1>5, <2>1, QueuedSteps DEF queue_next_work
  <2> QED
    BY <1>2, <2>1, <2>2, OpenedSettles DEF SingleKinds
<1>6. ASSUME s.bucket_verified, s.file_verified PROVE s.frame_id \/ ~ s.requesting_frame
  BY DEF Good, Flagged, Free, SingleKinds
<1>7. CASE s.bucket_verified /\ s.file_verified /\ ~ s.frame_id
  <2>1. ~ Ready(s) /\ Awaited(s, "frame_id")
    BY <1>7 DEF Ready, Awaited
  <2>2. Opened(s, queue_next_work(s), "frame_id")
    BY <1>2, <1>6, <1>7, <2>1, QueuedSteps DEF queue_next_work
  <2> QED
    BY <1>2, <1>7, <2>1, <2>2, OpenedSettles DEF SingleKinds
<1>8. CASE s.bucket_verified /\ s.file_verified /\ s.frame_id
           /\ s.rs /\ ~ s.encrypted_file
  <2>1. ~ Ready(s) /\ Awaited(s, "encrypt")
    BY <1>8 DEF Ready, Awaited
  <2>2. Opened(s, queue_next_work(s), "encrypt")
    BY <1>2, <1>8, <2>1, QueuedSteps DEF queue_next_work
  <2> QED
    BY <1>2, <1>8, <2>1, <2>2, OpenedSettles DEF SingleKinds
<1>9. CASE s.bucket_verified /\ s.file_verified /\ s.frame_id
           /\ s.rs /\ s.encrypted_file /\ s.awaiting_parity_shards
  <2>1. ~ Ready(s) /\ Awaited(s, "parity")
    BY <1>3, <1>9 DEF Ready, Awaited, Sequenced
  <2>2. Opened(s, queue_next_work(s), "parity")
    BY <1>2, <1>9, <2>1, QueuedSteps DEF queue_next_work
  <2> QED
    BY <1>2, <1>9, <2>1, <2>2, OpenedSettles DEF SingleKinds
<1>10. CASE s.bucket_verified /\ s.file_verified /\ s.frame_id
            /\ (s.rs => s.encrypted_file /\ ~ s.awaiting_parity_shards)
  <2>1. Ready(s)
    <3>1. s.error_status = "OK" /\ <<"parity", 0>> \notin s.work
      BY DEF Over, Free, SingleKinds
    <3> QED
      BY <1>3, <1>10, <3>1 DEF Ready, Sequenced
  <2>2. PICK t : t = QueueShardWork(s)
    OBVIOUS
  <2>3. t = queue_next_work(s)
    BY <1>10, <2>2 DEF queue_next_work
  <2>4. Live(t) /\ Grown(s, t) /\ Saturated(t)
    BY <1>2, <2>1, <2>2, QueueShardWorkLive
  <2>5. /\ Good(t) /\ t.prepared = "done" /\ t.error_status = "OK"
        /\ s.error_status = "OK" /\ ~ t.final_callback_called /\ t.callbacks = << >>
    BY <1>2, <2>4 DEF Live, Good, Sized, Free, SingleKinds, Closed
  <2>6. t.work # {}
    BY <2>4, <2>5, SaturatedWorks
  <2>7. Busy(t)
    BY <2>4, <2>6 DEF Busy
  <2> QED
    BY <1>2, <2>3, <2>4, <2>5, <2>7 DEF Settles, Grown
<1> QED
  BY <1>4, <1>5, <1>7, <1>8, <1>9, <1>10

-----------------------------------------------------------------------------
(* What a callback does before it calls queue_next_work.                   *)

(* The job is over, the state is one queue_next_work can go on with; an    *)
(* upload that is over stays so, an error stays, a stored shard stays      *)
(* stored; and a shard whose push is over is stored or waits for its       *)
(* report and another contract, unless there is an error.                  *)
Handled(s, job, r) ==
  /\ Good(r) /\ ~ r.final_callback_called /\ Free(r)
  /\ r.work = s.work \ {job}
  /\ r.canceled = s.canceled
  /\ ~ GoesOn(s) => ~ GoesOn(r)
  /\ s.error_status # "OK" => r.error_status # "OK"
  /\ \A i \in Index :
       /\ s.shard[i].progress = COMPLETED_PUSH_SHARD
            => r.shard[i].progress = COMPLETED_PUSH_SHARD
       /\ job = <<"push_shard", i>> /\ r.error_status = "OK"
            => \/ r.shard[i].progress = COMPLETED_PUSH_SHARD
               \/ KeptWaiting(r.shard[i])

SamePool(s, t) ==
  /\ t.work = s.work
  /\ t.pending_work_count = s.pending_work_count

LEMMA FailFields ==
  ASSUME NEW s \in StateType, NEW t, t = Fail(s)
  PROVE  /\ t \in StateType /\ SameShards(s, t) /\ SameChecks(s, t)
         /\ SameFrame(s, t) /\ SameEncryption(s, t) /\ SameParity(s, t)
         /\ SamePool(s, t) /\ t.error_status = "FAILED"
<1>1. PICK e \in ErrorStatus : e = "FAILED"
  BY DEF ErrorStatus
<1>2. PICK u : u = [s EXCEPT !.error_status = e]
  OBVIOUS
<1>3. u \in StateType
  BY <1>2, ZenonT(60) DEF StateType
<1>4. SameShards(s, u) /\ SamePool(s, u) /\ u.error_status = e
  BY <1>2, ZenonT(60) DEF StateType, SameShards, SamePool
<1>5. SameChecks(s, u) /\ SameFrame(s, u)
  BY <1>2, ZenonT(60) DEF StateType, SameChecks, SameFrame
<1>6. SameEncryption(s, u) /\ SameParity(s, u)
  BY <1>2, ZenonT(60) DEF StateType, SameEncryption, SameParity
<1> QED
  BY <1>1, <1>2, <1>3, <1>4, <1>5, <1>6 DEF Fail

LEMMA CompleteFields ==
  ASSUME NEW s, Good(s), NEW job \in s.work, NEW t, t = Complete(s, job)
  PROVE  /\ t \in StateType /\ SameShards(s, t) /\ SameChecks(s, t)
         /\ SameFrame(s, t) /\ SameEncryption(s, t) /\ SameParity(s, t)
         /\ t.error_status = s.error_status
         /\ t.work = s.work \ {job}
         /\ t.pending_work_count = Cardinality(t.work)
<1>1. s \in StateType /\ s.pending_work_count = Cardinality(s.work)
  BY DEF Good
<1>2. PICK w \in SUBSET (JobKind \X Index) : w = s.work \ {job}
  BY <1>1 DEF StateType
<1>3. Cardinality(w) = Cardinality(s.work) - 1
  <2>1. s.work \in SUBSET (JobKind \X Index)
    BY <1>1 DEF StateType
  <2> QED
    BY <1>2, <2>1, RemovedCount
<1>4. PICK n \in Int : n = Cardinality(w)
  BY <1>2, WorkFinite
<1>5. PICK u : u = [s EXCEPT !.work = w, !.pending_work_count = n]
  OBVIOUS
<1>6. u = t
  BY <1>1, <1>2, <1>3, <1>4, <1>5 DEF Complete
<1>7. u \in StateType
  BY <1>1, <1>5, ZenonT(60) DEF StateType
<1>8. SameShards(s, u)
  BY <1>1, <1>5, ZenonT(60) DEF StateType, SameShards
<1>9. SameChecks(s, u) /\ SameFrame(s, u)
  BY <1>1, <1>5, ZenonT(60) DEF StateType, SameChecks, SameFrame
<1>10. SameEncryption(s, u) /\ SameParity(s, u)
  BY <1>1, <1>5, ZenonT(60) DEF StateType, SameEncryption, SameParity
<1>11. u.work = w /\ u.pending_work_count = n /\ u.error_status = s.error_status
  BY <1>1, <1>5, ZenonT(60) DEF StateType
<1> QED
  BY <1>2, <1>4, <1>6, <1>7, <1>8, <1>9, <1>10, <1>11

(* The end of a single step, with the fields it sets. *)
Closing(s, kind, r) ==
  /\ r \in StateType
  /\ SameShards(s, r)
  /\ r.work = s.work \ {<<kind, 0>>}
  /\ r.pending_work_count = Cardinality(r.work)
  /\ r.error_status \in {s.error_status, "FAILED"}

LEMMA OneStep ==
  ASSUME NEW s, Good(s), NEW kind \in SingleKinds, <<kind, 0>> \in s.work
  PROVE  /\ s.work = {<<kind, 0>>} /\ Awaited(s, kind)
         /\ ~ s.completed_upload /\ ~ s.final_callback_called
         /\ ~ s.creating_bucket_entry /\ Single(s)
         /\ (s.requesting_frame <=> kind = "frame_id")
         /\ (s.creating_encrypted_file <=> kind = "encrypt")
         /\ kind # "prepare" => s.prepared = "done"
<1>1. s.work = {<<kind, 0>>} /\ Awaited(s, kind)
  <2>1. ~ Free(s)
    BY DEF Free
  <2>2. PICK k \in SingleKinds : s.work = {<<k, 0>>} /\ Awaited(s, k)
    BY <2>1 DEF Good, Sequenced
  <2>3. k = kind
    BY <2>2
  <2> QED
    BY <2>2, <2>3
<1>2. ~ Ready(s)
  BY <1>1 DEF Awaited, Ready, SingleKinds
<1>3. ~ s.completed_upload /\ ~ s.final_callback_called
  BY <1>2 DEF Good, Stored, Closed
<1>4. \A k : <<k, 0>> \in s.work <=> k = kind
  BY <1>1
<1>5. /\ (s.requesting_frame <=> kind = "frame_id")
      /\ (s.creating_encrypted_file <=> kind = "encrypt")
      /\ (s.creating_bucket_entry <=> kind = "entry")
  BY <1>4 DEF Good, Flagged
<1>6. kind # "prepare" => s.prepared = "done"
  BY <1>4 DEF Good, Sized
<1>7. Single(s)
  BY <1>1 DEF Single
<1> QED
  BY <1>1, <1>3, <1>5, <1>6, <1>7 DEF SingleKinds

LEMMA SingleHandled ==
  ASSUME NEW s, Good(s), NEW kind \in SingleKinds, <<kind, 0>> \in s.work,
         s.prepared = "done",
         NEW r, Closing(s, kind, r),
         r.frame_id => r.bucket_verified /\ r.file_verified,
         r.parity_file => r.encrypted_file /\ ~ r.awaiting_parity_shards,
         r.error_status = "OK" /\ ~ r.awaiting_parity_shards => r.parity_file,
         ~ r.requesting_frame, ~ r.creating_encrypted_file,
         Bounded(r)
  PROVE  Handled(s, <<kind, 0>>, r)
<1>1. /\ s.work = {<<kind, 0>>} /\ Single(s)
      /\ ~ s.completed_upload /\ ~ s.final_callback_called
      /\ ~ s.creating_bucket_entry
  BY OneStep
<1>2. /\ r \in StateType /\ SameShards(s, r) /\ r.work = {}
      /\ r.pending_work_count = Cardinality(r.work)
      /\ r.error_status \in {s.error_status, "FAILED"}
      /\ r.prepared = "done"
  BY <1>1 DEF Closing, SameShards
<1>3. Single(r) /\ Free(r)
  BY <1>2 DEF Single, Free
<1>4. Sequenced(r)
  BY <1>2, <1>3 DEF Sequenced
<1>5. Flagged(r)
  BY <1>1, <1>2 DEF Flagged, SameShards
<1>6. Good(r)
  BY <1>1, <1>2, <1>3, <1>4, <1>5, SingleGood
<1>7. \A i \in Index : <<kind, 0>> # <<"push_shard", i>>
  BY DEF SingleKinds
<1> QED
  BY <1>1, <1>2, <1>3, <1>6, <1>7 DEF Handled, SameShards, GoesOn

LEMMA BucketHandled ==
  ASSUME NEW s, Good(s), <<"bucket", 0>> \in s.work, NEW r,
         Closing(s, "bucket", r),
         SameFrame(s, r), SameEncryption(s, r), SameParity(s, r),
         r.file_verified = s.file_verified,
         r.file_verify_count = s.file_verify_count,
         r.bucket_verify_count <= MaxRequestTries,
         ~ r.bucket_verified => r.bucket_verify_count < MaxRequestTries
  PROVE  Handled(s, <<"bucket", 0>>, r)
<1>1. "bucket" \in SingleKinds
  BY DEF SingleKinds
<1>2. /\ Awaited(s, "bucket") /\ s.work = {<<"bucket", 0>>} /\ s.prepared = "done"
      /\ ~ s.requesting_frame /\ ~ s.creating_encrypted_file
      /\ ~ s.creating_bucket_entry
  BY <1>1, OneStep
<1>3. r.error_status = "OK" => s.error_status = "OK"
  BY DEF Closing
<1>4. Bounded(r)
  BY <1>2, <1>3
     DEF Good, Bounded, Closing, SameShards, SameFrame, SameEncryption
<1>5. /\ r.frame_id => r.bucket_verified /\ r.file_verified
      /\ r.parity_file => r.encrypted_file /\ ~ r.awaiting_parity_shards
      /\ r.error_status = "OK" /\ ~ r.awaiting_parity_shards => r.parity_file
  BY <1>2, <1>3
     DEF Good, Sequenced, Awaited, SameFrame, SameEncryption, SameParity
<1>6. ~ r.requesting_frame /\ ~ r.creating_encrypted_file
  BY <1>2 DEF SameFrame, SameEncryption
<1> QED
  BY <1>1, <1>2, <1>4, <1>5, <1>6, SingleHandled

LEMMA NameHandled ==
  ASSUME NEW s, Good(s), <<"name", 0>> \in s.work, NEW r,
         Closing(s, "name", r),
         SameFrame(s, r), SameEncryption(s, r), SameParity(s, r),
         r.bucket_verified = s.bucket_verified,
         r.bucket_verify_count = s.bucket_verify_count,
         r.file_verify_count <= MaxRequestTries,
         ~ r.file_verified => r.file_verify_count < MaxRequestTries
  PROVE  Handled(s, <<"name", 0>>, r)
<1>1. "name" \in SingleKinds
  BY DEF SingleKinds
<1>2. /\ Awaited(s, "name") /\ s.work = {<<"name", 0>>} /\ s.prepared = "done"
      /\ ~ s.requesting_frame /\ ~ s.creating_encrypted_file
      /\ ~ s.creating_bucket_entry
  BY <1>1, OneStep
<1>3. r.error_status = "OK" => s.error_status = "OK"
  BY DEF Closing
<1>4. Bounded(r)
  BY <1>2, <1>3
     DEF Good, Bounded, Closing, SameShards, SameFrame, SameEncryption
<1>5. /\ r.frame_id => r.bucket_verified /\ r.file_verified
      /\ r.parity_file => r.encrypted_file /\ ~ r.awaiting_parity_shards
      /\ r.error_status = "OK" /\ ~ r.awaiting_parity_shards => r.parity_file
  BY <1>2, <1>3
     DEF Good, Sequenced, Awaited, SameFrame, SameEncryption, SameParity
<1>6. ~ r.requesting_frame /\ ~ r.creating_encrypted_file
  BY <1>2 DEF SameFrame, SameEncryption
<1> QED
  BY <1>1, <1>2, <1>4, <1>5, <1>6, SingleHandled

LEMMA FrameHandled ==
  ASSUME NEW s, Good(s), <<"frame_id", 0>> \in s.work, NEW r,
         Closing(s, "frame_id", r),
         SameChecks(s, r), SameEncryption(s, r), SameParity(s, r),
         ~ r.requesting_frame,
         r.frame_request_count <= MaxRequestTries,
         ~ r.frame_id /\ r.error_status = "OK"
           => r.frame_request_count < MaxRequestTries
  PROVE  Handled(s, <<"frame_id", 0>>, r)
<1>1. "frame_id" \in SingleKinds
  BY DEF SingleKinds
<1>2. /\ Awaited(s, "frame_id") /\ s.work = {<<"frame_id", 0>>} /\ s.prepared = "done"
      /\ ~ s.creating_encrypted_file
      /\ ~ s.creating_bucket_entry
  BY <1>1, OneStep
<1>3. r.error_status = "OK" => s.error_status = "OK"
  BY DEF Closing
<1>4. Bounded(r)
  BY <1>2, <1>3
     DEF Good, Bounded, Closing, SameShards, SameChecks, SameEncryption
<1>5. /\ r.frame_id => r.bucket_verified /\ r.file_verified
      /\ r.parity_file => r.encrypted_file /\ ~ r.awaiting_parity_shards
      /\ r.error_status = "OK" /\ ~ r.awaiting_parity_shards => r.parity_file
  BY <1>2, <1>3
     DEF Good, Sequenced, Awaited, SameChecks, SameEncryption, SameParity
<1>6. ~ r.creating_encrypted_file
  BY <1>2 DEF SameEncryption
<1> QED
  BY <1>1, <1>2, <1>4, <1>5, <1>6, SingleHandled

LEMMA EncryptHandled ==
  ASSUME NEW s, Good(s), <<"encrypt", 0>> \in s.work, NEW r,
         Closing(s, "encrypt", r),
         SameChecks(s, r), SameFrame(s, r), SameParity(s, r),
         ~ r.creating_encrypted_file,
         r.create_encrypted_file_count <= MaxRequestTries,
         ~ r.encrypted_file /\ r.error_status = "OK"
           => r.create_encrypted_file_count < MaxRequestTries
  PROVE  Handled(s, <<"encrypt", 0>>, r)
<1>1. "encrypt" \in SingleKinds
  BY DEF SingleKinds
<1>2. /\ Awaited(s, "encrypt") /\ s.work = {<<"encrypt", 0>>} /\ s.prepared = "done"
      /\ ~ s.requesting_frame
      /\ ~ s.creating_bucket_entry
  BY <1>1, OneStep
<1>3. r.error_status = "OK" => s.error_status = "OK"
  BY DEF Closing
<1>4. Bounded(r)
  BY <1>2, <1>3
     DEF Good, Bounded, Closing, SameShards, SameChecks, SameFrame
<1>5. /\ r.frame_id => r.bucket_verified /\ r.file_verified
      /\ r.parity_file => r.encrypted_file /\ ~ r.awaiting_parity_shards
      /\ r.error_status = "OK" /\ ~ r.awaiting_parity_shards => r.parity_file
  BY <1>2, <1>3
     DEF Good, Sequenced, Awaited, SameChecks, SameFrame, SameParity
<1>6. ~ r.requesting_frame
  BY <1>2 DEF SameFrame
<1> QED
  BY <1>1, <1>2, <1>4, <1>5, <1>6, SingleHandled

LEMMA ParityHandled ==
  ASSUME NEW s, Good(s), <<"parity", 0>> \in s.work, NEW r,
         Closing(s, "parity", r),
         SameChecks(s, r), SameFrame(s, r), SameEncryption(s, r),
         r.parity_file => ~ r.awaiting_parity_shards,
         r.parity_file \/ r.error_status # "OK"
  PROVE  Handled(s, <<"parity", 0>>, r)
<1>1. "parity" \in SingleKinds
  BY DEF SingleKinds
<1>2. /\ s.work = {<<"parity", 0>>} /\ s.prepared = "done"
      /\ ~ s.requesting_frame /\ ~ s.creating_encrypted_file
      /\ ~ s.creating_bucket_entry
  BY <1>1, OneStep
<1>3. r.error_status = "OK" => s.error_status = "OK"
  BY DEF Closing
<1>4. Bounded(r)
  BY <1>2, <1>3
     DEF Good, Bounded, Closing, SameShards, SameChecks, SameFrame, SameEncryption
<1>5. /\ r.frame_id => r.bucket_verified /\ r.file_verified
      /\ r.parity_file => r.encrypted_file /\ ~ r.awaiting_parity_shards
      /\ r.error_status = "OK" /\ ~ r.awaiting_parity_shards => r.parity_file
  BY <1>2, <1>3
     DEF Good, Sequenced, SameChecks, SameFrame, SameEncryption
<1>6. ~ r.requesting_frame /\ ~ r.creating_encrypted_file
  BY <1>2 DEF SameFrame, SameEncryption
<1> QED
  BY <1>1, <1>2, <1>4, <1>5, <1>6, SingleHandled

(* begin_work_queue *)
LEMMA PrepareHandled ==
  ASSUME NEW s, Good(s), <<"prepare", 0>> \in s.work, s.prepared = "done"
  PROVE  Handled(s, <<"prepare", 0>>, Complete(s, <<"prepare", 0>>))
<1>1. "prepare" \in SingleKinds
  BY DEF SingleKinds
<1>2. PICK r : r = Complete(s, <<"prepare", 0>>)
  OBVIOUS
<1>3. /\ s.work = {<<"prepare", 0>>}
      /\ ~ s.requesting_frame /\ ~ s.creating_encrypted_file
      /\ ~ s.creating_bucket_entry
  BY <1>1, OneStep
<1>4. /\ Closing(s, "prepare", r)
      /\ SameShards(s, r) /\ SameChecks(s, r) /\ SameFrame(s, r)
      /\ SameEncryption(s, r) /\ SameParity(s, r)
      /\ r.error_status = s.error_status
  BY <1>2, CompleteFields DEF Closing
<1>5. Bounded(r)
  BY <1>4 DEF Good, Bounded, SameShards, SameChecks, SameFrame, SameEncryption
<1>6. /\ r.frame_id => r.bucket_verified /\ r.file_verified
      /\ r.parity_file => r.encrypted_file /\ ~ r.awaiting_parity_shards
      /\ r.error_status = "OK" /\ ~ r.awaiting_parity_shards => r.parity_file
  BY <1>3, <1>4
     DEF Good, Sequenced, SameChecks, SameFrame, SameEncryption, SameParity
<1>7. ~ r.requesting_frame /\ ~ r.creating_encrypted_file
  BY <1>3, <1>4 DEF SameFrame, SameEncryption
<1> QED
  BY <1>1, <1>2, <1>4, <1>5, <1>6, <1>7, SingleHandled

-----------------------------------------------------------------------------
(* The callbacks of the single steps.                                      *)

(* A callback handles the end of the job and goes on with the next work. *)
Handles(job) ==
  /\ job \in state.work
  /\ \E r : Handled(state, job, r) /\ Step(r)

LEMMA verify_bucket_id_callbackHandles ==
  ASSUME Good(state), verify_bucket_id_callback
  PROVE  Handles(<<"bucket", 0>>)
<1>1. <<"bucket", 0>> \in state.work
  BY DEF verify_bucket_id_callback, Outstanding
<1>2. "bucket" \in SingleKinds
  BY DEF SingleKinds
<1>3. /\ ~ state.bucket_verified /\ state.bucket_verify_count < MaxRequestTries
      /\ state.bucket_verify_count \in Nat /\ MaxRequestTries \in Nat \ {0}
  BY <1>1, <1>2, OneStep, UploadAssumption DEF Awaited, Good, Bounded, StateType
<1>4. PICK t : t = Complete(state, <<"bucket", 0>>)
  OBVIOUS
<1>5. /\ t \in StateType
      /\ SameShards(state, t) /\ SameChecks(state, t)
      /\ SameFrame(state, t) /\ SameEncryption(state, t) /\ SameParity(state, t)
      /\ t.error_status = state.error_status
      /\ t.work = state.work \ {<<"bucket", 0>>}
      /\ t.pending_work_count = Cardinality(t.work)
  BY <1>1, <1>4, CompleteFields
<1>6. PICK n \in Nat : n = t.bucket_verify_count + 1 /\ n <= MaxRequestTries
  BY <1>3, <1>5 DEF SameChecks
<1>7. PICK s : s = [t EXCEPT !.bucket_verify_count = n]
  OBVIOUS
<1>8. s \in StateType
  BY <1>5, <1>7, ZenonT(60) DEF StateType
<1>9. SameShards(t, s) /\ SamePool(t, s)
  BY <1>5, <1>7, ZenonT(60) DEF StateType, SameShards, SamePool
<1>10. SameFrame(t, s) /\ SameEncryption(t, s) /\ SameParity(t, s)
  BY <1>5, <1>7, ZenonT(60) DEF StateType, SameFrame, SameEncryption, SameParity
<1>11. /\ s.bucket_verified = t.bucket_verified /\ s.bucket_verify_count = n
       /\ s.file_verified = t.file_verified
       /\ s.file_verify_count = t.file_verify_count
       /\ s.error_status = t.error_status
  BY <1>5, <1>7, ZenonT(60) DEF StateType
<1>12. PICK a : a = [s EXCEPT !.bucket_verified = TRUE]
  OBVIOUS
<1>13. a \in StateType
  BY <1>8, <1>12, ZenonT(60) DEF StateType
<1>14. SameShards(s, a) /\ SamePool(s, a)
  BY <1>8, <1>12, ZenonT(60) DEF StateType, SameShards, SamePool
<1>15. SameFrame(s, a) /\ SameEncryption(s, a) /\ SameParity(s, a)
  BY <1>8, <1>12, ZenonT(60) DEF StateType, SameFrame, SameEncryption, SameParity
<1>16. /\ a.bucket_verified = TRUE /\ a.bucket_verify_count = s.bucket_verify_count
       /\ a.file_verified = s.file_verified
       /\ a.file_verify_count = s.file_verify_count
       /\ a.error_status = s.error_status
  BY <1>8, <1>12, ZenonT(60) DEF StateType
<1>17. PICK m \in Nat : m = (IF n = MaxRequestTries THEN 0 ELSE n) /\ m < MaxRequestTries
  BY <1>3, <1>6
<1>18. PICK c : c = [s EXCEPT !.bucket_verify_count = m]
  OBVIOUS
<1>19. c \in StateType
  BY <1>8, <1>18, ZenonT(60) DEF StateType
<1>20. SameShards(s, c) /\ SamePool(s, c)
  BY <1>8, <1>18, ZenonT(60) DEF StateType, SameShards, SamePool
<1>21. SameFrame(s, c) /\ SameEncryption(s, c) /\ SameParity(s, c)
  BY <1>8, <1>18, ZenonT(60) DEF StateType, SameFrame, SameEncryption, SameParity
<1>22. /\ c.bucket_verified = s.bucket_verified /\ c.bucket_verify_count = m
       /\ c.file_verified = s.file_verified
       /\ c.file_verify_count = s.file_verify_count
       /\ c.error_status = s.error_status
  BY <1>8, <1>18, ZenonT(60) DEF StateType
<1>23. ASSUME NEW r, r = a \/ r = Fail(a) \/ r = c \/ r = Fail(c)
       PROVE  Handled(state, <<"bucket", 0>>, r)
  <2>1. /\ r \in StateType
        /\ SameShards(state, r) /\ SamePool(t, r)
        /\ r.error_status \in {state.error_status, "FAILED"}
    BY <1>5, <1>9, <1>11, <1>13, <1>14, <1>16, <1>19, <1>20, <1>22, <1>23, FailFields
       DEF SameShards, SamePool
  <2>2. SameFrame(state, r) /\ SameEncryption(state, r) /\ SameParity(state, r)
    BY <1>5, <1>10, <1>13, <1>15, <1>19, <1>21, <1>23, FailFields
       DEF SameFrame, SameEncryption, SameParity
  <2>3. /\ r.file_verified = state.file_verified
        /\ r.file_verify_count = state.file_verify_count
        /\ \/ r.bucket_verified /\ r.bucket_verify_count <= MaxRequestTries
           \/ r.bucket_verify_count < MaxRequestTries
    BY <1>5, <1>6, <1>11, <1>13, <1>16, <1>17, <1>19, <1>22, <1>23, FailFields
       DEF SameChecks
  <2>4. r.bucket_verify_count \in Nat
    BY <2>1 DEF StateType
  <2>5. Closing(state, "bucket", r)
    BY <1>5, <2>1 DEF Closing, SamePool
  <2> QED
    BY <1>1, <1>3, <2>2, <2>3, <2>4, <2>5, BucketHandled
<1>24. Step(a) \/ Step(Fail(a)) \/ Step(Retried(c, n, MaxRequestTries))
  <2>1. s = [Complete(state, <<"bucket", 0>>) EXCEPT !.bucket_verify_count = @ + 1]
    BY <1>4, <1>6, <1>7
  <2>2. c = [s EXCEPT !.bucket_verify_count = IF @ = MaxRequestTries THEN 0 ELSE @]
    BY <1>11, <1>17, <1>18
  <2>3. s.bucket_verify_count = n
    BY <1>11
  <2> QED
    BY <1>12, <2>1, <2>2, <2>3 DEF verify_bucket_id_callback
<1> QED
  BY <1>1, <1>23, <1>24 DEF Handles, Retried

LEMMA verify_file_name_callbackHandles ==
  ASSUME Good(state), verify_file_name_callback
  PROVE  Handles(<<"name", 0>>)
<1>1. <<"name", 0>> \in state.work
  BY DEF verify_file_name_callback, Outstanding
<1>2. "name" \in SingleKinds
  BY DEF SingleKinds
<1>3. /\ ~ state.file_verified /\ state.file_verify_count < MaxRequestTries
      /\ state.file_verify_count \in Nat /\ MaxRequestTries \in Nat \ {0}
  BY <1>1, <1>2, OneStep, UploadAssumption DEF Awaited, Good, Bounded, StateType
<1>4. PICK t : t = Complete(state, <<"name", 0>>)
  OBVIOUS
<1>5. /\ t \in StateType
      /\ SameShards(state, t) /\ SameChecks(state, t)
      /\ SameFrame(state, t) /\ SameEncryption(state, t) /\ SameParity(state, t)
      /\ t.error_status = state.error_status
      /\ t.work = state.work \ {<<"name", 0>>}
      /\ t.pending_work_count = Cardinality(t.work)
  BY <1>1, <1>4, CompleteFields
<1>6. PICK n \in Nat : n = t.file_verify_count + 1 /\ n <= MaxRequestTries
  BY <1>3, <1>5 DEF SameChecks
<1>7. PICK s : s = [t EXCEPT !.file_verify_count = n]
  OBVIOUS
<1>8. s \in StateType
  BY <1>5, <1>7, ZenonT(60) DEF StateType
<1>9. SameShards(t, s) /\ SamePool(t, s)
  BY <1>5, <1>7, ZenonT(60) DEF StateType, SameShards, SamePool
<1>10. SameFrame(t, s) /\ SameEncryption(t, s) /\ SameParity(t, s)
  BY <1>5, <1>7, ZenonT(60) DEF StateType, SameFrame, SameEncryption, SameParity
<1>11. /\ s.file_verified = t.file_verified /\ s.file_verify_count = n
       /\ s.bucket_verified = t.bucket_verified
       /\ s.bucket_verify_count = t.bucket_verify_count
       /\ s.error_status = t.error_status
  BY <1>5, <1>7, ZenonT(60) DEF StateType
<1>12. PICK a : a = [s EXCEPT !.file_verified = TRUE]
  OBVIOUS
<1>13. a \in StateType
  BY <1>8, <1>12, ZenonT(60) DEF StateType
<1>14. SameShards(s, a) /\ SamePool(s, a)
  BY <1>8, <1>12, ZenonT(60) DEF StateType, SameShards, SamePool
<1>15. SameFrame(s, a) /\ SameEncryption(s, a) /\ SameParity(s, a)
  BY <1>8, <1>12, ZenonT(60) DEF StateType, SameFrame, SameEncryption, SameParity
<1>16. /\ a.file_verified = TRUE /\ a.file_verify_count = s.file_verify_count
       /\ a.bucket_verified = s.bucket_verified
       /\ a.bucket_verify_count = s.bucket_verify_count
       /\ a.error_status = s.error_status
  BY <1>8, <1>12, ZenonT(60) DEF StateType
<1>17. PICK m \in Nat : m = (IF n = MaxRequestTries THEN 0 ELSE n) /\ m < MaxRequestTries
  BY <1>3, <1>6
<1>18. PICK c : c = [s EXCEPT !.file_verify_count = m]
  OBVIOUS
<1>19. c \in StateType
  BY <1>8, <1>18, ZenonT(60) DEF StateType
<1>20. SameShards(s, c) /\ SamePool(s, c)
  BY <1>8, <1>18, ZenonT(60) DEF StateType, SameShards, SamePool
<1>21. SameFrame(s, c) /\ SameEncryption(s, c) /\ SameParity(s, c)
  BY <1>8, <1>18, ZenonT(60) DEF StateType, SameFrame, SameEncryption, SameParity
<1>22. /\ c.file_verified = s.file_verified /\ c.file_verify_count = m
       /\ c.bucket_verified = s.bucket_verified
       /\ c.bucket_verify_count = s.bucket_verify_count
       /\ c.error_status = s.error_status
  BY <1>8, <1>18, ZenonT(60) DEF StateType
<1>23. ASSUME NEW r, r = a \/ r = Fail(a) \/ r = c \/ r = Fail(c)
       PROVE  Handled(state, <<"name", 0>>, r)
  <2>1. /\ r \in StateType
        /\ SameShards(state, r) /\ SamePool(t, r)
        /\ r.error_status \in {state.error_status, "FAILED"}
    BY <1>5, <1>9, <1>11, <1>13, <1>14, <1>16, <1>19, <1>20, <1>22, <1>23, FailFields
       DEF SameShards, SamePool
  <2>2. SameFrame(state, r) /\ SameEncryption(state, r) /\ SameParity(state, r)
    BY <1>5, <1>10, <1>13, <1>15, <1>19, <1>21, <1>23, FailFields
       DEF SameFrame, SameEncryption, SameParity
  <2>3. /\ r.bucket_verified = state.bucket_verified
        /\ r.bucket_verify_count = state.bucket_verify_count
        /\ \/ r.file_verified /\ r.file_verify_count <= MaxRequestTries
           \/ r.file_verify_count < MaxRequestTries
    BY <1>5, <1>6, <1>11, <1>13, <1>16, <1>17, <1>19, <1>22, <1>23, FailFields
       DEF SameChecks
  <2>4. r.file_verify_count \in Nat
    BY <2>1 DEF StateType
  <2>5. Closing(state, "name", r)
    BY <1>5, <2>1 DEF Closing, SamePool
  <2> QED
    BY <1>1, <1>3, <2>2, <2>3, <2>4, <2>5, NameHandled
<1>24. Step(a) \/ Step(Fail(a)) \/ Step(Retried(c, n, MaxRequestTries))
  <2>1. s = [Complete(state, <<"name", 0>>) EXCEPT !.file_verify_count = @ + 1]
    BY <1>4, <1>6, <1>7
  <2>2. c = [s EXCEPT !.file_verify_count = IF @ = MaxRequestTries THEN 0 ELSE @]
    BY <1>11, <1>17, <1>18
  <2>3. s.file_verify_count = n
    BY <1>11
  <2> QED
    BY <1>12, <2>1, <2>2, <2>3 DEF verify_file_name_callback
<1> QED
  BY <1>1, <1>23, <1>24 DEF Handles, Retried

LEMMA after_request_frame_idHandles ==
  ASSUME Good(state), after_request_frame_id
  PROVE  Handles(<<"frame_id", 0>>)
<1>1. <<"frame_id", 0>> \in state.work
  BY DEF after_request_frame_id, Outstanding
<1>2. "frame_id" \in SingleKinds
  BY DEF SingleKinds
<1>3. /\ state.frame_request_count < MaxRequestTries
      /\ state.frame_request_count \in Nat /\ MaxRequestTries \in Nat \ {0}
  BY <1>1, <1>2, OneStep, UploadAssumption DEF Good, Bounded, StateType
<1>4. PICK t : t = Complete(state, <<"frame_id", 0>>)
  OBVIOUS
<1>5. /\ t \in StateType
      /\ SameShards(state, t) /\ SameChecks(state, t)
      /\ SameFrame(state, t) /\ SameEncryption(state, t) /\ SameParity(state, t)
      /\ t.error_status = state.error_status
      /\ t.work = state.work \ {<<"frame_id", 0>>}
      /\ t.pending_work_count = Cardinality(t.work)
  BY <1>1, <1>4, CompleteFields
<1>6. PICK n \in Nat : n = t.frame_request_count + 1 /\ n <= MaxRequestTries
  BY <1>3, <1>5 DEF SameFrame
<1>7. PICK s : s = [t EXCEPT !.requesting_frame = FALSE, !.frame_request_count = n]
  OBVIOUS
<1>8. s \in StateType
  BY <1>5, <1>7, ZenonT(60) DEF StateType
<1>9. SameShards(t, s) /\ SamePool(t, s)
  BY <1>5, <1>7, ZenonT(60) DEF StateType, SameShards, SamePool
<1>10. SameChecks(t, s) /\ SameEncryption(t, s) /\ SameParity(t, s)
  BY <1>5, <1>7, ZenonT(60) DEF StateType, SameChecks, SameEncryption, SameParity
<1>11. /\ s.frame_id = t.frame_id /\ s.requesting_frame = FALSE /\ s.frame_request_count = n
       /\ s.error_status = t.error_status
  BY <1>5, <1>7, ZenonT(60) DEF StateType
<1>12. PICK a : a = [s EXCEPT !.frame_id = TRUE]
  OBVIOUS
<1>13. a \in StateType
  BY <1>8, <1>12, ZenonT(60) DEF StateType
<1>14. SameShards(s, a) /\ SamePool(s, a)
  BY <1>8, <1>12, ZenonT(60) DEF StateType, SameShards, SamePool
<1>15. SameChecks(s, a) /\ SameEncryption(s, a) /\ SameParity(s, a)
  BY <1>8, <1>12, ZenonT(60) DEF StateType, SameChecks, SameEncryption, SameParity
<1>16. /\ a.frame_id = TRUE /\ a.requesting_frame = s.requesting_frame /\ a.frame_request_count = s.frame_request_count
       /\ a.error_status = s.error_status
  BY <1>8, <1>12, ZenonT(60) DEF StateType
<1>17. ASSUME NEW r, r = a \/ r = Fail(s) \/ (r = s /\ n # MaxRequestTries)
       PROVE  Handled(state, <<"frame_id", 0>>, r)
  <2>1. /\ r \in StateType
        /\ SameShards(state, r) /\ SamePool(t, r)
        /\ r.error_status \in {state.error_status, "FAILED"}
    BY <1>5, <1>8, <1>9, <1>11, <1>13, <1>14, <1>16, <1>17, FailFields
       DEF SameShards, SamePool
  <2>2. SameChecks(state, r) /\ SameEncryption(state, r) /\ SameParity(state, r)
    BY <1>5, <1>8, <1>10, <1>13, <1>15, <1>17, FailFields
       DEF SameChecks, SameEncryption, SameParity
  <2>3. /\ r.frame_request_count = n
        /\ r.requesting_frame = FALSE
        /\ r.frame_id \/ r.error_status = "FAILED" \/ n # MaxRequestTries
    BY <1>8, <1>11, <1>13, <1>16, <1>17, FailFields DEF SameFrame
  <2>4. Closing(state, "frame_id", r)
    BY <1>5, <2>1 DEF Closing, SamePool
  <2>5. ~ r.frame_id /\ r.error_status = "OK" => r.frame_request_count < MaxRequestTries
    BY <1>3, <1>6, <2>3
  <2> QED
    BY <1>1, <1>6, <2>2, <2>3, <2>4, <2>5, FrameHandled
<1>18. Step(a) \/ Step(Fail(s)) \/ Step(Retried(s, n, MaxRequestTries))
  <2>1. s = [Complete(state, <<"frame_id", 0>>) EXCEPT !.requesting_frame = FALSE, !.frame_request_count = @ + 1]
    BY <1>4, <1>6, <1>7
  <2>2. s.frame_request_count = n
    BY <1>11
  <2> QED
    BY <1>12, <2>1, <2>2 DEF after_request_frame_id
<1> QED
  BY <1>1, <1>17, <1>18 DEF Handles, Retried

LEMMA after_create_encrypted_fileHandles ==
  ASSUME Good(state), after_create_encrypted_file
  PROVE  Handles(<<"encrypt", 0>>)
<1>1. <<"encrypt", 0>> \in state.work
  BY DEF after_create_encrypted_file, Outstanding
<1>2. "encrypt" \in SingleKinds
  BY DEF SingleKinds
<1>3. /\ state.create_encrypted_file_count < MaxRequestTries
      /\ state.create_encrypted_file_count \in Nat /\ MaxRequestTries \in Nat \ {0}
  BY <1>1, <1>2, OneStep, UploadAssumption DEF Good, Bounded, StateType
<1>4. PICK t : t = Complete(state, <<"encrypt", 0>>)
  OBVIOUS
<1>5. /\ t \in StateType
      /\ SameShards(state, t) /\ SameChecks(state, t)
      /\ SameFrame(state, t) /\ SameEncryption(state, t) /\ SameParity(state, t)
      /\ t.error_status = state.error_status
      /\ t.work = state.work \ {<<"encrypt", 0>>}
      /\ t.pending_work_count = Cardinality(t.work)
  BY <1>1, <1>4, CompleteFields
<1>6. PICK n \in Nat : n = t.create_encrypted_file_count + 1 /\ n <= MaxRequestTries
  BY <1>3, <1>5 DEF SameEncryption
<1>7. PICK s : s = [t EXCEPT !.creating_encrypted_file = FALSE, !.create_encrypted_file_count = n]
  OBVIOUS
<1>8. s \in StateType
  BY <1>5, <1>7, ZenonT(60) DEF StateType
<1>9. SameShards(t, s) /\ SamePool(t, s)
  BY <1>5, <1>7, ZenonT(60) DEF StateType, SameShards, SamePool
<1>10. SameChecks(t, s) /\ SameFrame(t, s) /\ SameParity(t, s)
  BY <1>5, <1>7, ZenonT(60) DEF StateType, SameChecks, SameFrame, SameParity
<1>11. /\ s.encrypted_file = t.encrypted_file /\ s.creating_encrypted_file = FALSE /\ s.create_encrypted_file_count = n
       /\ s.error_status = t.error_status
  BY <1>5, <1>7, ZenonT(60) DEF StateType
<1>12. PICK a : a = [s EXCEPT !.encrypted_file = TRUE]
  OBVIOUS
<1>13. a \in StateType
  BY <1>8, <1>12, ZenonT(60) DEF StateType
<1>14. SameShards(s, a) /\ SamePool(s, a)
  BY <1>8, <1>12, ZenonT(60) DEF StateType, SameShards, SamePool
<1>15. SameChecks(s, a) /\ SameFrame(s, a) /\ SameParity(s, a)
  BY <1>8, <1>12, ZenonT(60) DEF StateType, SameChecks, SameFrame, SameParity
<1>16. /\ a.encrypted_file = TRUE /\ a.creating_encrypted_file = s.creating_encrypted_file /\ a.create_encrypted_file_count = s.create_encrypted_file_count
       /\ a.error_status = s.error_status
  BY <1>8, <1>12, ZenonT(60) DEF StateType
<1>17. ASSUME NEW r, r = a \/ r = Fail(s) \/ (r = s /\ n # MaxRequestTries)
       PROVE  Handled(state, <<"encrypt", 0>>, r)
  <2>1. /\ r \in StateType
        /\ SameShards(state, r) /\ SamePool(t, r)
        /\ r.error_status \in {state.error_status, "FAILED"}
    BY <1>5, <1>8, <1>9, <1>11, <1>13, <1>14, <1>16, <1>17, FailFields
       DEF SameShards, SamePool
  <2>2. SameChecks(state, r) /\ SameFrame(state, r) /\ SameParity(state, r)
    BY <1>5, <1>8, <1>10, <1>13, <1>15, <1>17, FailFields
       DEF SameChecks, SameFrame, SameParity
  <2>3. /\ r.create_encrypted_file_count = n
        /\ r.creating_encrypted_file = FALSE
        /\ r.encrypted_file \/ r.error_status = "FAILED" \/ n # MaxRequestTries
    BY <1>8, <1>11, <1>13, <1>16, <1>17, FailFields DEF SameEncryption
  <2>4. Closing(state, "encrypt", r)
    BY <1>5, <2>1 DEF Closing, SamePool
  <2>5. ~ r.encrypted_file /\ r.error_status = "OK" => r.create_encrypted_file_count < MaxRequestTries
    BY <1>3, <1>6, <2>3
  <2> QED
    BY <1>1, <1>6, <2>2, <2>3, <2>4, <2>5, EncryptHandled
<1>18. Step(a) \/ Step(Fail(s)) \/ Step(Retried(s, n, MaxRequestTries))
  <2>1. s = [Complete(state, <<"encrypt", 0>>) EXCEPT !.creating_encrypted_file = FALSE, !.create_encrypted_file_count = @ + 1]
    BY <1>4, <1>6, <1>7
  <2>2. s.create_encrypted_file_count = n
    BY <1>11
  <2> QED
    BY <1>12, <2>1, <2>2 DEF after_create_encrypted_file
<1> QED
  BY <1>1, <1>17, <1>18 DEF Handles, Retried

LEMMA after_create_parity_shardsHandles ==
  ASSUME Good(state), after_create_parity_shards
  PROVE  Handles(<<"parity", 0>>)
<1>1. <<"parity", 0>> \in state.work
  BY DEF after_create_parity_shards, Outstanding
<1>2. ~ state.awaiting_parity_shards /\ ~ state.parity_file
  <2>1. "parity" \in SingleKinds
    BY DEF SingleKinds
  <2> QED
    BY <1>1, <2>1, OneStep DEF Good, Sequenced, Awaited
<1>3. PICK t : t = Complete(state, <<"parity", 0>>)
  OBVIOUS
<1>4. /\ t \in StateType
      /\ SameShards(state, t) /\ SameChecks(state, t)
      /\ SameFrame(state, t) /\ SameEncryption(state, t) /\ SameParity(state, t)
      /\ t.error_status = state.error_status
      /\ t.work = state.work \ {<<"parity", 0>>}
      /\ t.pending_work_count = Cardinality(t.work)
  BY <1>1, <1>3, CompleteFields
<1>5. PICK a : a = [t EXCEPT !.parity_file = TRUE]
  OBVIOUS
<1>6. a \in StateType
  BY <1>4, <1>5, ZenonT(60) DEF StateType
<1>7. SameShards(t, a) /\ SamePool(t, a)
  BY <1>4, <1>5, ZenonT(60) DEF StateType, SameShards, SamePool
<1>8. SameChecks(t, a) /\ SameFrame(t, a) /\ SameEncryption(t, a)
  BY <1>4, <1>5, ZenonT(60) DEF StateType, SameChecks, SameFrame, SameEncryption
<1>9. /\ a.parity_file = TRUE /\ a.awaiting_parity_shards = t.awaiting_parity_shards
      /\ a.error_status = t.error_status
  BY <1>4, <1>5, ZenonT(60) DEF StateType
<1>10. PICK b : b = [t EXCEPT !.awaiting_parity_shards = TRUE]
  OBVIOUS
<1>11. b \in StateType
  BY <1>4, <1>10, ZenonT(60) DEF StateType
<1>12. SameShards(t, b) /\ SamePool(t, b)
  BY <1>4, <1>10, ZenonT(60) DEF StateType, SameShards, SamePool
<1>13. SameChecks(t, b) /\ SameFrame(t, b) /\ SameEncryption(t, b)
  BY <1>4, <1>10, ZenonT(60) DEF StateType, SameChecks, SameFrame, SameEncryption
<1>14. b.parity_file = t.parity_file
  BY <1>4, <1>10, ZenonT(60) DEF StateType
<1>15. ASSUME NEW r, r = a \/ r = Fail(t) \/ r = Fail(b)
       PROVE  Handled(state, <<"parity", 0>>, r)
  <2>1. /\ r \in StateType
        /\ SameShards(state, r) /\ SamePool(t, r)
        /\ r.error_status \in {state.error_status, "FAILED"}
    BY <1>4, <1>6, <1>7, <1>9, <1>11, <1>12, <1>15, FailFields
       DEF SameShards, SamePool
  <2>2. SameChecks(state, r) /\ SameFrame(state, r) /\ SameEncryption(state, r)
    BY <1>4, <1>6, <1>8, <1>11, <1>13, <1>15, FailFields
       DEF SameChecks, SameFrame, SameEncryption
  <2>3. /\ r.parity_file => ~ r.awaiting_parity_shards
        /\ r.parity_file \/ r.error_status # "OK"
    BY <1>2, <1>4, <1>6, <1>9, <1>11, <1>14, <1>15, FailFields DEF SameParity
  <2>4. Closing(state, "parity", r)
    BY <1>4, <2>1 DEF Closing, SamePool
  <2> QED
    BY <1>1, <2>2, <2>3, <2>4, ParityHandled
<1>16. Step(a) \/ Step(Fail(t)) \/ Step(Fail(b))
  BY <1>3, <1>5, <1>10 DEF after_create_parity_shards
<1> QED
  BY <1>1, <1>15, <1>16 DEF Handles

-----------------------------------------------------------------------------
(* The callbacks of a shard's own steps.                                   *)

(* They leave everything that is not about shards and errors alone. *)
SameUpload(s, t) ==
  /\ t.rs = s.rs
  /\ t.total_data_shards = s.total_data_shards
  /\ t.total_shards = s.total_shards
  /\ t.creating_bucket_entry = s.creating_bucket_entry
  /\ t.add_bucket_entry_count = s.add_bucket_entry_count
  /\ t.completed_upload = s.completed_upload
  /\ t.canceled = s.canceled
  /\ t.final_callback_called = s.final_callback_called
  /\ t.prepared = s.prepared
  /\ t.entries = s.entries
  /\ t.callbacks = s.callbacks
  /\ SameChecks(s, t) /\ SameFrame(s, t) /\ SameEncryption(s, t) /\ SameParity(s, t)

(* A job of shard i is over; no other tracker was touched. *)
ShardDone(s, kind, i, r) ==
  /\ r \in StateType
  /\ SameUpload(s, r)
  /\ r.work = s.work \ {<<kind, i>>}
  /\ r.pending_work_count = Cardinality(r.work)
  /\ r.error_status \in {s.error_status, "FAILED"}
  /\ \A j \in Index \ {i} : r.shard[j] = s.shard[j]

(* What the callback makes of the tracker, and of the number of stored     *)
(* shards.                                                                 *)
ShardKept(s, kind, i, r) ==
  /\ Owns(r, i, r.shard[i])
  /\ r.dequeued \subseteq s.dequeued
  /\ r.error_status # s.error_status => s.shard[i].progress # COMPLETED_PUSH_SHARD
  /\ s.shard[i].progress = COMPLETED_PUSH_SHARD
       => r.shard[i].progress = COMPLETED_PUSH_SHARD
  /\ r.completed_shards =
       IF /\ r.shard[i].progress = COMPLETED_PUSH_SHARD
          /\ s.shard[i].progress # COMPLETED_PUSH_SHARD
       THEN s.completed_shards + 1 ELSE s.completed_shards
  /\ kind = "push_shard" /\ r.error_status = "OK"
       => r.shard[i].progress = COMPLETED_PUSH_SHARD \/ KeptWaiting(r.shard[i])

(* While a shard has a job the single steps are over. *)
LEMMA ShardAtWork ==
  ASSUME NEW s, Good(s), NEW kind \in ShardJobs, NEW i \in Index, <<kind, i>> \in s.work
  PROVE  /\ Free(s) /\ Ready(s) /\ s.prepared = "done"
         /\ ~ s.final_callback_called
         /\ s.shard[i] \in ShardType
         /\ Owns(s, i, s.shard[i])
         /\ i \in Shards(s) /\ ~ (i >= s.total_shards)
<1>1. Free(s)
  <2>1. ASSUME NEW k \in SingleKinds PROVE s.work # {<<k, 0>>}
    BY DEF SingleKinds, ShardJobs
  <2> QED
    BY <2>1 DEF Good, Sequenced
<1>2. Ready(s)
  <2>1. ASSUME NEW k \in SingleKinds PROVE s.work # {<<k, 0>>}
    BY DEF SingleKinds, ShardJobs
  <2> QED
    BY <2>1 DEF Good, Sequenced
<1>3. s.prepared = "done"
  <2>1. <<"prepare", 0>> \notin s.work
    <3>1. ASSUME <<"prepare", 0>> \in s.work PROVE <<"prepare", 0>>[1] \notin SingleKinds
      BY <1>1, <3>1 DEF Free
    <3> QED
      BY <3>1 DEF SingleKinds
  <2> QED
    BY <2>1 DEF Good, Sized
<1>4. ~ s.final_callback_called
  BY DEF Good, Closed
<1>5. s.shard[i] \in ShardType /\ Owns(s, i, s.shard[i])
  BY DEF Good, StateType
<1>6. s.shard[i] # NewShard
  BY <1>5 DEF Owns, NewShard, ShardJobs
<1>7. i \in Int /\ s.total_shards \in Int
  BY DEF Good, StateType, Index
<1>8. ~ (i >= s.total_shards)
  BY <1>5, <1>6 DEF Owns
<1>9. i \in Shards(s)
  BY <1>7, <1>8 DEF Shards
<1> QED
  BY <1>1, <1>2, <1>3, <1>4, <1>5, <1>8, <1>9

LEMMA ShardHandled ==
  ASSUME NEW s, Good(s), NEW kind \in ShardJobs, NEW i \in Index, <<kind, i>> \in s.work,
         NEW r, ShardDone(s, kind, i, r), ShardKept(s, kind, i, r)
  PROVE  Handled(s, <<kind, i>>, r)
<1>1. /\ Free(s) /\ Ready(s) /\ s.prepared = "done" /\ ~ s.final_callback_called
      /\ i \in Shards(s)
  BY ShardAtWork
<1>2. /\ r \in StateType /\ SameUpload(s, r)
      /\ r.work = s.work \ {<<kind, i>>}
      /\ r.pending_work_count = Cardinality(r.work)
      /\ r.error_status \in {s.error_status, "FAILED"}
      /\ r.error_status = "OK" => s.error_status = "OK"
      /\ \A j \in Index \ {i} : r.shard[j] = s.shard[j]
  BY DEF ShardDone
<1>3. ASSUME NEW k \in SingleKinds \cup {"entry"}
      PROVE  <<k, 0>> \in r.work <=> <<k, 0>> \in s.work
  BY <1>2 DEF SingleKinds, ShardJobs
<1>4. Ready(r)
  BY <1>1, <1>2 DEF Ready, SameUpload, SameChecks, SameFrame, SameEncryption, SameParity
<1>5. Free(r)
  BY <1>1, <1>2 DEF Free
<1>6. Sequenced(r)
  BY <1>2, <1>3, <1>4, <1>5
     DEF Good, Sequenced, SameUpload, SameChecks, SameFrame, SameEncryption, SameParity,
         SingleKinds
<1>7. Sized(r)
  BY <1>1, <1>2 DEF Good, Sized, SameUpload
<1>8. Flagged(r)
  BY <1>2, <1>3 DEF Good, Flagged, SameUpload, SameFrame, SameEncryption, SingleKinds
<1>9. Bounded(r)
  BY <1>2 DEF Good, Bounded, SameUpload, SameChecks, SameFrame, SameEncryption
<1>10. ASSUME NEW j \in Index PROVE Owns(r, j, r.shard[j])
  <2>1. CASE j = i
    BY <2>1 DEF ShardKept
  <2>2. CASE j # i
    <3>1. Owns(s, j, s.shard[j]) /\ r.shard[j] = s.shard[j]
      BY <1>2, <2>2 DEF Good
    <3>2. \A k : <<k, j>> \in r.work <=> <<k, j>> \in s.work
      BY <1>2, <2>2
    <3>3. r.total_shards = s.total_shards
      BY <1>2 DEF SameUpload
    <3> QED
      BY <1>2, <3>1, <3>2, <3>3 DEF Owns
  <2> QED
    BY <2>1, <2>2
<1>11. Slotted(r)
  <2>1. ASSUME NEW k PROVE Cardinality(JobsOf(r, {k})) <= Cardinality(JobsOf(s, {k}))
                           /\ Cardinality(JobsOf(r, {k})) \in Nat
                           /\ Cardinality(JobsOf(s, {k})) \in Nat
    <3>1. PICK a, b : a = JobsOf(r, {k}) /\ b = JobsOf(s, {k})
      OBVIOUS
    <3>2. a \subseteq b /\ b \in SUBSET (JobKind \X Index) /\ a \in SUBSET (JobKind \X Index)
      BY <1>2, <3>1 DEF JobsOf, Good, StateType
    <3>3. IsFiniteSet(b) /\ Cardinality(a) \in Nat /\ Cardinality(b) \in Nat
      BY <3>2, WorkFinite
    <3>4. Cardinality(a) <= Cardinality(b)
      BY <3>2, <3>3, FS_Subset
    <3> QED
      BY <3>1, <3>3, <3>4
  <2>2. ASSUME NEW k, NEW limit \in Nat, Cardinality(JobsOf(s, {k})) <= limit
        PROVE  Cardinality(JobsOf(r, {k})) <= limit
    BY <2>1, <2>2
  <2>3. /\ PREPARE_FRAME_LIMIT \in Nat /\ PUSH_FRAME_LIMIT \in Nat
        /\ PUSH_SHARD_LIMIT \in Nat
    BY UploadAssumption
  <2> QED
    BY <2>2, <2>3 DEF Good, Slotted
<1>12. Shards(r) = Shards(s) /\ IsFiniteSet(Shards(s)) /\ Shards(s) \subseteq Index
  BY <1>2, IndexFinite DEF Shards, SameUpload
<1>13. Stored(r)
  <2>1. PICK d \in SUBSET Index, e \in SUBSET Index :
          d = InProgress(s, COMPLETED_PUSH_SHARD) /\ e = InProgress(r, COMPLETED_PUSH_SHARD)
    BY <1>12 DEF InProgress
  <2>2. s.completed_shards = Cardinality(d)
    BY <2>1 DEF Good, Stored
  <2>3. \A j \in Index \ {i} : j \in d <=> j \in e
    BY <1>2, <1>12, <2>1 DEF InProgress
  <2>4. /\ i \in d <=> s.shard[i].progress = COMPLETED_PUSH_SHARD
        /\ i \in e <=> r.shard[i].progress = COMPLETED_PUSH_SHARD
    BY <1>1, <1>12, <2>1 DEF InProgress
  <2>5. r.completed_shards = Cardinality(e)
    <3>1. CASE i \in e /\ i \notin d
      <4>1. e = d \cup {i}
        BY <2>3, <3>1
      <4>2. Cardinality(e) = Cardinality(d) + 1
        BY <3>1, <4>1, IndexFinite, FS_AddElement
      <4> QED
        BY <2>2, <2>4, <3>1, <4>2 DEF ShardKept
    <3>2. CASE ~ (i \in e /\ i \notin d)
      <4>1. i \in d <=> i \in e
        BY <2>4, <3>2 DEF ShardKept
      <4>2. e = d
        BY <2>3, <4>1
      <4> QED
        BY <2>2, <2>4, <3>2, <4>2 DEF ShardKept
    <3> QED
      BY <3>1, <3>2
  <2>6. AllStored(s) => /\ AllStored(r)
                        /\ r.error_status = s.error_status
    <3>1. SUFFICES ASSUME AllStored(s)
                   PROVE  AllStored(r) /\ r.error_status = s.error_status
      OBVIOUS
    <3>2. i \in d /\ d = Shards(s)
      BY <1>1, <2>1, <3>1 DEF AllStored
    <3>3. r.error_status = s.error_status /\ i \in e
      BY <2>4, <3>2 DEF ShardKept
    <3>4. e = Shards(r)
      BY <1>12, <2>1, <2>3, <3>2, <3>3
    <3> QED
      BY <1>2, <2>1, <3>1, <3>3, <3>4 DEF AllStored, SameUpload
  <2>7. /\ r.completed_upload = s.completed_upload /\ r.entries = s.entries
        /\ r.creating_bucket_entry = s.creating_bucket_entry
        /\ r.canceled = s.canceled
    BY <1>2 DEF SameUpload
  <2> QED
    BY <1>4, <2>1, <2>5, <2>6, <2>7 DEF Good, Stored
<1>14. Closed(r) /\ ~ r.final_callback_called
  BY <1>1, <1>2 DEF Good, Closed, SameUpload, ShardKept
<1>15. Good(r)
  BY <1>2, <1>6, <1>7, <1>8, <1>9, <1>10, <1>11, <1>13, <1>14 DEF Good
<1>16. ASSUME NEW j \in Index
       PROVE  /\ s.shard[j].progress = COMPLETED_PUSH_SHARD
                   => r.shard[j].progress = COMPLETED_PUSH_SHARD
              /\ <<kind, i>> = <<"push_shard", j>> /\ r.error_status = "OK"
                   => \/ r.shard[j].progress = COMPLETED_PUSH_SHARD
                      \/ KeptWaiting(r.shard[j])
  BY <1>2 DEF ShardKept
<1>17. r.canceled = s.canceled /\ (~ GoesOn(s) => ~ GoesOn(r))
  BY <1>2 DEF SameUpload, GoesOn
<1> QED
  BY <1>2, <1>5, <1>14, <1>15, <1>16, <1>17 DEF Handled

(* Only the tracker of shard i is another one. *)
Retracked(s, t, i, q) ==
  /\ t \in StateType
  /\ SameUpload(s, t) /\ SamePool(s, t)
  /\ t.error_status = s.error_status
  /\ t.completed_shards = s.completed_shards
  /\ t.dequeued = s.dequeued
  /\ t.shard = [s.shard EXCEPT ![i] = q]

LEMMA RetrackedFields ==
  ASSUME NEW s \in StateType, NEW i \in Index, NEW q \in ShardType,
         NEW t, t = [s EXCEPT !.shard[i] = q]
  PROVE  Retracked(s, t, i, q)
<1>1. PICK g \in [Index -> ShardType] : g = [s.shard EXCEPT ![i] = q]
  <2>1. s.shard \in [Index -> ShardType]
    BY DEF StateType
  <2>2. [s.shard EXCEPT ![i] = q] \in [Index -> ShardType]
    BY <2>1
  <2> QED
    BY <2>2
<1>2. PICK u : u = [s EXCEPT !.shard = g]
  OBVIOUS
<1>3. u = t
  BY <1>1, <1>2
<1>4. u \in StateType
  BY <1>2, ZenonT(60) DEF StateType
<1>5. /\ u.rs = s.rs /\ u.total_data_shards = s.total_data_shards
      /\ u.total_shards = s.total_shards
      /\ u.creating_bucket_entry = s.creating_bucket_entry
      /\ u.add_bucket_entry_count = s.add_bucket_entry_count
      /\ u.completed_upload = s.completed_upload
      /\ u.canceled = s.canceled
      /\ u.final_callback_called = s.final_callback_called
      /\ u.prepared = s.prepared /\ u.entries = s.entries
      /\ u.callbacks = s.callbacks
  BY <1>2, ZenonT(60) DEF StateType
<1>6. SameChecks(s, u) /\ SameFrame(s, u)
  BY <1>2, ZenonT(60) DEF StateType, SameChecks, SameFrame
<1>7. SameEncryption(s, u) /\ SameParity(s, u)
  BY <1>2, ZenonT(60) DEF StateType, SameEncryption, SameParity
<1>8. /\ SamePool(s, u) /\ u.error_status = s.error_status /\ u.shard = g
      /\ u.completed_shards = s.completed_shards /\ u.dequeued = s.dequeued
  BY <1>2, ZenonT(60) DEF StateType, SamePool
<1> QED
  BY <1>1, <1>3, <1>4, <1>5, <1>6, <1>7, <1>8 DEF Retracked, SameUpload

(* Only counts about shards are other ones. *)
Untracked(s, t) ==
  /\ t \in StateType
  /\ SameUpload(s, t) /\ SamePool(s, t)
  /\ t.error_status = s.error_status
  /\ t.shard = s.shard

(* After Complete, one change of the tracker ends the job. *)
LEMMA RetrackedDone ==
  ASSUME NEW s, Good(s), NEW kind \in ShardJobs, NEW i \in Index, <<kind, i>> \in s.work,
         NEW t, t = Complete(s, <<kind, i>>), NEW v, Untracked(t, v),
         NEW q, NEW u, Retracked(v, u, i, q)
  PROVE  /\ ShardDone(s, kind, i, u) /\ u.shard[i] = q
         /\ u.completed_shards = v.completed_shards /\ u.dequeued = v.dequeued
         /\ u.error_status = s.error_status
<1>1. /\ t \in StateType /\ SameShards(s, t) /\ SameChecks(s, t)
      /\ SameFrame(s, t) /\ SameEncryption(s, t) /\ SameParity(s, t)
      /\ t.error_status = s.error_status
      /\ t.work = s.work \ {<<kind, i>>}
      /\ t.pending_work_count = Cardinality(t.work)
  BY CompleteFields
<1>2. v.shard = s.shard /\ s.shard \in [Index -> ShardType]
  BY <1>1 DEF Untracked, SameShards, Good, StateType
<1>3. SameUpload(s, v)
  BY <1>1
     DEF Untracked, SameUpload, SameShards, SameChecks, SameFrame, SameEncryption, SameParity
<1>4. SameUpload(s, u)
  BY <1>3 DEF Retracked, SameUpload, SameChecks, SameFrame, SameEncryption, SameParity
<1> QED
  BY <1>1, <1>2, <1>4 DEF Untracked, Retracked, ShardDone, SamePool

LEMMA UntrackedSelf ==
  ASSUME NEW s \in StateType
  PROVE  Untracked(s, s)
  BY DEF Untracked, SameUpload, SamePool, SameChecks, SameFrame, SameEncryption, SameParity

(* Two changes of the tracker are one. *)
LEMMA RetrackedTwice ==
  ASSUME NEW s \in StateType, NEW t, NEW u, NEW i \in Index, NEW p, NEW q,
         Retracked(s, t, i, p), Retracked(t, u, i, q)
  PROVE  Retracked(s, u, i, q)
<1>1. SameUpload(s, u)
  BY DEF Retracked, SameUpload, SameChecks, SameFrame, SameEncryption, SameParity
<1>2. u.shard = [s.shard EXCEPT ![i] = q]
  BY DEF Retracked, StateType
<1> QED
  BY <1>1, <1>2 DEF Retracked, SamePool

(* The job may end with an error besides. *)
LEMMA FailedDone ==
  ASSUME NEW s, NEW kind, NEW i, NEW u, ShardDone(s, kind, i, u)
  PROVE  /\ ShardDone(s, kind, i, Fail(u))
         /\ Fail(u).shard = u.shard
         /\ Fail(u).completed_shards = u.completed_shards
         /\ Fail(u).dequeued = u.dequeued
         /\ Fail(u).error_status = "FAILED"
<1>1. PICK v : v = Fail(u)
  OBVIOUS
<1>2. /\ v \in StateType /\ SameShards(u, v) /\ SameChecks(u, v)
      /\ SameFrame(u, v) /\ SameEncryption(u, v) /\ SameParity(u, v)
      /\ SamePool(u, v) /\ v.error_status = "FAILED"
  BY <1>1, FailFields DEF ShardDone
<1>3. SameUpload(s, v)
  BY <1>2
     DEF ShardDone, SameUpload, SameShards, SameChecks, SameFrame, SameEncryption, SameParity
<1> QED
  BY <1>1, <1>2, <1>3 DEF ShardDone, SameShards, SamePool

(* Complete alone leaves the tracker as it is. *)
LEMMA CompleteDone ==
  ASSUME NEW s, Good(s), NEW kind \in ShardJobs, NEW i \in Index, <<kind, i>> \in s.work,
         NEW t, t = Complete(s, <<kind, i>>)
  PROVE  /\ ShardDone(s, kind, i, t) /\ t.shard = s.shard
         /\ t.completed_shards = s.completed_shards /\ t.dequeued = s.dequeued
         /\ t.error_status = s.error_status
<1>1. /\ t \in StateType /\ SameShards(s, t) /\ SameChecks(s, t)
      /\ SameFrame(s, t) /\ SameEncryption(s, t) /\ SameParity(s, t)
      /\ t.error_status = s.error_status
      /\ t.work = s.work \ {<<kind, i>>}
      /\ t.pending_work_count = Cardinality(t.work)
  BY CompleteFields
<1> QED
  BY <1>1 DEF ShardDone, SameUpload, SameShards

(* The outcomes of after_prepare_frame. *)
LEMMA after_prepare_frameHandles ==
  ASSUME Good(state), NEW i \in Index, after_prepare_frame(i)
  PROVE  Handles(<<"prepare_frame", i>>)
<1>1. PICK kind \in ShardJobs : kind = "prepare_frame" /\ <<kind, i>> \in state.work
  BY DEF after_prepare_frame, Outstanding, ShardJobs
<1>2. PICK p \in ShardType : p = state.shard[i]
  BY <1>1, ShardAtWork
<1>3. /\ Owns(state, i, p) /\ i \in Shards(state) /\ p.progress = PREPARING_FRAME
      /\ ~ (i >= state.total_shards)
  BY <1>1, <1>2, ShardAtWork DEF Owns
<1>4. PICK t : t = Complete(state, <<kind, i>>)
  OBVIOUS
<1>5. /\ ShardDone(state, kind, i, t) /\ t.shard[i] = p
      /\ t.completed_shards = state.completed_shards /\ t.dequeued = state.dequeued
      /\ t.error_status = state.error_status
  BY <1>1, <1>2, <1>4, CompleteDone
<1>6. PICK q : q = Moved(p, AWAITING_PUSH_FRAME)
  OBVIOUS
<1>7. /\ q \in ShardType /\ q.progress = AWAITING_PUSH_FRAME
      /\ q.push_frame_request_count = p.push_frame_request_count
      /\ q.push_shard_request_count = p.push_shard_request_count
      /\ q.send_status = p.send_status
      /\ q.send_count = p.send_count
  BY <1>6, MovedShard
<1>8. PICK u : u = [t EXCEPT !.shard[i] = q]
  OBVIOUS
<1>9. /\ ShardDone(state, kind, i, u) /\ u.shard[i] = q
      /\ u.completed_shards = state.completed_shards /\ u.dequeued = state.dequeued
      /\ u.error_status = state.error_status
  <2>1. Retracked(t, u, i, q)
    BY <1>5, <1>7, <1>8, RetrackedFields DEF ShardDone
  <2>2. Untracked(t, t)
    BY <1>5, UntrackedSelf DEF ShardDone
  <2>3. u.completed_shards = t.completed_shards /\ u.dequeued = t.dequeued
    BY <2>1 DEF Retracked
  <2> QED
    BY <1>1, <1>4, <1>5, <2>1, <2>2, <2>3, RetrackedDone
<1>10. ASSUME NEW r, ShardDone(state, kind, i, r)
       PROVE  /\ \A k : <<k, i>> \in r.work
                          <=> <<k, i>> \in state.work /\ k # "prepare_frame"
              /\ r.total_shards = state.total_shards
              /\ r.error_status = "OK" => state.error_status = "OK"
  BY <1>1, <1>10 DEF ShardDone, SameUpload
<1>11. Handled(state, <<kind, i>>, u)
  <2>1. Owns(u, i, q)
    BY <1>3, <1>7, <1>9, <1>10 DEF Owns
  <2>2. ShardKept(state, kind, i, u)
    BY <1>1, <1>2, <1>3, <1>7, <1>9, <2>1 DEF ShardKept
  <2> QED
    BY <1>1, <1>9, <2>2, ShardHandled
<1>12. Handled(state, <<kind, i>>, Fail(t))
  <2>1. PICK v : v = Fail(t)
    OBVIOUS
  <2>2. /\ ShardDone(state, kind, i, v) /\ v.shard[i] = p /\ v.error_status = "FAILED"
        /\ v.completed_shards = state.completed_shards /\ v.dequeued = state.dequeued
    BY <1>5, <2>1, FailedDone
  <2>3. Owns(v, i, p)
    BY <1>3, <1>10, <2>2 DEF Owns
  <2>4. ShardKept(state, kind, i, v)
    BY <1>1, <1>2, <1>3, <2>2, <2>3 DEF ShardKept
  <2> QED
    BY <1>1, <2>1, <2>2, <2>4, ShardHandled
<1>13. Step(u) \/ Step(Fail(t))
  <2>1. u = [t EXCEPT !.shard[i] = Moved(@, AWAITING_PUSH_FRAME)]
    BY <1>5, <1>6, <1>8
  <2> QED
    BY <1>1, <1>4, <2>1 DEF after_prepare_frame
<1> QED
  BY <1>1, <1>11, <1>12, <1>13 DEF Handles

(* The tracker after another attempt at a contract. *)
LEMMA CountedTracker ==
  ASSUME NEW p \in ShardType, NEW n \in Nat,
         NEW q, q = [p EXCEPT !.push_frame_request_count = n]
  PROVE  /\ q \in ShardType
         /\ q.progress = p.progress
         /\ q.push_frame_request_count = n
         /\ q.push_shard_request_count = p.push_shard_request_count
         /\ q.send_status = p.send_status
         /\ q.send_count = p.send_count
  BY Zenon DEF ShardType

LEMMA ContractedTracker ==
  ASSUME NEW p \in ShardType
  PROVE  LET q == Contracted(p) IN
         /\ q \in ShardType
         /\ q.progress = AWAITING_PUSH_SHARD
         /\ q.push_frame_request_count = 0
         /\ q.push_shard_request_count = p.push_shard_request_count
         /\ q.send_status = p.send_status
         /\ q.send_count = p.send_count
<1>1. PICK progress \in 1..7, count \in Nat :
        progress = AWAITING_PUSH_SHARD /\ count = 0
  OBVIOUS
<1>2. PICK q : q = [p EXCEPT !.progress = progress, !.push_frame_request_count = count]
  OBVIOUS
<1>3. q = Contracted(p)
  BY <1>1, <1>2 DEF Contracted
<1>4. /\ q \in ShardType
      /\ q.progress = progress
      /\ q.push_frame_request_count = count
      /\ q.push_shard_request_count = p.push_shard_request_count
      /\ q.send_status = p.send_status
      /\ q.send_count = p.send_count
  BY <1>2, Zenon DEF ShardType
<1> QED
  BY <1>1, <1>3, <1>4

LEMMA after_push_frameHandles ==
  ASSUME Good(state), NEW i \in Index, after_push_frame(i)
  PROVE  Handles(<<"push_frame", i>>)
<1>1. PICK kind \in ShardJobs : kind = "push_frame" /\ <<kind, i>> \in state.work
  BY DEF after_push_frame, Outstanding, ShardJobs
<1>2. PICK p \in ShardType : p = state.shard[i]
  BY <1>1, ShardAtWork
<1>3. /\ Owns(state, i, p) /\ p.progress = PUSHING_FRAME
      /\ p.send_status = STORJ_REPORT_NOT_PREPARED
      /\ p.push_frame_request_count < STORJ_MAX_PUSH_FRAME_COUNT
      /\ ~ (i >= state.total_shards)
  BY <1>1, <1>2, ShardAtWork DEF Owns
<1>4. PICK n \in Nat : /\ n = p.push_frame_request_count + 1
                       /\ n <= STORJ_MAX_PUSH_FRAME_COUNT
  <2>1. p.push_frame_request_count \in Nat /\ STORJ_MAX_PUSH_FRAME_COUNT \in Nat
    BY UploadAssumption DEF ShardType
  <2> QED
    BY <1>3, <2>1
<1>5. PICK t : t = Complete(state, <<kind, i>>)
  OBVIOUS
<1>6. /\ ShardDone(state, kind, i, t) /\ t.shard = state.shard
      /\ t.completed_shards = state.completed_shards /\ t.dequeued = state.dequeued
      /\ t.error_status = state.error_status
      /\ t \in StateType /\ Untracked(t, t)
  BY <1>1, <1>5, CompleteDone, UntrackedSelf DEF ShardDone
<1>7. PICK q : q = [p EXCEPT !.push_frame_request_count = n]
  OBVIOUS
<1>8. /\ q \in ShardType
      /\ q.progress = p.progress /\ q.push_frame_request_count = n
      /\ q.push_shard_request_count = p.push_shard_request_count
      /\ q.send_status = p.send_status /\ q.send_count = p.send_count
  BY <1>7, CountedTracker
<1>9. PICK s : s = [t EXCEPT !.shard[i] = q]
  OBVIOUS
<1>10. Retracked(t, s, i, q) /\ s \in StateType
  <2>1. Retracked(t, s, i, q)
    BY <1>6, <1>8, <1>9, RetrackedFields
  <2> QED
    BY <2>1 DEF Retracked
<1>11. /\ ShardDone(state, kind, i, s) /\ s.shard[i] = q
       /\ s.completed_shards = state.completed_shards /\ s.dequeued = state.dequeued
  BY <1>1, <1>5, <1>6, <1>10, RetrackedDone
<1>12. ASSUME NEW r, ShardDone(state, kind, i, r)
       PROVE  /\ \A k : <<k, i>> \in r.work
                          <=> <<k, i>> \in state.work /\ k # "push_frame"
              /\ r.total_shards = state.total_shards
              /\ r.error_status = "OK" => state.error_status = "OK"
  BY <1>1, <1>12 DEF ShardDone, SameUpload
<1>13. ASSUME NEW x \in ShardType,
              x.progress = AWAITING_PUSH_SHARD \/ x.progress = AWAITING_PUSH_FRAME,
              x.push_frame_request_count < STORJ_MAX_PUSH_FRAME_COUNT,
              x.push_frame_request_count <= STORJ_MAX_PUSH_FRAME_COUNT,
              x.push_shard_request_count = p.push_shard_request_count,
              x.send_status = p.send_status, x.send_count = p.send_count,
              NEW u, u = [s EXCEPT !.shard[i] = x]
       PROVE  Handled(state, <<kind, i>>, u)
  <2>1. Retracked(s, u, i, x)
    BY <1>10, <1>13, RetrackedFields
  <2>2. Retracked(t, u, i, x)
    BY <1>6, <1>10, <2>1, RetrackedTwice
  <2>3. /\ ShardDone(state, kind, i, u) /\ u.shard[i] = x
        /\ u.completed_shards = state.completed_shards /\ u.dequeued = state.dequeued
        /\ u.error_status = state.error_status
    BY <1>1, <1>5, <1>6, <2>2, RetrackedDone
  <2>4. Owns(u, i, x)
    <3>1. /\ u.total_shards = state.total_shards
          /\ <<"prepare_frame", i>> \notin u.work /\ <<"push_frame", i>> \notin u.work
          /\ <<"push_shard", i>> \notin u.work /\ <<"report", i>> \notin u.work
      BY <1>3, <1>12, <2>3 DEF Owns
    <3> QED
      BY <1>3, <1>13, <3>1 DEF Owns
  <2>5. ShardKept(state, kind, i, u)
    BY <1>1, <1>2, <1>3, <1>13, <2>3, <2>4 DEF ShardKept
  <2> QED
    BY <1>1, <2>3, <2>5, ShardHandled
<1>14. Handled(state, <<kind, i>>, [s EXCEPT !.shard[i] = Contracted(q)])
  <2>1. 0 < STORJ_MAX_PUSH_FRAME_COUNT /\ 0 <= STORJ_MAX_PUSH_FRAME_COUNT
    BY UploadAssumption
  <2> QED
    BY <1>8, <1>13, <2>1, ContractedTracker
<1>15. ASSUME n # STORJ_MAX_PUSH_FRAME_COUNT
       PROVE  Handled(state, <<kind, i>>, [s EXCEPT !.shard[i] = Moved(q, AWAITING_PUSH_FRAME)])
  <2>1. n < STORJ_MAX_PUSH_FRAME_COUNT
    BY <1>4, <1>15, UploadAssumption
  <2>2. PICK x : x = Moved(q, AWAITING_PUSH_FRAME)
    OBVIOUS
  <2>3. /\ x \in ShardType /\ x.progress = AWAITING_PUSH_FRAME
        /\ x.push_frame_request_count = n
        /\ x.push_shard_request_count = p.push_shard_request_count
        /\ x.send_status = p.send_status /\ x.send_count = p.send_count
    BY <1>8, <2>2, MovedShard
  <2> QED
    BY <1>4, <1>13, <2>1, <2>2, <2>3
<1>16. Handled(state, <<kind, i>>, Fail(s))
  <2>1. PICK v : v = Fail(s)
    OBVIOUS
  <2>2. /\ ShardDone(state, kind, i, v) /\ v.shard[i] = q /\ v.error_status = "FAILED"
        /\ v.completed_shards = state.completed_shards /\ v.dequeued = state.dequeued
    BY <1>11, <2>1, FailedDone
  <2>3. Owns(v, i, q)
    BY <1>3, <1>4, <1>8, <1>12, <2>2 DEF Owns
  <2>4. ShardKept(state, kind, i, v)
    BY <1>1, <1>2, <1>3, <1>8, <2>2, <2>3 DEF ShardKept
  <2> QED
    BY <1>1, <2>1, <2>2, <2>4, ShardHandled
<1>17. \/ Step([s EXCEPT !.shard[i] = Contracted(q)])
       \/ Step(IF n = STORJ_MAX_PUSH_FRAME_COUNT THEN Fail(s)
               ELSE [s EXCEPT !.shard[i] = Moved(q, AWAITING_PUSH_FRAME)])
       \/ Step(Fail(s))
  <2>1. s = [Complete(state, <<kind, i>>) EXCEPT !.shard[i].push_frame_request_count = @ + 1]
    BY <1>2, <1>4, <1>5, <1>6, <1>7, <1>9
  <2>2. /\ Step([s EXCEPT !.shard[i] = Contracted(@)])
           \/ Step(ContractRefused(s, i)) \/ Step(Fail(s))
    BY <1>1, <2>1 DEF after_push_frame
  <2>3. /\ [s EXCEPT !.shard[i] = Contracted(@)] = [s EXCEPT !.shard[i] = Contracted(q)]
        /\ [s EXCEPT !.shard[i] = Moved(@, AWAITING_PUSH_FRAME)]
             = [s EXCEPT !.shard[i] = Moved(q, AWAITING_PUSH_FRAME)]
    BY <1>11
  <2>4. s.shard[i].push_frame_request_count = n
    BY <1>8, <1>11
  <2> QED
    BY <2>2, <2>3, <2>4 DEF ContractRefused
<1> QED
  BY <1>1, <1>14, <1>15, <1>16, <1>17 DEF Handles

LEMMA UnreportedTracker ==
  ASSUME NEW p \in ShardType, NEW status \in 0..2, NEW q, q = [p EXCEPT !.send_status = status]
  PROVE  /\ q \in ShardType
         /\ q.progress = p.progress
         /\ q.push_frame_request_count = p.push_frame_request_count
         /\ q.push_shard_request_count = p.push_shard_request_count
         /\ q.send_status = status
         /\ q.send_count = p.send_count
  BY Zenon DEF ShardType

LEMMA DequeuedFields ==
  ASSUME NEW s \in StateType, NEW d \in SUBSET Index, NEW t, t = [s EXCEPT !.dequeued = d]
  PROVE  /\ Untracked(s, t) /\ t.dequeued = d
         /\ t.completed_shards = s.completed_shards
<1>1. PICK u : u = [s EXCEPT !.dequeued = d]
  OBVIOUS
<1>2. u \in StateType
  BY <1>1, ZenonT(60) DEF StateType
<1>3. /\ u.rs = s.rs /\ u.total_data_shards = s.total_data_shards
      /\ u.total_shards = s.total_shards
      /\ u.creating_bucket_entry = s.creating_bucket_entry
      /\ u.add_bucket_entry_count = s.add_bucket_entry_count
      /\ u.completed_upload = s.completed_upload
      /\ u.canceled = s.canceled
      /\ u.final_callback_called = s.final_callback_called
      /\ u.prepared = s.prepared /\ u.entries = s.entries
      /\ u.callbacks = s.callbacks
  BY <1>1, ZenonT(60) DEF StateType
<1>4. SameChecks(s, u) /\ SameFrame(s, u)
  BY <1>1, ZenonT(60) DEF StateType, SameChecks, SameFrame
<1>5. SameEncryption(s, u) /\ SameParity(s, u)
  BY <1>1, ZenonT(60) DEF StateType, SameEncryption, SameParity
<1>6. /\ SamePool(s, u) /\ u.error_status = s.error_status /\ u.shard = s.shard
      /\ u.dequeued = d /\ u.completed_shards = s.completed_shards
  BY <1>1, ZenonT(60) DEF StateType, SamePool
<1> QED
  BY <1>1, <1>2, <1>3, <1>4, <1>5, <1>6 DEF Untracked, SameUpload

LEMMA CompletedFields ==
  ASSUME NEW s \in StateType, NEW c \in Nat, NEW t, t = [s EXCEPT !.completed_shards = c]
  PROVE  /\ Untracked(s, t) /\ t.dequeued = s.dequeued
         /\ t.completed_shards = c
<1>1. PICK u : u = [s EXCEPT !.completed_shards = c]
  OBVIOUS
<1>2. u \in StateType
  BY <1>1, ZenonT(60) DEF StateType
<1>3. /\ u.rs = s.rs /\ u.total_data_shards = s.total_data_shards
      /\ u.total_shards = s.total_shards
      /\ u.creating_bucket_entry = s.creating_bucket_entry
      /\ u.add_bucket_entry_count = s.add_bucket_entry_count
      /\ u.completed_upload = s.completed_upload
      /\ u.canceled = s.canceled
      /\ u.final_callback_called = s.final_callback_called
      /\ u.prepared = s.prepared /\ u.entries = s.entries
      /\ u.callbacks = s.callbacks
  BY <1>1, ZenonT(60) DEF StateType
<1>4. SameChecks(s, u) /\ SameFrame(s, u)
  BY <1>1, ZenonT(60) DEF StateType, SameChecks, SameFrame
<1>5. SameEncryption(s, u) /\ SameParity(s, u)
  BY <1>1, ZenonT(60) DEF StateType, SameEncryption, SameParity
<1>6. /\ SamePool(s, u) /\ u.error_status = s.error_status /\ u.shard = s.shard
      /\ u.dequeued = s.dequeued /\ u.completed_shards = c
  BY <1>1, ZenonT(60) DEF StateType, SamePool
<1> QED
  BY <1>1, <1>2, <1>3, <1>4, <1>5, <1>6 DEF Untracked, SameUpload

(* What after_push_shard makes of the tracker p of a push that is over. *)
Pushed(p, x) ==
  /\ x \in ShardType
  /\ x.progress = AWAITING_PUSH_FRAME \/ x.progress = COMPLETED_PUSH_SHARD
  /\ x.push_frame_request_count = p.push_frame_request_count
  /\ x.push_shard_request_count <= MaxPushRetries
  /\ x.send_status = STORJ_REPORT_NOT_PREPARED \/ x.send_status = STORJ_REPORT_AWAITING_SEND
  /\ x.send_count = p.send_count

LEMMA PushHandled ==
  ASSUME Good(state), NEW kind \in ShardJobs, kind = "push_shard",
         NEW i \in Index, <<kind, i>> \in state.work,
         NEW t, t = Complete(state, <<kind, i>>),
         NEW v, Untracked(t, v), v.dequeued \subseteq state.dequeued,
         NEW x, Pushed(state.shard[i], x),
         x.progress = COMPLETED_PUSH_SHARD \/ KeptWaiting(x) \/ state.error_status # "OK",
         v.completed_shards = IF x.progress = COMPLETED_PUSH_SHARD
                              THEN state.completed_shards + 1 ELSE state.completed_shards,
         NEW u, Retracked(v, u, i, x)
  PROVE  Handled(state, <<kind, i>>, u)
<1>1. PICK p \in ShardType : p = state.shard[i]
  BY ShardAtWork
<1>2. /\ Owns(state, i, p) /\ p.progress = PUSHING_SHARD
      /\ p.send_status = STORJ_REPORT_NOT_PREPARED /\ p.send_count = 0
      /\ ~ (i >= state.total_shards)
  BY <1>1, ShardAtWork DEF Owns
<1>3. /\ ShardDone(state, kind, i, u) /\ u.shard[i] = x
      /\ u.completed_shards = v.completed_shards /\ u.dequeued = v.dequeued
      /\ u.error_status = state.error_status
  BY RetrackedDone
<1>4. Owns(u, i, x)
  <2>1. /\ u.total_shards = state.total_shards
        /\ <<"prepare_frame", i>> \notin u.work /\ <<"push_frame", i>> \notin u.work
        /\ <<"push_shard", i>> \notin u.work /\ <<"report", i>> \notin u.work
    BY <1>2, <1>3 DEF Owns, ShardDone, SameUpload
  <2>2. 0 < MaxReportTries /\ 0 <= MaxReportTries
    BY UploadAssumption
  <2> QED
    BY <1>1, <1>2, <1>3, <2>1, <2>2 DEF Owns, Pushed
<1>5. ShardKept(state, kind, i, u)
  BY <1>1, <1>2, <1>3, <1>4 DEF ShardKept
<1> QED
  BY <1>3, <1>5, ShardHandled

LEMMA after_push_shardHandles ==
  ASSUME Good(state), NEW i \in Index, after_push_shard(i)
  PROVE  Handles(<<"push_shard", i>>)
<1>1. PICK kind \in ShardJobs : kind = "push_shard" /\ <<kind, i>> \in state.work
  BY DEF after_push_shard, Outstanding, ShardJobs
<1>2. PICK p \in ShardType : p = state.shard[i]
  BY <1>1, ShardAtWork
<1>3. /\ Owns(state, i, p) /\ p.progress = PUSHING_SHARD
      /\ p.send_status = STORJ_REPORT_NOT_PREPARED /\ p.send_count = 0
      /\ ~ (i >= state.total_shards)
      /\ p.push_shard_request_count <= MaxPushRetries
  BY <1>1, <1>2, ShardAtWork DEF Owns
<1>4. PICK t : t = Complete(state, <<kind, i>>)
  OBVIOUS
<1>5. /\ ShardDone(state, kind, i, t) /\ t.shard = state.shard
      /\ t.completed_shards = state.completed_shards /\ t.dequeued = state.dequeued
      /\ t.error_status = state.error_status
      /\ t \in StateType /\ Untracked(t, t)
      /\ t.canceled = state.canceled
  BY <1>1, <1>4, CompleteDone, UntrackedSelf DEF ShardDone, SameUpload
<1>6. ASSUME NEW r, ShardDone(state, kind, i, r)
      PROVE  /\ \A k : <<k, i>> \in r.work
                         <=> <<k, i>> \in state.work /\ k # "push_shard"
             /\ r.total_shards = state.total_shards
             /\ r.error_status = "OK" => state.error_status = "OK"
  BY <1>1, <1>6 DEF ShardDone, SameUpload
<1>7. state.canceled \/ state.dequeued # {} => state.error_status # "OK"
  BY DEF Good, Closed
<1>8. MaxPushRetries \in Nat /\ 0 <= MaxPushRetries
  BY UploadAssumption
<1>9. ASSUME i \in state.dequeued
      PROVE  Handled(state, <<kind, i>>, PushDequeued(t, i))
  <2>1. PICK d \in SUBSET Index : d = t.dequeued \ {i}
    BY <1>5 DEF StateType
  <2>2. PICK v : v = [t EXCEPT !.dequeued = d]
    OBVIOUS
  <2>3. /\ Untracked(t, v) /\ v.dequeued = d
        /\ v.completed_shards = t.completed_shards
    BY <1>5, <2>2, DequeuedFields
  <2>4. PICK count \in Nat, progress \in 1..7, status \in 0..2 :
          count = 0 /\ progress = AWAITING_PUSH_FRAME /\ status = STORJ_REPORT_NOT_PREPARED
    OBVIOUS
  <2>5. PICK x : x = [p EXCEPT !.push_shard_request_count = count,
                              !.progress = progress, !.send_status = status]
    OBVIOUS
  <2>6. Pushed(p, x) /\ x.progress # COMPLETED_PUSH_SHARD
    <3>1. /\ x \in ShardType
          /\ x.progress = progress
          /\ x.push_frame_request_count = p.push_frame_request_count
          /\ x.push_shard_request_count = count
          /\ x.send_status = status
          /\ x.send_count = p.send_count
      BY <2>5, Zenon DEF ShardType
    <3> QED
      BY <1>8, <2>4, <3>1 DEF Pushed
  <2>7. PICK u : u = [v EXCEPT !.shard[i] = x]
    OBVIOUS
  <2>8. Handled(state, <<kind, i>>, u)
    <3>1. Retracked(v, u, i, x)
      BY <2>3, <2>6, <2>7, RetrackedFields DEF Untracked, Pushed
    <3> QED
      BY <1>1, <1>2, <1>4, <1>5, <1>7, <1>9, <2>1, <2>3, <2>6, <3>1, PushHandled
  <2>9. u = PushDequeued(t, i)
    <3>1. v.shard = t.shard
      BY <2>3 DEF Untracked
    <3> QED
      BY <1>2, <1>5, <2>1, <2>2, <2>4, <2>5, <2>7, <3>1 DEF PushDequeued
  <2> QED
    BY <1>1, <2>8, <2>9
<1>10. Handled(state, <<kind, i>>, PushStored(t, i))
  <2>1. PICK c \in Nat : c = t.completed_shards + 1
    BY <1>5 DEF StateType
  <2>2. PICK v : v = [t EXCEPT !.completed_shards = c]
    OBVIOUS
  <2>3. /\ Untracked(t, v) /\ v.dequeued = t.dequeued
        /\ v.completed_shards = c
    BY <1>5, <2>2, CompletedFields
  <2>4. PICK count \in Nat, progress \in 1..7, status \in 0..2 :
          count = 0 /\ progress = COMPLETED_PUSH_SHARD /\ status = STORJ_REPORT_AWAITING_SEND
    OBVIOUS
  <2>5. PICK x : x = [p EXCEPT !.push_shard_request_count = count,
                              !.progress = progress, !.send_status = status]
    OBVIOUS
  <2>6. Pushed(p, x) /\ x.progress = COMPLETED_PUSH_SHARD
    <3>1. /\ x \in ShardType
          /\ x.progress = progress
          /\ x.push_frame_request_count = p.push_frame_request_count
          /\ x.push_shard_request_count = count
          /\ x.send_status = status
          /\ x.send_count = p.send_count
      BY <2>5, Zenon DEF ShardType
    <3> QED
      BY <1>8, <2>4, <3>1 DEF Pushed
  <2>7. PICK u : u = [v EXCEPT !.shard[i] = x]
    OBVIOUS
  <2>8. Handled(state, <<kind, i>>, u)
    <3>1. Retracked(v, u, i, x)
      BY <2>3, <2>6, <2>7, RetrackedFields DEF Untracked, Pushed
    <3> QED
      BY <1>1, <1>2, <1>4, <1>5, <2>1, <2>3, <2>6, <3>1, PushHandled
  <2>9. u = PushStored(t, i)
    <3>1. v.shard = t.shard
      BY <2>3 DEF Untracked
    <3> QED
      BY <1>2, <1>5, <2>1, <2>2, <2>4, <2>5, <2>7, <3>1 DEF PushStored
  <2> QED
    BY <1>1, <2>8, <2>9
<1>11. ASSUME state.canceled
       PROVE  Handled(state, <<kind, i>>, t)
  <2>1. Owns(t, i, p)
    BY <1>3, <1>5, <1>6, <1>7, <1>11 DEF Owns
  <2>2. ShardKept(state, kind, i, t)
    BY <1>1, <1>2, <1>3, <1>5, <1>7, <1>11, <2>1 DEF ShardKept
  <2> QED
    BY <1>1, <1>5, <2>2, ShardHandled
<1>12. Handled(state, <<kind, i>>, PushFailed(t, i))
  <2>1. PICK status \in 0..2, progress \in 1..7 :
          status = STORJ_REPORT_AWAITING_SEND /\ progress = AWAITING_PUSH_FRAME
    OBVIOUS
  <2>2. PICK q : q = [p EXCEPT !.send_status = status]
    OBVIOUS
  <2>3. /\ q \in ShardType
        /\ q.progress = p.progress
        /\ q.push_frame_request_count = p.push_frame_request_count
        /\ q.push_shard_request_count = p.push_shard_request_count
        /\ q.send_status = status
        /\ q.send_count = p.send_count
    BY <2>2, UnreportedTracker
  <2>4. PICK s : s = [t EXCEPT !.shard[i] = q]
    OBVIOUS
  <2>5. Retracked(t, s, i, q)
    BY <1>5, <2>3, <2>4, RetrackedFields
  <2>6. /\ ShardDone(state, kind, i, s) /\ s.shard[i] = q
        /\ s.completed_shards = state.completed_shards /\ s.dequeued = state.dequeued
    BY <1>1, <1>4, <1>5, <2>5, RetrackedDone
  <2>7. s = [t EXCEPT !.shard[i].send_status = STORJ_REPORT_AWAITING_SEND]
    BY <1>2, <1>5, <2>1, <2>2, <2>4
  <2>8. t.shard[i] = p
    BY <1>2, <1>5
  <2>9. CASE p.push_shard_request_count = MaxPushRetries
    <3>1. PICK r : r = Fail(s)
      OBVIOUS
    <3>2. r = PushFailed(t, i)
      BY <2>7, <2>8, <2>9, <3>1 DEF PushFailed
    <3>3. /\ ShardDone(state, kind, i, r) /\ r.shard[i] = q /\ r.error_status = "FAILED"
          /\ r.completed_shards = state.completed_shards /\ r.dequeued = state.dequeued
      BY <2>6, <3>1, FailedDone
    <3>4. Owns(r, i, q)
      <4>1. 0 < MaxReportTries /\ 0 <= MaxReportTries
        BY UploadAssumption
      <4>2. /\ r.total_shards = state.total_shards
            /\ <<"prepare_frame", i>> \notin r.work /\ <<"push_frame", i>> \notin r.work
            /\ <<"push_shard", i>> \notin r.work /\ <<"report", i>> \notin r.work
        BY <1>3, <1>6, <3>3 DEF Owns
      <4> QED
        BY <1>3, <2>1, <2>3, <3>3, <4>1, <4>2 DEF Owns
    <3>5. ShardKept(state, kind, i, r)
      BY <1>1, <1>2, <1>3, <2>3, <3>3, <3>4 DEF ShardKept
    <3> QED
      BY <1>1, <3>2, <3>3, <3>5, ShardHandled
  <2>10. CASE p.push_shard_request_count # MaxPushRetries
    <3>1. PICK count \in Nat : /\ count = p.push_shard_request_count + 1
                               /\ count <= MaxPushRetries
      <4>1. p.push_shard_request_count \in Nat
        BY DEF ShardType
      <4> QED
        BY <1>3, <1>8, <2>10, <4>1
    <3>2. PICK x : x = [q EXCEPT !.progress = progress, !.push_shard_request_count = count]
      OBVIOUS
    <3>3. Pushed(p, x) /\ KeptWaiting(x) /\ x.progress # COMPLETED_PUSH_SHARD
      <4>1. /\ x \in ShardType
            /\ x.progress = progress
            /\ x.push_frame_request_count = q.push_frame_request_count
            /\ x.push_shard_request_count = count
            /\ x.send_status = q.send_status
            /\ x.send_count = q.send_count
        BY <2>3, <3>2, Zenon DEF ShardType
      <4> QED
        BY <2>1, <2>3, <3>1, <4>1 DEF Pushed, KeptWaiting
    <3>4. PICK u : u = [t EXCEPT !.shard[i] = x]
      OBVIOUS
    <3>5. Handled(state, <<kind, i>>, u)
      <4>1. Retracked(t, u, i, x)
        BY <1>5, <3>3, <3>4, RetrackedFields DEF Pushed
      <4> QED
        BY <1>1, <1>2, <1>4, <1>5, <3>3, <4>1, PushHandled
    <3>6. u = [s EXCEPT !.shard[i] = x]
      BY <1>5, <2>4, <3>4 DEF StateType
    <3>7. x = AnotherContract(q)
      BY <2>1, <2>3, <3>1, <3>2 DEF AnotherContract
    <3>8. u = [s EXCEPT !.shard[i] = AnotherContract(@)]
      BY <2>6, <3>6, <3>7
    <3>9. u = PushFailed(t, i)
      BY <2>7, <2>8, <2>10, <3>8 DEF PushFailed
    <3> QED
      BY <1>1, <3>5, <3>9
  <2> QED
    BY <2>9, <2>10
<1>13. IF i \in state.dequeued
       THEN Step(PushDequeued(t, i))
       ELSE Step(PushStored(t, i)) \/ Step(IF t.canceled THEN t ELSE PushFailed(t, i))
  BY <1>1, <1>4 DEF after_push_shard
<1> QED
  BY <1>1, <1>5, <1>9, <1>10, <1>11, <1>12, <1>13 DEF Handles

LEMMA ReportedTracker ==
  ASSUME NEW p \in ShardType, NEW n \in Nat, n = p.send_count + 1, NEW accepted \in BOOLEAN
  PROVE  LET q == Reported(p, accepted) IN
         /\ q \in ShardType
         /\ q.progress = p.progress
         /\ q.push_frame_request_count = p.push_frame_request_count
         /\ q.push_shard_request_count = p.push_shard_request_count
         /\ q.send_status = IF accepted \/ n = MaxReportTries
                            THEN STORJ_REPORT_NOT_PREPARED ELSE STORJ_REPORT_AWAITING_SEND
         /\ q.send_count = n
<1>1. PICK status \in 0..2 :
        status = IF accepted \/ n = MaxReportTries
                 THEN STORJ_REPORT_NOT_PREPARED ELSE STORJ_REPORT_AWAITING_SEND
  OBVIOUS
<1>2. PICK q : q = [p EXCEPT !.send_count = n, !.send_status = status]
  OBVIOUS
<1>3. q = Reported(p, accepted)
  BY <1>1, <1>2 DEF Reported
<1>4. /\ q \in ShardType
      /\ q.progress = p.progress
      /\ q.push_frame_request_count = p.push_frame_request_count
      /\ q.push_shard_request_count = p.push_shard_request_count
      /\ q.send_status = status
      /\ q.send_count = n
  BY <1>2, Zenon DEF ShardType
<1> QED
  BY <1>1, <1>3, <1>4

LEMMA after_send_exchange_reportHandles ==
  ASSUME Good(state), NEW i \in Index, after_send_exchange_report(i)
  PROVE  Handles(<<"report", i>>)
<1>1. PICK kind \in ShardJobs : kind = "report" /\ <<kind, i>> \in state.work
  BY DEF after_send_exchange_report, Outstanding, ShardJobs
<1>2. PICK p \in ShardType : p = state.shard[i]
  BY <1>1, ShardAtWork
<1>3. /\ Owns(state, i, p) /\ p.send_status = STORJ_REPORT_SENDING
      /\ p.send_count < MaxReportTries
      /\ ~ (i >= state.total_shards)
  BY <1>1, <1>2, ShardAtWork DEF Owns
<1>4. PICK n \in Nat : n = p.send_count + 1 /\ n <= MaxReportTries
  <2>1. p.send_count \in Nat /\ MaxReportTries \in Nat
    BY UploadAssumption DEF ShardType
  <2> QED
    BY <1>3, <2>1
<1>5. PICK t : t = Complete(state, <<kind, i>>)
  OBVIOUS
<1>6. /\ t.shard = state.shard
      /\ t.completed_shards = state.completed_shards /\ t.dequeued = state.dequeued
      /\ t \in StateType /\ Untracked(t, t)
  BY <1>1, <1>5, CompleteDone, UntrackedSelf DEF ShardDone
<1>7. PICK accepted \in BOOLEAN :
        Step([t EXCEPT !.shard[i] = Reported(@, accepted)])
  BY <1>1, <1>5 DEF after_send_exchange_report
<1>8. PICK q : q = Reported(p, accepted)
  OBVIOUS
<1>9. /\ q \in ShardType /\ q.progress = p.progress
      /\ q.push_frame_request_count = p.push_frame_request_count
      /\ q.push_shard_request_count = p.push_shard_request_count
      /\ q.send_status = IF accepted \/ n = MaxReportTries
                         THEN STORJ_REPORT_NOT_PREPARED ELSE STORJ_REPORT_AWAITING_SEND
      /\ q.send_count = n
  BY <1>4, <1>8, ReportedTracker
<1>10. PICK u : u = [t EXCEPT !.shard[i] = q]
  OBVIOUS
<1>11. Retracked(t, u, i, q)
  BY <1>6, <1>9, <1>10, RetrackedFields
<1>12. /\ ShardDone(state, kind, i, u) /\ u.shard[i] = q
       /\ u.completed_shards = state.completed_shards /\ u.dequeued = state.dequeued
       /\ u.error_status = state.error_status
  BY <1>1, <1>5, <1>6, <1>11, RetrackedDone
<1>13. Owns(u, i, q)
  <2>1. /\ u.total_shards = state.total_shards
        /\ \A k : <<k, i>> \in u.work <=> <<k, i>> \in state.work /\ k # "report"
    BY <1>1, <1>12 DEF ShardDone, SameUpload
  <2>2. <<"push_frame", i>> \notin u.work /\ <<"push_shard", i>> \notin u.work
    BY <1>3, <2>1 DEF Owns
  <2>3. n # MaxReportTries => n < MaxReportTries
    BY <1>4, UploadAssumption
  <2> QED
    BY <1>3, <1>4, <1>9, <1>12, <2>1, <2>2, <2>3 DEF Owns
<1>14. ShardKept(state, kind, i, u)
  BY <1>1, <1>2, <1>9, <1>12, <1>13 DEF ShardKept
<1>15. Handled(state, <<kind, i>>, u)
  BY <1>1, <1>12, <1>14, ShardHandled
<1>16. Step(u)
  BY <1>2, <1>6, <1>7, <1>8, <1>10
<1> QED
  BY <1>1, <1>15, <1>16 DEF Handles

-----------------------------------------------------------------------------
(* The callback of the bucket entry.                                       *)

(* It changes only what is about the entry. *)
SameTransfer(s, t) ==
  /\ t.rs = s.rs
  /\ t.total_data_shards = s.total_data_shards
  /\ t.total_shards = s.total_shards
  /\ t.shard = s.shard
  /\ t.completed_shards = s.completed_shards
  /\ t.canceled = s.canceled
  /\ t.final_callback_called = s.final_callback_called
  /\ t.prepared = s.prepared
  /\ t.dequeued = s.dequeued
  /\ t.callbacks = s.callbacks
  /\ SameChecks(s, t) /\ SameFrame(s, t) /\ SameEncryption(s, t) /\ SameParity(s, t)

LEMMA EntryAtWork ==
  ASSUME NEW s, Good(s), <<"entry", 0>> \in s.work
  PROVE  /\ Free(s) /\ Ready(s) /\ AllStored(s) /\ s.prepared = "done"
         /\ ~ s.completed_upload /\ ~ s.final_callback_called
         /\ s.error_status = "OK" \/ s.canceled
         /\ s.entries = 0 /\ s.add_bucket_entry_count < MaxRequestTries
<1>1. s.creating_bucket_entry
  BY DEF Good, Flagged
<1>2. /\ Ready(s) /\ AllStored(s) /\ ~ s.completed_upload
      /\ s.error_status = "OK" \/ s.canceled
      /\ s.entries <= 1 /\ s.entries # 1 /\ s.entries \in Nat
  BY <1>1 DEF Good, Stored, StateType
<1>3. \A k \in SingleKinds : s.work # {<<k, 0>>}
  BY DEF SingleKinds
<1>4. Free(s)
  BY <1>3 DEF Good, Sequenced
<1>5. s.prepared = "done"
  BY <1>4 DEF Good, Sized, Free, SingleKinds
<1> QED
  BY <1>1, <1>2, <1>4, <1>5 DEF Good, Closed, Bounded

LEMMA EntryHandled ==
  ASSUME NEW s, Good(s), <<"entry", 0>> \in s.work,
         NEW r \in StateType, SameTransfer(s, r),
         r.work = s.work \ {<<"entry", 0>>}, r.pending_work_count = Cardinality(r.work),
         ~ r.creating_bucket_entry,
         r.error_status \in {s.error_status, "FAILED"},
         r.completed_upload => r.error_status = s.error_status,
         r.entries <= 1, r.entries = 1 => r.completed_upload,
         r.add_bucket_entry_count <= MaxRequestTries,
         ~ r.completed_upload /\ r.error_status = "OK"
           => r.add_bucket_entry_count < MaxRequestTries
  PROVE  Handled(s, <<"entry", 0>>, r)
<1>1. /\ Free(s) /\ Ready(s) /\ AllStored(s) /\ s.prepared = "done"
      /\ ~ s.completed_upload /\ ~ s.final_callback_called
      /\ s.error_status = "OK" \/ s.canceled
  BY EntryAtWork
<1>2. r.error_status = "OK" => s.error_status = "OK"
  OBVIOUS
<1>3. \A k, i : <<k, i>> \in r.work <=> <<k, i>> \in s.work /\ ~ (k = "entry" /\ i = 0)
  OBVIOUS
<1>4. Ready(r)
  BY <1>1 DEF Ready, SameTransfer, SameChecks, SameFrame, SameEncryption, SameParity
<1>5. Free(r)
  BY <1>1 DEF Free
<1>6. Sequenced(r)
  BY <1>2, <1>3, <1>4, <1>5
     DEF Good, Sequenced, SameTransfer, SameChecks, SameFrame, SameEncryption, SameParity
<1>7. Sized(r)
  BY <1>1, <1>2, <1>3 DEF Good, Sized, SameTransfer
<1>8. Flagged(r)
  BY <1>3 DEF Good, Flagged, SameFrame, SameEncryption, SameTransfer
<1>9. Bounded(r)
  BY <1>2 DEF Good, Bounded, SameTransfer, SameChecks, SameFrame, SameEncryption
<1>10. ASSUME NEW i \in Index PROVE Owns(r, i, r.shard[i])
  <2>1. Owns(s, i, s.shard[i]) /\ r.shard[i] = s.shard[i]
        /\ r.total_shards = s.total_shards
    BY DEF Good, SameTransfer
  <2> QED
    BY <1>2, <1>3, <2>1 DEF Owns
<1>11. Slotted(r)
  <2>1. \A k : k # "entry" => JobsOf(r, {k}) = JobsOf(s, {k})
    BY DEF JobsOf
  <2> QED
    BY <2>1 DEF Good, Slotted
<1>12. Stored(r)
  <2>1. /\ Shards(r) = Shards(s)
        /\ InProgress(r, COMPLETED_PUSH_SHARD) = InProgress(s, COMPLETED_PUSH_SHARD)
    BY DEF Shards, InProgress, SameTransfer
  <2>2. AllStored(r)
    BY <1>1, <2>1 DEF AllStored, SameTransfer
  <2> QED
    BY <1>1, <1>4, <2>1, <2>2 DEF Good, Stored, SameTransfer
<1>13. Closed(r) /\ ~ r.final_callback_called
  BY <1>1, <1>2 DEF Good, Closed, SameTransfer
<1>14. Good(r)
  BY <1>6, <1>7, <1>8, <1>9, <1>10, <1>11, <1>12, <1>13 DEF Good
<1>15. r.canceled = s.canceled /\ r.shard = s.shard
  BY DEF SameTransfer
<1> QED
  BY <1>1, <1>2, <1>5, <1>13, <1>14, <1>15 DEF Handled, GoesOn

LEMMA after_create_bucket_entryHandles ==
  ASSUME Good(state), after_create_bucket_entry
  PROVE  Handles(<<"entry", 0>>)
<1>1. <<"entry", 0>> \in state.work
  BY DEF after_create_bucket_entry, Outstanding
<1>2. /\ ~ state.completed_upload /\ state.entries = 0
      /\ state.add_bucket_entry_count < MaxRequestTries
      /\ state.add_bucket_entry_count \in Nat /\ MaxRequestTries \in Nat \ {0}
  BY <1>1, EntryAtWork, UploadAssumption DEF Good, StateType
<1>3. PICK t : t = Complete(state, <<"entry", 0>>)
  OBVIOUS
<1>4. /\ t \in StateType
      /\ SameShards(state, t) /\ SameChecks(state, t)
      /\ SameFrame(state, t) /\ SameEncryption(state, t) /\ SameParity(state, t)
      /\ t.error_status = state.error_status
      /\ t.work = state.work \ {<<"entry", 0>>}
      /\ t.pending_work_count = Cardinality(t.work)
  BY <1>1, <1>3, CompleteFields
<1>5. SameTransfer(state, t) /\ ~ t.completed_upload /\ t.entries = 0
  BY <1>2, <1>4 DEF SameTransfer, SameShards
<1>6. PICK n \in Nat : n = t.add_bucket_entry_count + 1 /\ n <= MaxRequestTries
  BY <1>2, <1>4 DEF SameShards
<1>7. PICK s : s = [t EXCEPT !.creating_bucket_entry = FALSE, !.add_bucket_entry_count = n]
  OBVIOUS
<1>8. s \in StateType
  BY <1>4, <1>7, ZenonT(60) DEF StateType
<1>9. SameTransfer(t, s)
  <2>1. /\ s.rs = t.rs /\ s.total_data_shards = t.total_data_shards
        /\ s.total_shards = t.total_shards /\ s.shard = t.shard
        /\ s.completed_shards = t.completed_shards /\ s.canceled = t.canceled
        /\ s.final_callback_called = t.final_callback_called
        /\ s.prepared = t.prepared /\ s.dequeued = t.dequeued /\ s.callbacks = t.callbacks
    BY <1>4, <1>7, ZenonT(60) DEF StateType
  <2>2. SameChecks(t, s) /\ SameFrame(t, s)
    BY <1>4, <1>7, ZenonT(60) DEF StateType, SameChecks, SameFrame
  <2>3. SameEncryption(t, s) /\ SameParity(t, s)
    BY <1>4, <1>7, ZenonT(60) DEF StateType, SameEncryption, SameParity
  <2> QED
    BY <2>1, <2>2, <2>3 DEF SameTransfer
<1>10. /\ SamePool(t, s) /\ s.error_status = t.error_status
       /\ s.completed_upload = t.completed_upload /\ s.entries = t.entries
       /\ s.creating_bucket_entry = FALSE /\ s.add_bucket_entry_count = n
  BY <1>4, <1>7, ZenonT(60) DEF StateType, SamePool
<1>11. PICK zero \in Nat, one \in Nat : zero = 0 /\ one = 1
  OBVIOUS
<1>12. PICK a : a = [s EXCEPT !.add_bucket_entry_count = zero, !.completed_upload = TRUE]
  OBVIOUS
<1>13. a \in StateType
  BY <1>8, <1>12, ZenonT(60) DEF StateType
<1>14. SameTransfer(s, a)
  <2>1. /\ a.rs = s.rs /\ a.total_data_shards = s.total_data_shards
        /\ a.total_shards = s.total_shards /\ a.shard = s.shard
        /\ a.completed_shards = s.completed_shards /\ a.canceled = s.canceled
        /\ a.final_callback_called = s.final_callback_called
        /\ a.prepared = s.prepared /\ a.dequeued = s.dequeued /\ a.callbacks = s.callbacks
    BY <1>8, <1>12, ZenonT(60) DEF StateType
  <2>2. SameChecks(s, a) /\ SameFrame(s, a)
    BY <1>8, <1>12, ZenonT(60) DEF StateType, SameChecks, SameFrame
  <2>3. SameEncryption(s, a) /\ SameParity(s, a)
    BY <1>8, <1>12, ZenonT(60) DEF StateType, SameEncryption, SameParity
  <2> QED
    BY <2>1, <2>2, <2>3 DEF SameTransfer
<1>15. /\ SamePool(s, a) /\ a.error_status = s.error_status
       /\ a.completed_upload = TRUE /\ a.entries = s.entries
       /\ a.creating_bucket_entry = s.creating_bucket_entry
       /\ a.add_bucket_entry_count = zero
  BY <1>8, <1>12, ZenonT(60) DEF StateType, SamePool
<1>16. PICK b : b = [a EXCEPT !.entries = one]
  OBVIOUS
<1>17. b \in StateType
  BY <1>13, <1>16, ZenonT(60) DEF StateType
<1>18. SameTransfer(a, b)
  <2>1. /\ b.rs = a.rs /\ b.total_data_shards = a.total_data_shards
        /\ b.total_shards = a.total_shards /\ b.shard = a.shard
        /\ b.completed_shards = a.completed_shards /\ b.canceled = a.canceled
        /\ b.final_callback_called = a.final_callback_called
        /\ b.prepared = a.prepared /\ b.dequeued = a.dequeued /\ b.callbacks = a.callbacks
    BY <1>13, <1>16, ZenonT(60) DEF StateType
  <2>2. SameChecks(a, b) /\ SameFrame(a, b)
    BY <1>13, <1>16, ZenonT(60) DEF StateType, SameChecks, SameFrame
  <2>3. SameEncryption(a, b) /\ SameParity(a, b)
    BY <1>13, <1>16, ZenonT(60) DEF StateType, SameEncryption, SameParity
  <2> QED
    BY <2>1, <2>2, <2>3 DEF SameTransfer
<1>19. /\ SamePool(a, b) /\ b.error_status = a.error_status
       /\ b.completed_upload = a.completed_upload /\ b.entries = one
       /\ b.creating_bucket_entry = a.creating_bucket_entry
       /\ b.add_bucket_entry_count = a.add_bucket_entry_count
  BY <1>13, <1>16, ZenonT(60) DEF StateType, SamePool
<1>20. PICK f : f = Fail(s)
  OBVIOUS
<1>21. /\ f \in StateType /\ SameShards(s, f) /\ SameChecks(s, f)
       /\ SameFrame(s, f) /\ SameEncryption(s, f) /\ SameParity(s, f)
       /\ SamePool(s, f) /\ f.error_status = "FAILED"
  BY <1>8, <1>20, FailFields
<1>22. SameTransfer(s, f) /\ ~ f.creating_bucket_entry /\ ~ f.completed_upload
       /\ f.entries = 0 /\ f.add_bucket_entry_count = n
  BY <1>5, <1>10, <1>21 DEF SameTransfer, SameShards
<1>23. ASSUME NEW r, r = a \/ r = b \/ r = f \/ (r = s /\ n # MaxRequestTries)
       PROVE  Handled(state, <<"entry", 0>>, r)
  <2>1. r \in StateType /\ SameTransfer(state, r)
    BY <1>5, <1>8, <1>9, <1>13, <1>14, <1>17, <1>18, <1>21, <1>22, <1>23
       DEF SameTransfer, SameChecks, SameFrame, SameEncryption, SameParity
  <2>2. /\ r.work = state.work \ {<<"entry", 0>>}
        /\ r.pending_work_count = Cardinality(r.work)
        /\ ~ r.creating_bucket_entry
        /\ r.error_status \in {state.error_status, "FAILED"}
        /\ r.completed_upload => r.error_status = state.error_status
    BY <1>4, <1>5, <1>10, <1>15, <1>19, <1>21, <1>22, <1>23 DEF SamePool
  <2>3. /\ r.entries <= 1 /\ (r.entries = 1 => r.completed_upload)
        /\ r.add_bucket_entry_count <= MaxRequestTries
        /\ ~ r.completed_upload /\ r.error_status = "OK"
             => r.add_bucket_entry_count < MaxRequestTries
    <3>1. /\ 0 <= MaxRequestTries /\ 0 <= 1
          /\ n # MaxRequestTries => n < MaxRequestTries
      BY <1>2, <1>6
    <3>2. CASE r = a \/ r = b
      BY <1>5, <1>10, <1>11, <1>15, <1>19, <3>1, <3>2
    <3>3. CASE r = f \/ (r = s /\ n # MaxRequestTries)
      BY <1>5, <1>6, <1>10, <1>21, <1>22, <3>1, <3>3
    <3> QED
      BY <1>23, <3>2, <3>3
  <2> QED
    BY <1>1, <2>1, <2>2, <2>3, EntryHandled
<1>24. Step(b) \/ Step(a) \/ Step(Retried(s, n, MaxRequestTries))
  <2>1. s = [Complete(state, <<"entry", 0>>) EXCEPT !.creating_bucket_entry = FALSE,
                                                    !.add_bucket_entry_count = @ + 1]
    BY <1>3, <1>6, <1>7
  <2>2. a = CompleteUpload(s)
    BY <1>11, <1>12 DEF CompleteUpload
  <2>3. b = [CompleteUpload(s) EXCEPT !.entries = @ + 1]
    <3>1. a.entries + 1 = one
      BY <1>5, <1>10, <1>11, <1>15
    <3> QED
      BY <1>16, <2>2, <3>1
  <2>4. s.add_bucket_entry_count = n
    BY <1>10
  <2> QED
    BY <2>1, <2>2, <2>3, <2>4 DEF after_create_bucket_entry
<1> QED
  BY <1>1, <1>20, <1>23, <1>24 DEF Handles, Retried


-----------------------------------------------------------------------------
(* The steps of prepare_upload_state, in its pool thread.                  *)

(* No job ends: an error stays, a stored shard stays stored. *)
Waits(s, t) ==
  /\ Good(t) /\ Busy(t)
  /\ t.work = s.work
  /\ s.callbacks = << >> /\ t.callbacks = << >>
  /\ s.error_status # "OK" => t.error_status # "OK"
  /\ \A i \in Index : s.shard[i].progress = COMPLETED_PUSH_SHARD
                        => t.shard[i].progress = COMPLETED_PUSH_SHARD

(* What the pool thread leaves alone. *)
SameLoop(s, t) ==
  /\ t.shard = s.shard
  /\ t.completed_shards = s.completed_shards
  /\ t.creating_bucket_entry = s.creating_bucket_entry
  /\ t.add_bucket_entry_count = s.add_bucket_entry_count
  /\ t.completed_upload = s.completed_upload
  /\ t.canceled = s.canceled
  /\ t.final_callback_called = s.final_callback_called
  /\ t.dequeued = s.dequeued
  /\ t.entries = s.entries
  /\ t.callbacks = s.callbacks
  /\ SamePool(s, t)
  /\ SameChecks(s, t) /\ SameFrame(s, t) /\ SameEncryption(s, t) /\ SameParity(s, t)

LEMMA PreparingWaits ==
  ASSUME NEW s, Good(s), <<"prepare", 0>> \in s.work,
         NEW t \in StateType, SameLoop(s, t), Sized(t),
         t.error_status = "OK" => s.error_status = "OK",
         \A i \in Index : i >= t.total_shards => s.shard[i] = NewShard,
         InProgress(t, COMPLETED_PUSH_SHARD) = InProgress(s, COMPLETED_PUSH_SHARD)
  PROVE  Waits(s, t)
<1>1. "prepare" \in SingleKinds
  BY DEF SingleKinds
<1>2. /\ s.work = {<<"prepare", 0>>} /\ Awaited(s, "prepare")
      /\ ~ s.completed_upload /\ ~ s.final_callback_called
      /\ ~ s.creating_bucket_entry
  BY <1>1, OneStep
<1>3. t.work = s.work /\ t.pending_work_count = Cardinality(t.work)
  BY DEF Good, SameLoop, SamePool
<1>4. ~ s.bucket_verified /\ ~ s.frame_id
  BY <1>2 DEF Awaited, Good, Sequenced
<1>5. Sequenced(t)
  <2>1. \E kind \in SingleKinds : t.work = {<<kind, 0>>} /\ Awaited(t, kind)
    <3>1. Awaited(t, "prepare")
      BY <1>4 DEF Awaited, SameLoop, SameChecks
    <3> QED
      BY <1>1, <1>2, <1>3, <3>1
  <2>2. <<"frame_id", 0>> \notin t.work /\ <<"parity", 0>> \notin t.work
    BY <1>2, <1>3
  <2> QED
    BY <1>3, <1>4, <2>1, <2>2
       DEF Good, Sequenced, SameLoop, SameChecks, SameFrame, SameEncryption, SameParity
<1>6. Flagged(t)
  BY <1>3 DEF Good, Flagged, SameLoop, SameFrame, SameEncryption
<1>7. Bounded(t)
  BY DEF Good, Bounded, SameLoop, SameChecks, SameFrame, SameEncryption
<1>8. ASSUME NEW i \in Index PROVE Owns(t, i, t.shard[i])
  <2>1. Owns(s, i, s.shard[i]) /\ t.shard[i] = s.shard[i]
    BY DEF Good, SameLoop
  <2> QED
    BY <1>3, <2>1 DEF Owns
<1>9. Slotted(t)
  BY <1>3 DEF Good, Slotted, JobsOf
<1>10. Stored(t)
  BY <1>2 DEF Good, Stored, SameLoop
<1>11. Closed(t) /\ s.callbacks = << >> /\ t.callbacks = << >>
  BY <1>2 DEF Good, Closed, SameLoop
<1>12. Good(t)
  BY <1>3, <1>5, <1>6, <1>7, <1>8, <1>9, <1>10, <1>11 DEF Good
<1>13. Busy(t)
  BY <1>2, <1>3, <1>4 DEF Busy, ShardsGoOn, SameLoop, SameFrame
<1> QED
  BY <1>3, <1>11, <1>12, <1>13 DEF Waits, SameLoop

(* An upload of the model has no more shards than the model has trackers. *)
LEMMA CountedType ==
  ASSUME file \in Files
  PROVE  /\ Counted(file) \in 0..MaxShards /\ file.data \in 0..MaxShards
         /\ Coded(file) \in BOOLEAN
         /\ file.data > 0 => Counted(file) > 0
<1>1. file \in FileType /\ file.data + ParityShards(file) <= MaxShards
  BY UploadAssumption
<1>2. file.data \in 0..MaxShards /\ Coded(file) \in BOOLEAN
  BY <1>1 DEF FileType, Coded
<1>3. PICK d \in Nat : d = file.data
  BY <1>2
<1>4. (2 * d + 2) \div 3 \in Nat
  OBVIOUS
<1>5. ParityShards(file) \in Nat
  BY <1>3, <1>4 DEF ParityShards
<1> QED
  BY <1>1, <1>2, <1>3, <1>5, UploadAssumption DEF Counted

(* The size of the file is found out, or an error. *)
Resized(s, t, rs, data, total, error, prepared) ==
  /\ t = [s EXCEPT !.rs = rs, !.total_data_shards = data, !.total_shards = total,
                   !.error_status = error, !.prepared = prepared]
  /\ error = "OK" => s.error_status = "OK" /\ total = Counted(file)
  /\ total > 0 => total = Counted(file) /\ rs = Coded(file) /\ data = file.data
  /\ prepared # "no"

LEMMA ResizedWaits ==
  ASSUME NEW s, Good(s), <<"prepare", 0>> \in s.work, s.prepared = "no",
         NEW rs \in BOOLEAN, NEW data \in 0..MaxShards, NEW total \in 0..MaxShards,
         NEW error \in ErrorStatus, NEW prepared \in {"no", "counted", "done"},
         NEW t, Resized(s, t, rs, data, total, error, prepared)
  PROVE  Waits(s, t) /\ t.canceled = s.canceled
<1>1. s \in StateType /\ s.total_shards = 0
  BY DEF Good, Sized
<1>2. ASSUME NEW i \in Index PROVE s.shard[i] = NewShard
  <2>1. i >= 0
    BY DEF Index
  <2> QED
    BY <1>1, <2>1 DEF Good, Owns
<1>3. InProgress(s, COMPLETED_PUSH_SHARD) = {}
  BY <1>2 DEF InProgress, Shards, NewShard
<1>4. PICK u : u = [s EXCEPT !.rs = rs, !.total_data_shards = data,
                            !.total_shards = total]
  OBVIOUS
<1>5. u \in StateType
  BY <1>1, <1>4, ZenonT(60) DEF StateType
<1>6. /\ u.shard = s.shard
      /\ u.completed_shards = s.completed_shards
      /\ u.creating_bucket_entry = s.creating_bucket_entry
      /\ u.add_bucket_entry_count = s.add_bucket_entry_count
      /\ u.completed_upload = s.completed_upload
      /\ u.canceled = s.canceled
      /\ u.final_callback_called = s.final_callback_called
      /\ u.dequeued = s.dequeued
      /\ u.entries = s.entries
      /\ u.callbacks = s.callbacks
      /\ SamePool(s, u)
  BY <1>1, <1>4, ZenonT(60) DEF StateType, SamePool
<1>7. SameChecks(s, u) /\ SameFrame(s, u)
  BY <1>1, <1>4, ZenonT(60) DEF StateType, SameChecks, SameFrame
<1>8. SameEncryption(s, u) /\ SameParity(s, u)
  BY <1>1, <1>4, ZenonT(60) DEF StateType, SameEncryption, SameParity
<1>9. u.rs = rs /\ u.total_data_shards = data /\ u.total_shards = total
  BY <1>1, <1>4, ZenonT(60) DEF StateType
<1>10. SameLoop(s, u)
  BY <1>6, <1>7, <1>8 DEF SameLoop
<1>11. PICK v : v = [u EXCEPT !.error_status = error, !.prepared = prepared]
  OBVIOUS
<1>12. v \in StateType
  BY <1>5, <1>11, ZenonT(60) DEF StateType
<1>13. /\ v.shard = u.shard
       /\ v.completed_shards = u.completed_shards
       /\ v.creating_bucket_entry = u.creating_bucket_entry
       /\ v.add_bucket_entry_count = u.add_bucket_entry_count
       /\ v.completed_upload = u.completed_upload
       /\ v.canceled = u.canceled
       /\ v.final_callback_called = u.final_callback_called
       /\ v.dequeued = u.dequeued
       /\ v.entries = u.entries
       /\ v.callbacks = u.callbacks
       /\ SamePool(u, v)
  BY <1>5, <1>11, ZenonT(60) DEF StateType, SamePool
<1>14. SameChecks(u, v) /\ SameFrame(u, v)
  BY <1>5, <1>11, ZenonT(60) DEF StateType, SameChecks, SameFrame
<1>15. SameEncryption(u, v) /\ SameParity(u, v)
  BY <1>5, <1>11, ZenonT(60) DEF StateType, SameEncryption, SameParity
<1>16. /\ v.rs = u.rs /\ v.total_data_shards = u.total_data_shards
       /\ v.total_shards = u.total_shards
       /\ v.error_status = error /\ v.prepared = prepared
  BY <1>5, <1>11, ZenonT(60) DEF StateType
<1>17. SameLoop(s, v)
  BY <1>10, <1>13, <1>14, <1>15
     DEF SameLoop, SamePool, SameChecks, SameFrame, SameEncryption, SameParity
<1>18. v = t
  BY <1>4, <1>11 DEF Resized
<1>19. Sized(v)
  <2>1. <<"prepare", 0>> \in v.work
    BY <1>17 DEF SameLoop, SamePool
  <2> QED
    BY <1>9, <1>16, <2>1 DEF Sized, Resized
<1>20. InProgress(v, COMPLETED_PUSH_SHARD) = {}
  BY <1>2, <1>17 DEF InProgress, Shards, NewShard, SameLoop
<1>21. v.error_status = "OK" => s.error_status = "OK"
  BY <1>16 DEF Resized
<1>22. Waits(s, v)
  BY <1>2, <1>3, <1>12, <1>17, <1>19, <1>20, <1>21, PreparingWaits
<1> QED
  BY <1>6, <1>13, <1>18, <1>22

LEMMA CountShardsWaits ==
  ASSUME file \in Files, Good(state), CountShards
  PROVE  Waits(state, state') /\ state'.canceled = state.canceled /\ file' = file
<1>1. /\ <<"prepare", 0>> \in state.work /\ state.prepared = "no" /\ file' = file
  BY DEF CountShards, Preparing, Outstanding
<1>2. state \in StateType /\ state.total_shards = 0
  BY <1>1 DEF Good, Sized
<1>3. PICK rs \in BOOLEAN, data \in 0..MaxShards, total \in 0..MaxShards,
           error \in ErrorStatus :
        /\ rs = state.rs /\ data = state.total_data_shards
        /\ total = state.total_shards /\ error = "FAILED"
  BY <1>2 DEF StateType, ErrorStatus
<1>4. PICK coded \in BOOLEAN, counted \in 0..MaxShards, kept \in ErrorStatus :
        /\ coded = Coded(file) /\ counted = Counted(file)
        /\ kept = state.error_status /\ file.data \in 0..MaxShards
  BY <1>2, CountedType DEF StateType
<1>5. PICK done \in {"no", "counted", "done"}, sized \in {"no", "counted", "done"} :
        done = "done" /\ sized = "counted"
  OBVIOUS
<1>6. CASE state' = [Fail(state) EXCEPT !.prepared = "done"]
  <2>1. state' = [state EXCEPT !.rs = rs, !.total_data_shards = data,
                               !.total_shards = total, !.error_status = error,
                               !.prepared = done]
    BY <1>2, <1>3, <1>5, <1>6 DEF Fail, StateType
  <2>2. Resized(state, state', rs, data, total, error, done)
    BY <1>2, <1>3, <1>5, <2>1 DEF Resized
  <2> QED
    BY <1>1, <2>2, ResizedWaits
<1>7. CASE state' = [Fail(state) EXCEPT !.rs = Coded(file), !.prepared = "done"]
  <2>1. state' = [state EXCEPT !.rs = coded, !.total_data_shards = data,
                               !.total_shards = total, !.error_status = error,
                               !.prepared = done]
    BY <1>2, <1>3, <1>4, <1>5, <1>7 DEF Fail, StateType
  <2>2. Resized(state, state', coded, data, total, error, done)
    BY <1>2, <1>3, <1>4, <1>5, <2>1 DEF Resized
  <2> QED
    BY <1>1, <2>2, ResizedWaits
<1>8. CASE state' = [state EXCEPT !.rs = Coded(file), !.total_data_shards = file.data,
                                  !.total_shards = Counted(file),
                                  !.prepared = "counted"]
  <2>1. state' = [state EXCEPT !.rs = coded, !.total_data_shards = file.data,
                               !.total_shards = counted, !.error_status = kept,
                               !.prepared = sized]
    BY <1>2, <1>4, <1>5, <1>8 DEF StateType
  <2>2. Resized(state, state', coded, file.data, counted, kept, sized)
    BY <1>4, <1>5, <2>1 DEF Resized
  <2> QED
    BY <1>1, <1>4, <2>2, ResizedWaits
<1> QED
  BY <1>1, <1>6, <1>7, <1>8 DEF CountShards

LEMMA AllocateShardsWaits ==
  ASSUME Good(state), AllocateShards
  PROVE  Waits(state, state') /\ state'.canceled = state.canceled /\ file' = file
<1>1. /\ <<"prepare", 0>> \in state.work /\ state.prepared = "counted" /\ file' = file
  BY DEF AllocateShards, Preparing, Outstanding
<1>2. state \in StateType
  BY DEF Good
<1>3. PICK error \in ErrorStatus, prepared \in {"done"} :
        /\ state' = [state EXCEPT !.shards_allocated = TRUE, !.prepared = prepared,
                                  !.error_status = error]
        /\ error = "OK" => state.error_status = "OK"
  <2>1. PICK keys \in BOOLEAN :
          state' = [state EXCEPT !.shards_allocated = TRUE, !.prepared = "done",
                                 !.error_status = IF keys THEN @ ELSE "FAILED"]
    BY DEF AllocateShards
  <2>2. PICK error \in ErrorStatus :
          error = (IF keys THEN state.error_status ELSE "FAILED")
    BY <1>2 DEF StateType, ErrorStatus
  <2>3. state' = [state EXCEPT !.shards_allocated = TRUE, !.prepared = "done",
                               !.error_status = error]
    BY <1>2, <2>1, <2>2 DEF StateType
  <2> QED
    BY <2>2, <2>3
<1>4. PICK t : t = [state EXCEPT !.shards_allocated = TRUE, !.prepared = prepared,
                                 !.error_status = error]
  OBVIOUS
<1>5. t \in StateType
  BY <1>2, <1>4, ZenonT(60) DEF StateType
<1>6. /\ t.shard = state.shard
      /\ t.completed_shards = state.completed_shards
      /\ t.creating_bucket_entry = state.creating_bucket_entry
      /\ t.add_bucket_entry_count = state.add_bucket_entry_count
      /\ t.completed_upload = state.completed_upload
      /\ t.canceled = state.canceled
      /\ t.final_callback_called = state.final_callback_called
      /\ t.dequeued = state.dequeued
      /\ t.entries = state.entries
      /\ t.callbacks = state.callbacks
      /\ SamePool(state, t)
  BY <1>2, <1>4, ZenonT(60) DEF StateType, SamePool
<1>7. SameChecks(state, t) /\ SameFrame(state, t)
  BY <1>2, <1>4, ZenonT(60) DEF StateType, SameChecks, SameFrame
<1>8. SameEncryption(state, t) /\ SameParity(state, t)
  BY <1>2, <1>4, ZenonT(60) DEF StateType, SameEncryption, SameParity
<1>9. SameLoop(state, t)
  BY <1>6, <1>7, <1>8 DEF SameLoop
<1>10. /\ t.rs = state.rs /\ t.total_data_shards = state.total_data_shards
       /\ t.total_shards = state.total_shards
       /\ t.error_status = error /\ t.prepared = prepared
  BY <1>2, <1>4, ZenonT(60) DEF StateType
<1>11. Sized(t)
  BY <1>1, <1>3, <1>10 DEF Good, Sized
<1>12. \A i \in Index : i >= t.total_shards => state.shard[i] = NewShard
  BY <1>10 DEF Good, Owns
<1>13. InProgress(t, COMPLETED_PUSH_SHARD) = InProgress(state, COMPLETED_PUSH_SHARD)
  BY <1>6, <1>10 DEF InProgress, Shards
<1>14. Waits(state, t)
  BY <1>1, <1>3, <1>5, <1>9, <1>10, <1>11, <1>12, <1>13, PreparingWaits
<1> QED
  BY <1>1, <1>3, <1>4, <1>6, <1>14


-----------------------------------------------------------------------------
(* A cancel by the application.                                            *)

LEMMA storj_bridge_store_file_cancelWaits ==
  ASSUME Good(state), Busy(state), storj_bridge_store_file_cancel
  PROVE  /\ Waits(state, state') /\ file' = file
         /\ state'.canceled /\ ~ GoesOn(state')
<1>1. /\ state \in StateType /\ ~ state.final_callback_called /\ file' = file
      /\ state.callbacks = << >>
  BY DEF storj_bridge_store_file_cancel, Good, Closed
<1>2. PICK gone \in SUBSET Index, error \in ErrorStatus :
        /\ error = "CANCELED"
        /\ state' = [state EXCEPT !.canceled = TRUE, !.error_status = error,
                                  !.dequeued = gone]
  BY DEF storj_bridge_store_file_cancel, ErrorStatus, Cancelable, InProgress, Shards
<1>3. PICK t : t = [state EXCEPT !.canceled = TRUE, !.error_status = error,
                                 !.dequeued = gone]
  OBVIOUS
<1>4. t \in StateType
  BY <1>1, <1>3, ZenonT(60) DEF StateType
<1>5. /\ t.canceled = TRUE /\ t.error_status = error /\ t.dequeued = gone
      /\ t.shard = state.shard /\ t.work = state.work
      /\ t.pending_work_count = state.pending_work_count
      /\ t.rs = state.rs /\ t.total_data_shards = state.total_data_shards
      /\ t.total_shards = state.total_shards
      /\ t.completed_shards = state.completed_shards
      /\ t.prepared = state.prepared
      /\ t.creating_bucket_entry = state.creating_bucket_entry
      /\ t.add_bucket_entry_count = state.add_bucket_entry_count
      /\ t.completed_upload = state.completed_upload
      /\ t.final_callback_called = state.final_callback_called
      /\ t.entries = state.entries /\ t.callbacks = state.callbacks
  BY <1>1, <1>3, ZenonT(60) DEF StateType
<1>6. SameChecks(state, t) /\ SameFrame(state, t)
  BY <1>1, <1>3, ZenonT(60) DEF StateType, SameChecks, SameFrame
<1>7. SameEncryption(state, t) /\ SameParity(state, t)
  BY <1>1, <1>3, ZenonT(60) DEF StateType, SameEncryption, SameParity
<1> USE DEF SameChecks, SameFrame, SameEncryption, SameParity
<1>8. t.error_status # "OK"
  BY <1>2, <1>5
<1>9. Sequenced(t)
  <2>1. ASSUME NEW kind, Awaited(state, kind) PROVE Awaited(t, kind)
    BY <1>5, <1>6, <1>7, <2>1 DEF Awaited
  <2>2. Free(state) => Free(t)
    BY <1>5 DEF Free
  <2>3. Ready(state) => Ready(t)
    BY <1>5, <1>6, <1>7 DEF Ready
  <2> QED
    BY <1>5, <1>6, <1>7, <1>8, <2>1, <2>2, <2>3 DEF Good, Sequenced
<1>10. Sized(t) /\ Flagged(t)
  BY <1>5, <1>6, <1>7, <1>8 DEF Good, Sized, Flagged
<1>11. Bounded(t)
  BY <1>5, <1>6, <1>7, <1>8 DEF Good, Bounded
<1>12. ASSUME NEW i \in Index PROVE Owns(t, i, t.shard[i])
  BY <1>5, <1>8 DEF Good, Owns
<1>13. Slotted(t)
  BY <1>5 DEF Good, Slotted, JobsOf
<1>14. Stored(t)
  <2>1. /\ InProgress(t, COMPLETED_PUSH_SHARD) = InProgress(state, COMPLETED_PUSH_SHARD)
        /\ Shards(t) = Shards(state)
    BY <1>5 DEF InProgress, Shards
  <2> QED
    BY <1>5, <1>6, <1>7, <2>1 DEF Good, Stored, Ready, AllStored
<1>15. Closed(t)
  BY <1>1, <1>5, <1>8 DEF Closed
<1>16. Good(t)
  BY <1>4, <1>5, <1>9, <1>10, <1>11, <1>12, <1>13, <1>14, <1>15 DEF Good
<1>17. ~ GoesOn(t)
  BY <1>5 DEF GoesOn
<1>18. Busy(t)
  BY <1>5, <1>17 DEF Busy, ShardsGoOn
<1>19. Waits(state, t)
  BY <1>1, <1>5, <1>8, <1>16, <1>18 DEF Waits
<1> QED
  BY <1>1, <1>2, <1>3, <1>5, <1>17, <1>19

-----------------------------------------------------------------------------
(* The invariant of the specification.                                     *)

IInv == file \in Files /\ Good(state) /\ Busy(state)

LEMMA InitIInv == Init => IInv /\ ~ state.canceled /\ state.callbacks = << >>
<1> SUFFICES ASSUME Init PROVE IInv /\ ~ state.canceled /\ state.callbacks = << >>
  OBVIOUS
<1>1. file \in Files /\ file.rs \in BOOLEAN /\ 0 \in 0..MaxShards
  BY UploadAssumption DEF Init, FileType
<1>2. {<<"prepare", 0>>} \in SUBSET (JobKind \X Index)
      /\ Cardinality({<<"prepare", 0>>}) = 1
  BY OneJob DEF JobKind
<1>3. /\ state.rs = file.rs /\ state.total_data_shards = 0 /\ state.total_shards = 0
      /\ state.shards_allocated = FALSE
      /\ state.shard = [i \in Index |-> NewShard] /\ state.completed_shards = 0
      /\ state.work = {<<"prepare", 0>>} /\ state.pending_work_count = 1
      /\ state.prepared = "no" /\ state.dequeued = {} /\ state.entries = 0
      /\ state.callbacks = << >> /\ state.error_status = "OK"
      /\ state.canceled = FALSE /\ state.final_callback_called = FALSE
      /\ state.completed_upload = FALSE /\ state.creating_bucket_entry = FALSE
      /\ state.add_bucket_entry_count = 0
  BY Zenon DEF Init
<1>4. /\ state.bucket_verified = FALSE /\ state.bucket_verify_count = 0
      /\ state.file_verified = FALSE /\ state.file_verify_count = 0
      /\ state.frame_id = FALSE /\ state.requesting_frame = FALSE
      /\ state.frame_request_count = 0
      /\ state.encrypted_file = FALSE /\ state.creating_encrypted_file = FALSE
      /\ state.create_encrypted_file_count = 0
      /\ state.awaiting_parity_shards = TRUE /\ state.parity_file = FALSE
  BY Zenon DEF Init
<1>5. state \in StateType
  <2>1. NewShard \in ShardType
    BY DEF NewShard, ShardType
  <2>2. << >> \in Seq(ErrorStatus) /\ "OK" \in ErrorStatus
    BY DEF ErrorStatus
  <2>3. PICK g \in [Index -> ShardType] : g = [i \in Index |-> NewShard]
    BY <2>1
  <2>4. 0 \in Nat /\ 1 \in Int /\ "no" \in {"no", "counted", "done"}
    OBVIOUS
  <2> QED
    BY <1>1, <1>2, <2>2, <2>3, <2>4 DEF Init, StateType
<1>6. Sequenced(state)
  <2>1. "prepare" \in SingleKinds /\ Awaited(state, "prepare")
    BY <1>4 DEF SingleKinds, Awaited
  <2> QED
    BY <1>3, <1>4, <2>1 DEF Sequenced
<1>7. Sized(state) /\ Flagged(state) /\ Closed(state)
  BY <1>3, <1>4 DEF Sized, Flagged, Closed
<1>8. Bounded(state)
  BY <1>3, <1>4, UploadAssumption DEF Bounded
<1>9. ASSUME NEW i \in Index PROVE Owns(state, i, state.shard[i])
  BY <1>3, UploadAssumption DEF Owns, NewShard
<1>10. Slotted(state)
  <2>1. ASSUME NEW k \in ShardJobs PROVE Cardinality(JobsOf(state, {k})) = 0
    <3>1. JobsOf(state, {k}) = {}
      BY <1>3 DEF JobsOf, ShardJobs
    <3> QED
      BY <3>1, FS_EmptySet
  <2> QED
    BY <2>1, UploadAssumption DEF Slotted, ShardJobs
<1>11. Stored(state)
  <2>1. InProgress(state, COMPLETED_PUSH_SHARD) = {}
    BY <1>3 DEF InProgress, NewShard, Shards
  <2>2. Cardinality(InProgress(state, COMPLETED_PUSH_SHARD)) = 0
    BY <2>1, FS_EmptySet
  <2>3. ~ state.completed_upload /\ ~ state.creating_bucket_entry
    BY <1>3
  <2> QED
    BY <1>3, <2>2, <2>3 DEF Stored
<1>12. Busy(state)
  BY <1>3, <1>4 DEF Busy, ShardsGoOn
<1> QED
  BY <1>1, <1>2, <1>3, <1>5, <1>6, <1>7, <1>8, <1>9, <1>10, <1>11, <1>12 DEF IInv, Good

LEMMA BeginWorkQueueHandles ==
  ASSUME Good(state), BeginWorkQueue
  PROVE  Handles(<<"prepare", 0>>)
<1>1. <<"prepare", 0>> \in state.work /\ state.prepared = "done"
  BY DEF BeginWorkQueue, Outstanding
<1>2. PICK r : r = Complete(state, <<"prepare", 0>>)
  OBVIOUS
<1>3. Handled(state, <<"prepare", 0>>, r)
  BY <1>1, <1>2, PrepareHandled
<1>4. Step(r)
  BY <1>2 DEF BeginWorkQueue
<1> QED
  BY <1>1, <1>3, <1>4 DEF Handles

(* A job ended, or the pool or the application did something while every   *)
(* job went on.                                                            *)
LEMMA NextHandles ==
  ASSUME IInv, Next
  PROVE  \/ \E job \in JobKind \X Index : Handles(job)
         \/ /\ Waits(state, state') /\ file' = file
            /\ state'.canceled = state.canceled \/ (state'.canceled /\ ~ GoesOn(state'))
<1>1. Good(state) /\ Busy(state) /\ file \in Files /\ state.work \subseteq JobKind \X Index
  BY DEF IInv, Good, StateType
<1>2. ASSUME NEW job, Handles(job) PROVE \E j \in JobKind \X Index : Handles(j)
  BY <1>1, <1>2 DEF Handles
<1>3. CASE CountShards
  BY <1>1, <1>3, CountShardsWaits
<1>4. CASE AllocateShards
  BY <1>1, <1>4, AllocateShardsWaits
<1>5. CASE BeginWorkQueue
  BY <1>1, <1>2, <1>5, BeginWorkQueueHandles
<1>6. CASE verify_bucket_id_callback
  BY <1>1, <1>2, <1>6, verify_bucket_id_callbackHandles
<1>7. CASE verify_file_name_callback
  BY <1>1, <1>2, <1>7, verify_file_name_callbackHandles
<1>8. CASE after_request_frame_id
  BY <1>1, <1>2, <1>8, after_request_frame_idHandles
<1>9. CASE after_create_encrypted_file
  BY <1>1, <1>2, <1>9, after_create_encrypted_fileHandles
<1>10. CASE after_create_parity_shards
  BY <1>1, <1>2, <1>10, after_create_parity_shardsHandles
<1>11. CASE after_create_bucket_entry
  BY <1>1, <1>2, <1>11, after_create_bucket_entryHandles
<1>12. ASSUME NEW i \in Index, after_prepare_frame(i)
       PROVE  \E j \in JobKind \X Index : Handles(j)
  BY <1>1, <1>2, <1>12, after_prepare_frameHandles
<1>13. ASSUME NEW i \in Index, after_push_frame(i)
       PROVE  \E j \in JobKind \X Index : Handles(j)
  BY <1>1, <1>2, <1>13, after_push_frameHandles
<1>14. ASSUME NEW i \in Index, after_push_shard(i)
       PROVE  \E j \in JobKind \X Index : Handles(j)
  BY <1>1, <1>2, <1>14, after_push_shardHandles
<1>15. ASSUME NEW i \in Index, after_send_exchange_report(i)
       PROVE  \E j \in JobKind \X Index : Handles(j)
  BY <1>1, <1>2, <1>15, after_send_exchange_reportHandles
<1>16. CASE storj_bridge_store_file_cancel
  BY <1>1, <1>16, storj_bridge_store_file_cancelWaits
<1> QED
  BY <1>3, <1>4, <1>5, <1>6, <1>7, <1>8, <1>9, <1>10, <1>11, <1>12, <1>13, <1>14,
     <1>15, <1>16 DEF Next, Prepare

(* The end of a job, and the work that follows from it. *)
LEMMA JobEnds ==
  ASSUME NEW job, Handles(job)
  PROVE  /\ job \in state.work /\ file' = file
         /\ \E r : Handled(state, job, r) /\ Settles(r, state')
<1>1. PICK r : Handled(state, job, r) /\ Step(r)
  BY DEF Handles
<1>2. Settles(r, queue_next_work(r))
  <2>1. Good(r) /\ ~ r.final_callback_called /\ Free(r)
    BY <1>1 DEF Handled
  <2> QED
    BY <2>1, queue_next_workSettles
<1>3. state' = queue_next_work(r) /\ file' = file
  BY <1>1 DEF Step
<1> QED
  BY <1>1, <1>2, <1>3 DEF Handles

(* The invariant speaks of the file too, which never changes. *)
LEMMA SameFile ==
  ASSUME file \in Files, file' = file, Good(state'), Busy(state')
  PROVE  IInv'
<1>1. Sized(state)'
  BY DEF Good, Sized, Counted, ParityShards
<1>2. AllStored(state') <=> AllStored(state)'
  BY DEF AllStored, ParityShards
<1>3. Stored(state)'
  BY <1>2 DEF Good, Stored
<1>4. Good(state)'
  BY <1>1, <1>3 DEF Good
<1>5. Busy(state)'
  BY <1>2 DEF Busy, Saturated
<1> QED
  BY <1>4, <1>5 DEF IInv

LEMMA NextIInv == IInv /\ [Next]_vars => IInv'
<1> SUFFICES ASSUME IInv, [Next]_vars PROVE IInv'
  OBVIOUS
<1>1. CASE UNCHANGED vars
  BY <1>1, SameFile DEF IInv, vars
<1>2. CASE Next
  <2>1. CASE \E job \in JobKind \X Index : Handles(job)
    <3>1. PICK r : Settles(r, state') /\ file' = file
      BY <2>1, JobEnds
    <3> QED
      BY <3>1, SameFile DEF Settles, IInv
  <2>2. CASE Waits(state, state') /\ file' = file
    BY <2>2, SameFile DEF Waits, IInv
  <2> QED
    BY <1>2, <2>1, <2>2, NextHandles
<1> QED
  BY <1>1, <1>2

(* The inductive invariant holds in every state of an upload, whatever the *)
(* bridge and the farmers answer: what the properties below are read off   *)
(* from.                                                                   *)
THEOREM Invariance == Spec => []IInv
  BY InitIInv, NextIInv, PTL DEF Spec


-----------------------------------------------------------------------------
(* The properties.                                                         *)

(* Every field of the state keeps its type, and no count of attempts gets  *)
(* past its limit, although each is compared with it for equality only     *)
(* (after_push_shard and the other callbacks of uploader.c).               *)
THEOREM TypeCorrect == Spec => []TypeOK
<1>1. IInv => TypeOK
  <2> SUFFICES ASSUME IInv PROVE TypeOK
    OBVIOUS
  <2>1. ASSUME NEW i \in Index
        PROVE  /\ state.shard[i].push_frame_request_count <= STORJ_MAX_PUSH_FRAME_COUNT
               /\ state.shard[i].push_shard_request_count <= MaxPushRetries
               /\ state.shard[i].send_count <= MaxReportTries
    BY DEF IInv, Good, Owns
  <2>2. /\ state.bucket_verify_count <= MaxRequestTries
        /\ state.file_verify_count <= MaxRequestTries
        /\ state.frame_request_count <= MaxRequestTries
        /\ state.create_encrypted_file_count <= MaxRequestTries
        /\ state.add_bucket_entry_count <= MaxRequestTries
    BY DEF IInv, Good, Bounded
  <2>3. RetriesBounded
    BY <2>1, <2>2 DEF RetriesBounded
  <2> QED
    BY <2>3 DEF TypeOK, IInv, Good
<1> QED
  BY <1>1, Invariance, PTL

(* pending_work_count, completed_shards, the flags of the single steps and *)
(* the progress of every shard agree with the outstanding jobs, and no job *)
(* is outstanding when the state is freed, which happens at most once.     *)
THEOREM BookkeepingCorrect == Spec => []BookkeepingExact
<1>1. IInv => BookkeepingExact
  <2> SUFFICES ASSUME IInv PROVE BookkeepingExact
    OBVIOUS
  <2>1. ASSUME NEW i \in Index
        PROVE  /\ <<"prepare_frame", i>> \in state.work
                    => state.shard[i].progress = PREPARING_FRAME
               /\ <<"push_frame", i>> \in state.work
                    => state.shard[i].progress = PUSHING_FRAME
               /\ <<"push_shard", i>> \in state.work
                    => state.shard[i].progress = PUSHING_SHARD
               /\ <<"report", i>> \in state.work
                    <=> state.shard[i].send_status = STORJ_REPORT_SENDING
    BY DEF IInv, Good, Owns
  <2>2. /\ state.pending_work_count = Cardinality(state.work)
        /\ state.completed_shards
             = Cardinality(InProgress(state, COMPLETED_PUSH_SHARD))
        /\ Flagged(state) /\ Closed(state)
    BY DEF IInv, Good, Stored
  <2>3. CountersMatchWork
    BY <2>1, <2>2 DEF CountersMatchWork, Flagged, Outstanding
  <2>4. NoUseAfterFree
    BY <2>2 DEF NoUseAfterFree, Closed
  <2> QED
    BY <2>3, <2>4 DEF BookkeepingExact
<1> QED
  BY <1>1, Invariance, PTL

(* While a report is being sent the shard's next contract and push wait:   *)
(* neither frees the pointer and the report that it uses.                  *)
THEOREM ReportSafe == Spec => []ReportKeepsPointer
<1>1. IInv => ReportKeepsPointer
  <2> SUFFICES ASSUME IInv, NEW i \in Index, Outstanding("report", i)
               PROVE  ~ Outstanding("push_frame", i) /\ ~ Outstanding("push_shard", i)
    BY DEF ReportKeepsPointer
  <2>1. Owns(state, i, state.shard[i])
    BY DEF IInv, Good
  <2> QED
    BY <2>1 DEF Owns, Outstanding
<1> QED
  BY <1>1, Invariance, PTL

(* A shard that is being worked on is one of the file's, and the file it   *)
(* is read from is there.                                                  *)
LEMMA ShardSource ==
  ASSUME IInv, NEW i \in Index,
         Outstanding("prepare_frame", i) \/ Outstanding("push_shard", i)
  PROVE  /\ state.rs => state.encrypted_file
         /\ i >= state.total_data_shards => state.parity_file
<1>1. Ready(state)
  <2>1. PICK k \in {"prepare_frame", "push_shard"} : <<k, i>> \in state.work
    BY DEF Outstanding
  <2>2. k \notin SingleKinds
    BY <2>1 DEF SingleKinds
  <2>3. ASSUME NEW kind \in SingleKinds PROVE state.work # {<<kind, 0>>}
    BY <2>1, <2>2
  <2> QED
    BY <2>1, <2>3 DEF IInv, Good, Sequenced
<1>2. state.total_shards \in 0..MaxShards /\ state.total_data_shards \in 0..MaxShards
  BY DEF IInv, Good, StateType
<1>3. i < state.total_shards
  <2>1. Owns(state, i, state.shard[i])
    BY DEF IInv, Good
  <2>2. state.shard[i].progress # AWAITING_PREPARE_FRAME
    BY <2>1 DEF Owns, Outstanding
  <2>3. state.shard[i] # NewShard
    BY <2>2 DEF NewShard
  <2>4. ~ (i >= state.total_shards)
    BY <2>1, <2>3 DEF Owns
  <2> QED
    BY <1>2, <2>4 DEF Index
<1>4. ASSUME i >= state.total_data_shards PROVE state.parity_file
  <2>1. state.total_shards > 0
    BY <1>2, <1>3 DEF Index
  <2>2. /\ state.total_shards = Counted(file) /\ state.rs = Coded(file)
        /\ state.total_data_shards = file.data
    BY <2>1 DEF IInv, Good, Sized
  <2>3. ParityShards(file) # 0
    BY <1>2, <1>3, <1>4, <2>2 DEF Counted, Index
  <2>4. state.rs
    BY <2>2, <2>3 DEF ParityShards
  <2> QED
    BY <1>1, <2>4 DEF Ready
<1> QED
  BY <1>1, <1>4 DEF Ready

(* The entry that makes the file visible is asked for only after every     *)
(* check, with every shard of the file stored, parity included, and is     *)
(* confirmed at most once; a shard is read only from a file that is there. *)
THEOREM EntryLast == Spec => []EntryOnlyWhenStored
<1>1. IInv => EntryOnlyWhenStored
  <2> SUFFICES ASSUME IInv PROVE EntryOnlyWhenStored
    OBVIOUS
  <2>1. Stored(state) /\ Flagged(state) /\ state.entries \in Nat
    BY DEF IInv, Good, StateType
  <2>2. ASSUME Outstanding("entry", 0) \/ state.entries > 0
        PROVE  state.bucket_verified /\ state.file_verified /\ AllStored(state)
    <3>1. state.completed_upload \/ state.creating_bucket_entry
      <4>1. CASE Outstanding("entry", 0)
        BY <2>1, <4>1 DEF Flagged, Outstanding
      <4>2. CASE state.entries > 0
        <5>1. state.entries = 1
          BY <2>1, <4>2 DEF Stored
        <5> QED
          BY <2>1, <5>1 DEF Stored
      <4> QED
        BY <2>2, <4>1, <4>2
    <3> QED
      BY <2>1, <3>1 DEF Stored, Ready
  <2>3. state.entries <= 1
    BY <2>1 DEF Stored
  <2> QED
    BY <2>2, <2>3, ShardSource DEF EntryOnlyWhenStored
<1> QED
  BY <1>1, Invariance, PTL

(* finished_cb says success only for a stored upload that was not          *)
(* canceled; a failed upload that was not canceled left no entry.          *)
THEOREM ResultTrue == Spec => []ResultMatchesEntry
<1>1. IInv => ResultMatchesEntry
  <2> SUFFICES ASSUME IInv PROVE ResultMatchesEntry
    OBVIOUS
  <2>1. Stored(state) /\ Closed(state) /\ state.entries \in Nat
    BY DEF IInv, Good, StateType
  <2>2. ASSUME state.callbacks = <<"OK">> PROVE AllStored(state) /\ ~ state.canceled
    <3>1. state.final_callback_called
      BY <2>1, <2>2 DEF Closed
    <3>2. <<state.error_status>> = <<"OK">>
      BY <2>1, <2>2, <3>1 DEF Closed
    <3>3. state.error_status = "OK"
      BY <3>2
    <3> QED
      BY <2>1, <3>1, <3>3 DEF Closed, Stored
  <2>3. ASSUME state.final_callback_called, state.callbacks # <<"OK">>, ~ state.canceled
        PROVE  state.entries = 0
    <3>1. state.error_status # "OK"
      BY <2>1, <2>3 DEF Closed
    <3>2. ~ state.completed_upload
      BY <2>1, <2>3, <3>1 DEF Stored
    <3>3. state.entries # 1 /\ state.entries <= 1
      BY <2>1, <3>2 DEF Stored
    <3> QED
      BY <2>1, <3>3
  <2> QED
    BY <2>2, <2>3 DEF ResultMatchesEntry
<1> QED
  BY <1>1, Invariance, PTL

(* As long as nothing failed, every shard that is not stored has the job   *)
(* that moves it on, or waits for its report or for a slot, and the last   *)
(* one stored leads to the entry: queue_next_work forgets nothing.         *)
THEOREM ShardsCared == Spec => []NoForgottenShard
<1>1. IInv => NoForgottenShard
  <2> SUFFICES ASSUME IInv PROVE NoForgottenShard
    OBVIOUS
  <2>1. SlotsBounded
    BY DEF IInv, Good, Slotted, SlotsBounded
  <2>2. state.work = {} => state.final_callback_called
    BY DEF IInv, Busy
  <2>3. ASSUME ShardsGoOn(state) PROVE Saturated(state)
    BY <2>3 DEF IInv, Busy
  <2>4. Flagged(state)
    BY DEF IInv, Good
  <2> QED
    BY <2>1, <2>2, <2>3, <2>4
       DEF NoForgottenShard, Saturated, Taken, Flagged, Outstanding, WaitsForReport
<1> QED
  BY <1>1, Invariance, PTL

(* A push that failed is followed by another contract, never by a second   *)
(* push under the same one, and a stored shard stays stored                *)
(* (after_push_shard).                                                     *)
THEOREM RetriesAnew == Spec => NewContractForRetry
<1> DEFINE A(i) ==
      /\ Outstanding("push_shard", i) /\ ~ Outstanding("push_shard", i)' /\ GoesOn(state')
           => state'.shard[i].progress \in {AWAITING_PUSH_FRAME, COMPLETED_PUSH_SHARD}
      /\ state.shard[i].progress = COMPLETED_PUSH_SHARD
           => state'.shard[i].progress = COMPLETED_PUSH_SHARD
<1>1. IInv /\ [Next]_vars => [\A i \in Index : A(i)]_vars
  <2> SUFFICES ASSUME IInv, Next, NEW i \in Index PROVE A(i)
    OBVIOUS
  <2>1. CASE \E job \in JobKind \X Index : Handles(job)
    <3>1. PICK job \in JobKind \X Index : Handles(job)
      BY <2>1
    <3>2. PICK r : Handled(state, job, r) /\ Settles(r, state')
      BY <3>1, JobEnds
    <3>3. ASSUME Outstanding("push_shard", i), ~ Outstanding("push_shard", i)',
                 GoesOn(state')
          PROVE  state'.shard[i].progress \in {AWAITING_PUSH_FRAME, COMPLETED_PUSH_SHARD}
      <4>1. r.work = state.work \ {job} /\ r.work \subseteq state'.work
        BY <3>2 DEF Handled, Settles
      <4>2. job = <<"push_shard", i>>
        BY <3>3, <4>1 DEF Outstanding
      <4>3. r.error_status = "OK"
        BY <3>2, <3>3 DEF Settles, GoesOn
      <4>4. r.shard[i].progress = COMPLETED_PUSH_SHARD \/ KeptWaiting(r.shard[i])
        BY <3>2, <4>2, <4>3 DEF Handled
      <4>5. state'.shard[i].progress = COMPLETED_PUSH_SHARD \/ KeptWaiting(state'.shard[i])
        BY <3>2, <4>4 DEF Settles
      <4> QED
        BY <4>5 DEF KeptWaiting
    <3>4. state.shard[i].progress = COMPLETED_PUSH_SHARD
            => state'.shard[i].progress = COMPLETED_PUSH_SHARD
      BY <3>2 DEF Handled, Settles
    <3> QED
      BY <3>3, <3>4
  <2>2. CASE Waits(state, state')
    BY <2>2 DEF Waits, Outstanding
  <2> QED
    BY <2>1, <2>2, NextHandles
<1> QED
  BY <1>1, Invariance, PTL DEF Spec, NewContractForRetry

(* Once an upload has failed, was canceled or is complete no job is        *)
(* queued, and no later callback turns an error back into success.         *)
THEOREM OverDrains == Spec => DrainsWhenOver
<1>1. IInv /\ [Next]_vars
        => [/\ ~ GoesOn(state) => state'.work \subseteq state.work
            /\ state.error_status # "OK" => state'.error_status # "OK"]_vars
  <2> SUFFICES ASSUME IInv, Next
               PROVE  /\ ~ GoesOn(state) => state'.work \subseteq state.work
                      /\ state.error_status # "OK" => state'.error_status # "OK"
    OBVIOUS
  <2>1. CASE \E job \in JobKind \X Index : Handles(job)
    <3>1. PICK job, r : Handled(state, job, r) /\ Settles(r, state')
      BY <2>1, JobEnds
    <3> QED
      BY <3>1 DEF Handled, Settles
  <2>2. CASE Waits(state, state')
    BY <2>2 DEF Waits
  <2> QED
    BY <2>1, <2>2, NextHandles
<1> QED
  BY <1>1, Invariance, PTL DEF Spec, DrainsWhenOver

(* An upload is a Transfer: its callback comes once, after the last job, a *)
(* canceled upload starts nothing and does not report success.             *)
THEOREM ImplementsTransfer == Spec => KeepsPromise
<1>1. Init => Promise!TransferInit
  BY InitIInv DEF Promise!TransferInit, IInv, Good, StateType
<1>2. IInv /\ [Next]_vars => [Promise!TransferNext]_(Promise!transferVars)
  <2> SUFFICES ASSUME IInv, [Next]_vars
               PROVE  [Promise!TransferNext]_(Promise!transferVars)
    OBVIOUS
  <2>1. CASE Next /\ \E job \in JobKind \X Index : Handles(job)
    <3>1. PICK job \in JobKind \X Index : Handles(job)
      BY <2>1
    <3>2. PICK r : Handled(state, job, r) /\ Settles(r, state')
      BY <3>1, JobEnds
    <3>3. /\ job \in state.work /\ r.work = state.work \ {job}
          /\ state'.canceled = state.canceled
          /\ state'.work \in SUBSET (JobKind \X Index)
          /\ state'.error_status = r.error_status
          /\ state'.error_status \in ErrorStatus
      BY <3>1, <3>2, JobEnds DEF Handled, Settles, Good, StateType
    <3>4. state.canceled => state'.work = state.work \ {job} /\ state'.error_status # "OK"
      <4>1. state.canceled => state.error_status # "OK" /\ ~ GoesOn(state)
        BY DEF IInv, Good, Closed, GoesOn
      <4> QED
        BY <3>2, <3>3, <4>1 DEF Handled, Settles
    <3>5. state.callbacks = << >>
      BY <3>3 DEF IInv, Good, Closed
    <3>6. CASE state'.callbacks = << >> /\ r.work \subseteq state'.work
      <4>1. Promise!HandleJob
        BY <3>3, <3>4, <3>5, <3>6 DEF Promise!HandleJob
      <4> QED
        BY <4>1 DEF Promise!TransferNext
    <3>7. CASE /\ r.work = {} /\ state'.work = {}
               /\ state'.callbacks = <<state'.error_status>>
      <4>1. state.work = {job}
        BY <3>3, <3>7
      <4>2. Promise!Deliver
        BY <3>3, <3>4, <3>5, <3>7, <4>1 DEF Promise!Deliver
      <4> QED
        BY <4>2 DEF Promise!TransferNext
    <3> QED
      BY <3>2, <3>6, <3>7 DEF Settles
  <2>2. CASE Waits(state, state') /\ state'.canceled = state.canceled
    BY <2>2 DEF Waits, Promise!transferVars
  <2>3. CASE Waits(state, state') /\ state'.canceled
    <3>1. state'.canceled = TRUE
      BY <2>3 DEF Waits, Good, StateType
    <3>2. Promise!Cancel
      BY <2>3, <3>1 DEF Waits, Promise!Cancel
    <3> QED
      BY <3>2 DEF Promise!TransferNext
  <2>4. CASE UNCHANGED vars
    BY <2>4 DEF vars, Promise!transferVars
  <2> QED
    BY <2>1, <2>2, <2>3, <2>4, NextHandles
<1> QED
  BY <1>1, <1>2, Invariance, PTL DEF Spec, KeepsPromise, Promise!TransferSpec

=============================================================================
