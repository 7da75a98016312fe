--------------------------- MODULE DownloadProofs ---------------------------
(***************************************************************************)
(* Proofs about Download for every file, every limit and every number of   *)
(* shards: type correctness, agreement of the counters and flags with the  *)
(* outstanding jobs, and what follows from it.                             *)
(***************************************************************************)
EXTENDS Download, TLAPS, FiniteSetTheorems, WellFoundedInduction

USE DEF POINTER_UNINITIALIZED, POINTER_BEING_REPLACED, POINTER_ERROR_REPORTED,
        POINTER_ERROR, POINTER_CREATED, POINTER_BEING_DOWNLOADED,
        POINTER_DOWNLOADED, POINTER_MISSING, POINTER_FINISHED

-----------------------------------------------------------------------------
(* The inductive invariant, as a predicate on a state record.              *)

Counted(s) ==
  /\ s.pending_work_count = Cardinality(s.work)
  /\ s.resolving_shards = Cardinality(JobsOf(s, {"shard"}))

(* Each flag stands for exactly one job. *)
Flagged(s) ==
  /\ \A job \in s.work : job[1] \in {"pointers", "info", "recover"} => job[2] = 0
  /\ ~ s.requesting_pointers => JobsOf(s, {"pointers", "replace"}) = {}
  /\ s.requesting_pointers => \E job : JobsOf(s, {"pointers", "replace"}) = {job}
  /\ <<"info", 0>> \in s.work <=> s.requesting_info
  /\ <<"recover", 0>> \in s.work <=> s.recovering_shards

(* The report of a pointer will not be sent (again). *)
Settled(p) ==
  \/ p.send_status = 2
  \/ p.send_status = 0 /\ p.send_count >= STORJ_MAX_REPORT_TRIES

(* What the outstanding jobs for index i say about its pointer p. *)
Owns(s, i, p) ==
  /\ <<"shard", i>> \in s.work =>
       /\ i < s.total_pointers
       /\ p.status \in {POINTER_BEING_DOWNLOADED, POINTER_MISSING, POINTER_FINISHED}
  /\ <<"replace", i>> \in s.work =>
       /\ i < s.total_pointers
       /\ p.status \in {POINTER_BEING_REPLACED, POINTER_FINISHED}
       /\ Settled(p)
       /\ <<"shard", i>> \notin s.work
  /\ <<"report", i>> \in s.work =>
       /\ i < s.total_pointers
       /\ p.send_status = 1
  /\ p.status = POINTER_ERROR_REPORTED => Settled(p)

Closed(s) ==
  /\ s.finished => s.work = {} /\ \E e \in ErrorStatus : s.callbacks = <<e>>
  /\ ~ s.finished => s.callbacks = << >>

Good(s) ==
  /\ s \in StateType
  /\ Counted(s)
  /\ Flagged(s)
  /\ \A i \in Index : Owns(s, i, s.pointers[i])
  /\ Closed(s)
  /\ s.canceled => s.error_status # "OK"

(* The jobs, the flags and the end of the download are the same in both. *)
SameJobs(s, t) ==
  /\ t.work = s.work
  /\ t.pending_work_count = s.pending_work_count
  /\ t.resolving_shards = s.resolving_shards
  /\ t.requesting_pointers = s.requesting_pointers
  /\ t.requesting_info = s.requesting_info
  /\ t.recovering_shards = s.recovering_shards
  /\ t.finished = s.finished
  /\ t.callbacks = s.callbacks
  /\ t.canceled = s.canceled

(* What queue_next_work makes of a state: it queues more, or it finishes   *)
(* when nothing is outstanding; after an error it only finishes.           *)
Settles(s, t) ==
  /\ Good(t)
  /\ t.canceled = s.canceled
  /\ \/ t.callbacks = << >> /\ s.work \subseteq t.work
     \/ /\ s.work = {} /\ t.work = {}
        /\ t.error_status \in ErrorStatus
        /\ t.callbacks = <<t.error_status>>
  /\ s.error_status # "OK" => t.work = s.work /\ t.error_status # "OK"

(* A download that may still be given work. *)
Live(s) == Good(s) /\ ~ s.finished /\ s.error_status = "OK"

(* Work was added and nothing of the outcome changed. *)
Grown(s, t) ==
  /\ s.work \subseteq t.work
  /\ t.canceled = s.canceled
  /\ t.callbacks = s.callbacks
  /\ t.info = s.info

-----------------------------------------------------------------------------
(* Sets of jobs. *)

LEMMA IndexFinite == IsFiniteSet(Index)
  BY DownloadAssumption, FS_Interval DEF Index

LEMMA KindFinite == IsFiniteSet(JobKind)
<1>1. IsFiniteSet({"pointers"})
  BY FS_Singleton
<1>2. IsFiniteSet({"pointers"} \cup {"replace"})
  BY <1>1, FS_AddElement
<1>3. IsFiniteSet({"pointers"} \cup {"replace"} \cup {"info"})
  BY <1>2, FS_AddElement
<1>4. IsFiniteSet({"pointers"} \cup {"replace"} \cup {"info"} \cup {"shard"})
  BY <1>3, FS_AddElement
<1>5. IsFiniteSet({"pointers"} \cup {"replace"} \cup {"info"} \cup {"shard"}
                    \cup {"report"})
  BY <1>4, FS_AddElement
<1>6. IsFiniteSet({"pointers"} \cup {"replace"} \cup {"info"} \cup {"shard"}
                    \cup {"report"} \cup {"recover"})
  BY <1>5, FS_AddElement
<1>7. JobKind = {"pointers"} \cup {"replace"} \cup {"info"} \cup {"shard"}
                    \cup {"report"} \cup {"recover"}
  BY DEF JobKind
<1> QED
  BY <1>6, <1>7

(* A set of jobs is finite. *)
LEMMA WorkFinite ==
  ASSUME NEW w \in SUBSET (JobKind \X Index)
  PROVE  IsFiniteSet(w) /\ Cardinality(w) \in Nat
<1>1. IsFiniteSet(JobKind \X Index)
  BY IndexFinite, KindFinite, FS_Product
<1> QED
  BY <1>1, FS_Subset, FS_CardinalityType

(* Jobs that are not outstanding yet are counted one by one. *)
LEMMA AddedCount ==
  ASSUME NEW w \in SUBSET (JobKind \X Index),
         NEW new \in SUBSET (JobKind \X Index),
         w \cap new = {}
  PROVE  Cardinality(w \cup new) = Cardinality(w) + Cardinality(new)
<1>1. IsFiniteSet(w) /\ Cardinality(w) \in Nat
  BY WorkFinite
<1>2. IsFiniteSet(new) /\ Cardinality(new) \in Nat
  BY WorkFinite
<1>3. Cardinality(w \cap new) = 0
  BY FS_EmptySet
<1>4. Cardinality(w \cup new)
        = Cardinality(w) + Cardinality(new) - Cardinality(w \cap new)
  BY <1>1, <1>2, FS_Union
<1> QED
  BY <1>1, <1>2, <1>3, <1>4

LEMMA RemovedCount ==
  ASSUME NEW w \in SUBSET (JobKind \X Index), NEW job \in w
  PROVE  Cardinality(w \ {job}) = Cardinality(w) - 1
  BY WorkFinite, FS_RemoveElement

LEMMA SingleCount == \A x : Cardinality({x}) = 1
  BY FS_Singleton

(* One job for each of a set of pointers. *)
LEMMA JobsPerPointer ==
  ASSUME NEW kind \in JobKind, NEW S \in SUBSET Index
  PROVE  /\ Cardinality({kind} \X S) = Cardinality(S)
         /\ {kind} \X S \in SUBSET (JobKind \X Index)
<1>1. IsFiniteSet(S)
  BY IndexFinite, FS_Subset
<1>2. IsFiniteSet({kind}) /\ Cardinality({kind}) = 1
  BY FS_Singleton
<1>3. Cardinality({kind} \X S) = 1 * Cardinality(S)
  BY <1>1, <1>2, FS_Product
<1>4. Cardinality(S) \in Nat
  BY <1>1, FS_CardinalityType
<1> QED
  BY <1>3, <1>4

-----------------------------------------------------------------------------
(* What the operations on one pointer leave of it. *)

LEMMA MarkedPointer ==
  ASSUME NEW p \in PointerType, NEW status \in -4..4
  PROVE  /\ Marked(p, status) \in PointerType
         /\ Marked(p, status).status = status
         /\ Marked(p, status).send_status = p.send_status
         /\ Marked(p, status).send_count = p.send_count
<1>1. PICK q : q = Marked(p, status)
  OBVIOUS
<1>2. /\ q \in PointerType
      /\ q.status = status
      /\ q.send_status = p.send_status
      /\ q.send_count = p.send_count
  BY <1>1 DEF Marked, PointerType
<1> QED
  BY <1>1, <1>2

LEMMA GivenUpPointer ==
  ASSUME NEW p \in PointerType
  PROVE  /\ GivenUp(p) \in PointerType
         /\ GivenUp(p).status = POINTER_MISSING
         /\ GivenUp(p).send_status = p.send_status
         /\ GivenUp(p).send_count = p.send_count
<1>1. PICK zero \in Nat, missing \in -4..4 : zero = 0 /\ missing = POINTER_MISSING
  OBVIOUS
<1>2. PICK q : q = [p EXCEPT !.replace_count = zero, !.status = missing]
  OBVIOUS
<1>3. q = GivenUp(p)
  BY <1>1, <1>2 DEF GivenUp
<1>4. /\ q \in PointerType
      /\ q.status = missing
      /\ q.send_status = p.send_status
      /\ q.send_count = p.send_count
  BY <1>2, Zenon DEF PointerType
<1> QED
  BY <1>1, <1>3, <1>4

LEMMA ReportingPointer ==
  ASSUME NEW p \in PointerType
  PROVE  /\ Reporting(p) \in PointerType
         /\ Reporting(p).status = p.status
         /\ Reporting(p).send_status = 1
<1>1. PICK n \in Nat : n = p.send_count + 1
  BY DEF PointerType
<1>2. PICK one \in 0..2 : one = 1
  OBVIOUS
<1>3. PICK q : q = [p EXCEPT !.send_status = one, !.send_count = n]
  OBVIOUS
<1>4. q = Reporting(p)
  BY <1>1, <1>2, <1>3 DEF Reporting
<1>5. /\ q \in PointerType
      /\ q.status = p.status
      /\ q.send_status = one
  BY <1>3, Zenon DEF PointerType
<1> QED
  BY <1>2, <1>4, <1>5

LEMMA ReportedPointer ==
  ASSUME NEW p \in PointerType, NEW accepted \in BOOLEAN
  PROVE  /\ Reported(p, accepted) \in PointerType
         /\ \/ Reported(p, accepted).status = p.status
            \/ /\ p.status = POINTER_ERROR
               /\ Reported(p, accepted).status = POINTER_ERROR_REPORTED
               /\ Settled(Reported(p, accepted))
<1>1. PICK n \in 0..2 : n = IF accepted THEN 2 ELSE 0
  OBVIOUS
<1>2. PICK status \in -4..4 :
        status = IF /\ accepted \/ p.send_count >= STORJ_MAX_REPORT_TRIES
                    /\ p.status = POINTER_ERROR
                 THEN POINTER_ERROR_REPORTED ELSE p.status
  BY DEF PointerType
<1>3. PICK q : q = [p EXCEPT !.send_status = n, !.status = status]
  OBVIOUS
<1>4. q = Reported(p, accepted)
  BY <1>1, <1>2, <1>3 DEF Reported
<1>5. /\ q \in PointerType
      /\ q.send_count = p.send_count
      /\ q.send_status = n
      /\ q.status = status
  BY <1>3, Zenon DEF PointerType
<1> QED
  BY <1>1, <1>2, <1>4, <1>5 DEF Settled

LEMMA AnsweredPointer ==
  ASSUME NEW p \in PointerType,
         NEW result \in [error : BOOLEAN, stored : BOOLEAN, timed : BOOLEAN]
  PROVE  /\ Answered(p, result) \in PointerType
         /\ Answered(p, result).status \in {POINTER_ERROR, POINTER_DOWNLOADED}
         /\ Answered(p, result).send_status = p.send_status
<1>1. PICK status \in {POINTER_ERROR, POINTER_DOWNLOADED} :
        status = IF result.error THEN POINTER_ERROR ELSE POINTER_DOWNLOADED
  OBVIOUS
<1>2. PICK timed \in BOOLEAN : timed = result.timed
  OBVIOUS
<1>3. PICK q : q = [p EXCEPT !.timed = timed, !.status = status]
  OBVIOUS
<1>4. q = Answered(p, result)
  BY <1>1, <1>2, <1>3 DEF Answered
<1>5. status \in -4..4
  OBVIOUS
<1>6. /\ q \in PointerType
      /\ q.status = status
      /\ q.send_status = p.send_status
  BY <1>3, <1>5, Zenon DEF PointerType
<1> QED
  BY <1>4, <1>6

LEMMA SetPointerPointer ==
  ASSUME NEW p \in PointerType, NEW entry \in Entry, NEW replaced \in BOOLEAN
  PROVE  /\ SetPointer(p, entry, replaced) \in PointerType
         /\ SetPointer(p, entry, replaced).status
                \in {POINTER_CREATED, POINTER_MISSING}
<1>1. PICK n \in Nat : n = IF replaced THEN p.replace_count + 1 ELSE 0
  BY DEF PointerType
<1>2. PICK status \in {POINTER_CREATED, POINTER_MISSING} :
        status = IF entry = "farmer" THEN POINTER_CREATED ELSE POINTER_MISSING
  OBVIOUS
<1>3. PICK unsent \in 0..2, untried \in Nat : unsent = 0 /\ untried = 0
  OBVIOUS
<1>4. PICK q : q = [p EXCEPT !.replace_count = n, !.status = status,
                            !.send_status = unsent, !.send_count = untried,
                            !.timed = FALSE]
  OBVIOUS
<1>5. q = SetPointer(p, entry, replaced)
  BY <1>1, <1>2, <1>3, <1>4 DEF SetPointer
<1>6. status \in -4..4
  OBVIOUS
<1>7. q \in PointerType /\ q.status = status
  BY <1>4, <1>6, Zenon DEF PointerType
<1> QED
  BY <1>5, <1>7

-----------------------------------------------------------------------------
(* The invariant through queue_next_work, one lemma for each thing it does. *)

(* A step that queues and ends no job only has to keep pointers and error. *)
LEMMA SameJobsGood ==
  ASSUME NEW s, Good(s), NEW t \in StateType, SameJobs(s, t),
         t.canceled => t.error_status # "OK",
         \A j \in Index : Owns(t, j, t.pointers[j])
  PROVE  Good(t)
  BY DEF Good, SameJobs, Counted, Flagged, Closed, JobsOf

(* One pointer changes. *)
LEMMA PointerGood ==
  ASSUME NEW s, Good(s), NEW i \in Index, NEW q \in PointerType, Owns(s, i, q)
  PROVE  LET t == [s EXCEPT !.pointers[i] = q]
         IN  /\ Good(t) /\ Grown(s, t) /\ SameJobs(s, t)
             /\ t.error_status = s.error_status
<1>1. PICK t : t = [s EXCEPT !.pointers[i] = q]
  OBVIOUS
<1>2. s \in StateType
  BY DEF Good
<1>3. /\ t \in StateType
      /\ SameJobs(s, t)
      /\ t.total_pointers = s.total_pointers
      /\ t.error_status = s.error_status
      /\ t.info = s.info
      /\ t.pointers[i] = q
      /\ \A j \in Index : j # i => t.pointers[j] = s.pointers[j]
  BY <1>1, <1>2, Zenon DEF StateType, SameJobs
<1>4. ASSUME NEW j \in Index PROVE Owns(t, j, t.pointers[j])
  BY <1>3 DEF Good, Owns, SameJobs
<1>5. Good(t)
  BY <1>3, <1>4, SameJobsGood DEF Good, SameJobs
<1> QED
  BY <1>1, <1>3, <1>5 DEF Grown, SameJobs

LEMMA NoneRequested ==
  ASSUME NEW s, Good(s), ~ s.requesting_pointers, NEW i
  PROVE  <<"replace", i>> \notin s.work /\ <<"pointers", i>> \notin s.work
  BY DEF Good, Flagged, JobsOf

LEMMA GiveUpLive ==
  ASSUME NEW s, Live(s), NEW i \in Index, ~ s.requesting_pointers
  PROVE  Live(GiveUp(s, i)) /\ Grown(s, GiveUp(s, i))
<1>1. s.pointers[i] \in PointerType /\ Owns(s, i, s.pointers[i])
  BY DEF Live, Good, StateType
<1>2. PICK q \in PointerType : q = GivenUp(s.pointers[i])
  BY <1>1, GivenUpPointer
<1>3. /\ q.status = POINTER_MISSING
      /\ q.send_status = s.pointers[i].send_status
      /\ q.send_count = s.pointers[i].send_count
  BY <1>1, <1>2, GivenUpPointer
<1>4. <<"replace", i>> \notin s.work
  BY NoneRequested DEF Live
<1>5. Owns(s, i, q)
  BY <1>1, <1>3, <1>4 DEF Owns
<1>6. GiveUp(s, i) = [s EXCEPT !.pointers[i] = q]
  BY <1>2 DEF GiveUp
<1> QED
  BY <1>5, <1>6, PointerGood DEF Live, SameJobs

(* Jobs that are not outstanding yet are counted when they are queued. *)
LEMMA QueuedCount ==
  ASSUME NEW s \in StateType, Counted(s),
         NEW new \in SUBSET (JobKind \X Index), s.work \cap new = {}
  PROVE  /\ s.work \cup new \in SUBSET (JobKind \X Index)
         /\ s.pending_work_count + Cardinality(new) \in Int
         /\ s.pending_work_count + Cardinality(new) = Cardinality(s.work \cup new)
<1>1. s.work \in SUBSET (JobKind \X Index)
  BY DEF StateType
<1>2. Cardinality(new) \in Nat /\ Cardinality(s.work) \in Nat
  BY <1>1, WorkFinite
<1>3. Cardinality(s.work \cup new) = Cardinality(s.work) + Cardinality(new)
  BY <1>1, AddedCount
<1> QED
  BY <1>1, <1>2, <1>3 DEF Counted

(* One more job, of a kind other than shard. *)
LEMMA QueuedOne ==
  ASSUME NEW s \in StateType, Counted(s),
         NEW job \in JobKind \X Index, job \notin s.work, job[1] # "shard",
         NEW t, t.work = s.work \cup {job},
         t.pending_work_count = s.pending_work_count + Cardinality({job}),
         t.resolving_shards = s.resolving_shards
  PROVE  Counted(t)
<1>1. t.pending_work_count = Cardinality(t.work)
  BY QueuedCount
<1>2. JobsOf(t, {"shard"}) = JobsOf(s, {"shard"})
  BY DEF JobsOf
<1> QED
  BY <1>1, <1>2 DEF Counted

LEMMA RequestReplacementLive ==
  ASSUME NEW s, Live(s), NEW i \in Allocated(s), ~ s.requesting_pointers,
         s.pointers[i].status = POINTER_ERROR_REPORTED
  PROVE  LET t == RequestReplacement(s, i) IN Live(t) /\ Grown(s, t)
<1> DEFINE job == <<"replace", i>>
<1>1. /\ s \in StateType /\ Good(s)
      /\ i \in Index /\ i < s.total_pointers
      /\ s.pointers[i] \in PointerType /\ Owns(s, i, s.pointers[i])
      /\ job \in JobKind \X Index
  BY DEF Live, Good, StateType, Allocated, JobKind
<1>2. job \notin s.work
  BY <1>1, NoneRequested
<1>3. PICK q \in PointerType : q = Marked(s.pointers[i], POINTER_BEING_REPLACED)
  BY <1>1, MarkedPointer
<1>4. /\ q.status = POINTER_BEING_REPLACED
      /\ q.send_status = s.pointers[i].send_status
      /\ q.send_count = s.pointers[i].send_count
  BY <1>1, <1>3, MarkedPointer
<1>5. PICK w \in SUBSET (JobKind \X Index), n \in Int :
        w = s.work \cup {job} /\ n = s.pending_work_count + Cardinality({job})
  <2>1. Counted(s) /\ {job} \in SUBSET (JobKind \X Index) /\ s.work \cap {job} = {}
    BY <1>1, <1>2 DEF Good
  <2>2. /\ s.work \cup {job} \in SUBSET (JobKind \X Index)
        /\ s.pending_work_count + Cardinality({job}) \in Int
    BY <1>1, <2>1, QueuedCount
  <2> QED
    BY <2>2
<1>6. PICK t : t = [[s EXCEPT !.work = w, !.pending_work_count = n] EXCEPT
                      !.pointers[i] = q, !.requesting_pointers = TRUE]
  OBVIOUS
<1>7. t = RequestReplacement(s, i)
  BY <1>3, <1>5, <1>6 DEF RequestReplacement, Queue
<1>8. /\ t \in StateType
      /\ t.work = w
      /\ t.pending_work_count = n
      /\ t.pointers[i] = q
      /\ \A j \in Index : j # i => t.pointers[j] = s.pointers[j]
      /\ t.requesting_pointers = TRUE
      /\ t.total_pointers = s.total_pointers
      /\ t.resolving_shards = s.resolving_shards
      /\ t.requesting_info = s.requesting_info
      /\ t.recovering_shards = s.recovering_shards
      /\ t.finished = s.finished
      /\ t.callbacks = s.callbacks
      /\ t.canceled = s.canceled
      /\ t.error_status = s.error_status
      /\ t.info = s.info
  BY <1>1, <1>6, Zenon DEF StateType
<1>9. Counted(t)
  BY <1>1, <1>2, <1>5, <1>8, QueuedOne DEF Good
<1>10. Flagged(t)
  <2>1. JobsOf(t, {"pointers", "replace"}) = {job}
    BY <1>1, <1>5, <1>8 DEF Good, Flagged, JobsOf, Live
  <2>2. ASSUME NEW k \in t.work, k[1] \in {"pointers", "info", "recover"}
        PROVE  k[2] = 0
    BY <2>2, <1>1, <1>5, <1>8 DEF Good, Flagged
  <2>3. /\ <<"info", 0>> \in t.work <=> t.requesting_info
        /\ <<"recover", 0>> \in t.work <=> t.recovering_shards
    BY <1>1, <1>5, <1>8 DEF Good, Flagged
  <2> QED
    BY <2>1, <2>2, <2>3, <1>8 DEF Flagged
<1>11. ASSUME NEW j \in Index PROVE Owns(t, j, t.pointers[j])
  <2>1. Owns(s, j, s.pointers[j])
    BY <1>1 DEF Good
  <2>2. CASE j = i
    BY <2>1, <2>2, <1>1, <1>4, <1>5, <1>8 DEF Owns, Settled
  <2>3. CASE j # i
    BY <2>1, <2>3, <1>5, <1>8 DEF Owns
  <2> QED
    BY <2>2, <2>3
<1>12. Closed(t)
  BY <1>1, <1>8 DEF Good, Closed, Live
<1> QED
  BY <1>1, <1>5, <1>7, <1>8, <1>9, <1>10, <1>11, <1>12 DEF Live, Good, Grown

(* What queueing a job about no particular pointer leaves alone. *)
OneMore(s, t, job) ==
  /\ t.work = s.work \cup {job}
  /\ t.pending_work_count = s.pending_work_count + Cardinality({job})
  /\ t.resolving_shards = s.resolving_shards
  /\ t.total_pointers = s.total_pointers
  /\ t.pointers = s.pointers
  /\ t.finished = s.finished
  /\ t.callbacks = s.callbacks
  /\ t.canceled = s.canceled
  /\ t.error_status = s.error_status
  /\ t.info = s.info

LEMMA OneMoreExists ==
  ASSUME NEW s, Live(s), NEW job \in JobKind \X Index, job \notin s.work
  PROVE  \E w \in SUBSET (JobKind \X Index), n \in Int :
           w = s.work \cup {job} /\ n = s.pending_work_count + Cardinality({job})
<1>1. /\ s \in StateType /\ Counted(s)
      /\ {job} \in SUBSET (JobKind \X Index) /\ s.work \cap {job} = {}
  BY DEF Live, Good
<1>2. /\ s.work \cup {job} \in SUBSET (JobKind \X Index)
      /\ s.pending_work_count + Cardinality({job}) \in Int
  BY <1>1, QueuedCount
<1> QED
  BY <1>2

LEMMA OneMoreLive ==
  ASSUME NEW s, Live(s), NEW job \in JobKind \X Index, job \notin s.work,
         job[1] \in {"pointers", "info", "recover"},
         NEW t \in StateType, OneMore(s, t, job), Flagged(t)
  PROVE  Live(t) /\ Grown(s, t)
<1>1. Counted(t)
  BY QueuedOne DEF Live, Good, OneMore
<1>2. ASSUME NEW j \in Index PROVE Owns(t, j, t.pointers[j])
  BY DEF Live, Good, Owns, OneMore
<1>3. Closed(t)
  BY DEF Live, Good, Closed, OneMore
<1> QED
  BY <1>1, <1>2, <1>3 DEF Live, Good, Grown, OneMore

LEMMA RequestNextPointersLive ==
  ASSUME NEW s, Live(s), ~ s.requesting_pointers
  PROVE  LET t == RequestNextPointers(s) IN Live(t) /\ Grown(s, t)
<1> DEFINE job == <<"pointers", 0>>
<1>1. s \in StateType /\ job \in JobKind \X Index /\ Flagged(s)
  BY DownloadAssumption DEF Live, Good, JobKind, Index
<1>2. job \notin s.work
  BY NoneRequested DEF Live
<1>3. PICK w \in SUBSET (JobKind \X Index), n \in Int :
        w = s.work \cup {job} /\ n = s.pending_work_count + Cardinality({job})
  BY <1>1, <1>2, OneMoreExists
<1>4. PICK t : t = [[s EXCEPT !.work = w, !.pending_work_count = n] EXCEPT
                      !.requesting_pointers = TRUE]
  OBVIOUS
<1>5. t = RequestNextPointers(s)
  BY <1>3, <1>4 DEF RequestNextPointers, Queue
<1>6. /\ t \in StateType
      /\ OneMore(s, t, job)
      /\ t.requesting_pointers = TRUE
      /\ t.requesting_info = s.requesting_info
      /\ t.recovering_shards = s.recovering_shards
  BY <1>1, <1>3, <1>4, Zenon DEF StateType, OneMore
<1>7. Flagged(t)
  <2>1. JobsOf(t, {"pointers", "replace"}) = {job}
    BY <1>1, <1>6 DEF Flagged, JobsOf, OneMore
  <2>2. ASSUME NEW k \in t.work, k[1] \in {"pointers", "info", "recover"}
        PROVE  k[2] = 0
    BY <2>2, <1>1, <1>6 DEF Flagged, OneMore
  <2>3. /\ <<"info", 0>> \in t.work <=> t.requesting_info
        /\ <<"recover", 0>> \in t.work <=> t.recovering_shards
    BY <1>1, <1>6 DEF Flagged, OneMore
  <2> QED
    BY <2>1, <2>2, <2>3, <1>6 DEF Flagged
<1> QED
  BY <1>1, <1>2, <1>5, <1>6, <1>7, OneMoreLive

LEMMA queue_request_infoLive ==
  ASSUME NEW s, Live(s)
  PROVE  LET t == queue_request_info(s) IN Live(t) /\ Grown(s, t)
<1> DEFINE job == <<"info", 0>>
<1>1. CASE s.info \/ s.requesting_info \/ s.canceled
  BY <1>1 DEF queue_request_info, Grown
<1>2. CASE ~ (s.info \/ s.requesting_info \/ s.canceled)
  <2>1. s \in StateType /\ job \in JobKind \X Index /\ Flagged(s)
    BY DownloadAssumption DEF Live, Good, JobKind, Index
  <2>2. job \notin s.work
    BY <1>2, <2>1 DEF Flagged
  <2>3. PICK w \in SUBSET (JobKind \X Index), n \in Int :
          w = s.work \cup {job} /\ n = s.pending_work_count + Cardinality({job})
    BY <2>1, <2>2, OneMoreExists
  <2>4. PICK t : t = [[s EXCEPT !.work = w, !.pending_work_count = n] EXCEPT
                        !.requesting_info = TRUE]
    OBVIOUS
  <2>5. t = queue_request_info(s)
    BY <1>2, <2>3, <2>4 DEF queue_request_info, Queue
  <2>6. /\ t \in StateType
        /\ OneMore(s, t, job)
        /\ t.requesting_pointers = s.requesting_pointers
        /\ t.requesting_info = TRUE
        /\ t.recovering_shards = s.recovering_shards
    BY <2>1, <2>3, <2>4, Zenon DEF StateType, OneMore
  <2>7. Flagged(t)
    <3>1. JobsOf(t, {"pointers", "replace"}) = JobsOf(s, {"pointers", "replace"})
      BY <2>6 DEF JobsOf, OneMore
    <3>2. ASSUME NEW k \in t.work, k[1] \in {"pointers", "info", "recover"}
          PROVE  k[2] = 0
      BY <3>2, <2>1, <2>6 DEF Flagged, OneMore
    <3>3. /\ <<"info", 0>> \in t.work <=> t.requesting_info
          /\ <<"recover", 0>> \in t.work <=> t.recovering_shards
      BY <2>1, <2>6 DEF Flagged, OneMore
    <3> QED
      BY <3>1, <3>2, <3>3, <2>1, <2>6 DEF Flagged
  <2> QED
    BY <2>1, <2>2, <2>5, <2>6, <2>7, OneMoreLive
<1> QED
  BY <1>1, <1>2

LEMMA queue_recover_shardsLive ==
  ASSUME NEW s, Live(s)
  PROVE  LET t == queue_recover_shards(s) IN Live(t) /\ Grown(s, t)
<1> DEFINE job == <<"recover", 0>>
<1> DEFINE start == /\ ~ s.recovering_shards
                    /\ s.pointers_completed
                    /\ Allocated(s) = Missing(s) \cup
                                         WithStatus(s, POINTER_DOWNLOADED)
<1>1. CASE ~ start
  BY <1>1 DEF queue_recover_shards, Grown
<1>2. CASE start
  <2>1. s \in StateType /\ job \in JobKind \X Index /\ Flagged(s)
    BY DownloadAssumption DEF Live, Good, JobKind, Index
  <2>2. job \notin s.work
    BY <1>2, <2>1 DEF Flagged
  <2>3. PICK w \in SUBSET (JobKind \X Index), n \in Int :
          w = s.work \cup {job} /\ n = s.pending_work_count + Cardinality({job})
    BY <2>1, <2>2, OneMoreExists
  <2>4. PICK zilch \in SUBSET Index : zilch = Missing(s)
    BY DEF Missing, WithStatus, Allocated
  <2>5. PICK t : t = [[s EXCEPT !.work = w, !.pending_work_count = n] EXCEPT
                        !.recovering_shards = TRUE, !.zilch = zilch]
    OBVIOUS
  <2>6. t = queue_recover_shards(s)
    BY <1>2, <2>3, <2>4, <2>5 DEF queue_recover_shards, Queue
  <2>7. /\ t \in StateType
        /\ OneMore(s, t, job)
        /\ t.requesting_pointers = s.requesting_pointers
        /\ t.requesting_info = s.requesting_info
        /\ t.recovering_shards = TRUE
    BY <2>1, <2>3, <2>5, Zenon DEF StateType, OneMore
  <2>8. Flagged(t)
    <3>1. JobsOf(t, {"pointers", "replace"}) = JobsOf(s, {"pointers", "replace"})
      BY <2>7 DEF JobsOf, OneMore
    <3>2. ASSUME NEW k \in t.work, k[1] \in {"pointers", "info", "recover"}
          PROVE  k[2] = 0
      BY <3>2, <2>1, <2>7 DEF Flagged, OneMore
    <3>3. /\ <<"info", 0>> \in t.work <=> t.requesting_info
          /\ <<"recover", 0>> \in t.work <=> t.recovering_shards
      BY <2>1, <2>7 DEF Flagged, OneMore
    <3> QED
      BY <3>1, <3>2, <3>3, <2>1, <2>7 DEF Flagged
  <2> QED
    BY <2>1, <2>2, <2>6, <2>7, <2>8, OneMoreLive
<1> QED
  BY <1>1, <1>2

LEMMA StartDownloadsLive ==
  ASSUME NEW s, Live(s), NEW starting \in SUBSET WithStatus(s, POINTER_CREATED)
  PROVE  LET t == StartDownloads(s, starting) IN Live(t) /\ Grown(s, t)
<1> DEFINE new == {"shard"} \X starting
<1>1. /\ s \in StateType /\ Good(s) /\ Counted(s) /\ Flagged(s)
      /\ s.work \in SUBSET (JobKind \X Index)
      /\ starting \in SUBSET Index
  BY DEF Live, Good, StateType, WithStatus, Allocated
<1>2. ASSUME NEW i \in starting
      PROVE  /\ i < s.total_pointers
             /\ s.pointers[i].status = POINTER_CREATED
             /\ s.pointers[i] \in PointerType
             /\ Owns(s, i, s.pointers[i])
  BY DEF Live, Good, StateType, WithStatus, Allocated
<1>3. /\ new \in SUBSET (JobKind \X Index)
      /\ Cardinality(new) = Cardinality(starting)
      /\ Cardinality(new) \in Nat
  <2>1. "shard" \in JobKind
    BY DEF JobKind
  <2> QED
    BY <1>1, <2>1, JobsPerPointer, WorkFinite
<1>4. s.work \cap new = {}
  <2>1. ASSUME NEW i \in starting, <<"shard", i>> \in s.work PROVE FALSE
    <3>1. s.pointers[i].status = POINTER_CREATED /\ Owns(s, i, s.pointers[i])
      BY <1>2
    <3> QED
      BY <2>1, <3>1 DEF Owns
  <2> QED
    BY <2>1
<1>5. PICK w \in SUBSET (JobKind \X Index), n \in Int :
        /\ w = s.work \cup new
        /\ n = s.pending_work_count + Cardinality(new)
        /\ n = Cardinality(w)
  <2>1. /\ s.work \cup new \in SUBSET (JobKind \X Index)
        /\ s.pending_work_count + Cardinality(new) \in Int
        /\ s.pending_work_count + Cardinality(new) = Cardinality(s.work \cup new)
    BY <1>1, <1>3, <1>4, QueuedCount
  <2> QED
    BY <2>1
<1>6. PICK r \in Int : r = s.resolving_shards + Cardinality(starting)
  BY <1>1, <1>3 DEF StateType
<1>7. PICK f : f = [i \in Index |->
                      IF i \in starting
                      THEN Marked(s.pointers[i], POINTER_BEING_DOWNLOADED)
                      ELSE s.pointers[i]]
  OBVIOUS
<1>8. f \in [Index -> PointerType]
  <2>1. ASSUME NEW i \in Index
        PROVE  /\ s.pointers[i] \in PointerType
               /\ Marked(s.pointers[i], POINTER_BEING_DOWNLOADED) \in PointerType
    BY <1>1, MarkedPointer DEF StateType
  <2> QED
    BY <1>7, <2>1
<1>9. PICK g \in SUBSET Index : g = s.fetched \ starting
  BY <1>1 DEF StateType
<1>10. PICK t : t = [[s EXCEPT !.work = w, !.pending_work_count = n] EXCEPT
                       !.resolving_shards = r, !.fetched = g, !.pointers = f]
  OBVIOUS
<1>11. t = StartDownloads(s, starting)
  BY <1>5, <1>6, <1>7, <1>9, <1>10 DEF StartDownloads, Queue
<1>12. /\ t \in StateType
       /\ t.work = w
       /\ t.pending_work_count = n
       /\ t.resolving_shards = r
       /\ t.pointers = f
       /\ t.total_pointers = s.total_pointers
       /\ t.requesting_pointers = s.requesting_pointers
       /\ t.requesting_info = s.requesting_info
       /\ t.recovering_shards = s.recovering_shards
       /\ t.finished = s.finished
       /\ t.callbacks = s.callbacks
       /\ t.canceled = s.canceled
       /\ t.error_status = s.error_status
       /\ t.info = s.info
  BY <1>1, <1>8, <1>10, Zenon DEF StateType
<1>13. Counted(t)
  <2>1. JobsOf(t, {"shard"}) = JobsOf(s, {"shard"}) \cup new
    BY <1>5, <1>12 DEF JobsOf
  <2>2. /\ JobsOf(s, {"shard"}) \in SUBSET (JobKind \X Index)
        /\ JobsOf(s, {"shard"}) \cap new = {}
    BY <1>1, <1>4 DEF JobsOf
  <2>3. Cardinality(JobsOf(t, {"shard"}))
          = Cardinality(JobsOf(s, {"shard"})) + Cardinality(new)
    BY <1>3, <2>1, <2>2, AddedCount
  <2> QED
    BY <1>1, <1>3, <1>5, <1>6, <1>12, <2>3 DEF Counted
<1>14. Flagged(t)
  <2>1. JobsOf(t, {"pointers", "replace"}) = JobsOf(s, {"pointers", "replace"})
    BY <1>5, <1>12 DEF JobsOf
  <2>2. ASSUME NEW k \in t.work, k[1] \in {"pointers", "info", "recover"}
        PROVE  k[2] = 0
    BY <2>2, <1>1, <1>5, <1>12 DEF Flagged
  <2>3. /\ <<"info", 0>> \in t.work <=> t.requesting_info
        /\ <<"recover", 0>> \in t.work <=> t.recovering_shards
    BY <1>1, <1>5, <1>12 DEF Flagged
  <2> QED
    BY <2>1, <2>2, <2>3, <1>1, <1>12 DEF Flagged
<1>15. ASSUME NEW j \in Index PROVE Owns(t, j, t.pointers[j])
  <2>1. Owns(s, j, s.pointers[j])
    BY <1>1 DEF Good
  <2>2. CASE j \in starting
    <3>1. /\ s.pointers[j].status = POINTER_CREATED
          /\ s.pointers[j] \in PointerType
          /\ j < s.total_pointers
      BY <1>2, <2>2
    <3>2. PICK q : q = Marked(s.pointers[j], POINTER_BEING_DOWNLOADED)
      OBVIOUS
    <3>3. /\ q.status = POINTER_BEING_DOWNLOADED
          /\ q.send_status = s.pointers[j].send_status
      BY <3>1, <3>2, MarkedPointer
    <3>4. t.pointers[j] = q
      BY <1>7, <1>12, <2>2, <3>2
    <3>5. Owns(t, j, q)
      BY <1>5, <1>12, <2>1, <2>2, <3>1, <3>3 DEF Owns
    <3> QED
      BY <3>4, <3>5
  <2>3. CASE j \notin starting
    <3>1. t.pointers[j] = s.pointers[j]
      BY <1>7, <1>12, <2>3
    <3>2. Owns(t, j, s.pointers[j])
      BY <1>5, <1>12, <2>1, <2>3 DEF Owns
    <3> QED
      BY <3>1, <3>2
  <2> QED
    BY <2>2, <2>3
<1>16. Closed(t)
  BY <1>1, <1>12 DEF Good, Closed, Live
<1> QED
  BY <1>1, <1>5, <1>11, <1>12, <1>13, <1>14, <1>15, <1>16 DEF Live, Good, Grown

LEMMA StartReportsLive ==
  ASSUME NEW s, Live(s), NEW sending \in SUBSET ToReport(s)
  PROVE  LET t == StartReports(s, sending) IN Live(t) /\ Grown(s, t)
<1> DEFINE new == {"report"} \X sending
<1>1. /\ s \in StateType /\ Good(s) /\ Counted(s) /\ Flagged(s)
      /\ s.work \in SUBSET (JobKind \X Index)
      /\ sending \in SUBSET Index
  BY DEF Live, Good, StateType, ToReport, Allocated
<1>2. ASSUME NEW i \in sending
      PROVE  /\ i < s.total_pointers
             /\ s.pointers[i].send_status < 1
             /\ s.pointers[i].send_count < STORJ_MAX_REPORT_TRIES
             /\ s.pointers[i] \in PointerType
             /\ Owns(s, i, s.pointers[i])
  BY DEF Live, Good, StateType, ToReport, Allocated
<1>3. new \in SUBSET (JobKind \X Index) /\ Cardinality(new) \in Nat
  <2>1. "report" \in JobKind
    BY DEF JobKind
  <2> QED
    BY <1>1, <2>1, JobsPerPointer, WorkFinite
<1>4. s.work \cap new = {}
  <2>1. ASSUME NEW i \in sending, <<"report", i>> \in s.work PROVE FALSE
    <3>1. s.pointers[i].send_status < 1 /\ Owns(s, i, s.pointers[i])
      BY <1>2
    <3> QED
      BY <2>1, <3>1 DEF Owns
  <2> QED
    BY <2>1
<1>5. PICK w \in SUBSET (JobKind \X Index), n \in Int :
        /\ w = s.work \cup new
        /\ n = s.pending_work_count + Cardinality(new)
        /\ n = Cardinality(w)
  <2>1. /\ s.work \cup new \in SUBSET (JobKind \X Index)
        /\ s.pending_work_count + Cardinality(new) \in Int
        /\ s.pending_work_count + Cardinality(new) = Cardinality(s.work \cup new)
    BY <1>1, <1>3, <1>4, QueuedCount
  <2> QED
    BY <2>1
<1>6. PICK f : f = [i \in Index |-> IF i \in sending
                                    THEN Reporting(s.pointers[i])
                                    ELSE s.pointers[i]]
  OBVIOUS
<1>7. f \in [Index -> PointerType]
  <2>1. ASSUME NEW i \in Index
        PROVE  /\ s.pointers[i] \in PointerType
               /\ Reporting(s.pointers[i]) \in PointerType
    BY <1>1, ReportingPointer DEF StateType
  <2> QED
    BY <1>6, <2>1
<1>8. PICK t : t = [[s EXCEPT !.work = w, !.pending_work_count = n] EXCEPT
                      !.pointers = f]
  OBVIOUS
<1>9. t = StartReports(s, sending)
  BY <1>5, <1>6, <1>8 DEF StartReports, Queue
<1>10. /\ t \in StateType
       /\ t.work = w
       /\ t.pending_work_count = n
       /\ t.resolving_shards = s.resolving_shards
       /\ t.pointers = f
       /\ t.total_pointers = s.total_pointers
       /\ t.requesting_pointers = s.requesting_pointers
       /\ t.requesting_info = s.requesting_info
       /\ t.recovering_shards = s.recovering_shards
       /\ t.finished = s.finished
       /\ t.callbacks = s.callbacks
       /\ t.canceled = s.canceled
       /\ t.error_status = s.error_status
       /\ t.info = s.info
  BY <1>1, <1>7, <1>8, Zenon DEF StateType
<1>11. Counted(t)
  <2>1. JobsOf(t, {"shard"}) = JobsOf(s, {"shard"})
    BY <1>5, <1>10 DEF JobsOf
  <2> QED
    BY <1>1, <1>5, <1>10, <2>1 DEF Counted
<1>12. Flagged(t)
  <2>1. JobsOf(t, {"pointers", "replace"}) = JobsOf(s, {"pointers", "replace"})
    BY <1>5, <1>10 DEF JobsOf
  <2>2. ASSUME NEW k \in t.work, k[1] \in {"pointers", "info", "recover"}
        PROVE  k[2] = 0
    BY <2>2, <1>1, <1>5, <1>10 DEF Flagged
  <2>3. /\ <<"info", 0>> \in t.work <=> t.requesting_info
        /\ <<"recover", 0>> \in t.work <=> t.recovering_shards
    BY <1>1, <1>5, <1>10 DEF Flagged
  <2> QED
    BY <2>1, <2>2, <2>3, <1>1, <1>10 DEF Flagged
<1>13. ASSUME NEW j \in Index PROVE Owns(t, j, t.pointers[j])
  <2>1. Owns(s, j, s.pointers[j])
    BY <1>1 DEF Good
  <2>2. CASE j \in sending
    <3>1. /\ s.pointers[j] \in PointerType
          /\ j < s.total_pointers
          /\ ~ Settled(s.pointers[j])
      BY <1>2, <2>2, DownloadAssumption DEF Settled, PointerType
    <3>2. PICK q : q = Reporting(s.pointers[j])
      OBVIOUS
    <3>3. /\ q.status = s.pointers[j].status
          /\ q.send_status = 1
      BY <3>1, <3>2, ReportingPointer
    <3>4. t.pointers[j] = q
      BY <1>6, <1>10, <2>2, <3>2
    <3>5. Owns(t, j, q)
      BY <1>5, <1>10, <2>1, <2>2, <3>1, <3>3 DEF Owns
    <3> QED
      BY <3>4, <3>5
  <2>3. CASE j \notin sending
    <3>1. t.pointers[j] = s.pointers[j]
      BY <1>6, <1>10, <2>3
    <3>2. Owns(t, j, s.pointers[j])
      BY <1>5, <1>10, <2>1, <2>3 DEF Owns
    <3> QED
      BY <3>1, <3>2
  <2> QED
    BY <2>2, <2>3
<1>14. Closed(t)
  BY <1>1, <1>10 DEF Good, Closed, Live
<1> QED
  BY <1>1, <1>5, <1>9, <1>10, <1>11, <1>12, <1>13, <1>14 DEF Live, Good, Grown

LEMMA FailGood ==
  ASSUME NEW s, Good(s), NEW status \in ErrorStatus \ {"OK"}
  PROVE  LET t == Fail(s, status)
         IN  /\ Good(t) /\ Grown(s, t) /\ SameJobs(s, t)
             /\ t.error_status = status
<1>1. PICK t : t = Fail(s, status)
  OBVIOUS
<1>2. s \in StateType /\ status \in ErrorStatus
  BY DEF Good
<1>3. /\ t \in StateType
      /\ SameJobs(s, t)
      /\ t.error_status = status
      /\ t.info = s.info
      /\ t.pointers = s.pointers
      /\ t.total_pointers = s.total_pointers
  BY <1>1, <1>2, Zenon DEF StateType, SameJobs, Fail
<1>4. ASSUME NEW j \in Index PROVE Owns(t, j, t.pointers[j])
  BY <1>3 DEF Good, Owns, SameJobs
<1>5. Good(t)
  BY <1>3, <1>4, SameJobsGood
<1> QED
  BY <1>1, <1>3, <1>5 DEF Grown, SameJobs

(* finished_cb is called when nothing is outstanding. *)
LEMMA FinishGood ==
  ASSUME NEW s, Good(s), Idle(s), NEW status \in ErrorStatus,
         s.canceled => status # "OK"
  PROVE  LET t == Finish(s, status)
         IN  /\ Good(t)
             /\ s.work = {} /\ t.work = {} /\ t.canceled = s.canceled
             /\ t.error_status = status /\ t.callbacks = <<status>>
<1>1. s \in StateType /\ s.callbacks = << >> /\ s.work \in SUBSET (JobKind \X Index)
  BY DEF Good, Closed, Idle, StateType
<1>2. s.work = {}
  BY <1>1, WorkFinite, FS_EmptySet DEF Good, Counted, Idle
<1>3. PICK c \in Seq(ErrorStatus) : c = Append(s.callbacks, status) /\ c = <<status>>
  <2>1. <<status>> \in Seq(ErrorStatus)
    OBVIOUS
  <2>2. Append(<< >>, status) = <<status>>
    OBVIOUS
  <2> QED
    BY <1>1, <2>1, <2>2
<1>4. PICK t : t = [s EXCEPT !.error_status = status,
                            !.finished = TRUE,
                            !.callbacks = c]
  OBVIOUS
<1>5. t = Finish(s, status)
  BY <1>3, <1>4 DEF Finish
<1>6. /\ t \in StateType
      /\ t.work = s.work
      /\ t.pending_work_count = s.pending_work_count
      /\ t.resolving_shards = s.resolving_shards
      /\ t.pointers = s.pointers
      /\ t.total_pointers = s.total_pointers
      /\ t.requesting_pointers = s.requesting_pointers
      /\ t.requesting_info = s.requesting_info
      /\ t.recovering_shards = s.recovering_shards
      /\ t.finished = TRUE
      /\ t.callbacks = c
      /\ t.canceled = s.canceled
      /\ t.error_status = status
  BY <1>1, <1>4, Zenon DEF StateType
<1>7. Counted(t) /\ Flagged(t)
  BY <1>6 DEF Good, Counted, Flagged, JobsOf
<1>8. \A j \in Index : Owns(t, j, t.pointers[j])
  BY <1>6 DEF Good, Owns
<1>9. Closed(t)
  BY <1>2, <1>3, <1>6 DEF Closed
<1> QED
  BY <1>2, <1>3, <1>5, <1>6, <1>7, <1>8, <1>9 DEF Good

(* A nonempty set of naturals has a minimum. *)
LEMMA LeastMember ==
  ASSUME NEW S \in SUBSET Nat, S # {}
  PROVE  \E x \in S : \A y \in S : x <= y
<1> DEFINE T == {0..n : n \in S}
<1>1. ASSUME NEW n \in S PROVE IsFiniteSet(0..n) /\ 0..n \subseteq Nat
  BY FS_Interval
<1>2. T \subseteq FiniteSubsetsOf(Nat) /\ T # {}
  BY <1>1 DEF FiniteSubsetsOf
<1>3. PICK t \in T : \A u \in T : ~ (<<u, t>> \in StrictSubsetOrdering(Nat))
  <2>1. IsWellFoundedOn(StrictSubsetOrdering(Nat), FiniteSubsetsOf(Nat))
    BY FS_StrictSubsetOrderingWellFounded
  <2> HIDE DEF T
  <2> QED
    BY <1>2, <2>1, WFMin
<1>4. PICK x \in S : t = 0..x
  OBVIOUS
<1>5. ASSUME NEW y \in S PROVE x <= y
  <2>1. SUFFICES ASSUME y < x PROVE FALSE
    OBVIOUS
  <2>2. 0..y \subseteq 0..x /\ x \in 0..x /\ x \notin 0..y
    BY <2>1
  <2>3. <<0..y, t>> \in StrictSubsetOrdering(Nat)
    BY <2>2, <1>4, <1>1 DEF StrictSubsetOrdering
  <2> QED
    BY <2>3, <1>3
<1> QED
  BY <1>5

LEMMA MinMember ==
  ASSUME NEW S \in SUBSET Nat, S # {}
  PROVE  Min(S) \in S
  BY LeastMember DEF Min

LEMMA queue_request_pointersLive ==
  ASSUME NEW s, Live(s)
  PROVE  LET t == queue_request_pointers(s) IN Live(t) /\ Grown(s, t)
<1>1. CASE s.requesting_pointers \/ s.canceled
  BY <1>1 DEF queue_request_pointers, Grown
<1>2. CASE ~ (s.requesting_pointers \/ s.canceled) /\ NeedsAttention(s) # {}
  <2>1. PICK first \in NeedsAttention(s) : first = Min(NeedsAttention(s))
    <3>1. NeedsAttention(s) \in SUBSET Nat
      BY DEF NeedsAttention, Allocated, Index
    <3> QED
      BY <1>2, <3>1, MinMember
  <2>2. first \in Allocated(s) /\ first \in Index
    BY DEF NeedsAttention, Allocated
  <2>3. CASE s.pointers[first].replace_count >= STORJ_DEFAULT_MIRRORS
    <3>1. queue_request_pointers(s) = GiveUp(s, first)
      BY <1>2, <2>1, <2>3 DEF queue_request_pointers, ServeFirst
    <3> QED
      BY <1>2, <2>2, <3>1, GiveUpLive
  <2>4. CASE ~ (s.pointers[first].replace_count >= STORJ_DEFAULT_MIRRORS)
    <3>1. queue_request_pointers(s) = RequestReplacement(s, first)
      BY <1>2, <2>1, <2>4 DEF queue_request_pointers, ServeFirst
    <3>2. s.pointers[first].status = POINTER_ERROR_REPORTED
      BY <2>4 DEF NeedsAttention
    <3> QED
      BY <1>2, <2>2, <3>1, <3>2, RequestReplacementLive
  <2> QED
    BY <2>3, <2>4
<1>3. CASE /\ ~ (s.requesting_pointers \/ s.canceled)
           /\ NeedsAttention(s) = {}
           /\ s.pointers_completed
  BY <1>3 DEF queue_request_pointers, Grown
<1>4. CASE /\ ~ (s.requesting_pointers \/ s.canceled)
           /\ NeedsAttention(s) = {}
           /\ ~ s.pointers_completed
  <2>1. queue_request_pointers(s) = RequestNextPointers(s)
    BY <1>4 DEF queue_request_pointers
  <2> QED
    BY <1>4, <2>1, RequestNextPointersLive
<1> QED
  BY <1>1, <1>2, <1>3, <1>4

LEMMA queue_request_shardsLive ==
  ASSUME NEW s, Live(s)
  PROVE  LET t == queue_request_shards(s) IN Live(t) /\ Grown(s, t)
<1>1. ToDownload(s) \in SUBSET WithStatus(s, POINTER_CREATED)
  BY DEF ToDownload
<1> QED
  BY <1>1, StartDownloadsLive DEF queue_request_shards, Grown

LEMMA queue_send_exchange_reportsLive ==
  ASSUME NEW s, Live(s)
  PROVE  LET t == queue_send_exchange_reports(s) IN Live(t) /\ Grown(s, t)
  BY StartReportsLive DEF queue_send_exchange_reports, Grown

LEMMA QueueRequestsLive ==
  ASSUME NEW s, Live(s)
  PROVE  LET t == QueueRequests(s) IN Live(t) /\ Grown(s, t)
<1>1. PICK r : r = queue_request_pointers(s)
  OBVIOUS
<1>2. Live(r) /\ Grown(s, r)
  BY <1>1, queue_request_pointersLive
<1>3. PICK t : t = queue_request_info(r)
  OBVIOUS
<1>4. Live(t) /\ Grown(r, t)
  BY <1>2, <1>3, queue_request_infoLive
<1>5. PICK u : u = queue_request_shards(t)
  OBVIOUS
<1>6. Live(u) /\ Grown(t, u)
  BY <1>4, <1>5, queue_request_shardsLive
<1>7. QueueRequests(s) = IF t.info THEN u ELSE t
  BY <1>1, <1>3, <1>5 DEF QueueRequests
<1> QED
  BY <1>2, <1>4, <1>6, <1>7 DEF Grown

LEMMA QueueRecoveryAndReportsLive ==
  ASSUME NEW s, Live(s)
  PROVE  LET t == QueueRecoveryAndReports(s) IN Live(t) /\ Grown(s, t)
<1>1. PICK r : r = IF s.info THEN queue_recover_shards(s) ELSE s
  OBVIOUS
<1>2. Live(r) /\ Grown(s, r)
  BY <1>1, queue_recover_shardsLive DEF Grown
<1>3. PICK t : t = queue_send_exchange_reports(r)
  OBVIOUS
<1>4. Live(t) /\ Grown(r, t)
  BY <1>2, <1>3, queue_send_exchange_reportsLive
<1>5. t = QueueRecoveryAndReports(s)
  BY <1>1, <1>3 DEF QueueRecoveryAndReports
<1> QED
  BY <1>2, <1>4, <1>5 DEF Grown

LEMMA FinishFailedSettles ==
  ASSUME NEW s, Good(s), ~ s.finished, s.error_status # "OK"
  PROVE  Settles(s, FinishFailed(s))
<1>1. CASE Idle(s)
  <2>1. s.error_status \in ErrorStatus
    BY DEF Good, StateType
  <2>2. PICK t : t = Finish(s, s.error_status)
    OBVIOUS
  <2>3. /\ Good(t)
        /\ s.work = {} /\ t.work = {} /\ t.canceled = s.canceled
        /\ t.error_status = s.error_status
        /\ t.callbacks = <<s.error_status>>
    BY <1>1, <2>1, <2>2, FinishGood
  <2>4. FinishFailed(s) = t
    BY <1>1, <2>2 DEF FinishFailed
  <2> QED
    BY <2>1, <2>3, <2>4 DEF Settles
<1>2. CASE ~ Idle(s)
  BY <1>2 DEF FinishFailed, Settles, Good, Closed
<1> QED
  BY <1>1, <1>2

LEMMA FinishRecoveredSettles ==
  ASSUME NEW s, Live(s)
  PROVE  Settles(s, FinishRecovered(s))
<1>1. CASE Idle(s)
  <2>1. VerifiedStatus(s) \in ErrorStatus
    BY DEF VerifiedStatus, ErrorStatus
  <2>2. Good(s) /\ ~ s.canceled /\ s.error_status = "OK"
    BY DEF Live, Good
  <2> QED
    BY <1>1, <2>1, <2>2, FinishGood DEF FinishRecovered, Settles
<1>2. CASE ~ Idle(s)
  BY <1>2 DEF FinishRecovered, Settles, Live, Good, Closed
<1> QED
  BY <1>1, <1>2

(* queue_next_work keeps the invariant. *)
LEMMA queue_next_workSettles ==
  ASSUME NEW s, Good(s), ~ s.finished
  PROVE  Settles(s, queue_next_work(s))
<1>1. CASE s.error_status # "OK"
  BY <1>1, FinishFailedSettles DEF queue_next_work
<1>2. CASE s.error_status = "OK" /\ AllRecovered(s)
  BY <1>2, FinishRecoveredSettles DEF queue_next_work, Live
<1>3. CASE s.error_status = "OK" /\ ~ AllRecovered(s)
  <2>1. Live(s)
    BY <1>3 DEF Live
  <2>2. PICK r : r = QueueRequests(s)
    OBVIOUS
  <2>3. Live(r) /\ Grown(s, r)
    BY <2>1, <2>2, QueueRequestsLive
  <2>4. queue_next_work(s) = QueueMore(r)
    BY <1>3, <2>2 DEF queue_next_work
  <2>5. CASE r.info /\ Unrecoverable(r)
    <3>1. PICK f : f = Fail(r, "SHARD_MISSING")
      OBVIOUS
    <3>2. /\ Good(f) /\ Grown(r, f) /\ SameJobs(r, f)
          /\ f.error_status = "SHARD_MISSING"
      BY <2>3, <3>1, FailGood DEF Live, ErrorStatus
    <3>3. Settles(f, FinishFailed(f))
      BY <2>3, <3>2, FinishFailedSettles DEF Live, SameJobs
    <3>4. QueueMore(r) = FinishFailed(f)
      BY <2>5, <3>1 DEF QueueMore, Fail
    <3> QED
      BY <1>3, <2>3, <2>4, <3>2, <3>3, <3>4 DEF Settles, Grown
  <2>6. CASE ~ (r.info /\ Unrecoverable(r))
    <3>1. PICK t : t = QueueRecoveryAndReports(r)
      OBVIOUS
    <3>2. Live(t) /\ Grown(r, t)
      BY <2>3, <3>1, QueueRecoveryAndReportsLive
    <3>3. QueueMore(r) = t
      BY <2>6, <3>1 DEF QueueMore
    <3> QED
      BY <1>3, <2>3, <2>4, <3>2, <3>3 DEF Settles, Grown, Live, Good, Closed
  <2> QED
    BY <2>5, <2>6
<1> QED
  BY <1>1, <1>2, <1>3

-----------------------------------------------------------------------------
(* The invariant through the callbacks.  Done(s, job, r) says that r is s  *)
(* after the callback of job, before its queue_next_work.                  *)

Done(s, job, r) ==
  /\ Good(r)
  /\ ~ r.finished
  /\ r.work = s.work \ {job}
  /\ r.canceled = s.canceled
  /\ s.error_status # "OK" => r.error_status # "OK"

(* The state after a whole handler. *)
Handled(s, job, t) ==
  /\ Good(t)
  /\ t.canceled = s.canceled
  /\ \/ t.callbacks = << >> /\ s.work \ {job} \subseteq t.work
     \/ /\ s.work \ {job} = {} /\ t.work = {}
        /\ t.error_status \in ErrorStatus
        /\ t.callbacks = <<t.error_status>>
  /\ s.error_status # "OK" => t.work = s.work \ {job} /\ t.error_status # "OK"

LEMMA DoneHandled ==
  ASSUME NEW s, NEW job, NEW r, Done(s, job, r)
  PROVE  Handled(s, job, queue_next_work(r))
<1>1. Settles(r, queue_next_work(r))
  BY queue_next_workSettles DEF Done
<1> QED
  BY <1>1 DEF Done, Settles, Handled

(* An outstanding job means the download is not over. *)
LEMMA JobLive ==
  ASSUME NEW s, Good(s), NEW job \in s.work
  PROVE  ~ s.finished /\ s.callbacks = << >> /\ job \in JobKind \X Index
  BY DEF Good, Closed, StateType

(* The count when a job other than a shard download ends. *)
LEMMA CompletedOne ==
  ASSUME NEW s, Good(s), NEW job \in s.work, job[1] # "shard",
         NEW r, r.work = s.work \ {job},
         r.pending_work_count = s.pending_work_count - 1,
         r.resolving_shards = s.resolving_shards
  PROVE  Counted(r)
<1>1. s.work \in SUBSET (JobKind \X Index)
  BY DEF Good, StateType
<1>2. r.pending_work_count = Cardinality(r.work)
  BY <1>1, RemovedCount DEF Good, Counted
<1>3. JobsOf(r, {"shard"}) = JobsOf(s, {"shard"})
  BY DEF JobsOf
<1> QED
  BY <1>2, <1>3 DEF Good, Counted

(* What the end of a job other than a shard download leaves alone. *)
OneLess(s, r, job) ==
  /\ r.work = s.work \ {job}
  /\ r.pending_work_count = s.pending_work_count - 1
  /\ r.resolving_shards = s.resolving_shards
  /\ r.total_pointers = s.total_pointers
  /\ r.pointers = s.pointers
  /\ r.finished = s.finished
  /\ r.callbacks = s.callbacks
  /\ r.canceled = s.canceled
  /\ r.error_status = s.error_status

LEMMA OneLessDone ==
  ASSUME NEW s, Good(s), NEW job \in s.work, job[1] # "shard",
         NEW r \in StateType, OneLess(s, r, job), Flagged(r)
  PROVE  Done(s, job, r)
<1>1. Counted(r)
  BY CompletedOne DEF OneLess
<1>2. \A j \in Index : Owns(r, j, r.pointers[j])
  BY DEF Good, Owns, OneLess
<1>3. ~ r.finished /\ r.callbacks = << >>
  BY JobLive DEF OneLess
<1>4. Closed(r)
  BY <1>3 DEF Closed
<1> QED
  BY <1>1, <1>2, <1>3, <1>4 DEF Good, Done, OneLess

LEMMA OneLessExists ==
  ASSUME NEW s, Good(s), NEW job
  PROVE  \E w \in SUBSET (JobKind \X Index), n \in Int :
           w = s.work \ {job} /\ n = s.pending_work_count - 1
<1>1. s.work \ {job} \in SUBSET (JobKind \X Index)
  BY DEF Good, StateType
<1>2. s.pending_work_count - 1 \in Int
  BY DEF Good, StateType
<1> QED
  BY <1>1, <1>2

(* A request for pointers or for a replacement came back. *)
LEMMA PointerJobDone ==
  ASSUME NEW s, Good(s), NEW i \in Index,
         NEW job \in {<<"pointers", 0>>, <<"replace", i>>}, job \in s.work
  PROVE  LET r == [Complete(s, job) EXCEPT !.requesting_pointers = FALSE]
         IN  /\ Done(s, job, r)
             /\ ~ r.requesting_pointers
             /\ r.pointers = s.pointers
             /\ r.total_pointers = s.total_pointers
<1>1. PICK w \in SUBSET (JobKind \X Index), n \in Int :
        w = s.work \ {job} /\ n = s.pending_work_count - 1
  BY OneLessExists
<1>2. PICK r : r = [[s EXCEPT !.work = w, !.pending_work_count = n] EXCEPT
                      !.requesting_pointers = FALSE]
  OBVIOUS
<1>3. r = [Complete(s, job) EXCEPT !.requesting_pointers = FALSE]
  BY <1>1, <1>2 DEF Complete
<1>4. s \in StateType /\ Flagged(s)
  BY DEF Good
<1>5. /\ r \in StateType
      /\ OneLess(s, r, job)
      /\ r.requesting_pointers = FALSE
      /\ r.requesting_info = s.requesting_info
      /\ r.recovering_shards = s.recovering_shards
  BY <1>1, <1>2, <1>4, Zenon DEF StateType, OneLess
<1>6. Flagged(r)
  <2>1. job \in JobsOf(s, {"pointers", "replace"})
    BY DEF JobsOf
  <2>2. JobsOf(s, {"pointers", "replace"}) = {job}
    BY <1>4, <2>1 DEF Flagged
  <2>3. JobsOf(r, {"pointers", "replace"}) = {}
    BY <1>5, <2>2 DEF JobsOf, OneLess
  <2>4. ASSUME NEW k \in r.work, k[1] \in {"pointers", "info", "recover"}
        PROVE  k[2] = 0
    BY <2>4, <1>4, <1>5 DEF Flagged, OneLess
  <2>5. /\ <<"info", 0>> \in r.work <=> r.requesting_info
        /\ <<"recover", 0>> \in r.work <=> r.recovering_shards
    BY <1>4, <1>5 DEF Flagged, OneLess
  <2> QED
    BY <2>3, <2>4, <2>5, <1>5 DEF Flagged
<1>7. Done(s, job, r)
  BY <1>5, <1>6, OneLessDone
<1> QED
  BY <1>3, <1>5, <1>7 DEF OneLess

LEMMA InfoJobDone ==
  ASSUME NEW s, Good(s), <<"info", 0>> \in s.work
  PROVE  LET r == [Complete(s, <<"info", 0>>) EXCEPT !.requesting_info = FALSE]
         IN  Done(s, <<"info", 0>>, r)
<1> DEFINE job == <<"info", 0>>
<1>1. PICK w \in SUBSET (JobKind \X Index), n \in Int :
        w = s.work \ {job} /\ n = s.pending_work_count - 1
  BY OneLessExists
<1>2. PICK r : r = [[s EXCEPT !.work = w, !.pending_work_count = n] EXCEPT
                      !.requesting_info = FALSE]
  OBVIOUS
<1>3. r = [Complete(s, job) EXCEPT !.requesting_info = FALSE]
  BY <1>1, <1>2 DEF Complete
<1>4. s \in StateType /\ Flagged(s)
  BY DEF Good
<1>5. /\ r \in StateType
      /\ OneLess(s, r, job)
      /\ r.requesting_pointers = s.requesting_pointers
      /\ r.requesting_info = FALSE
      /\ r.recovering_shards = s.recovering_shards
  BY <1>1, <1>2, <1>4, Zenon DEF StateType, OneLess
<1>6. Flagged(r)
  <2>1. JobsOf(r, {"pointers", "replace"}) = JobsOf(s, {"pointers", "replace"})
    BY <1>5 DEF JobsOf, OneLess
  <2>2. ASSUME NEW k \in r.work, k[1] \in {"pointers", "info", "recover"}
        PROVE  k[2] = 0
    BY <2>2, <1>4, <1>5 DEF Flagged, OneLess
  <2>3. /\ <<"info", 0>> \in r.work <=> r.requesting_info
        /\ <<"recover", 0>> \in r.work <=> r.recovering_shards
    BY <1>4, <1>5 DEF Flagged, OneLess
  <2> QED
    BY <2>1, <2>2, <2>3, <1>4, <1>5 DEF Flagged
<1> QED
  BY <1>3, <1>5, <1>6, OneLessDone

LEMMA RecoverJobDone ==
  ASSUME NEW s, Good(s), <<"recover", 0>> \in s.work
  PROVE  LET r == [Complete(s, <<"recover", 0>>) EXCEPT
                     !.recovering_shards = FALSE, !.truncated = TRUE]
         IN  Done(s, <<"recover", 0>>, r)
<1> DEFINE job == <<"recover", 0>>
<1>1. PICK w \in SUBSET (JobKind \X Index), n \in Int :
        w = s.work \ {job} /\ n = s.pending_work_count - 1
  BY OneLessExists
<1>2. PICK r : r = [[s EXCEPT !.work = w, !.pending_work_count = n] EXCEPT
                      !.recovering_shards = FALSE, !.truncated = TRUE]
  OBVIOUS
<1>3. r = [Complete(s, job) EXCEPT !.recovering_shards = FALSE,
                                   !.truncated = TRUE]
  BY <1>1, <1>2 DEF Complete
<1>4. s \in StateType /\ Flagged(s)
  BY DEF Good
<1>5. /\ r \in StateType
      /\ OneLess(s, r, job)
      /\ r.requesting_pointers = s.requesting_pointers
      /\ r.requesting_info = s.requesting_info
      /\ r.recovering_shards = FALSE
  BY <1>1, <1>2, <1>4, Zenon DEF StateType, OneLess
<1>6. Flagged(r)
  <2>1. JobsOf(r, {"pointers", "replace"}) = JobsOf(s, {"pointers", "replace"})
    BY <1>5 DEF JobsOf, OneLess
  <2>2. ASSUME NEW k \in r.work, k[1] \in {"pointers", "info", "recover"}
        PROVE  k[2] = 0
    BY <2>2, <1>4, <1>5 DEF Flagged, OneLess
  <2>3. /\ <<"info", 0>> \in r.work <=> r.requesting_info
        /\ <<"recover", 0>> \in r.work <=> r.recovering_shards
    BY <1>4, <1>5 DEF Flagged, OneLess
  <2> QED
    BY <2>1, <2>2, <2>3, <1>4, <1>5 DEF Flagged
<1> QED
  BY <1>3, <1>5, <1>6, OneLessDone

(* What a callback does next may change pointers and the error, as long as *)
(* the jobs' claims on the pointers hold and no error is forgotten.        *)
LEMMA ChangedDone ==
  ASSUME NEW s, NEW job, NEW r, Done(s, job, r),
         NEW t \in StateType, SameJobs(r, t),
         r.error_status # "OK" => t.error_status # "OK",
         \A j \in Index : Owns(t, j, t.pointers[j])
  PROVE  Done(s, job, t)
<1>1. r.canceled => r.error_status # "OK"
  BY DEF Done, Good
<1>2. Good(t)
  BY <1>1, SameJobsGood DEF Done, SameJobs
<1> QED
  BY <1>2 DEF Done, SameJobs

LEMMA FailDone ==
  ASSUME NEW s, NEW job, NEW r, Done(s, job, r),
         NEW status \in ErrorStatus \ {"OK"}
  PROVE  Done(s, job, Fail(r, status))
  BY FailGood DEF Done, SameJobs

LEMMA PointerDone ==
  ASSUME NEW s, NEW job, NEW r, Done(s, job, r),
         NEW i \in Index, NEW q \in PointerType, Owns(r, i, q)
  PROVE  Done(s, job, [r EXCEPT !.pointers[i] = q])
  BY PointerGood DEF Done, SameJobs

LEMMA ListEndDone ==
  ASSUME NEW s, NEW job, NEW r, Done(s, job, r)
  PROVE  Done(s, job, [r EXCEPT !.pointers_completed = TRUE])
<1>1. PICK t : t = [r EXCEPT !.pointers_completed = TRUE]
  OBVIOUS
<1>2. r \in StateType
  BY DEF Done, Good
<1>3. /\ t \in StateType /\ SameJobs(r, t)
      /\ t.error_status = r.error_status
      /\ t.total_pointers = r.total_pointers
      /\ t.pointers = r.pointers
  BY <1>1, <1>2, Zenon DEF StateType, SameJobs
<1>4. ASSUME NEW j \in Index PROVE Owns(t, j, t.pointers[j])
  BY <1>3 DEF Done, Good, Owns, SameJobs
<1> QED
  BY <1>1, <1>3, <1>4, ChangedDone

(* The counters of failed requests. *)
LEMMA PointerFailCountDone ==
  ASSUME NEW s, NEW job, NEW r, Done(s, job, r), NEW n \in Nat
  PROVE  LET t == [r EXCEPT !.pointer_fail_count = n]
         IN  Done(s, job, t) /\ t.pointers = r.pointers /\ t.work = r.work
<1>1. PICK t : t = [r EXCEPT !.pointer_fail_count = n]
  OBVIOUS
<1>2. r \in StateType
  BY DEF Done, Good
<1>3. /\ t \in StateType /\ SameJobs(r, t)
      /\ t.error_status = r.error_status
      /\ t.total_pointers = r.total_pointers
      /\ t.pointers = r.pointers
  BY <1>1, <1>2, Zenon DEF StateType, SameJobs
<1>4. ASSUME NEW j \in Index PROVE Owns(t, j, t.pointers[j])
  BY <1>3 DEF Done, Good, Owns, SameJobs
<1>5. Done(s, job, t)
  BY <1>3, <1>4, ChangedDone
<1> QED
  BY <1>1, <1>3, <1>5 DEF SameJobs

LEMMA InfoFailCountDone ==
  ASSUME NEW s, NEW job, NEW r, Done(s, job, r), NEW n \in Nat
  PROVE  Done(s, job, [r EXCEPT !.info_fail_count = n])
<1>1. PICK t : t = [r EXCEPT !.info_fail_count = n]
  OBVIOUS
<1>2. r \in StateType
  BY DEF Done, Good
<1>3. /\ t \in StateType /\ SameJobs(r, t)
      /\ t.error_status = r.error_status
      /\ t.total_pointers = r.total_pointers
      /\ t.pointers = r.pointers
  BY <1>1, <1>2, Zenon DEF StateType, SameJobs
<1>4. ASSUME NEW j \in Index PROVE Owns(t, j, t.pointers[j])
  BY <1>3 DEF Done, Good, Owns, SameJobs
<1> QED
  BY <1>1, <1>3, <1>4, ChangedDone

LEMMA PointerRequestFailedDone ==
  ASSUME NEW s, NEW job, NEW r, Done(s, job, r)
  PROVE  Done(s, job, PointerRequestFailed(r))
<1>1. r.pointer_fail_count + 1 \in Nat
  BY DEF Done, Good, StateType
<1>2. CASE r.pointer_fail_count + 1 >= STORJ_MAX_POINTER_TRIES
  <2>1. PICK t : t = [r EXCEPT !.pointer_fail_count = 0]
    OBVIOUS
  <2>2. Done(s, job, t)
    BY <2>1, PointerFailCountDone
  <2>3. PointerRequestFailed(r) = Fail(t, "BRIDGE")
    BY <1>2, <2>1 DEF PointerRequestFailed
  <2> QED
    BY <2>2, <2>3, FailDone DEF ErrorStatus
<1>3. CASE ~ (r.pointer_fail_count + 1 >= STORJ_MAX_POINTER_TRIES)
  <2>1. PointerRequestFailed(r)
          = [r EXCEPT !.pointer_fail_count = r.pointer_fail_count + 1]
    BY <1>3 DEF PointerRequestFailed
  <2> QED
    BY <1>1, <2>1, PointerFailCountDone
<1> QED
  BY <1>2, <1>3

LEMMA InfoRequestFailedDone ==
  ASSUME NEW s, NEW job, NEW r, Done(s, job, r)
  PROVE  Done(s, job, InfoRequestFailed(r))
<1>1. r.info_fail_count + 1 \in Nat
  BY DEF Done, Good, StateType
<1>2. CASE r.info_fail_count + 1 >= STORJ_MAX_INFO_TRIES
  <2>1. PICK t : t = [r EXCEPT !.info_fail_count = 0]
    OBVIOUS
  <2>2. Done(s, job, t)
    BY <2>1, InfoFailCountDone
  <2>3. InfoRequestFailed(r) = Fail(t, "BRIDGE")
    BY <1>2, <2>1 DEF InfoRequestFailed
  <2> QED
    BY <2>2, <2>3, FailDone DEF ErrorStatus
<1>3. CASE ~ (r.info_fail_count + 1 >= STORJ_MAX_INFO_TRIES)
  <2>1. InfoRequestFailed(r) = [r EXCEPT !.info_fail_count = r.info_fail_count + 1]
    BY <1>3 DEF InfoRequestFailed
  <2> QED
    BY <1>1, <2>1, InfoFailCountDone
<1> QED
  BY <1>2, <1>3

(* A page fits: the bridge lists no shard the file does not have. *)
LEMMA PageFits ==
  ASSUME NEW r, r \in StateType
  PROVE  /\ PageIndex(r) \in SUBSET Index
         /\ r.total_pointers + Cardinality(PageIndex(r)) \in 0..MaxShards
         /\ \A S \in SUBSET PageIndex(r) : Cardinality(S) \in Nat
         /\ r.total_pointers <= r.total_pointers + Cardinality(PageIndex(r))
<1>1. r.total_pointers \in 0..MaxShards /\ MaxShards \in Nat
  BY DownloadAssumption DEF StateType
<1>2. PICK rest : rest = r.total_pointers .. (MaxShards - 1)
  OBVIOUS
<1>3. /\ IsFiniteSet(rest)
      /\ r.total_pointers + Cardinality(rest) <= MaxShards
      /\ Cardinality(rest) \in Nat
  <2>1. r.total_pointers \in Int /\ MaxShards - 1 \in Int
    BY <1>1
  <2>2. /\ IsFiniteSet(rest)
        /\ Cardinality(rest) = IF r.total_pointers > MaxShards - 1 THEN 0
                               ELSE (MaxShards - 1) - r.total_pointers + 1
    BY <1>2, <2>1, FS_Interval
  <2> QED
    BY <1>1, <2>2
<1>4. PageIndex(r) \in SUBSET rest /\ PageIndex(r) \in SUBSET Index
  BY <1>1, <1>2 DEF PageIndex, Index
<1>5. /\ Cardinality(PageIndex(r)) <= Cardinality(rest)
      /\ IsFiniteSet(PageIndex(r)) /\ Cardinality(PageIndex(r)) \in Nat
  BY <1>3, <1>4, FS_Subset, FS_CardinalityType
<1>6. \A S \in SUBSET PageIndex(r) : Cardinality(S) \in Nat
  BY <1>5, FS_Subset, FS_CardinalityType
<1> QED
  BY <1>1, <1>3, <1>4, <1>5, <1>6

LEMMA AppendPointersDone ==
  ASSUME NEW s, NEW job, NEW r, Done(s, job, r),
         NEW page \in [PageIndex(r) -> Entry]
  PROVE  Done(s, job, AppendPointers(r, page))
<1>1. r \in StateType /\ Good(r) /\ DOMAIN page = PageIndex(r)
  BY DEF Done, Good
<1>2. PICK total \in 0..MaxShards :
        /\ total = r.total_pointers + Cardinality(DOMAIN page)
        /\ r.total_pointers <= total
  BY <1>1, PageFits
<1>3. PICK parity \in Nat :
        parity = r.total_parity_pointers
          + Cardinality({i \in DOMAIN page : i >= file.shards - file.parity})
  <2>1. PICK n \in Nat :
          n = Cardinality({i \in DOMAIN page : i >= file.shards - file.parity})
    <3>1. {i \in DOMAIN page : i >= file.shards - file.parity} \in SUBSET PageIndex(r)
      BY <1>1
    <3> QED
      BY <1>1, <3>1, PageFits
  <2>2. PICK m \in Nat : m = r.total_parity_pointers
    BY <1>1 DEF StateType
  <2>3. PICK sum \in Nat : sum = m + n
    OBVIOUS
  <2> QED
    BY <2>1, <2>2, <2>3, Zenon
<1>4. PICK f : f = [i \in Index |->
                      IF i \in DOMAIN page /\ page[i] # "malformed"
                      THEN SetPointer(r.pointers[i], page[i], FALSE)
                      ELSE r.pointers[i]]
  OBVIOUS
<1>5. ASSUME NEW j \in Index
      PROVE  /\ f[j] \in PointerType
             /\ \/ f[j] = r.pointers[j]
                \/ j \in DOMAIN page /\ f[j].status \in {POINTER_CREATED, POINTER_MISSING}
  <2>1. r.pointers[j] \in PointerType
    BY <1>1 DEF StateType
  <2>2. CASE j \in DOMAIN page /\ page[j] # "malformed"
    <3>1. page[j] \in Entry
      BY <2>2, <1>1
    <3>2. f[j] = SetPointer(r.pointers[j], page[j], FALSE)
      BY <1>4, <2>2
    <3> QED
      BY <2>1, <2>2, <3>1, <3>2, SetPointerPointer
  <2>3. CASE ~ (j \in DOMAIN page /\ page[j] # "malformed")
    BY <1>4, <2>1, <2>3
  <2> QED
    BY <2>2, <2>3
<1>6. f \in [Index -> PointerType]
  BY <1>4, <1>5
<1>7. PICK error \in ErrorStatus :
        /\ error = IF \E i \in DOMAIN page : page[i] = "malformed"
                   THEN "BRIDGE" ELSE r.error_status
        /\ r.error_status # "OK" => error # "OK"
  BY <1>1 DEF StateType, ErrorStatus
<1>8. PICK t : t = [r EXCEPT !.total_pointers = total,
                            !.total_parity_pointers = parity,
                            !.pointers = f,
                            !.error_status = error]
  OBVIOUS
<1>9. t = AppendPointers(r, page)
  BY <1>2, <1>3, <1>4, <1>7, <1>8 DEF AppendPointers
<1>10. /\ t \in StateType
       /\ SameJobs(r, t)
       /\ t.pointers = f
       /\ t.total_pointers = total
       /\ t.error_status = error
  BY <1>1, <1>6, <1>8, Zenon DEF StateType, SameJobs
<1>11. ASSUME NEW j \in Index PROVE Owns(t, j, t.pointers[j])
  <2>1. Owns(r, j, r.pointers[j]) /\ t.work = r.work
    BY <1>1, <1>10 DEF Good, SameJobs
  <2>2. j \in Int /\ r.total_pointers \in Int /\ total \in Int
    BY <1>1 DEF Index, StateType
  <2>3. CASE f[j] = r.pointers[j]
    BY <1>2, <1>10, <2>1, <2>2, <2>3 DEF Owns
  <2>4. CASE /\ j \in DOMAIN page
             /\ f[j].status \in {POINTER_CREATED, POINTER_MISSING}
    <3>1. ~ (j < r.total_pointers)
      BY <1>1, <2>2, <2>4 DEF PageIndex
    <3> QED
      BY <1>10, <2>1, <2>4, <3>1 DEF Owns
  <2> QED
    BY <1>5, <2>3, <2>4
<1> QED
  BY <1>7, <1>9, <1>10, <1>11, ChangedDone

(* Replacing pointer i: no other job is about i any more. *)
LEMMA ReplacePointerDone ==
  ASSUME NEW s, Good(s), NEW i \in Index, <<"replace", i>> \in s.work,
         NEW r, Done(s, <<"replace", i>>, r), r.pointers = s.pointers,
         NEW q \in PointerType,
         q.status = POINTER_ERROR_REPORTED => Settled(q)
  PROVE  Done(s, <<"replace", i>>, [r EXCEPT !.pointers[i] = q])
<1>1. Owns(s, i, s.pointers[i])
  BY DEF Good
<1>2. /\ <<"shard", i>> \notin s.work
      /\ <<"report", i>> \notin s.work
  BY <1>1 DEF Owns, Settled
<1>3. r.work = s.work \ {<<"replace", i>>}
  BY DEF Done
<1>4. Owns(r, i, q)
  BY <1>2, <1>3 DEF Owns
<1> QED
  BY <1>4, PointerDone

LEMMA ReplacedDone ==
  ASSUME NEW s, Good(s), NEW i \in Index, <<"replace", i>> \in s.work,
         NEW r, Done(s, <<"replace", i>>, r), r.pointers = s.pointers,
         NEW entry \in Entry
  PROVE  Done(s, <<"replace", i>>, Replaced(r, i, entry))
<1>1. r.pointers[i] \in PointerType
  BY DEF Done, Good, StateType
<1>2. PICK q : q = SetPointer(r.pointers[i], entry, TRUE)
  OBVIOUS
<1>3. q \in PointerType /\ q.status \in {POINTER_CREATED, POINTER_MISSING}
  BY <1>1, <1>2, SetPointerPointer
<1>4. Replaced(r, i, entry) = [r EXCEPT !.pointers[i] = q]
  BY <1>2 DEF Replaced
<1>5. q.status # POINTER_ERROR_REPORTED
  BY <1>3
<1> QED
  BY <1>3, <1>4, <1>5, ReplacePointerDone

LEMMA MarkedDone ==
  ASSUME NEW s, Good(s), NEW i \in Index, <<"replace", i>> \in s.work,
         NEW r, Done(s, <<"replace", i>>, r), r.pointers = s.pointers,
         NEW status \in {POINTER_MISSING, POINTER_ERROR_REPORTED}
  PROVE  Done(s, <<"replace", i>>,
              [r EXCEPT !.pointers[i] = Marked(r.pointers[i], status)])
<1>1. /\ r.pointers[i] \in PointerType
      /\ Settled(r.pointers[i])
      /\ status \in -4..4
  <2>1. r.pointers[i] \in PointerType
    BY DEF Done, Good, StateType
  <2>2. Owns(s, i, s.pointers[i])
    BY DEF Good
  <2> QED
    BY <2>1, <2>2 DEF Owns
<1>2. PICK q : q = Marked(r.pointers[i], status)
  OBVIOUS
<1>3. /\ q \in PointerType
      /\ q.send_status = r.pointers[i].send_status
      /\ q.send_count = r.pointers[i].send_count
  BY <1>1, <1>2, MarkedPointer
<1>4. Settled(q)
  BY <1>1, <1>3 DEF Settled
<1>5. Done(s, <<"replace", i>>, [r EXCEPT !.pointers[i] = q])
  BY <1>3, <1>4, ReplacePointerDone
<1> QED
  BY <1>2, <1>5

LEMMA ReplacementRefusedDone ==
  ASSUME NEW s, Good(s), NEW i \in Index, <<"replace", i>> \in s.work,
         NEW r, Done(s, <<"replace", i>>, r), r.pointers = s.pointers
  PROVE  Done(s, <<"replace", i>>, ReplacementRefused(r, i))
<1>1. PICK status \in {POINTER_MISSING, POINTER_ERROR_REPORTED} :
        status = POINTER_MISSING
  OBVIOUS
<1>2. PICK t : t = [r EXCEPT !.pointers[i] = Marked(r.pointers[i], status)]
  OBVIOUS
<1>3. Done(s, <<"replace", i>>, t)
  BY <1>2, MarkedDone
<1>4. t = ReplacementRefused(r, i)
  BY <1>1, <1>2 DEF ReplacementRefused
<1> QED
  BY <1>3, <1>4

LEMMA ReplacementFailedDone ==
  ASSUME NEW s, Good(s), NEW i \in Index, <<"replace", i>> \in s.work,
         NEW r, Done(s, <<"replace", i>>, r), r.pointers = s.pointers
  PROVE  Done(s, <<"replace", i>>, ReplacementFailed(r, i))
<1>1. PICK n \in Nat, status \in {POINTER_MISSING, POINTER_ERROR_REPORTED} :
        IF r.pointer_fail_count + 1 >= STORJ_MAX_POINTER_TRIES
        THEN n = 0 /\ status = POINTER_MISSING
        ELSE n = r.pointer_fail_count + 1 /\ status = POINTER_ERROR_REPORTED
  <2>1. r.pointer_fail_count + 1 \in Nat
    BY DEF Done, Good, StateType
  <2> QED
    BY <2>1
<1>2. PICK u : u = [r EXCEPT !.pointer_fail_count = n]
  OBVIOUS
<1>3. Done(s, <<"replace", i>>, u) /\ u.pointers = s.pointers
  BY <1>2, PointerFailCountDone
<1>4. PICK t : t = [u EXCEPT !.pointers[i] = Marked(u.pointers[i], status)]
  OBVIOUS
<1>5. Done(s, <<"replace", i>>, t)
  BY <1>3, <1>4, MarkedDone
<1>6. t = [r EXCEPT !.pointer_fail_count = n,
                    !.pointers[i] = Marked(@, status)]
  <2>1. r \in StateType
    BY DEF Done, Good
  <2> QED
    BY <2>1, <1>2, <1>4, Zenon DEF StateType
<1>7. t = ReplacementFailed(r, i)
  BY <1>1, <1>6 DEF ReplacementFailed
<1> QED
  BY <1>5, <1>7

LEMMA ReportDoneDone ==
  ASSUME NEW s, Good(s), NEW i \in Index, <<"report", i>> \in s.work,
         NEW accepted \in BOOLEAN
  PROVE  Done(s, <<"report", i>>,
              ReportDone(Complete(s, <<"report", i>>), i, accepted))
<1> DEFINE job == <<"report", i>>
<1>1. PICK w \in SUBSET (JobKind \X Index), n \in Int :
        w = s.work \ {job} /\ n = s.pending_work_count - 1
  BY OneLessExists
<1>2. PICK r : r = [s EXCEPT !.work = w, !.pending_work_count = n]
  OBVIOUS
<1>3. r = Complete(s, job)
  BY <1>1, <1>2 DEF Complete
<1>4. s \in StateType /\ Flagged(s) /\ Owns(s, i, s.pointers[i])
  BY DEF Good
<1>5. /\ r \in StateType
      /\ OneLess(s, r, job)
      /\ r.requesting_pointers = s.requesting_pointers
      /\ r.requesting_info = s.requesting_info
      /\ r.recovering_shards = s.recovering_shards
  BY <1>1, <1>2, <1>4, Zenon DEF StateType, OneLess
<1>6. Flagged(r)
  <2>1. JobsOf(r, {"pointers", "replace"}) = JobsOf(s, {"pointers", "replace"})
    BY <1>5 DEF JobsOf, OneLess
  <2>2. ASSUME NEW k \in r.work, k[1] \in {"pointers", "info", "recover"}
        PROVE  k[2] = 0
    BY <2>2, <1>4, <1>5 DEF Flagged, OneLess
  <2>3. /\ <<"info", 0>> \in r.work <=> r.requesting_info
        /\ <<"recover", 0>> \in r.work <=> r.recovering_shards
    BY <1>4, <1>5 DEF Flagged, OneLess
  <2> QED
    BY <2>1, <2>2, <2>3, <1>4, <1>5 DEF Flagged
<1>7. Done(s, job, r)
  BY <1>5, <1>6, OneLessDone
<1>8. PICK p \in PointerType : p = r.pointers[i]
  BY <1>5 DEF StateType
<1>9. /\ i < s.total_pointers
      /\ p.status # POINTER_ERROR_REPORTED
      /\ <<"replace", i>> \notin r.work
      /\ <<"report", i>> \notin r.work
  BY <1>4, <1>5, <1>8 DEF Owns, Settled, OneLess
<1>10. PICK q : q = Reported(p, accepted)
  OBVIOUS
<1>11. /\ q \in PointerType
       /\ \/ q.status = p.status
          \/ /\ p.status = POINTER_ERROR
             /\ q.status = POINTER_ERROR_REPORTED
             /\ Settled(q)
  BY <1>8, <1>10, ReportedPointer
<1>12. Owns(r, i, q)
  BY <1>4, <1>5, <1>8, <1>9, <1>11 DEF Owns, OneLess
<1>13. ReportDone(r, i, accepted) = [r EXCEPT !.pointers[i] = q]
  BY <1>8, <1>10 DEF ReportDone
<1> QED
  BY <1>3, <1>7, <1>11, <1>12, <1>13, PointerDone

(* A shard download came back. *)
LEMMA ShardDoneDone ==
  ASSUME NEW s, Good(s), NEW i \in Index, <<"shard", i>> \in s.work,
         NEW result \in [error : BOOLEAN, stored : BOOLEAN, timed : BOOLEAN]
  PROVE  Done(s, <<"shard", i>>,
              ShardDone(Complete(s, <<"shard", i>>), i, result))
<1> DEFINE job == <<"shard", i>>
<1>1. /\ s \in StateType /\ Counted(s) /\ Flagged(s)
      /\ s.work \in SUBSET (JobKind \X Index)
      /\ s.pointers[i] \in PointerType
      /\ Owns(s, i, s.pointers[i])
  BY DEF Good, StateType
<1>2. PICK w \in SUBSET (JobKind \X Index), n \in Int :
        w = s.work \ {job} /\ n = s.pending_work_count - 1
  BY OneLessExists
<1>3. PICK m \in Int : m = s.resolving_shards - 1
  BY <1>1 DEF StateType
<1>4. PICK d \in SUBSET Index, g \in SUBSET Index :
        /\ d = s.dequeued \ {i}
        /\ g = IF result.stored THEN s.fetched \cup {i} ELSE s.fetched
  BY <1>1 DEF StateType
<1>5. PICK q \in PointerType : q = Answered(s.pointers[i], result)
  BY <1>1, AnsweredPointer
<1>6. /\ q.status \in {POINTER_ERROR, POINTER_DOWNLOADED}
      /\ q.send_status = s.pointers[i].send_status
  BY <1>1, <1>5, AnsweredPointer
<1>7. PICK t : t = [[s EXCEPT !.work = w, !.pending_work_count = n] EXCEPT
                      !.resolving_shards = m, !.dequeued = d, !.fetched = g,
                      !.pointers[i] = q]
  OBVIOUS
<1>8. t = ShardDone(Complete(s, job), i, result)
  <2>1. PICK c : c = [s EXCEPT !.work = w, !.pending_work_count = n]
    OBVIOUS
  <2>2. c = Complete(s, job)
    BY <1>2, <2>1 DEF Complete
  <2>3. /\ c.resolving_shards = s.resolving_shards
        /\ c.dequeued = s.dequeued
        /\ c.fetched = s.fetched
        /\ c.pointers = s.pointers
    BY <1>1, <2>1, Zenon DEF StateType
  <2>4. t = [c EXCEPT !.resolving_shards = m, !.dequeued = d, !.fetched = g,
                      !.pointers[i] = q]
    BY <1>7, <2>1
  <2> QED
    BY <1>3, <1>4, <1>5, <2>2, <2>3, <2>4 DEF ShardDone
<1>9. /\ t \in StateType
      /\ t.work = w
      /\ t.pending_work_count = n
      /\ t.resolving_shards = m
      /\ t.pointers[i] = q
      /\ \A j \in Index : j # i => t.pointers[j] = s.pointers[j]
      /\ t.total_pointers = s.total_pointers
      /\ t.requesting_pointers = s.requesting_pointers
      /\ t.requesting_info = s.requesting_info
      /\ t.recovering_shards = s.recovering_shards
      /\ t.finished = s.finished
      /\ t.callbacks = s.callbacks
      /\ t.canceled = s.canceled
      /\ t.error_status = s.error_status
  BY <1>1, <1>7, Zenon DEF StateType
<1>10. Counted(t)
  <2>1. Cardinality(w) = Cardinality(s.work) - 1
    BY <1>1, <1>2, RemovedCount
  <2>2. PICK z \in SUBSET (JobKind \X Index) : z = JobsOf(s, {"shard"})
    BY <1>1 DEF JobsOf
  <2>3. job \in z /\ JobsOf(t, {"shard"}) = z \ {job}
    BY <1>2, <1>9, <2>2 DEF JobsOf
  <2>4. Cardinality(z \ {job}) = Cardinality(z) - 1
    BY <2>3, RemovedCount
  <2> QED
    BY <1>1, <1>2, <1>3, <1>9, <2>1, <2>2, <2>3, <2>4 DEF Counted
<1>11. Flagged(t)
  <2>1. JobsOf(t, {"pointers", "replace"}) = JobsOf(s, {"pointers", "replace"})
    BY <1>2, <1>9 DEF JobsOf
  <2>2. ASSUME NEW k \in t.work, k[1] \in {"pointers", "info", "recover"}
        PROVE  k[2] = 0
    BY <2>2, <1>1, <1>2, <1>9 DEF Flagged
  <2>3. /\ <<"info", 0>> \in t.work <=> t.requesting_info
        /\ <<"recover", 0>> \in t.work <=> t.recovering_shards
    BY <1>1, <1>2, <1>9 DEF Flagged
  <2> QED
    BY <2>1, <2>2, <2>3, <1>1, <1>9 DEF Flagged
<1>12. ASSUME NEW j \in Index PROVE Owns(t, j, t.pointers[j])
  <2>1. Owns(s, j, s.pointers[j])
    BY DEF Good
  <2>2. CASE j = i
    BY <1>2, <1>6, <1>9, <2>1, <2>2 DEF Owns
  <2>3. CASE j # i
    BY <1>2, <1>9, <2>1, <2>3 DEF Owns
  <2> QED
    BY <2>2, <2>3
<1>13. ~ t.finished /\ t.callbacks = << >>
  BY <1>9, JobLive
<1>14. Closed(t)
  BY <1>13 DEF Closed
<1> QED
  BY <1>2, <1>8, <1>9, <1>10, <1>11, <1>12, <1>13, <1>14 DEF Good, Done

LEMMA InfoAnsweredDone ==
  ASSUME NEW s, NEW job, NEW r, Done(s, job, r), NEW key \in BOOLEAN
  PROVE  Done(s, job, InfoAnswered(r, key))
<1>1. r \in StateType
  BY DEF Done, Good
<1>2. PICK rs \in BOOLEAN, truncated \in BOOLEAN :
        /\ rs = (r.rs \/ file.erasure = "reedsolomon")
        /\ truncated = (r.truncated /\ file.erasure # "reedsolomon")
  OBVIOUS
<1>3. PICK error \in ErrorStatus :
        /\ error = IF ~ key THEN "MEMORY"
                   ELSE IF file.erasure = "other" THEN "BRIDGE"
                   ELSE r.error_status
        /\ r.error_status # "OK" => error # "OK"
  BY <1>1 DEF StateType, ErrorStatus
<1>4. PICK t : t = [r EXCEPT !.info = TRUE, !.rs = rs, !.truncated = truncated,
                            !.error_status = error]
  OBVIOUS
<1>5. t = InfoAnswered(r, key)
  BY <1>2, <1>3, <1>4, Zenon DEF InfoAnswered
<1>6. /\ t \in StateType /\ SameJobs(r, t)
      /\ t.error_status = error
      /\ t.total_pointers = r.total_pointers
      /\ t.pointers = r.pointers
  BY <1>1, <1>4, Zenon DEF StateType, SameJobs
<1>7. ASSUME NEW j \in Index PROVE Owns(t, j, t.pointers[j])
  BY <1>6 DEF Done, Good, Owns, SameJobs
<1> QED
  BY <1>3, <1>5, <1>6, <1>7, ChangedDone

LEMMA RecoveredDone ==
  ASSUME NEW s, NEW job, NEW r, Done(s, job, r)
  PROVE  Done(s, job, Recovered(r))
<1>1. r \in StateType /\ Good(r)
  BY DEF Done, Good
<1>2. PICK n \in Nat : n = r.completed_shards + r.total_pointers
  <2>1. r.completed_shards \in Nat /\ r.total_pointers \in Nat
    BY <1>1 DEF StateType
  <2> QED
    BY <2>1
<1>3. PICK f : f = [i \in Index |-> IF i \in Allocated(r)
                                    THEN Marked(r.pointers[i], POINTER_FINISHED)
                                    ELSE r.pointers[i]]
  OBVIOUS
<1>4. ASSUME NEW j \in Index
      PROVE  /\ f[j] \in PointerType
             /\ \/ f[j] = r.pointers[j]
                \/ /\ f[j].status = POINTER_FINISHED
                   /\ f[j].send_status = r.pointers[j].send_status
                   /\ f[j].send_count = r.pointers[j].send_count
  BY <1>1, <1>3, MarkedPointer DEF StateType
<1>5. f \in [Index -> PointerType]
  BY <1>3, <1>4
<1>6. PICK t : t = [r EXCEPT !.completed_shards = n, !.pointers = f]
  OBVIOUS
<1>7. t = Recovered(r)
  BY <1>2, <1>3, <1>6 DEF Recovered
<1>8. /\ t \in StateType /\ SameJobs(r, t)
      /\ t.error_status = r.error_status
      /\ t.total_pointers = r.total_pointers
      /\ t.pointers = f
  BY <1>1, <1>5, <1>6, Zenon DEF StateType, SameJobs
<1>9. ASSUME NEW j \in Index PROVE Owns(t, j, t.pointers[j])
  <2>1. Owns(r, j, r.pointers[j]) /\ t.work = r.work
    BY <1>1, <1>8 DEF Good, SameJobs
  <2>2. CASE f[j] = r.pointers[j]
    BY <1>8, <2>1, <2>2 DEF Owns
  <2>3. CASE /\ f[j].status = POINTER_FINISHED
             /\ f[j].send_status = r.pointers[j].send_status
             /\ f[j].send_count = r.pointers[j].send_count
    BY <1>8, <2>1, <2>3 DEF Owns, Settled
  <2> QED
    BY <1>4, <2>2, <2>3
<1> QED
  BY <1>7, <1>8, <1>9, ChangedDone

(* storj_bridge_resolve_file_cancel *)
LEMMA CancelGood ==
  ASSUME NEW s, Good(s), ~ s.finished, NEW dequeued \in SUBSET Index
  PROVE  LET t == [s EXCEPT !.canceled = TRUE, !.error_status = "CANCELED",
                            !.dequeued = dequeued]
         IN  /\ Good(t)
             /\ t.work = s.work
             /\ t.canceled = TRUE
             /\ t.callbacks = << >>
             /\ t.error_status # "OK"
<1>1. s \in StateType
  BY DEF Good
<1>2. PICK error \in ErrorStatus : error = "CANCELED"
  BY DEF ErrorStatus
<1>3. PICK t : t = [s EXCEPT !.canceled = TRUE, !.error_status = error,
                            !.dequeued = dequeued]
  OBVIOUS
<1>4. /\ t \in StateType
      /\ t.work = s.work
      /\ t.pending_work_count = s.pending_work_count
      /\ t.resolving_shards = s.resolving_shards
      /\ t.pointers = s.pointers
      /\ t.total_pointers = s.total_pointers
      /\ t.requesting_pointers = s.requesting_pointers
      /\ t.requesting_info = s.requesting_info
      /\ t.recovering_shards = s.recovering_shards
      /\ t.finished = s.finished
      /\ t.callbacks = s.callbacks
      /\ t.canceled = TRUE
      /\ t.error_status = error
  BY <1>1, <1>3, Zenon DEF StateType
<1>5. Counted(t) /\ Flagged(t)
  BY <1>4 DEF Good, Counted, Flagged, JobsOf
<1>6. \A j \in Index : Owns(t, j, t.pointers[j])
  BY <1>4 DEF Good, Owns
<1>7. Closed(t) /\ t.callbacks = << >>
  BY <1>4 DEF Good, Closed
<1> QED
  BY <1>2, <1>3, <1>4, <1>5, <1>6, <1>7 DEF Good

-----------------------------------------------------------------------------
(* The invariant of the specification.                                     *)

IInv == file \in Files /\ Good(state)

LEMMA NewStateLive == Live(NewState) /\ ~ AllRecovered(NewState) /\ ~ NewState.info
<1>1. NewState \in StateType
  <2>1. Uninitialized \in PointerType
    BY DEF Uninitialized, PointerType
  <2>2. 0 \in 0..MaxShards
    BY DownloadAssumption
  <2>3. << >> \in Seq(ErrorStatus)
    OBVIOUS
  <2> QED
    BY <2>1, <2>2, <2>3 DEF NewState, StateType, ErrorStatus
<1>2. Counted(NewState) /\ Flagged(NewState) /\ Closed(NewState)
  BY FS_EmptySet DEF NewState, Counted, Flagged, Closed, JobsOf
<1>3. \A i \in Index : Owns(NewState, i, NewState.pointers[i])
  BY DEF NewState, Owns, Uninitialized
<1> QED
  BY <1>1, <1>2, <1>3 DEF Live, Good, NewState, AllRecovered

LEMMA InitIInv == Init => IInv /\ ~ state.canceled /\ state.callbacks = << >>
<1> SUFFICES ASSUME Init PROVE IInv /\ ~ state.canceled /\ state.callbacks = << >>
  OBVIOUS
<1>1. PICK r : r = QueueRequests(NewState)
  OBVIOUS
<1>2. Live(r) /\ Grown(NewState, r)
  BY <1>1, NewStateLive, QueueRequestsLive
<1>3. PICK t : t = QueueRecoveryAndReports(r)
  OBVIOUS
<1>4. Live(t) /\ Grown(r, t)
  BY <1>2, <1>3, QueueRecoveryAndReportsLive
<1>5. queue_next_work(NewState) = QueueMore(r)
  BY <1>1, NewStateLive DEF queue_next_work, Live
<1>6. QueueMore(r) = t
  BY <1>2, <1>3, NewStateLive DEF QueueMore, Grown
<1>7. state = t /\ file \in Files
  BY <1>5, <1>6 DEF Init
<1>8. ~ NewState.canceled /\ NewState.callbacks = << >>
  BY DEF NewState
<1> QED
  BY <1>2, <1>4, <1>7, <1>8 DEF IInv, Live, Grown

(* Each callback handles the end of an outstanding job. *)
LEMMA AfterRequestPointersHandled ==
  ASSUME IInv, AfterRequestPointers
  PROVE  \E job \in state.work : Handled(state, job, state') /\ file' = file
<1> DEFINE job == <<"pointers", 0>>
<1>1. job \in state.work /\ Good(state) /\ 0 \in Index
  BY DownloadAssumption DEF AfterRequestPointers, Outstanding, IInv, Index
<1>2. PICK s : s = [Complete(state, job) EXCEPT !.requesting_pointers = FALSE]
  OBVIOUS
<1>3. Done(state, job, s)
  BY <1>1, <1>2, PointerJobDone
<1>4. \/ PointersAnswered(s)
      \/ Step(PointerRequestFailed(s))
      \/ Step(Fail(s, "BRIDGE"))
  BY <1>2 DEF AfterRequestPointers
<1>5. \E t : Done(state, job, t) /\ Step(t)
  <2>1. CASE PointersAnswered(s)
    BY <1>3, <2>1, ListEndDone, AppendPointersDone DEF PointersAnswered
  <2>2. CASE Step(PointerRequestFailed(s))
    BY <1>3, <2>2, PointerRequestFailedDone
  <2>3. CASE Step(Fail(s, "BRIDGE"))
    BY <1>3, <2>3, FailDone DEF ErrorStatus
  <2> QED
    BY <1>4, <2>1, <2>2, <2>3
<1> QED
  BY <1>1, <1>5, DoneHandled DEF Step

LEMMA AfterRequestReplacePointerHandled ==
  ASSUME IInv, NEW i \in Index, AfterRequestReplacePointer(i)
  PROVE  \E job \in state.work : Handled(state, job, state') /\ file' = file
<1> DEFINE job == <<"replace", i>>
<1>1. job \in state.work /\ Good(state)
  BY DEF AfterRequestReplacePointer, Outstanding, IInv
<1>2. PICK s : s = [Complete(state, job) EXCEPT !.requesting_pointers = FALSE]
  OBVIOUS
<1>3. Done(state, job, s) /\ s.pointers = state.pointers
  BY <1>1, <1>2, PointerJobDone
<1>4. \/ \E entry \in Entry \ {"malformed"} :
           Step(Replaced(s, i, entry)) \/ Step(Fail(Replaced(s, i, entry), "BRIDGE"))
      \/ Step(ReplacementRefused(s, i))
      \/ Step(ReplacementFailed(s, i))
      \/ Step(Fail(s, "BRIDGE"))
  BY <1>2 DEF AfterRequestReplacePointer
<1>5. "BRIDGE" \in ErrorStatus \ {"OK"}
  BY DEF ErrorStatus
<1>6. \E t : Done(state, job, t) /\ Step(t)
  <2>1. ASSUME NEW entry \in Entry,
               Step(Replaced(s, i, entry)) \/ Step(Fail(Replaced(s, i, entry), "BRIDGE"))
        PROVE  \E t : Done(state, job, t) /\ Step(t)
    <3>1. Done(state, job, Replaced(s, i, entry))
      BY <1>1, <1>3, ReplacedDone
    <3>2. Done(state, job, Fail(Replaced(s, i, entry), "BRIDGE"))
      BY <1>5, <3>1, FailDone
    <3> QED
      BY <2>1, <3>1, <3>2
  <2>2. CASE Step(ReplacementRefused(s, i))
    BY <1>1, <1>3, <2>2, ReplacementRefusedDone
  <2>3. CASE Step(ReplacementFailed(s, i))
    BY <1>1, <1>3, <2>3, ReplacementFailedDone
  <2>4. CASE Step(Fail(s, "BRIDGE"))
    BY <1>3, <1>5, <2>4, FailDone
  <2> QED
    BY <1>4, <2>1, <2>2, <2>3, <2>4
<1> QED
  BY <1>1, <1>6, DoneHandled DEF Step

LEMMA AfterRequestShardHandled ==
  ASSUME IInv, NEW i \in Index, AfterRequestShard(i)
  PROVE  \E job \in state.work : Handled(state, job, state') /\ file' = file
<1> DEFINE job == <<"shard", i>>
<1>1. job \in state.work /\ Good(state)
  BY DEF AfterRequestShard, Outstanding, IInv
<1>2. PICK result \in ShardResult(i) :
        Step(ShardDone(Complete(state, job), i, result))
  BY DEF AfterRequestShard
<1>3. result \in [error : BOOLEAN, stored : BOOLEAN, timed : BOOLEAN]
  <2>1. CASE i \in state.dequeued
    <3>1. result \in [error : {FALSE}, stored : {FALSE}, timed : BOOLEAN]
      BY <2>1, Zenon DEF ShardResult
    <3> QED
      BY <3>1
  <2>2. CASE i \notin state.dequeued
    <3>1. \/ result = [error |-> FALSE, stored |-> TRUE, timed |-> TRUE]
          \/ result = [error |-> TRUE, stored |-> FALSE, timed |-> TRUE]
      BY <2>2, Zenon DEF ShardResult
    <3>2. CASE result = [error |-> FALSE, stored |-> TRUE, timed |-> TRUE]
      BY <3>2
    <3>3. CASE result = [error |-> TRUE, stored |-> FALSE, timed |-> TRUE]
      BY <3>3
    <3> QED
      BY <3>1, <3>2, <3>3
  <2> QED
    BY <2>1, <2>2
<1>4. Done(state, job, ShardDone(Complete(state, job), i, result))
  BY <1>1, <1>3, ShardDoneDone
<1> QED
  BY <1>1, <1>2, <1>4, DoneHandled DEF Step

LEMMA AfterSendExchangeReportHandled ==
  ASSUME IInv, NEW i \in Index, AfterSendExchangeReport(i)
  PROVE  \E job \in state.work : Handled(state, job, state') /\ file' = file
<1> DEFINE job == <<"report", i>>
<1>1. job \in state.work /\ Good(state)
  BY DEF AfterSendExchangeReport, Outstanding, IInv
<1>2. PICK accepted \in BOOLEAN :
        Step(ReportDone(Complete(state, job), i, accepted))
  BY DEF AfterSendExchangeReport
<1>3. Done(state, job, ReportDone(Complete(state, job), i, accepted))
  BY <1>1, ReportDoneDone
<1> QED
  BY <1>1, <1>2, <1>3, DoneHandled DEF Step

LEMMA AfterRequestInfoHandled ==
  ASSUME IInv, AfterRequestInfo
  PROVE  \E job \in state.work : Handled(state, job, state') /\ file' = file
<1> DEFINE job == <<"info", 0>>
<1>1. job \in state.work /\ Good(state)
  BY DEF AfterRequestInfo, Outstanding, IInv
<1>2. PICK s : s = [Complete(state, job) EXCEPT !.requesting_info = FALSE]
  OBVIOUS
<1>3. Done(state, job, s)
  BY <1>1, <1>2, InfoJobDone
<1>4. \/ \E key \in BOOLEAN : Step(InfoAnswered(s, key))
      \/ Step(InfoRequestFailed(s))
      \/ Step(Fail(s, "BRIDGE"))
  BY <1>2 DEF AfterRequestInfo
<1>5. \E t : Done(state, job, t) /\ Step(t)
  BY <1>3, <1>4, InfoAnsweredDone, InfoRequestFailedDone, FailDone DEF ErrorStatus
<1> QED
  BY <1>1, <1>5, DoneHandled DEF Step

LEMMA AfterRecoverShardsHandled ==
  ASSUME IInv, AfterRecoverShards
  PROVE  \E job \in state.work : Handled(state, job, state') /\ file' = file
<1> DEFINE job == <<"recover", 0>>
<1>1. job \in state.work /\ Good(state)
  BY DEF AfterRecoverShards, Outstanding, IInv
<1>2. PICK s : s = [Complete(state, job) EXCEPT !.recovering_shards = FALSE,
                                               !.truncated = TRUE]
  OBVIOUS
<1>3. Done(state, job, s)
  BY <1>1, <1>2, RecoverJobDone
<1>4. Step(Recovered(s)) \/ Step(Fail(s, "RECOVERY"))
  BY <1>2 DEF AfterRecoverShards
<1>5. \E t : Done(state, job, t) /\ Step(t)
  BY <1>3, <1>4, RecoveredDone, FailDone DEF ErrorStatus
<1> QED
  BY <1>1, <1>5, DoneHandled DEF Step

LEMMA AfterWorkHandled ==
  ASSUME IInv, AfterWork
  PROVE  \E job \in state.work : Handled(state, job, state') /\ file' = file
  BY AfterRequestPointersHandled, AfterRequestReplacePointerHandled,
     AfterRequestShardHandled, AfterSendExchangeReportHandled,
     AfterRequestInfoHandled, AfterRecoverShardsHandled DEF AfterWork

LEMMA ResolveFileCancelGood ==
  ASSUME IInv, ResolveFileCancel
  PROVE  /\ Good(state') /\ file' = file
         /\ state'.work = state.work
         /\ state.callbacks = << >> /\ state'.callbacks = << >>
         /\ state'.canceled = TRUE
         /\ state'.error_status # "OK"
<1>1. Good(state) /\ ~ state.finished /\ state.callbacks = << >> /\ file' = file
  BY DEF IInv, ResolveFileCancel, Good, Closed
<1>2. PICK dequeued \in SUBSET Index :
        state' = [state EXCEPT !.canceled = TRUE, !.error_status = "CANCELED",
                               !.dequeued = dequeued]
  BY DEF ResolveFileCancel, WithStatus, Allocated
<1> QED
  BY <1>1, <1>2, CancelGood

LEMMA NextIInv == IInv /\ [Next]_vars => IInv'
<1> SUFFICES ASSUME IInv, [Next]_vars PROVE IInv'
  OBVIOUS
<1>1. CASE AfterWork
  BY <1>1, AfterWorkHandled DEF IInv, Handled
<1>2. CASE ResolveFileCancel
  BY <1>2, ResolveFileCancelGood DEF IInv
<1>3. CASE UNCHANGED vars
  BY <1>3 DEF IInv, vars
<1> QED
  BY <1>1, <1>2, <1>3 DEF Next

(* The inductive invariant holds in every state of a download, whatever    *)
(* the bridge answers: what the properties below are read off from.        *)
THEOREM Invariance == Spec => []IInv
  BY InitIInv, NextIInv, PTL DEF Spec

-----------------------------------------------------------------------------
(* The properties.                                                         *)

(* Whatever the bridge and the farmers answer, every field of the state    *)
(* keeps its type (storj_download_state_t).                                *)
THEOREM TypeCorrect == Spec => []TypeOK
<1>1. IInv => TypeOK
  BY DEF IInv, Good, TypeOK
<1> QED
  BY <1>1, Invariance, PTL

(* pending_work_count, resolving_shards and the three request flags agree  *)
(* with the outstanding jobs in every state, for any number of shards.     *)
THEOREM CountersCorrect == Spec => []CountersMatchWork
<1>1. IInv => CountersMatchWork
  <2> SUFFICES ASSUME IInv PROVE CountersMatchWork
    OBVIOUS
  <2>1. /\ Counted(state) /\ Flagged(state)
        /\ state.work \in SUBSET (JobKind \X Index)
    BY DEF IInv, Good, StateType
  <2>2. Cardinality(JobsOf(state, {"pointers", "replace"}))
          = IF state.requesting_pointers THEN 1 ELSE 0
    <3>1. CASE state.requesting_pointers
      <4>1. PICK job : JobsOf(state, {"pointers", "replace"}) = {job}
        BY <2>1, <3>1 DEF Flagged
      <4> QED
        BY <3>1, <4>1, SingleCount
    <3>2. CASE ~ state.requesting_pointers
      BY <2>1, <3>2, FS_EmptySet DEF Flagged
    <3> QED
      BY <3>1, <3>2
  <2>3. JobsOf(state, {"info"}) # {} <=> <<"info", 0>> \in state.work
    <3>1. ASSUME NEW job \in JobsOf(state, {"info"}) PROVE job = <<"info", 0>>
      BY <2>1 DEF JobsOf, Flagged
    <3> QED
      BY <3>1 DEF JobsOf
  <2>4. JobsOf(state, {"recover"}) # {} <=> <<"recover", 0>> \in state.work
    <3>1. ASSUME NEW job \in JobsOf(state, {"recover"}) PROVE job = <<"recover", 0>>
      BY <2>1 DEF JobsOf, Flagged
    <3> QED
      BY <3>1 DEF JobsOf
  <2> QED
    BY <2>1, <2>2, <2>3, <2>4 DEF CountersMatchWork, Counted, Flagged
<1> QED
  BY <1>1, Invariance, PTL

(* When finished_cb was called, and the state freed, no job is outstanding *)
(* whose callback would use it, and the callback is called at most once.   *)
THEOREM FreedSafely == Spec => []NoUseAfterFree
<1>1. IInv => NoUseAfterFree
  BY DEF IInv, Good, Closed, NoUseAfterFree
<1> QED
  BY <1>1, Invariance, PTL

(* The books are right, and what is freed by them is used no more.         *)
THEOREM BookkeepingCorrect == Spec => []BookkeepingExact
<1>1. CountersMatchWork /\ NoUseAfterFree => BookkeepingExact
  BY DEF BookkeepingExact
<1> QED
  BY <1>1, CountersCorrect, FreedSafely, PTL

(* While the replacement of a pointer is on the way, no job holds the      *)
(* token, the hash or the report that set_pointer_from_json will free.     *)
THEOREM ReplacementSafe == Spec => []ReplacementOwnsPointer
<1>1. IInv => ReplacementOwnsPointer
  <2> SUFFICES ASSUME IInv, NEW i \in Index, Outstanding("replace", i)
               PROVE  ~ Outstanding("shard", i) /\ ~ Outstanding("report", i)
    BY DEF ReplacementOwnsPointer
  <2>1. Owns(state, i, state.pointers[i])
    BY DEF IInv, Good
  <2> QED
    BY <2>1 DEF Owns, Settled, Outstanding
<1> QED
  BY <1>1, Invariance, PTL

(* After an error or a cancel queue_next_work queues nothing, and no later *)
(* callback turns the error back into success.                             *)
THEOREM ErrorsDrain == Spec => DrainsAfterError
<1>1. IInv /\ [Next]_vars
        => [state.error_status # "OK" => /\ state'.work \subseteq state.work
                                         /\ state'.error_status # "OK"]_vars
  <2> SUFFICES ASSUME IInv, Next, state.error_status # "OK"
               PROVE  state'.work \subseteq state.work /\ state'.error_status # "OK"
    OBVIOUS
  <2>1. CASE AfterWork
    BY <2>1, AfterWorkHandled DEF Handled
  <2>2. CASE ResolveFileCancel
    BY <2>2, ResolveFileCancelGood
  <2> QED
    BY <2>1, <2>2 DEF Next
<1> QED
  BY <1>1, Invariance, PTL DEF Spec, DrainsAfterError

(* A download is a Transfer: its callback comes once, after the last job,  *)
(* a canceled download starts nothing and does not report success.         *)
THEOREM ImplementsTransfer == Spec => KeepsPromise
<1>1. Init => Promise!TransferInit
  BY InitIInv DEF Promise!TransferInit, IInv, Good, StateType
<1>2. IInv /\ [Next]_vars => [Promise!TransferNext]_(Promise!transferVars)
  <2> SUFFICES ASSUME IInv, [Next]_vars
               PROVE  [Promise!TransferNext]_(Promise!transferVars)
    OBVIOUS
  <2>1. CASE AfterWork
    <3>1. PICK job \in state.work : Handled(state, job, state')
      BY <2>1, AfterWorkHandled
    <3>2. /\ state.callbacks = << >>
          /\ state.canceled => state.error_status # "OK"
          /\ state'.work \in SUBSET (JobKind \X Index)
          /\ job \in JobKind \X Index
      BY <3>1, JobLive DEF IInv, Good, Handled, StateType
    <3>3. CASE state'.callbacks = << >> /\ state.work \ {job} \subseteq state'.work
      <4>1. Promise!HandleJob
        BY <3>1, <3>2, <3>3 DEF Promise!HandleJob, Handled
      <4> QED
        BY <4>1 DEF Promise!TransferNext
    <3>4. CASE /\ state.work \ {job} = {} /\ state'.work = {}
               /\ state'.error_status \in ErrorStatus
               /\ state'.callbacks = <<state'.error_status>>
      <4>1. state.work = {job} /\ state'.canceled = state.canceled
        BY <3>1, <3>4 DEF Handled
      <4>2. state.canceled => state'.error_status # "OK"
        BY <3>1, <3>2 DEF Handled
      <4>3. Promise!Deliver
        BY <3>1, <3>2, <3>4, <4>1, <4>2 DEF Promise!Deliver
      <4> QED
        BY <4>3 DEF Promise!TransferNext
    <3> QED
      BY <3>1, <3>3, <3>4 DEF Handled
  <2>2. CASE ResolveFileCancel
    <3>1. Promise!Cancel
      BY <2>2, ResolveFileCancelGood DEF Promise!Cancel
    <3> QED
      BY <3>1 DEF Promise!TransferNext
  <2>3. CASE UNCHANGED vars
    BY <2>3 DEF vars, Promise!transferVars
  <2> QED
    BY <2>1, <2>2, <2>3 DEF Next
<1> QED
  BY <1>1, <1>2, Invariance, PTL DEF Spec, KeepsPromise, Promise!TransferSpec
=============================================================================
