-------------------------- MODULE DownloadFlowProofs --------------------------
(***************************************************************************)
(* Proofs about the course of a Download, for every file, every limit and  *)
(* every number of shards: what recovery may rely on, what success means,  *)
(* that no pointer is forgotten, that a download with nothing outstanding  *)
(* has ended or has just given up on a pointer, and how pointers move.     *)
(*                                                                         *)
(* DownloadProofs shows that the books agree with the jobs (Good).  Here   *)
(* the invariant is about the pointers: Placed holds after every           *)
(* callback, before and after its queue_next_work; Served and Ended are    *)
(* what queue_next_work establishes.                                       *)
(***************************************************************************)
EXTENDS DownloadProofs

USE DEF POINTER_UNINITIALIZED, POINTER_BEING_REPLACED, POINTER_ERROR_REPORTED,
        POINTER_ERROR, POINTER_CREATED, POINTER_BEING_DOWNLOADED,
        POINTER_DOWNLOADED, POINTER_MISSING, POINTER_FINISHED

-----------------------------------------------------------------------------
(* The inductive invariant, as predicates on a file and a state record.    *)

ParityAmong(f, indices) == {i \in indices : i >= f.shards - f.parity}

(* The pointers are those the bridge listed so far. *)
Listed(f, s) ==
  /\ s.total_pointers <= f.shards
  /\ s.total_parity_pointers = Cardinality(ParityAmong(f, Allocated(s)))
  /\ s.pointers_completed =>
       s.total_pointers = f.shards /\ <<"pointers", 0>> \notin s.work

(* Recovery needs the info and the whole list, and runs only once. *)
Informed(s) ==
  /\ s.info => <<"info", 0>> \notin s.work
  /\ <<"recover", 0>> \in s.work =>
       s.info /\ s.pointers_completed /\ s.completed_shards = 0
  /\ s.completed_shards # 0 => s.info /\ AllRecovered(s)

(* How far pointer p at index i has come, by its status and its report. *)
Traced(s, i, p) ==
  /\ i >= s.total_pointers => p.status = POINTER_UNINITIALIZED
  /\ p.status = POINTER_CREATED \/ <<"shard", i>> \in s.work =>
       ~ p.timed /\ p.send_status = 0 /\ p.send_count = 0
  /\ p.status = POINTER_BEING_DOWNLOADED => <<"shard", i>> \in s.work
  /\ p.send_status = 1 => <<"report", i>> \in s.work
  /\ p.status = POINTER_ERROR =>
       /\ p.timed
       /\ \/ p.send_status = 1
          \/ p.send_status = 0 /\ p.send_count < STORJ_MAX_REPORT_TRIES
  /\ p.status = POINTER_FINISHED => s.completed_shards # 0
  /\ s.error_status = "OK" =>
       /\ p.status = POINTER_UNINITIALIZED => i >= s.total_pointers
       /\ p.status = POINTER_BEING_REPLACED => <<"replace", i>> \in s.work
       /\ p.status = POINTER_DOWNLOADED => i \in s.fetched

(* A shard that recovery reads as it is. *)
Intact(s, i) ==
  /\ i \in s.fetched
  /\ <<"shard", i>> \notin s.work
  /\ s.pointers[i].status \in {POINTER_DOWNLOADED, POINTER_MISSING}

Recovering(f, s) ==
  <<"recover", 0>> \in s.work =>
    /\ Cardinality(s.zilch) <= IF s.rs THEN f.parity ELSE 0
    /\ \A i \in Allocated(s) \ s.zilch : Intact(s, i)

Limited(s) ==
  /\ s.resolving_shards <= STORJ_DOWNLOAD_CONCURRENCY
  /\ s.dequeued # {} => s.canceled

Placed(f, s) ==
  /\ Listed(f, s)
  /\ Informed(s)
  /\ Recovering(f, s)
  /\ \A i \in Index : Traced(s, i, s.pointers[i])
  /\ Limited(s)

(* While something is left to recover, what waits waits for a reason. *)
Waits(s, i) ==
  /\ s.pointers[i].status = POINTER_CREATED =>
       \/ <<"info", 0>> \in s.work
       \/ s.resolving_shards >= STORJ_DOWNLOAD_CONCURRENCY
  /\ s.pointers[i].status = POINTER_ERROR => <<"report", i>> \in s.work
  /\ s.pointers[i].status = POINTER_ERROR_REPORTED =>
       s.requesting_pointers \/ Missing(s) # {}

Served(s) ==
  s.error_status = "OK" /\ ~ AllRecovered(s) => \A i \in Allocated(s) : Waits(s, i)

(* StalledByGivingUp, of any state. *)
Stalled(s) ==
  /\ s.rs
  /\ Missing(s) # {}
  /\ s.error_status \in {"OK", "CANCELED"}
  /\ \/ ~ s.pointers_completed
     \/ WithStatus(s, POINTER_ERROR_REPORTED) # {}

Ended(f, s) ==
  /\ s.callbacks = <<"OK">> =>
       /\ AllRecovered(s) /\ s.error_status = "OK"
       /\ s.info => f.integrity # "mismatch"
  /\ s.work = {} => s.finished \/ Stalled(s)

Flow(f, s) == Placed(f, s) /\ Served(s) /\ Ended(f, s)

(* What queue_next_work may do with a pointer. *)
Requeued(old, new) ==
  \/ new = old
  \/ old # POINTER_FINISHED /\ new = POINTER_MISSING
  \/ old = POINTER_CREATED /\ new = POINTER_BEING_DOWNLOADED
  \/ old = POINTER_ERROR_REPORTED /\ new = POINTER_BEING_REPLACED

AllRequeued(s, t) ==
  \A i \in Index : Requeued(s.pointers[i].status, t.pointers[i].status)

(* A download that may be given work and has not been through recovery. *)
Ready(s) == Live(s) /\ Placed(file, s) /\ s.completed_shards = 0

(* What queueing work leaves alone. *)
Kept(s, t) ==
  /\ t.info = s.info
  /\ t.completed_shards = s.completed_shards
  /\ t.total_pointers = s.total_pointers
  /\ t.total_parity_pointers = s.total_parity_pointers
  /\ t.rs = s.rs
  /\ t.truncated = s.truncated
  /\ t.pointers_completed = s.pointers_completed
  /\ t.error_status = s.error_status
  /\ t.canceled = s.canceled
  /\ t.dequeued = s.dequeued

-----------------------------------------------------------------------------
(* What the operations on one pointer leave of its report.                 *)

(* Everything but the status. *)
SameReport(p, q) ==
  /\ q.send_status = p.send_status
  /\ q.send_count = p.send_count
  /\ q.timed = p.timed

LEMMA MarkedReport ==
  ASSUME NEW p \in PointerType, NEW status \in -4..4
  PROVE  SameReport(p, Marked(p, status))
<1>1. PICK q : q = Marked(p, status)
  OBVIOUS
<1>2. SameReport(p, q)
  BY <1>1 DEF Marked, PointerType, SameReport
<1> QED
  BY <1>1, <1>2

LEMMA GivenUpReport ==
  ASSUME NEW p \in PointerType
  PROVE  SameReport(p, GivenUp(p))
<1>1. PICK q : q = [p EXCEPT !.replace_count = 0, !.status = POINTER_MISSING]
  OBVIOUS
<1>2. q = GivenUp(p)
  BY <1>1 DEF GivenUp
<1>3. SameReport(p, q)
  BY <1>1, Zenon DEF PointerType, SameReport
<1> QED
  BY <1>2, <1>3

LEMMA ReportingReport ==
  ASSUME NEW p \in PointerType
  PROVE  Reporting(p).timed = p.timed
<1>1. PICK n : n = p.send_count + 1
  OBVIOUS
<1>2. PICK q : q = [p EXCEPT !.send_status = 1, !.send_count = n]
  OBVIOUS
<1>3. q = Reporting(p)
  BY <1>1, <1>2 DEF Reporting
<1>4. q.timed = p.timed
  BY <1>2, Zenon DEF PointerType
<1> QED
  BY <1>3, <1>4

LEMMA ReportedReport ==
  ASSUME NEW p \in PointerType, NEW accepted \in BOOLEAN
  PROVE  /\ Reported(p, accepted).timed = p.timed
         /\ Reported(p, accepted).send_count = p.send_count
         /\ Reported(p, accepted).send_status = IF accepted THEN 2 ELSE 0
         /\ Reported(p, accepted).status = POINTER_ERROR
              => ~ accepted /\ p.send_count < STORJ_MAX_REPORT_TRIES
<1>1. PICK n \in 0..2 : n = IF accepted THEN 2 ELSE 0
  OBVIOUS
<1>2. PICK status \in -4..4 :
        status = IF /\ accepted \/ p.send_count >= STORJ_MAX_REPORT_TRIES
                    /\ p.status = POINTER_ERROR
                 THEN POINTER_ERROR_REPORTED ELSE p.status
  BY DEF PointerType
<1>3. PICK q : q = [p EXCEPT !.send_status = n, !.status = status]
  OBVIOUS
<1>4. q = Reported(p, accepted)
  BY <1>1, <1>2, <1>3 DEF Reported
<1>5. /\ q.send_count = p.send_count
      /\ q.timed = p.timed
      /\ q.send_status = n
      /\ q.status = status
  BY <1>3, Zenon DEF PointerType
<1>6. p.send_count \in Nat /\ STORJ_MAX_REPORT_TRIES \in Nat
  BY DownloadAssumption DEF PointerType
<1> QED
  BY <1>1, <1>2, <1>4, <1>5, <1>6

LEMMA AnsweredReport ==
  ASSUME NEW p \in PointerType,
         NEW result \in [error : BOOLEAN, stored : BOOLEAN, timed : BOOLEAN]
  PROVE  /\ Answered(p, result).timed = result.timed
         /\ Answered(p, result).send_count = p.send_count
         /\ Answered(p, result).status
              = IF result.error THEN POINTER_ERROR ELSE POINTER_DOWNLOADED
<1>1. PICK status : status = IF result.error THEN POINTER_ERROR ELSE POINTER_DOWNLOADED
  OBVIOUS
<1>2. PICK timed : timed = result.timed
  OBVIOUS
<1>3. PICK q : q = [p EXCEPT !.timed = timed, !.status = status]
  OBVIOUS
<1>4. q = Answered(p, result)
  BY <1>1, <1>2, <1>3 DEF Answered
<1>5. /\ q.timed = timed
      /\ q.status = status
      /\ q.send_count = p.send_count
  BY <1>3, Zenon DEF PointerType
<1> QED
  BY <1>1, <1>2, <1>4, <1>5

LEMMA SetPointerReport ==
  ASSUME NEW p \in PointerType, NEW entry, NEW replaced
  PROVE  /\ SetPointer(p, entry, replaced).send_status = 0
         /\ SetPointer(p, entry, replaced).send_count = 0
         /\ SetPointer(p, entry, replaced).timed = FALSE
<1>1. PICK n : n = IF replaced THEN p.replace_count + 1 ELSE 0
  OBVIOUS
<1>2. PICK status :
        status = IF entry = "farmer" THEN POINTER_CREATED ELSE POINTER_MISSING
  OBVIOUS
<1>3. PICK q : q = [p EXCEPT !.replace_count = n, !.status = status,
                            !.send_status = 0, !.send_count = 0,
                            !.timed = FALSE]
  OBVIOUS
<1>4. q = SetPointer(p, entry, replaced)
  BY <1>1, <1>2, <1>3 DEF SetPointer
<1>5. q.send_status = 0 /\ q.send_count = 0 /\ q.timed = FALSE
  BY <1>3, Zenon DEF PointerType
<1> QED
  BY <1>4, <1>5

-----------------------------------------------------------------------------
(* The fields of the states the queueing functions return.                 *)

SameStore(s, t) ==
  /\ t.zilch = s.zilch
  /\ t.fetched = s.fetched
  /\ t.resolving_shards = s.resolving_shards

OthersSame(s, t, i) == \A j \in Index : j # i => t.pointers[j] = s.pointers[j]

LEMMA GiveUpFacts ==
  ASSUME NEW s \in StateType, NEW i \in Index
  PROVE  LET t == GiveUp(s, i)
         IN  /\ Kept(s, t) /\ SameStore(s, t)
             /\ t.work = s.work
             /\ t.requesting_pointers = s.requesting_pointers
             /\ t.pointers[i] = GivenUp(s.pointers[i])
             /\ OthersSame(s, t, i)
<1>1. PICK q \in PointerType : q = GivenUp(s.pointers[i])
  BY GivenUpPointer DEF StateType
<1>2. PICK t : t = [s EXCEPT !.pointers[i] = q]
  OBVIOUS
<1>3. t = GiveUp(s, i)
  BY <1>1, <1>2 DEF GiveUp
<1>4. /\ Kept(s, t) /\ SameStore(s, t)
      /\ t.work = s.work
      /\ t.requesting_pointers = s.requesting_pointers
      /\ t.pointers[i] = q
      /\ OthersSame(s, t, i)
  BY <1>2, Zenon DEF StateType, Kept, SameStore, OthersSame
<1> QED
  BY <1>1, <1>3, <1>4

LEMMA RequestReplacementFacts ==
  ASSUME NEW s \in StateType, NEW i \in Index
  PROVE  LET t == RequestReplacement(s, i)
         IN  /\ Kept(s, t) /\ SameStore(s, t)
             /\ t.work = s.work \cup {<<"replace", i>>}
             /\ t.requesting_pointers
             /\ t.pointers[i] = Marked(s.pointers[i], POINTER_BEING_REPLACED)
             /\ OthersSame(s, t, i)
<1>1. PICK q \in PointerType : q = Marked(s.pointers[i], POINTER_BEING_REPLACED)
  BY MarkedPointer DEF StateType
<1>2. PICK w, n : /\ w = s.work \cup {<<"replace", i>>}
                  /\ n = s.pending_work_count + Cardinality({<<"replace", i>>})
  OBVIOUS
<1>3. PICK t : t = [[s EXCEPT !.work = w, !.pending_work_count = n] EXCEPT
                      !.pointers[i] = q, !.requesting_pointers = TRUE]
  OBVIOUS
<1>4. t = RequestReplacement(s, i)
  BY <1>1, <1>2, <1>3 DEF RequestReplacement, Queue
<1>5. /\ Kept(s, t) /\ SameStore(s, t)
      /\ t.work = w
      /\ t.requesting_pointers = TRUE
      /\ t.pointers[i] = q
      /\ OthersSame(s, t, i)
  BY <1>3, Zenon DEF StateType, Kept, SameStore, OthersSame
<1> QED
  BY <1>1, <1>2, <1>4, <1>5

LEMMA RequestNextPointersFacts ==
  ASSUME NEW s \in StateType
  PROVE  LET t == RequestNextPointers(s)
         IN  /\ Kept(s, t) /\ SameStore(s, t)
             /\ t.work = s.work \cup {<<"pointers", 0>>}
             /\ t.requesting_pointers
             /\ t.pointers = s.pointers
<1>1. PICK w, n : /\ w = s.work \cup {<<"pointers", 0>>}
                  /\ n = s.pending_work_count + Cardinality({<<"pointers", 0>>})
  OBVIOUS
<1>2. PICK t : t = [[s EXCEPT !.work = w, !.pending_work_count = n] EXCEPT
                      !.requesting_pointers = TRUE]
  OBVIOUS
<1>3. t = RequestNextPointers(s)
  BY <1>1, <1>2 DEF RequestNextPointers, Queue
<1>4. /\ Kept(s, t) /\ SameStore(s, t)
      /\ t.work = w
      /\ t.requesting_pointers = TRUE
      /\ t.pointers = s.pointers
  BY <1>2, Zenon DEF StateType, Kept, SameStore
<1> QED
  BY <1>1, <1>3, <1>4

LEMMA queue_request_infoFacts ==
  ASSUME NEW s \in StateType, ~ (s.info \/ s.requesting_info \/ s.canceled)
  PROVE  LET t == queue_request_info(s)
         IN  /\ Kept(s, t) /\ SameStore(s, t)
             /\ t.work = s.work \cup {<<"info", 0>>}
             /\ t.requesting_pointers = s.requesting_pointers
             /\ t.pointers = s.pointers
<1>1. PICK w, n : /\ w = s.work \cup {<<"info", 0>>}
                  /\ n = s.pending_work_count + Cardinality({<<"info", 0>>})
  OBVIOUS
<1>2. PICK t : t = [[s EXCEPT !.work = w, !.pending_work_count = n] EXCEPT
                      !.requesting_info = TRUE]
  OBVIOUS
<1>3. t = queue_request_info(s)
  BY <1>1, <1>2 DEF queue_request_info, Queue
<1>4. /\ Kept(s, t) /\ SameStore(s, t)
      /\ t.work = w
      /\ t.requesting_pointers = s.requesting_pointers
      /\ t.pointers = s.pointers
  BY <1>2, Zenon DEF StateType, Kept, SameStore
<1> QED
  BY <1>1, <1>3, <1>4

(* Recovery is queued. *)
RecoveryDue(s) ==
  /\ ~ s.recovering_shards
  /\ s.pointers_completed
  /\ Allocated(s) = Missing(s) \cup WithStatus(s, POINTER_DOWNLOADED)

LEMMA queue_recover_shardsFacts ==
  ASSUME NEW s \in StateType, RecoveryDue(s)
  PROVE  LET t == queue_recover_shards(s)
         IN  /\ Kept(s, t)
             /\ t.zilch = Missing(s)
             /\ t.fetched = s.fetched
             /\ t.resolving_shards = s.resolving_shards
             /\ t.work = s.work \cup {<<"recover", 0>>}
             /\ t.requesting_pointers = s.requesting_pointers
             /\ t.pointers = s.pointers
<1>1. PICK w, n, z : /\ w = s.work \cup {<<"recover", 0>>}
                     /\ n = s.pending_work_count + Cardinality({<<"recover", 0>>})
                     /\ z = Missing(s)
  OBVIOUS
<1>2. PICK t : t = [[s EXCEPT !.work = w, !.pending_work_count = n] EXCEPT
                      !.recovering_shards = TRUE, !.zilch = z]
  OBVIOUS
<1>3. t = queue_recover_shards(s)
  BY <1>1, <1>2 DEF queue_recover_shards, Queue, RecoveryDue
<1>4. /\ Kept(s, t)
      /\ t.zilch = z
      /\ t.fetched = s.fetched
      /\ t.resolving_shards = s.resolving_shards
      /\ t.work = w
      /\ t.requesting_pointers = s.requesting_pointers
      /\ t.pointers = s.pointers
  BY <1>2, Zenon DEF StateType, Kept
<1> QED
  BY <1>1, <1>3, <1>4

LEMMA StartDownloadsFacts ==
  ASSUME NEW s \in StateType, NEW starting \in SUBSET Index
  PROVE  LET t == StartDownloads(s, starting)
         IN  /\ Kept(s, t)
             /\ t.zilch = s.zilch
             /\ t.fetched = s.fetched \ starting
             /\ t.resolving_shards = s.resolving_shards + Cardinality(starting)
             /\ t.work = s.work \cup ({"shard"} \X starting)
             /\ t.requesting_pointers = s.requesting_pointers
             /\ \A i \in Index :
                  t.pointers[i] = IF i \in starting
                                  THEN Marked(s.pointers[i], POINTER_BEING_DOWNLOADED)
                                  ELSE s.pointers[i]
<1>1. PICK w, n : /\ w = s.work \cup ({"shard"} \X starting)
                  /\ n = s.pending_work_count + Cardinality({"shard"} \X starting)
  OBVIOUS
<1>2. PICK r, g : /\ r = s.resolving_shards + Cardinality(starting)
                  /\ g = s.fetched \ starting
  OBVIOUS
<1>3. PICK f : f = [i \in Index |->
                      IF i \in starting
                      THEN Marked(s.pointers[i], POINTER_BEING_DOWNLOADED)
                      ELSE s.pointers[i]]
  OBVIOUS
<1>4. PICK t : t = [[s EXCEPT !.work = w, !.pending_work_count = n] EXCEPT
                      !.resolving_shards = r, !.fetched = g, !.pointers = f]
  OBVIOUS
<1>5. t = StartDownloads(s, starting)
  BY <1>1, <1>2, <1>3, <1>4 DEF StartDownloads, Queue
<1>6. /\ Kept(s, t)
      /\ t.zilch = s.zilch
      /\ t.fetched = g
      /\ t.resolving_shards = r
      /\ t.work = w
      /\ t.requesting_pointers = s.requesting_pointers
      /\ t.pointers = f
  BY <1>4, Zenon DEF StateType, Kept
<1> QED
  BY <1>1, <1>2, <1>3, <1>5, <1>6

LEMMA StartReportsFacts ==
  ASSUME NEW s \in StateType, NEW sending \in SUBSET Index
  PROVE  LET t == StartReports(s, sending)
         IN  /\ Kept(s, t) /\ SameStore(s, t)
             /\ t.work = s.work \cup ({"report"} \X sending)
             /\ t.requesting_pointers = s.requesting_pointers
             /\ \A i \in Index :
                  t.pointers[i] = IF i \in sending THEN Reporting(s.pointers[i])
                                                   ELSE s.pointers[i]
<1>1. PICK w, n : /\ w = s.work \cup ({"report"} \X sending)
                  /\ n = s.pending_work_count + Cardinality({"report"} \X sending)
  OBVIOUS
<1>2. PICK f : f = [i \in Index |-> IF i \in sending THEN Reporting(s.pointers[i])
                                                     ELSE s.pointers[i]]
  OBVIOUS
<1>3. PICK t : t = [[s EXCEPT !.work = w, !.pending_work_count = n] EXCEPT
                      !.pointers = f]
  OBVIOUS
<1>4. t = StartReports(s, sending)
  BY <1>1, <1>2, <1>3 DEF StartReports, Queue
<1>5. /\ Kept(s, t) /\ SameStore(s, t)
      /\ t.work = w
      /\ t.requesting_pointers = s.requesting_pointers
      /\ t.pointers = f
  BY <1>3, Zenon DEF StateType, Kept, SameStore
<1> QED
  BY <1>1, <1>2, <1>4, <1>5

LEMMA FinishFacts ==
  ASSUME NEW s \in StateType, NEW status
  PROVE  LET t == Finish(s, status)
         IN  /\ SameStore(s, t)
             /\ t.info = s.info
             /\ t.completed_shards = s.completed_shards
             /\ t.total_pointers = s.total_pointers
             /\ t.total_parity_pointers = s.total_parity_pointers
             /\ t.rs = s.rs
             /\ t.truncated = s.truncated
             /\ t.pointers_completed = s.pointers_completed
             /\ t.error_status = status
             /\ t.canceled = s.canceled
             /\ t.dequeued = s.dequeued
             /\ t.work = s.work
             /\ t.pointers = s.pointers
             /\ t.finished
<1>1. PICK c : c = Append(s.callbacks, status)
  OBVIOUS
<1>2. PICK t : t = [s EXCEPT !.error_status = status, !.finished = TRUE,
                            !.callbacks = c]
  OBVIOUS
<1>3. t = Finish(s, status)
  BY <1>1, <1>2 DEF Finish
<1>4. /\ SameStore(s, t)
      /\ t.info = s.info
      /\ t.completed_shards = s.completed_shards
      /\ t.total_pointers = s.total_pointers
      /\ t.total_parity_pointers = s.total_parity_pointers
      /\ t.rs = s.rs
      /\ t.truncated = s.truncated
      /\ t.pointers_completed = s.pointers_completed
      /\ t.error_status = status
      /\ t.canceled = s.canceled
      /\ t.dequeued = s.dequeued
      /\ t.work = s.work
      /\ t.pointers = s.pointers
      /\ t.finished = TRUE
  BY <1>2, Zenon DEF StateType, SameStore
<1> QED
  BY <1>3, <1>4

LEMMA FailFacts ==
  ASSUME NEW s \in StateType, NEW status
  PROVE  LET t == Fail(s, status)
         IN  /\ SameStore(s, t)
             /\ t.info = s.info
             /\ t.completed_shards = s.completed_shards
             /\ t.total_pointers = s.total_pointers
             /\ t.total_parity_pointers = s.total_parity_pointers
             /\ t.rs = s.rs
             /\ t.truncated = s.truncated
             /\ t.pointers_completed = s.pointers_completed
             /\ t.error_status = status
             /\ t.canceled = s.canceled
             /\ t.dequeued = s.dequeued
             /\ t.work = s.work
             /\ t.pointers = s.pointers
<1>1. PICK t : t = [s EXCEPT !.error_status = status]
  OBVIOUS
<1>2. t = Fail(s, status)
  BY <1>1 DEF Fail
<1>3. /\ SameStore(s, t)
      /\ t.info = s.info
      /\ t.completed_shards = s.completed_shards
      /\ t.total_pointers = s.total_pointers
      /\ t.total_parity_pointers = s.total_parity_pointers
      /\ t.rs = s.rs
      /\ t.truncated = s.truncated
      /\ t.pointers_completed = s.pointers_completed
      /\ t.error_status = status
      /\ t.canceled = s.canceled
      /\ t.dequeued = s.dequeued
      /\ t.work = s.work
      /\ t.pointers = s.pointers
  BY <1>1, Zenon DEF StateType, SameStore
<1> QED
  BY <1>2, <1>3

-----------------------------------------------------------------------------
(* Placed through the queueing functions.                                  *)

LEMMA KeptAllocated ==
  ASSUME NEW s, NEW t, Kept(s, t)
  PROVE  /\ Allocated(t) = Allocated(s)
         /\ AllRecovered(t) <=> AllRecovered(s)
  BY DEF Kept, Allocated, AllRecovered

LEMMA ListedKept ==
  ASSUME NEW s, NEW t, Kept(s, t), Listed(file, s),
         <<"pointers", 0>> \in t.work =>
           <<"pointers", 0>> \in s.work \/ ~ s.pointers_completed
  PROVE  Listed(file, t)
<1>1. Allocated(t) = Allocated(s)
  BY KeptAllocated
<1> QED
  BY <1>1 DEF Listed, Kept

LEMMA InformedKept ==
  ASSUME NEW s, NEW t, Kept(s, t), Informed(s),
         <<"info", 0>> \in t.work => <<"info", 0>> \in s.work \/ ~ s.info,
         <<"recover", 0>> \in t.work =>
           \/ <<"recover", 0>> \in s.work
           \/ s.info /\ s.pointers_completed /\ s.completed_shards = 0
  PROVE  Informed(t)
<1>1. AllRecovered(t) <=> AllRecovered(s)
  BY KeptAllocated
<1> QED
  BY <1>1 DEF Informed, Kept

LEMMA RecoveringKept ==
  ASSUME NEW s, NEW t, Kept(s, t), Recovering(file, s),
         <<"recover", 0>> \in t.work => <<"recover", 0>> \in s.work,
         t.zilch = s.zilch,
         \A i \in Index : Intact(s, i) => Intact(t, i)
  PROVE  Recovering(file, t)
<1>1. Allocated(t) = Allocated(s) /\ Allocated(s) \subseteq Index
  BY KeptAllocated DEF Allocated
<1> QED
  BY <1>1 DEF Recovering, Kept

(* A recovery that is outstanding is not due again. *)
LEMMA ReadyParts ==
  ASSUME NEW s, Ready(s)
  PROVE  /\ s \in StateType
         /\ s.error_status = "OK" /\ ~ s.finished /\ ~ s.canceled
         /\ Listed(file, s) /\ Informed(s) /\ Recovering(file, s) /\ Limited(s)
         /\ \A i \in Index : /\ Traced(s, i, s.pointers[i])
                             /\ Owns(s, i, s.pointers[i])
                             /\ s.pointers[i] \in PointerType
                             /\ s.pointers[i].status # POINTER_FINISHED
<1>1. /\ s \in StateType
      /\ s.error_status = "OK" /\ ~ s.finished /\ ~ s.canceled
      /\ \A i \in Index : Owns(s, i, s.pointers[i])
  BY DEF Ready, Live, Good
<1>2. /\ Listed(file, s) /\ Informed(s) /\ Recovering(file, s) /\ Limited(s)
      /\ \A i \in Index : Traced(s, i, s.pointers[i])
      /\ s.completed_shards = 0
  BY DEF Ready, Placed
<1>3. \A i \in Index : s.pointers[i] \in PointerType
  BY <1>1 DEF StateType
<1>4. \A i \in Index : s.pointers[i].status # POINTER_FINISHED
  BY <1>2 DEF Traced
<1> QED
  BY <1>1, <1>2, <1>3, <1>4

LEMMA GiveUpReady ==
  ASSUME NEW s, Ready(s), NEW i \in Allocated(s), ~ s.requesting_pointers
  PROVE  LET t == GiveUp(s, i)
         IN  Ready(t) /\ Kept(s, t) /\ AllRequeued(s, t) /\ Missing(t) # {}
<1>1. PICK t : t = GiveUp(s, i)
  OBVIOUS
<1>2. i \in Index /\ i < s.total_pointers /\ s \in StateType
  BY ReadyParts DEF Allocated
<1>3. Live(t)
  BY <1>1, <1>2, GiveUpLive DEF Ready
<1>4. PICK p \in PointerType : p = s.pointers[i]
  BY <1>2, ReadyParts
<1>5. PICK q : q = GivenUp(p)
  OBVIOUS
<1>6. q.status = POINTER_MISSING /\ SameReport(p, q)
  BY <1>5, GivenUpPointer, GivenUpReport
<1>7. /\ Kept(s, t) /\ SameStore(s, t)
      /\ t.work = s.work
      /\ t.pointers[i] = q
      /\ OthersSame(s, t, i)
  BY <1>1, <1>2, <1>4, <1>5, GiveUpFacts
<1>8. Listed(file, t)
  BY <1>7, ListedKept, ReadyParts
<1>9. Informed(t)
  BY <1>7, InformedKept, ReadyParts
<1>10. Recovering(file, t)
  <2>1. \A j \in Index : Intact(s, j) => Intact(t, j)
    BY <1>6, <1>7 DEF Intact, SameStore, OthersSame
  <2> QED
    BY <1>7, <2>1, RecoveringKept, ReadyParts DEF SameStore
<1>11. ASSUME NEW j \in Index PROVE Traced(t, j, t.pointers[j])
  <2>1. Traced(s, j, s.pointers[j])
    BY ReadyParts
  <2>2. CASE j = i
    <3>1. ~ (i >= s.total_pointers)
      BY <1>2 DEF Index, StateType
    <3>2. Traced(t, i, q)
      BY <1>4, <1>6, <1>7, <2>1, <2>2, <3>1 DEF Traced, Kept, SameReport
    <3> QED
      BY <2>2, <3>2, <1>7
  <2>3. CASE j # i
    BY <1>7, <2>1, <2>3 DEF Traced, Kept, SameStore, OthersSame
  <2> QED
    BY <2>2, <2>3
<1>12. Limited(t)
  BY <1>7, ReadyParts DEF Limited, SameStore, Kept
<1>13. AllRequeued(s, t)
  BY <1>4, <1>6, <1>7, ReadyParts DEF AllRequeued, Requeued, OthersSame
<1>14. i \in Missing(t)
  BY <1>2, <1>6, <1>7 DEF Missing, WithStatus, Allocated, Kept
<1> QED
  BY <1>1, <1>3, <1>7, <1>8, <1>9, <1>10, <1>11, <1>12, <1>13, <1>14
     DEF Ready, Placed, Kept

LEMMA RequestReplacementReady ==
  ASSUME NEW s, Ready(s), NEW i \in Allocated(s), ~ s.requesting_pointers,
         s.pointers[i].status = POINTER_ERROR_REPORTED
  PROVE  LET t == RequestReplacement(s, i)
         IN  Ready(t) /\ Kept(s, t) /\ AllRequeued(s, t) /\ t.requesting_pointers
<1>1. PICK t : t = RequestReplacement(s, i)
  OBVIOUS
<1>2. i \in Index /\ i < s.total_pointers /\ s \in StateType
  BY ReadyParts DEF Allocated
<1>3. Live(t)
  BY <1>1, <1>2, RequestReplacementLive DEF Ready
<1>4. PICK p \in PointerType : p = s.pointers[i]
  BY <1>2, ReadyParts
<1>5. PICK q : q = Marked(p, POINTER_BEING_REPLACED)
  OBVIOUS
<1>6. q.status = POINTER_BEING_REPLACED /\ SameReport(p, q)
  <2>1. PICK status \in -4..4 : status = POINTER_BEING_REPLACED
    OBVIOUS
  <2>2. q = Marked(p, status)
    BY <1>5, <2>1
  <2>3. q.status = status /\ SameReport(p, q)
    BY <2>2, MarkedPointer, MarkedReport
  <2> QED
    BY <2>1, <2>3
<1>7. /\ Kept(s, t) /\ SameStore(s, t)
      /\ t.work = s.work \cup {<<"replace", i>>}
      /\ t.requesting_pointers
      /\ t.pointers[i] = q
      /\ OthersSame(s, t, i)
  BY <1>1, <1>2, <1>4, <1>5, RequestReplacementFacts
<1>8. Listed(file, t)
  BY <1>7, ListedKept, ReadyParts
<1>9. Informed(t)
  BY <1>7, InformedKept, ReadyParts
<1>10. Recovering(file, t)
  <2>1. \A j \in Index : Intact(s, j) => Intact(t, j)
    BY <1>7 DEF Intact, SameStore, OthersSame
  <2> QED
    BY <1>7, <2>1, RecoveringKept, ReadyParts DEF SameStore
<1>11. ASSUME NEW j \in Index PROVE Traced(t, j, t.pointers[j])
  <2>1. Traced(s, j, s.pointers[j])
    BY ReadyParts
  <2>2. CASE j = i
    <3>1. ~ (i >= s.total_pointers)
      BY <1>2 DEF Index, StateType
    <3>2. <<"shard", i>> \notin t.work
      <4>1. Owns(s, i, s.pointers[i])
        BY <1>2, ReadyParts
      <4>2. <<"shard", i>> \notin s.work
        BY <4>1 DEF Owns
      <4> QED
        BY <4>2, <1>7
    <3>3. Traced(t, i, q)
      BY <1>4, <1>6, <1>7, <2>1, <2>2, <3>1, <3>2 DEF Traced, Kept, SameReport
    <3> QED
      BY <2>2, <3>3, <1>7
  <2>3. CASE j # i
    BY <1>7, <2>1, <2>3 DEF Traced, Kept, SameStore, OthersSame
  <2> QED
    BY <2>2, <2>3
<1>12. Limited(t)
  BY <1>7, ReadyParts DEF Limited, SameStore, Kept
<1>13. AllRequeued(s, t)
  BY <1>4, <1>6, <1>7, ReadyParts DEF AllRequeued, Requeued, OthersSame
<1> QED
  BY <1>1, <1>3, <1>7, <1>8, <1>9, <1>10, <1>11, <1>12, <1>13
     DEF Ready, Placed, Kept

(* A job about no particular pointer. *)
LEMMA OneMorePlaced ==
  ASSUME NEW s, Ready(s), NEW t, Kept(s, t), SameStore(s, t),
         t.pointers = s.pointers,
         NEW kind \in {"pointers", "info"},
         t.work = s.work \cup {<<kind, 0>>},
         kind = "pointers" => ~ s.pointers_completed,
         kind = "info" => ~ s.info
  PROVE  Placed(file, t) /\ AllRequeued(s, t)
<1>1. Listed(file, t)
  BY ListedKept, ReadyParts
<1>2. Informed(t)
  BY InformedKept, ReadyParts
<1>3. Recovering(file, t)
  <2>1. \A j \in Index : Intact(s, j) => Intact(t, j)
    BY DEF Intact, SameStore
  <2> QED
    BY <2>1, RecoveringKept, ReadyParts DEF SameStore
<1>4. ASSUME NEW j \in Index PROVE Traced(t, j, t.pointers[j])
  <2>1. Traced(s, j, s.pointers[j])
    BY ReadyParts
  <2> QED
    BY <2>1 DEF Traced, Kept, SameStore
<1>5. Limited(t)
  BY ReadyParts DEF Limited, SameStore, Kept
<1> QED
  BY <1>1, <1>2, <1>3, <1>4, <1>5 DEF Placed, AllRequeued, Requeued

(* What queue_request_pointers leaves: a request on the way, or a pointer  *)
(* given up, or nothing left to ask for.                                   *)
PointersServed(s) ==
  \/ s.requesting_pointers
  \/ Missing(s) # {}
  \/ s.pointers_completed /\ WithStatus(s, POINTER_ERROR_REPORTED) = {}

LEMMA queue_request_pointersReady ==
  ASSUME NEW s, Ready(s)
  PROVE  LET t == queue_request_pointers(s)
         IN  Ready(t) /\ Kept(s, t) /\ AllRequeued(s, t) /\ PointersServed(t)
<1>1. ~ s.canceled
  BY ReadyParts
<1>2. Kept(s, s) /\ AllRequeued(s, s)
  BY DEF Kept, AllRequeued, Requeued
<1>3. CASE s.requesting_pointers
  BY <1>2, <1>3 DEF queue_request_pointers, PointersServed
<1>4. CASE ~ s.requesting_pointers /\ NeedsAttention(s) # {}
  <2>1. PICK first \in NeedsAttention(s) : first = Min(NeedsAttention(s))
    <3>1. NeedsAttention(s) \in SUBSET Nat
      BY DEF NeedsAttention, Allocated, Index
    <3> QED
      BY <1>4, <3>1, MinMember
  <2>2. first \in Allocated(s)
    BY DEF NeedsAttention
  <2>3. CASE s.pointers[first].replace_count >= STORJ_DEFAULT_MIRRORS
    <3>1. queue_request_pointers(s) = GiveUp(s, first)
      BY <1>1, <1>4, <2>1, <2>3 DEF queue_request_pointers, ServeFirst
    <3> QED
      BY <1>4, <2>2, <3>1, GiveUpReady DEF PointersServed
  <2>4. CASE ~ (s.pointers[first].replace_count >= STORJ_DEFAULT_MIRRORS)
    <3>1. queue_request_pointers(s) = RequestReplacement(s, first)
      BY <1>1, <1>4, <2>1, <2>4 DEF queue_request_pointers, ServeFirst
    <3>2. s.pointers[first].status = POINTER_ERROR_REPORTED
      BY <2>4 DEF NeedsAttention
    <3> QED
      BY <1>4, <2>2, <3>1, <3>2, RequestReplacementReady DEF PointersServed
  <2> QED
    BY <2>3, <2>4
<1>5. CASE ~ s.requesting_pointers /\ NeedsAttention(s) = {} /\ s.pointers_completed
  <2>1. queue_request_pointers(s) = s
    BY <1>5 DEF queue_request_pointers
  <2>2. WithStatus(s, POINTER_ERROR_REPORTED) = {}
    BY <1>5 DEF WithStatus, NeedsAttention
  <2> QED
    BY <1>2, <1>5, <2>1, <2>2 DEF PointersServed
<1>6. CASE ~ s.requesting_pointers /\ NeedsAttention(s) = {} /\ ~ s.pointers_completed
  <2>1. PICK t : t = RequestNextPointers(s)
    OBVIOUS
  <2>2. queue_request_pointers(s) = t
    BY <1>1, <1>6, <2>1 DEF queue_request_pointers
  <2>3. /\ Kept(s, t) /\ SameStore(s, t)
        /\ t.work = s.work \cup {<<"pointers", 0>>}
        /\ t.requesting_pointers
        /\ t.pointers = s.pointers
    BY <2>1, ReadyParts, RequestNextPointersFacts
  <2>4. Live(t)
    BY <1>6, <2>1, RequestNextPointersLive DEF Ready
  <2>5. Placed(file, t) /\ AllRequeued(s, t)
    BY <1>6, <2>3, OneMorePlaced
  <2>6. t.completed_shards = 0
    BY <2>3 DEF Ready, Kept
  <2> QED
    BY <2>2, <2>3, <2>4, <2>5, <2>6 DEF Ready, PointersServed
<1> QED
  BY <1>3, <1>4, <1>5, <1>6

(* The pointers and the page requests are as they were. *)
SamePointers(s, t) ==
  /\ t.pointers = s.pointers
  /\ t.requesting_pointers = s.requesting_pointers
  /\ t.resolving_shards = s.resolving_shards

LEMMA queue_request_infoReady ==
  ASSUME NEW s, Ready(s)
  PROVE  LET t == queue_request_info(s)
         IN  /\ Ready(t) /\ Kept(s, t) /\ AllRequeued(s, t)
             /\ SamePointers(s, t)
             /\ t.info \/ <<"info", 0>> \in t.work
<1>1. ~ s.canceled
  BY ReadyParts
<1>2. CASE s.info \/ s.requesting_info
  <2>1. queue_request_info(s) = s
    BY <1>2 DEF queue_request_info
  <2>2. Kept(s, s) /\ AllRequeued(s, s) /\ SamePointers(s, s)
    BY DEF Kept, AllRequeued, Requeued, SamePointers
  <2>3. s.info \/ <<"info", 0>> \in s.work
    BY <1>2 DEF Ready, Live, Good, Flagged
  <2> QED
    BY <2>1, <2>2, <2>3
<1>3. CASE ~ (s.info \/ s.requesting_info)
  <2>1. PICK t : t = queue_request_info(s)
    OBVIOUS
  <2>2. /\ Kept(s, t) /\ SameStore(s, t)
        /\ t.work = s.work \cup {<<"info", 0>>}
        /\ t.requesting_pointers = s.requesting_pointers
        /\ t.pointers = s.pointers
    BY <1>1, <1>3, <2>1, ReadyParts, queue_request_infoFacts
  <2>3. Live(t)
    BY <2>1, queue_request_infoLive DEF Ready
  <2>4. Placed(file, t) /\ AllRequeued(s, t)
    BY <1>3, <2>2, OneMorePlaced
  <2>5. t.completed_shards = 0
    BY <2>2 DEF Ready, Kept
  <2>6. SamePointers(s, t)
    BY <2>2 DEF SamePointers, SameStore
  <2> QED
    BY <2>1, <2>2, <2>3, <2>4, <2>5, <2>6 DEF Ready
<1> QED
  BY <1>2, <1>3

-----------------------------------------------------------------------------
(* The slots: queue_request_shards starts downloads in index order until   *)
(* the slots are used up.                                                  *)

Before(S, i) == {j \in S : j < i}

(* A nonempty set of indices has a last member. *)
LEMMA LastMember ==
  ASSUME NEW S \in SUBSET Index, S # {}
  PROVE  \E x \in S : \A y \in S : y <= x
<1>1. MaxShards \in Nat /\ S \in SUBSET Nat /\ \A y \in S : y <= MaxShards
  BY DownloadAssumption DEF Index
<1>2. PICK T : T = {MaxShards - y : y \in S}
  OBVIOUS
<1>3. T \in SUBSET Nat /\ T # {}
  <2>1. ASSUME NEW y \in S PROVE MaxShards - y \in Nat
    <3>1. y \in Nat /\ y <= MaxShards
      BY <1>1
    <3> QED
      BY <1>1, <3>1
  <2> QED
    BY <1>2, <2>1
<1>4. PICK z \in T : \A u \in T : z <= u
  BY <1>3, LeastMember
<1>5. PICK x \in S : z = MaxShards - x
  BY <1>2
<1>6. ASSUME NEW y \in S PROVE y <= x
  <2>1. z <= MaxShards - y
    BY <1>2, <1>4
  <2>2. x \in Nat /\ y \in Nat
    BY <1>1
  <2> QED
    BY <1>1, <1>5, <2>1, <2>2
<1> QED
  BY <1>6

LEMMA IndexCount ==
  ASSUME NEW S \in SUBSET Index
  PROVE  /\ IsFiniteSet(S) /\ Cardinality(S) \in Nat
         /\ \A T \in SUBSET S : Cardinality(T) <= Cardinality(S)
  BY IndexFinite, FS_Subset, FS_CardinalityType

(* Of the indices S, those with fewer than k before them: all of them, or  *)
(* at least k of them, and never more than k.                              *)
LEMMA FirstOnes ==
  ASSUME NEW S \in SUBSET Index, NEW k \in Nat,
         NEW T, T = {i \in S : Cardinality(Before(S, i)) < k}
  PROVE  /\ Cardinality(T) <= k
         /\ T # S => Cardinality(T) >= k
<1>0. S \in SUBSET Nat
  BY DEF Index
<1>1. T \in SUBSET Index /\ T \subseteq S
  BY Zenon
<1>2. Cardinality(T) <= k
  <2>1. CASE T = {}
    BY <2>1, FS_EmptySet
  <2>2. CASE T # {}
    <3>1. PICK m \in T : \A y \in T : y <= m
      BY <1>1, <2>2, LastMember
    <3>2. T \ {m} \subseteq Before(S, m)
      <4>1. ASSUME NEW y \in T \ {m} PROVE y \in S /\ y < m
        <5>1. y <= m /\ y # m /\ y \in Nat /\ m \in Nat
          BY <1>0, <1>1, <3>1
        <5> QED
          BY <1>1, <5>1
      <4> QED
        BY <4>1 DEF Before
    <3>3. Before(S, m) \in SUBSET Index
      BY DEF Before
    <3>4. Cardinality(T \ {m}) <= Cardinality(Before(S, m))
      BY <3>2, <3>3, IndexCount
    <3>5. Cardinality(T \ {m}) = Cardinality(T) - 1
      BY <1>1, <3>1, IndexCount, FS_RemoveElement
    <3>6. Cardinality(Before(S, m)) < k
      BY <3>1
    <3>7. Cardinality(T) \in Nat /\ Cardinality(Before(S, m)) \in Nat
      BY <1>1, <3>3, IndexCount
    <3> QED
      BY <3>4, <3>5, <3>6, <3>7
  <2> QED
    BY <2>1, <2>2
<1>3. ASSUME T # S PROVE Cardinality(T) >= k
  <2>1. S \ T \in SUBSET Nat /\ S \ T # {}
    BY <1>0, <1>1, <1>3
  <2>2. PICK x \in S \ T : \A y \in S \ T : x <= y
    BY <2>1, LeastMember
  <2>3. Before(S, x) \subseteq T
    <3>1. ASSUME NEW y \in S, y < x, y \notin T PROVE FALSE
      <4>1. x <= y /\ x \in Nat /\ y \in Nat
        BY <1>0, <2>2, <3>1
      <4> QED
        BY <3>1, <4>1
    <3> QED
      BY <3>1 DEF Before
  <2>4. Cardinality(Before(S, x)) <= Cardinality(T)
    BY <1>1, <2>3, IndexCount
  <2>5. ~ (Cardinality(Before(S, x)) < k)
    BY <2>2
  <2>6. Before(S, x) \in SUBSET Index
    BY DEF Before
  <2>7. Cardinality(T) \in Nat /\ Cardinality(Before(S, x)) \in Nat
    BY <1>1, <2>6, IndexCount
  <2> QED
    BY <2>4, <2>5, <2>7
<1> QED
  BY <1>2, <1>3

(* The downloads started fill the slots, or leave no pointer waiting. *)
LEMMA ToDownloadFills ==
  ASSUME NEW s \in StateType, s.resolving_shards <= STORJ_DOWNLOAD_CONCURRENCY
  PROVE  /\ ToDownload(s) \in SUBSET WithStatus(s, POINTER_CREATED)
         /\ Cardinality(ToDownload(s)) \in Nat
         /\ s.resolving_shards + Cardinality(ToDownload(s))
              <= STORJ_DOWNLOAD_CONCURRENCY
         /\ ToDownload(s) # WithStatus(s, POINTER_CREATED) =>
              s.resolving_shards + Cardinality(ToDownload(s))
                >= STORJ_DOWNLOAD_CONCURRENCY
<1>1. PICK S \in SUBSET Index : S = WithStatus(s, POINTER_CREATED)
  BY DEF WithStatus, Allocated
<1>2. s.resolving_shards \in Int /\ STORJ_DOWNLOAD_CONCURRENCY \in Nat
  BY DownloadAssumption DEF StateType
<1>3. PICK k \in Nat : k = STORJ_DOWNLOAD_CONCURRENCY - s.resolving_shards
  BY <1>2
<1>4. PICK T : T = {i \in S : Cardinality(Before(S, i)) < k}
  OBVIOUS
<1>5. ToDownload(s) = T
  <2>1. ASSUME NEW i \in S
        PROVE  Cardinality({j \in S : j < i}) + s.resolving_shards
                  < STORJ_DOWNLOAD_CONCURRENCY
                 <=> Cardinality(Before(S, i)) < k
    <3>1. Before(S, i) = {j \in S : j < i}
      BY DEF Before
    <3>2. Before(S, i) \in SUBSET Index
      BY DEF Before
    <3>3. Cardinality(Before(S, i)) \in Nat
      BY <3>2, IndexCount
    <3> QED
      BY <1>2, <1>3, <3>1, <3>3
  <2>2. ToDownload(s) = {i \in S : Cardinality({j \in S : j < i}) + s.resolving_shards
                                     < STORJ_DOWNLOAD_CONCURRENCY}
    BY <1>1 DEF ToDownload
  <2> QED
    BY <1>4, <2>1, <2>2
<1>6. Cardinality(T) <= k /\ (T # S => Cardinality(T) >= k)
  BY <1>4, FirstOnes
<1>7. T \in SUBSET S /\ Cardinality(T) \in Nat
  BY <1>1, <1>4, IndexCount
<1> QED
  BY <1>1, <1>2, <1>3, <1>5, <1>6, <1>7

SlotsServed(s) ==
  \A i \in Allocated(s) : s.pointers[i].status = POINTER_CREATED =>
     s.resolving_shards >= STORJ_DOWNLOAD_CONCURRENCY

(* Only created pointers moved. *)
OnlyCreated(s, t) ==
  \A i \in Index :
    \/ t.pointers[i].status = s.pointers[i].status
    \/ s.pointers[i].status = POINTER_CREATED
       /\ t.pointers[i].status = POINTER_BEING_DOWNLOADED

LEMMA queue_request_shardsReady ==
  ASSUME NEW s, Ready(s)
  PROVE  LET t == queue_request_shards(s)
         IN  /\ Ready(t) /\ Kept(s, t) /\ OnlyCreated(s, t)
             /\ s.work \subseteq t.work
             /\ t.requesting_pointers = s.requesting_pointers
             /\ SlotsServed(t)
<1>1. s \in StateType /\ ~ s.canceled
  BY ReadyParts
<1>2. PICK starting : starting = ToDownload(s)
  OBVIOUS
<1>3. PICK t : t = StartDownloads(s, starting)
  OBVIOUS
<1>4. queue_request_shards(s) = t
  BY <1>1, <1>2, <1>3 DEF queue_request_shards
<1>5. /\ starting \in SUBSET WithStatus(s, POINTER_CREATED)
      /\ Cardinality(starting) \in Nat
      /\ s.resolving_shards + Cardinality(starting) <= STORJ_DOWNLOAD_CONCURRENCY
      /\ starting # WithStatus(s, POINTER_CREATED) =>
           s.resolving_shards + Cardinality(starting) >= STORJ_DOWNLOAD_CONCURRENCY
  <2>1. s.resolving_shards <= STORJ_DOWNLOAD_CONCURRENCY
    BY ReadyParts DEF Limited
  <2> QED
    BY <1>1, <1>2, <2>1, ToDownloadFills
<1>6. starting \in SUBSET Index
  BY <1>5 DEF WithStatus, Allocated
<1>7. Live(t)
  BY <1>3, <1>5, StartDownloadsLive DEF Ready
<1>8. /\ Kept(s, t)
      /\ t.zilch = s.zilch
      /\ t.fetched = s.fetched \ starting
      /\ t.resolving_shards = s.resolving_shards + Cardinality(starting)
      /\ t.work = s.work \cup ({"shard"} \X starting)
      /\ t.requesting_pointers = s.requesting_pointers
      /\ \A i \in Index :
           t.pointers[i] = IF i \in starting
                           THEN Marked(s.pointers[i], POINTER_BEING_DOWNLOADED)
                           ELSE s.pointers[i]
  BY <1>1, <1>3, <1>6, StartDownloadsFacts
<1>9. ASSUME NEW i \in starting
      PROVE  /\ i \in Index /\ i < s.total_pointers /\ ~ (i >= s.total_pointers)
             /\ s.pointers[i].status = POINTER_CREATED
             /\ t.pointers[i].status = POINTER_BEING_DOWNLOADED
             /\ SameReport(s.pointers[i], t.pointers[i])
  <2>1. i \in Index /\ i < s.total_pointers /\ s.pointers[i].status = POINTER_CREATED
    BY <1>5 DEF WithStatus, Allocated
  <2>2. ~ (i >= s.total_pointers)
    BY <1>1, <2>1 DEF Index, StateType
  <2>3. s.pointers[i] \in PointerType
    BY <2>1, ReadyParts
  <2>4. PICK status \in -4..4 : status = POINTER_BEING_DOWNLOADED
    OBVIOUS
  <2>5. t.pointers[i] = Marked(s.pointers[i], status)
    BY <1>8, <2>1, <2>4
  <2>6. t.pointers[i].status = status /\ SameReport(s.pointers[i], t.pointers[i])
    BY <2>3, <2>5, MarkedPointer, MarkedReport
  <2> QED
    BY <2>1, <2>2, <2>4, <2>6
<1>10. \A i \in Index : i \notin starting => t.pointers[i] = s.pointers[i]
  BY <1>8
<1>11. Listed(file, t)
  BY <1>8, ListedKept, ReadyParts
<1>12. Informed(t)
  BY <1>8, InformedKept, ReadyParts
<1>13. Recovering(file, t)
  <2>1. ASSUME NEW j \in Index, Intact(s, j) PROVE Intact(t, j)
    <3>1. j \notin starting
      BY <1>9, <2>1 DEF Intact
    <3> QED
      BY <1>8, <1>10, <2>1, <3>1 DEF Intact
  <2> QED
    BY <1>8, <2>1, RecoveringKept, ReadyParts
<1>14. ASSUME NEW j \in Index PROVE Traced(t, j, t.pointers[j])
  <2>1. Traced(s, j, s.pointers[j])
    BY ReadyParts
  <2>2. CASE j \in starting
    BY <1>8, <1>9, <2>1, <2>2 DEF Traced, Kept, SameReport
  <2>3. CASE j \notin starting
    BY <1>8, <1>10, <2>1, <2>3 DEF Traced, Kept
  <2> QED
    BY <2>2, <2>3
<1>15. Limited(t)
  BY <1>5, <1>8, ReadyParts DEF Limited, Kept
<1>16. OnlyCreated(s, t)
  BY <1>9, <1>10 DEF OnlyCreated
<1>17. SlotsServed(t)
  <2>1. SUFFICES ASSUME NEW i \in Allocated(t),
                        t.pointers[i].status = POINTER_CREATED
                 PROVE  t.resolving_shards >= STORJ_DOWNLOAD_CONCURRENCY
    BY DEF SlotsServed
  <2>2. i \in Index /\ i \in Allocated(s)
    BY <1>8, KeptAllocated DEF Allocated
  <2>3. i \notin starting
    BY <1>9, <2>1
  <2>4. i \in WithStatus(s, POINTER_CREATED)
    BY <1>10, <2>1, <2>2, <2>3 DEF WithStatus
  <2> QED
    BY <1>5, <1>8, <2>3, <2>4
<1> QED
  BY <1>4, <1>7, <1>8, <1>11, <1>12, <1>13, <1>14, <1>15, <1>16, <1>17
     DEF Ready, Placed, Kept

-----------------------------------------------------------------------------
(* Recovery and the reports.                                               *)

(* No more parity pointers are listed than the file has. *)
LEMMA ParityBound ==
  ASSUME file \in Files, NEW s \in StateType, Listed(file, s)
  PROVE  s.total_parity_pointers <= file.parity
<1>1. file.shards \in Nat /\ file.parity \in Nat /\ file.parity <= file.shards
  BY DownloadAssumption DEF FileType
<1>2. PICK low \in Nat : low = file.shards - file.parity
  BY <1>1
<1>3. PICK high \in Int : high = file.shards - 1
  BY <1>1
<1>4. /\ IsFiniteSet(low..high)
      /\ Cardinality(low..high) = IF low > high THEN 0 ELSE high - low + 1
  BY FS_Interval
<1>5. Cardinality(low..high) = file.parity
  BY <1>1, <1>2, <1>3, <1>4
<1>6. ParityAmong(file, Allocated(s)) \subseteq low..high
  <2>1. ASSUME NEW i \in ParityAmong(file, Allocated(s)) PROVE i \in low..high
    <3>1. i \in Index /\ i < s.total_pointers /\ i >= low
      BY <1>2 DEF ParityAmong, Allocated
    <3>2. s.total_pointers \in Nat /\ s.total_pointers <= file.shards
      BY DownloadAssumption DEF StateType, Listed
    <3>3. i \in Int
      BY <3>1 DEF Index
    <3> QED
      BY <1>1, <1>3, <3>1, <3>2, <3>3
  <2> QED
    BY <2>1
<1>7. Cardinality(ParityAmong(file, Allocated(s))) <= Cardinality(low..high)
  BY <1>4, <1>6, FS_Subset
<1> QED
  BY <1>5, <1>7 DEF Listed

(* The shards were all downloaded, and the file can be recovered. *)
RecoveryServed(s) ==
  /\ s.pointers_completed
  /\ Allocated(s) = Missing(s) \cup WithStatus(s, POINTER_DOWNLOADED)
  => <<"recover", 0>> \in s.work

LEMMA RecoveryPlaced ==
  ASSUME file \in Files, NEW s, Ready(s), s.info, ~ Unrecoverable(s),
         RecoveryDue(s),
         NEW t, Kept(s, t),
         t.zilch = Missing(s), t.fetched = s.fetched, SamePointers(s, t),
         t.work = s.work \cup {<<"recover", 0>>}
  PROVE  Placed(file, t)
<1>1. s \in StateType /\ s.error_status = "OK" /\ s.completed_shards = 0
  BY ReadyParts DEF Ready
<1>2. Listed(file, t)
  BY ListedKept, ReadyParts
<1>3. Informed(t)
  BY <1>1, InformedKept, ReadyParts DEF RecoveryDue
<1>4. Recovering(file, t)
  <2>1. Cardinality(Missing(s)) \in Nat
    <3>1. Missing(s) \in SUBSET Index
      BY DEF Missing, WithStatus, Allocated
    <3> QED
      BY <3>1, IndexCount
  <2>2. s.rs \in BOOLEAN /\ s.total_parity_pointers \in Nat /\ file.parity \in Int
    BY <1>1, DownloadAssumption DEF StateType, FileType
  <2>3. s.total_parity_pointers <= file.parity
    BY <1>1, ReadyParts, ParityBound
  <2>4. Cardinality(t.zilch) <= IF t.rs THEN file.parity ELSE 0
    <3>1. CASE s.rs
      <4>1. Cardinality(Missing(s)) <= s.total_parity_pointers
        BY <2>1, <2>2, <3>1 DEF Unrecoverable, RecoveryDue
      <4>2. Cardinality(t.zilch) <= file.parity
        BY <2>1, <2>2, <2>3, <4>1
      <4> QED
        BY <3>1, <4>2 DEF Kept
    <3>2. CASE ~ s.rs
      <4>1. Missing(s) = {}
        BY <3>2 DEF Unrecoverable
      <4>2. Cardinality(t.zilch) <= 0
        BY <4>1, FS_EmptySet
      <4> QED
        BY <3>2, <4>2 DEF Kept
    <3> QED
      BY <2>2, <3>1, <3>2
  <2>5. ASSUME NEW i \in Allocated(t) \ t.zilch PROVE Intact(t, i)
    <3>1. Allocated(t) = Allocated(s)
      BY KeptAllocated
    <3>2. i \in WithStatus(s, POINTER_DOWNLOADED) /\ i \in Index
      BY <2>5, <3>1 DEF RecoveryDue, Allocated
    <3>3. s.pointers[i].status = POINTER_DOWNLOADED
      BY <3>2 DEF WithStatus
    <3>4. Traced(s, i, s.pointers[i]) /\ Owns(s, i, s.pointers[i])
      BY <3>2, ReadyParts
    <3>5. i \in s.fetched
      BY <1>1, <3>3, <3>4 DEF Traced
    <3>6. <<"shard", i>> \notin s.work
      BY <3>3, <3>4 DEF Owns
    <3>7. t.pointers[i].status = POINTER_DOWNLOADED
      BY <3>3 DEF SamePointers
    <3>8. i \in t.fetched /\ <<"shard", i>> \notin t.work
      BY <3>5, <3>6
    <3> QED
      BY <3>7, <3>8 DEF Intact
  <2> QED
    BY <2>4, <2>5 DEF Recovering
<1>5. ASSUME NEW j \in Index PROVE Traced(t, j, t.pointers[j])
  <2>1. Traced(s, j, s.pointers[j])
    BY ReadyParts
  <2> QED
    BY <2>1 DEF Traced, Kept, SamePointers
<1>6. Limited(t)
  BY ReadyParts DEF Limited, SamePointers, Kept
<1> QED
  BY <1>2, <1>3, <1>4, <1>5, <1>6 DEF Placed

LEMMA queue_recover_shardsReady ==
  ASSUME file \in Files, NEW s, Ready(s), s.info, ~ Unrecoverable(s)
  PROVE  LET t == queue_recover_shards(s)
         IN  /\ Ready(t) /\ Kept(s, t) /\ SamePointers(s, t)
             /\ s.work \subseteq t.work
             /\ RecoveryServed(t)
<1>1. CASE ~ RecoveryDue(s)
  <2>1. queue_recover_shards(s) = s
    BY <1>1 DEF queue_recover_shards, RecoveryDue
  <2>2. Kept(s, s) /\ SamePointers(s, s)
    BY DEF Kept, SamePointers
  <2>3. <<"recover", 0>> \in s.work <=> s.recovering_shards
    BY DEF Ready, Live, Good, Flagged
  <2>4. RecoveryServed(s)
    BY <1>1, <2>3 DEF RecoveryServed, RecoveryDue
  <2> QED
    BY <2>1, <2>2, <2>4
<1>2. CASE RecoveryDue(s)
  <2>1. PICK t : t = queue_recover_shards(s)
    OBVIOUS
  <2>2. /\ Kept(s, t)
        /\ t.zilch = Missing(s)
        /\ t.fetched = s.fetched
        /\ t.resolving_shards = s.resolving_shards
        /\ t.work = s.work \cup {<<"recover", 0>>}
        /\ t.requesting_pointers = s.requesting_pointers
        /\ t.pointers = s.pointers
    BY <1>2, <2>1, ReadyParts, queue_recover_shardsFacts
  <2>3. SamePointers(s, t)
    BY <2>2 DEF SamePointers
  <2>4. Placed(file, t)
    BY <1>2, <2>2, <2>3, RecoveryPlaced
  <2>5. Live(t)
    BY <2>1, queue_recover_shardsLive DEF Ready
  <2>6. t.completed_shards = 0
    BY <2>2 DEF Ready, Kept
  <2>7. RecoveryServed(t)
    BY <2>2 DEF RecoveryServed
  <2> QED
    BY <2>1, <2>2, <2>3, <2>4, <2>5, <2>6, <2>7 DEF Ready
<1> QED
  BY <1>1, <1>2

(* The statuses and the slots are as they were. *)
SameStatuses(s, t) ==
  /\ \A i \in Index : t.pointers[i].status = s.pointers[i].status
  /\ t.requesting_pointers = s.requesting_pointers
  /\ t.resolving_shards = s.resolving_shards

(* An error that no report was accepted for has its report on the way. *)
ReportsServed(s) ==
  \A i \in Allocated(s) :
    s.pointers[i].status = POINTER_ERROR => <<"report", i>> \in s.work

LEMMA queue_send_exchange_reportsReady ==
  ASSUME NEW s, Ready(s)
  PROVE  LET t == queue_send_exchange_reports(s)
         IN  /\ Ready(t) /\ Kept(s, t) /\ SameStatuses(s, t)
             /\ s.work \subseteq t.work
             /\ t.work \subseteq s.work \cup ({"report"} \X Index)
             /\ ReportsServed(t)
<1>1. s \in StateType /\ ~ s.canceled
  BY ReadyParts
<1>2. PICK sending \in SUBSET Index : sending = ToReport(s)
  BY DEF ToReport, Allocated
<1>3. PICK t : t = StartReports(s, sending)
  OBVIOUS
<1>4. queue_send_exchange_reports(s) = t
  BY <1>1, <1>2, <1>3 DEF queue_send_exchange_reports
<1>5. Live(t)
  BY <1>2, <1>3, StartReportsLive DEF Ready
<1>6. /\ Kept(s, t) /\ SameStore(s, t)
      /\ t.work = s.work \cup ({"report"} \X sending)
      /\ t.requesting_pointers = s.requesting_pointers
      /\ \A i \in Index :
           t.pointers[i] = IF i \in sending THEN Reporting(s.pointers[i])
                                            ELSE s.pointers[i]
  BY <1>1, <1>3, StartReportsFacts
<1>7. ASSUME NEW i \in sending
      PROVE  /\ i < s.total_pointers /\ ~ (i >= s.total_pointers)
             /\ s.pointers[i].timed
             /\ t.pointers[i].status = s.pointers[i].status
             /\ t.pointers[i].send_status = 1
             /\ t.pointers[i].timed = s.pointers[i].timed
  <2>1. i \in Index /\ i < s.total_pointers /\ s.pointers[i].timed
    BY <1>2 DEF ToReport, Allocated
  <2>2. ~ (i >= s.total_pointers)
    BY <1>1, <2>1 DEF Index, StateType
  <2>3. s.pointers[i] \in PointerType
    BY <2>1, ReadyParts
  <2>4. t.pointers[i] = Reporting(s.pointers[i])
    BY <1>6
  <2>5. /\ t.pointers[i].status = s.pointers[i].status
        /\ t.pointers[i].send_status = 1
        /\ t.pointers[i].timed = s.pointers[i].timed
    BY <2>3, <2>4, ReportingPointer, ReportingReport
  <2> QED
    BY <2>1, <2>2, <2>5
<1>8. \A i \in Index : i \notin sending => t.pointers[i] = s.pointers[i]
  BY <1>6
<1>9. SameStatuses(s, t)
  BY <1>6, <1>7, <1>8 DEF SameStatuses, SameStore
<1>10. Listed(file, t)
  BY <1>6, ListedKept, ReadyParts
<1>11. Informed(t)
  BY <1>6, InformedKept, ReadyParts
<1>12. Recovering(file, t)
  <2>1. \A j \in Index : Intact(s, j) => Intact(t, j)
    BY <1>6, <1>9 DEF Intact, SameStore, SameStatuses
  <2> QED
    BY <1>6, <2>1, RecoveringKept, ReadyParts DEF SameStore
<1>13. ASSUME NEW j \in Index PROVE Traced(t, j, t.pointers[j])
  <2>1. Traced(s, j, s.pointers[j])
    BY ReadyParts
  <2>2. CASE j \in sending
    BY <1>6, <1>7, <2>1, <2>2 DEF Traced, Kept, SameStore
  <2>3. CASE j \notin sending
    BY <1>6, <1>8, <2>1, <2>3 DEF Traced, Kept, SameStore
  <2> QED
    BY <2>2, <2>3
<1>14. Limited(t)
  BY <1>6, ReadyParts DEF Limited, SameStore, Kept
<1>15. ReportsServed(t)
  <2>1. SUFFICES ASSUME NEW i \in Allocated(t),
                        t.pointers[i].status = POINTER_ERROR
                 PROVE  <<"report", i>> \in t.work
    BY DEF ReportsServed
  <2>2. i \in Index /\ i \in Allocated(s)
    BY <1>6, KeptAllocated DEF Allocated
  <2>3. CASE i \in sending
    BY <1>6, <2>3
  <2>4. CASE i \notin sending
    <3>1. /\ s.pointers[i].status = POINTER_ERROR
          /\ Traced(s, i, s.pointers[i])
          /\ s.pointers[i] \in PointerType
      BY <1>8, <2>1, <2>2, <2>4, ReadyParts
    <3>2. /\ s.pointers[i].timed
          /\ \/ s.pointers[i].send_status = 1
             \/ /\ s.pointers[i].send_status < 1
                /\ s.pointers[i].send_count < STORJ_MAX_REPORT_TRIES
      BY <3>1 DEF Traced
    <3>3. s.pointers[i].send_status = 1
      BY <1>2, <2>2, <2>4, <3>2 DEF ToReport
    <3>4. <<"report", i>> \in s.work
      BY <3>1, <3>3 DEF Traced
    <3> QED
      BY <1>6, <3>4
  <2> QED
    BY <2>3, <2>4
<1>16. t.work \subseteq s.work \cup ({"report"} \X Index) /\ s.work \subseteq t.work
  BY <1>6
<1> QED
  BY <1>4, <1>5, <1>6, <1>9, <1>10, <1>11, <1>12, <1>13, <1>14, <1>15, <1>16
     DEF Ready, Placed, Kept

-----------------------------------------------------------------------------
(* What queue_next_work establishes.                                       *)

LEMMA PointersServedKept ==
  ASSUME NEW s, NEW t, Kept(s, t), PointersServed(s),
         t.requesting_pointers = s.requesting_pointers,
         \A i \in Index : \/ t.pointers[i].status = s.pointers[i].status
                          \/ /\ s.pointers[i].status = POINTER_CREATED
                             /\ t.pointers[i].status = POINTER_BEING_DOWNLOADED
  PROVE  PointersServed(t)
<1>1. Allocated(t) = Allocated(s) /\ Allocated(s) \subseteq Index
  BY KeptAllocated DEF Allocated
<1>2. ASSUME NEW i \in Index
      PROVE  /\ t.pointers[i].status = POINTER_MISSING
                  <=> s.pointers[i].status = POINTER_MISSING
             /\ t.pointers[i].status = POINTER_ERROR_REPORTED
                  <=> s.pointers[i].status = POINTER_ERROR_REPORTED
  OBVIOUS
<1>3. Missing(t) = Missing(s)
  BY <1>1, <1>2 DEF Missing, WithStatus
<1>4. WithStatus(t, POINTER_ERROR_REPORTED) = WithStatus(s, POINTER_ERROR_REPORTED)
  BY <1>1, <1>2 DEF WithStatus
<1> QED
  BY <1>3, <1>4 DEF PointersServed, Kept

LEMMA KeptTransitive ==
  ASSUME NEW r, NEW s, NEW t, Kept(r, s), Kept(s, t)
  PROVE  Kept(r, t)
  BY DEF Kept

LEMMA QueueRequestsReady ==
  ASSUME NEW s, Ready(s)
  PROVE  LET t == QueueRequests(s)
         IN  /\ Ready(t) /\ Kept(s, t) /\ AllRequeued(s, t)
             /\ PointersServed(t)
             /\ t.info \/ <<"info", 0>> \in t.work
             /\ t.info => SlotsServed(t)
<1>1. PICK a : a = queue_request_pointers(s)
  OBVIOUS
<1>2. Ready(a) /\ Kept(s, a) /\ AllRequeued(s, a) /\ PointersServed(a)
  BY <1>1, queue_request_pointersReady
<1>3. PICK b : b = queue_request_info(a)
  OBVIOUS
<1>4. /\ Ready(b) /\ Kept(a, b) /\ AllRequeued(a, b)
      /\ SamePointers(a, b)
      /\ b.info \/ <<"info", 0>> \in b.work
  BY <1>2, <1>3, queue_request_infoReady
<1>5. Kept(s, b)
  BY <1>2, <1>4, KeptTransitive
<1>6. AllRequeued(s, b)
  BY <1>2, <1>4 DEF AllRequeued, SamePointers
<1>7. PointersServed(b)
  BY <1>2, <1>4, PointersServedKept DEF SamePointers
<1>8. CASE ~ b.info
  <2>1. QueueRequests(s) = b
    BY <1>1, <1>3, <1>8 DEF QueueRequests
  <2> QED
    BY <1>4, <1>5, <1>6, <1>7, <1>8, <2>1
<1>9. CASE b.info
  <2>1. PICK c : c = queue_request_shards(b)
    OBVIOUS
  <2>2. QueueRequests(s) = c
    BY <1>1, <1>3, <1>9, <2>1 DEF QueueRequests
  <2>3. /\ Ready(c) /\ Kept(b, c) /\ OnlyCreated(b, c)
        /\ b.work \subseteq c.work
        /\ c.requesting_pointers = b.requesting_pointers
        /\ SlotsServed(c)
    BY <1>4, <2>1, queue_request_shardsReady
  <2>4. Kept(s, c)
    BY <1>5, <2>3, KeptTransitive
  <2>5. AllRequeued(s, c)
    BY <1>6, <2>3 DEF AllRequeued, OnlyCreated, Requeued
  <2>6. PointersServed(c)
    BY <1>7, <2>3, PointersServedKept DEF OnlyCreated
  <2>7. c.info
    BY <1>9, <2>3 DEF Kept
  <2> QED
    BY <2>2, <2>3, <2>4, <2>5, <2>6, <2>7
<1> QED
  BY <1>8, <1>9

(* With nothing outstanding after a full pass, a pointer was given up. *)
LEMMA IdleStalls ==
  ASSUME NEW t, Ready(t), t.info, ~ Unrecoverable(t),
         PointersServed(t), SlotsServed(t), ReportsServed(t), RecoveryServed(t),
         t.work = {}
  PROVE  Stalled(t)
<1>1. /\ t \in StateType /\ t.error_status = "OK"
      /\ t.resolving_shards = 0 /\ ~ t.requesting_pointers
      /\ ~ (t.resolving_shards >= STORJ_DOWNLOAD_CONCURRENCY)
  <2>1. Counted(t) /\ Flagged(t)
    BY DEF Ready, Live, Good
  <2>2. JobsOf(t, {"shard"}) = {} /\ JobsOf(t, {"pointers", "replace"}) = {}
    BY DEF JobsOf
  <2>3. t.resolving_shards = 0
    BY <2>1, <2>2, FS_EmptySet DEF Counted
  <2>4. ~ t.requesting_pointers
    BY <2>1, <2>2 DEF Flagged
  <2> QED
    BY <2>3, <2>4, ReadyParts, DownloadAssumption
<1>2. ASSUME NEW i \in Allocated(t)
      PROVE  t.pointers[i].status \in {POINTER_MISSING, POINTER_DOWNLOADED,
                                       POINTER_ERROR_REPORTED}
  <2>1. i \in Index /\ i < t.total_pointers /\ ~ (i >= t.total_pointers)
    BY <1>1 DEF Allocated, Index, StateType
  <2>2. /\ Traced(t, i, t.pointers[i])
        /\ t.pointers[i] \in PointerType
        /\ t.pointers[i].status # POINTER_FINISHED
    BY <2>1, ReadyParts
  <2>3. t.pointers[i].status \in -4..4
    BY <2>2 DEF PointerType
  <2>4. t.pointers[i].status # POINTER_CREATED
    BY <1>1 DEF SlotsServed
  <2>5. t.pointers[i].status # POINTER_ERROR
    BY DEF ReportsServed
  <2>6. /\ t.pointers[i].status # POINTER_UNINITIALIZED
        /\ t.pointers[i].status # POINTER_BEING_DOWNLOADED
        /\ t.pointers[i].status # POINTER_BEING_REPLACED
    BY <1>1, <2>1, <2>2 DEF Traced
  <2> QED
    BY <2>2, <2>3, <2>4, <2>5, <2>6
<1>3. ~ t.pointers_completed \/ WithStatus(t, POINTER_ERROR_REPORTED) # {}
  <2>1. SUFFICES ASSUME t.pointers_completed, WithStatus(t, POINTER_ERROR_REPORTED) = {}
                 PROVE  FALSE
    OBVIOUS
  <2>2. Allocated(t) = Missing(t) \cup WithStatus(t, POINTER_DOWNLOADED)
    BY <1>2, <2>1 DEF Missing, WithStatus
  <2> QED
    BY <2>1, <2>2 DEF RecoveryServed
<1>4. Missing(t) # {}
  BY <1>1, <1>3 DEF PointersServed
<1>5. t.rs
  BY <1>4 DEF Unrecoverable
<1> QED
  BY <1>1, <1>3, <1>4, <1>5 DEF Stalled

(* Statuses decide what Missing and the like say. *)
LEMMA StatusesKept ==
  ASSUME NEW s, NEW t, Kept(s, t), SameStatuses(s, t)
  PROVE  /\ PointersServed(s) => PointersServed(t)
         /\ SlotsServed(s) => SlotsServed(t)
         /\ Unrecoverable(t) <=> Unrecoverable(s)
         /\ \A status : WithStatus(t, status) = WithStatus(s, status)
<1>1. Allocated(t) = Allocated(s) /\ Allocated(s) \subseteq Index
  BY KeptAllocated DEF Allocated
<1>2. PointersServed(s) => PointersServed(t)
  BY PointersServedKept DEF SameStatuses
<1>3. SlotsServed(s) => SlotsServed(t)
  BY <1>1 DEF SlotsServed, SameStatuses
<1>4. ASSUME NEW status PROVE WithStatus(t, status) = WithStatus(s, status)
  BY <1>1 DEF WithStatus, SameStatuses
<1>5. Unrecoverable(t) <=> Unrecoverable(s)
  BY <1>4 DEF Unrecoverable, Missing, Kept
<1> QED
  BY <1>2, <1>3, <1>4, <1>5

LEMMA QueueRecoveryAndReportsFlows ==
  ASSUME file \in Files, NEW s, Ready(s), ~ (s.info /\ Unrecoverable(s)),
         PointersServed(s),
         s.info \/ <<"info", 0>> \in s.work,
         s.info => SlotsServed(s)
  PROVE  LET t == QueueRecoveryAndReports(s)
         IN  Flow(file, t) /\ SameStatuses(s, t)
<1>1. PICK r : r = IF s.info THEN queue_recover_shards(s) ELSE s
  OBVIOUS
<1>2. /\ Ready(r) /\ Kept(s, r) /\ SameStatuses(s, r)
      /\ s.work \subseteq r.work
      /\ s.info => RecoveryServed(r)
  <2>1. CASE s.info
    <3>1. /\ Ready(r) /\ Kept(s, r) /\ SamePointers(s, r)
          /\ s.work \subseteq r.work
          /\ RecoveryServed(r)
      BY <1>1, <2>1, queue_recover_shardsReady
    <3> QED
      BY <3>1 DEF SamePointers, SameStatuses
  <2>2. CASE ~ s.info
    BY <1>1, <2>2 DEF Kept, SameStatuses
  <2> QED
    BY <2>1, <2>2
<1>3. PICK t : t = queue_send_exchange_reports(r)
  OBVIOUS
<1>4. /\ Ready(t) /\ Kept(r, t) /\ SameStatuses(r, t)
      /\ r.work \subseteq t.work
      /\ t.work \subseteq r.work \cup ({"report"} \X Index)
      /\ ReportsServed(t)
  BY <1>2, <1>3, queue_send_exchange_reportsReady
<1>5. t = QueueRecoveryAndReports(s)
  BY <1>1, <1>3 DEF QueueRecoveryAndReports
<1>6. Kept(s, t) /\ SameStatuses(s, t) /\ s.work \subseteq t.work
  <2>1. Kept(s, t)
    BY <1>2, <1>4, KeptTransitive
  <2>2. SameStatuses(s, t)
    BY <1>2, <1>4 DEF SameStatuses
  <2> QED
    BY <1>2, <1>4, <2>1, <2>2
<1>7. /\ PointersServed(t)
      /\ s.info => SlotsServed(t)
      /\ Unrecoverable(t) <=> Unrecoverable(s)
  BY <1>6, StatusesKept
<1>8. t.info = s.info
  BY <1>6 DEF Kept
<1>9. s.info => RecoveryServed(t)
  <2>1. WithStatus(t, POINTER_MISSING) = WithStatus(r, POINTER_MISSING)
        /\ WithStatus(t, POINTER_DOWNLOADED) = WithStatus(r, POINTER_DOWNLOADED)
    BY <1>4, StatusesKept
  <2>2. Allocated(t) = Allocated(r) /\ t.pointers_completed = r.pointers_completed
    BY <1>4, KeptAllocated DEF Kept
  <2> QED
    BY <1>2, <1>4, <2>1, <2>2 DEF RecoveryServed, Missing
<1>10. Served(t)
  <2>1. ASSUME NEW i \in Allocated(t) PROVE Waits(t, i)
    <3>1. t.pointers[i].status = POINTER_CREATED =>
            \/ <<"info", 0>> \in t.work
            \/ t.resolving_shards >= STORJ_DOWNLOAD_CONCURRENCY
      BY <1>6, <1>7 DEF SlotsServed
    <3>2. t.pointers[i].status = POINTER_ERROR => <<"report", i>> \in t.work
      BY <1>4 DEF ReportsServed
    <3>3. t.pointers[i].status = POINTER_ERROR_REPORTED =>
            t.requesting_pointers \/ Missing(t) # {}
      BY <1>7 DEF PointersServed, WithStatus
    <3> QED
      BY <3>1, <3>2, <3>3 DEF Waits
  <2> QED
    BY <2>1 DEF Served
<1>11. Ended(file, t)
  <2>1. t.callbacks = << >>
    BY <1>4 DEF Ready, Live, Good, Closed
  <2>2. t.callbacks # <<"OK">>
    BY <2>1
  <2>3. ASSUME t.work = {} PROVE Stalled(t)
    <3>1. s.info
      BY <1>6, <2>3
    <3> QED
      BY <1>4, <1>7, <1>8, <1>9, <2>3, <3>1, IdleStalls
  <2> QED
    BY <2>2, <2>3 DEF Ended
<1> QED
  BY <1>4, <1>5, <1>6, <1>10, <1>11 DEF Flow, Ready

(* An error or a cancel: what is placed where stays as it is. *)
Recolored(s, t) ==
  /\ SameStore(s, t)
  /\ t.info = s.info
  /\ t.completed_shards = s.completed_shards
  /\ t.total_pointers = s.total_pointers
  /\ t.total_parity_pointers = s.total_parity_pointers
  /\ t.rs = s.rs
  /\ t.truncated = s.truncated
  /\ t.pointers_completed = s.pointers_completed
  /\ t.error_status = "OK" => s.error_status = "OK"
  /\ t.canceled \/ (t.canceled = s.canceled /\ t.dequeued = s.dequeued)
  /\ t.work = s.work
  /\ t.pointers = s.pointers

LEMMA RecoloredPlaced ==
  ASSUME NEW s, Placed(file, s), NEW t, Recolored(s, t)
  PROVE  Placed(file, t) /\ AllRequeued(s, t) /\ (AllRecovered(t) <=> AllRecovered(s))
<1>1. Allocated(t) = Allocated(s)
  BY DEF Recolored, Allocated
<1>2. AllRecovered(t) <=> AllRecovered(s)
  BY DEF Recolored, AllRecovered
<1>3. Listed(file, t)
  BY <1>1 DEF Placed, Listed, Recolored
<1>4. Informed(t)
  BY <1>2 DEF Placed, Informed, Recolored
<1>5. Recovering(file, t)
  BY <1>1 DEF Placed, Recovering, Recolored, Intact, SameStore
<1>6. ASSUME NEW j \in Index PROVE Traced(t, j, t.pointers[j])
  <2>1. Traced(s, j, s.pointers[j])
    BY DEF Placed
  <2> QED
    BY <2>1 DEF Traced, Recolored, SameStore
<1>7. Limited(t)
  BY DEF Placed, Limited, Recolored, SameStore
<1> QED
  BY <1>2, <1>3, <1>4, <1>5, <1>6, <1>7
     DEF Placed, AllRequeued, Requeued, Recolored

LEMMA FinishRecolored ==
  ASSUME NEW s \in StateType, NEW status, status = "OK" => s.error_status = "OK"
  PROVE  Recolored(s, Finish(s, status)) /\ Finish(s, status).finished
<1>1. PICK t : t = Finish(s, status)
  OBVIOUS
<1>2. /\ SameStore(s, t)
      /\ t.info = s.info
      /\ t.completed_shards = s.completed_shards
      /\ t.total_pointers = s.total_pointers
      /\ t.total_parity_pointers = s.total_parity_pointers
      /\ t.rs = s.rs
      /\ t.truncated = s.truncated
      /\ t.pointers_completed = s.pointers_completed
      /\ t.error_status = status
      /\ t.canceled = s.canceled
      /\ t.dequeued = s.dequeued
      /\ t.work = s.work
      /\ t.pointers = s.pointers
      /\ t.finished
  BY <1>1, FinishFacts
<1> QED
  BY <1>1, <1>2 DEF Recolored

LEMMA FailRecolored ==
  ASSUME NEW s \in StateType, NEW status, status # "OK"
  PROVE  Recolored(s, Fail(s, status))
<1>1. PICK t : t = Fail(s, status)
  OBVIOUS
<1>2. /\ SameStore(s, t)
      /\ t.info = s.info
      /\ t.completed_shards = s.completed_shards
      /\ t.total_pointers = s.total_pointers
      /\ t.total_parity_pointers = s.total_parity_pointers
      /\ t.rs = s.rs
      /\ t.truncated = s.truncated
      /\ t.pointers_completed = s.pointers_completed
      /\ t.error_status = status
      /\ t.canceled = s.canceled
      /\ t.dequeued = s.dequeued
      /\ t.work = s.work
      /\ t.pointers = s.pointers
  BY <1>1, FailFacts
<1> QED
  BY <1>1, <1>2 DEF Recolored

(* Nothing outstanding is what pending_work_count says is zero. *)
LEMMA NoWorkIsIdle ==
  ASSUME NEW s, Good(s), ~ s.finished, s.work = {}
  PROVE  Idle(s)
  BY FS_EmptySet DEF Good, Counted, Idle

LEMMA FinishFailedFlows ==
  ASSUME NEW s, Good(s), ~ s.finished, s.error_status # "OK", Placed(file, s)
  PROVE  LET t == FinishFailed(s) IN Flow(file, t) /\ AllRequeued(s, t)
<1>1. s \in StateType /\ s.callbacks = << >>
  BY DEF Good, Closed
<1>2. CASE Idle(s)
  <2>1. PICK t : t = Finish(s, s.error_status)
    OBVIOUS
  <2>2. FinishFailed(s) = t
    BY <1>2, <2>1 DEF FinishFailed
  <2>3. Recolored(s, t) /\ t.finished
    BY <1>1, <2>1, FinishRecolored
  <2>4. t.error_status = s.error_status /\ t.callbacks = <<s.error_status>>
    <3>1. s.error_status \in ErrorStatus /\ (s.canceled => s.error_status # "OK")
      BY <1>1 DEF StateType
    <3> QED
      BY <1>2, <2>1, <3>1, FinishGood
  <2>5. Placed(file, t) /\ AllRequeued(s, t)
    BY <2>3, RecoloredPlaced
  <2>6. Served(t) /\ Ended(file, t)
    BY <2>3, <2>4 DEF Served, Ended
  <2> QED
    BY <2>2, <2>5, <2>6 DEF Flow
<1>3. CASE ~ Idle(s)
  <2>1. FinishFailed(s) = s
    BY <1>3 DEF FinishFailed
  <2>2. s.work # {}
    BY <1>3, NoWorkIsIdle
  <2>3. s.callbacks # <<"OK">>
    BY <1>1
  <2> QED
    BY <2>1, <2>2, <2>3 DEF Flow, Served, Ended, AllRequeued, Requeued
<1> QED
  BY <1>2, <1>3

LEMMA FinishRecoveredFlows ==
  ASSUME NEW s, Live(s), Placed(file, s), AllRecovered(s)
  PROVE  LET t == FinishRecovered(s) IN Flow(file, t) /\ AllRequeued(s, t)
<1>1. /\ s \in StateType /\ s.callbacks = << >> /\ s.error_status = "OK"
      /\ Good(s) /\ ~ s.finished /\ ~ s.canceled
  BY DEF Live, Good, Closed
<1>2. CASE Idle(s)
  <2>1. PICK status \in ErrorStatus : status = VerifiedStatus(s)
    BY DEF VerifiedStatus, ErrorStatus
  <2>2. PICK t : t = Finish(s, status)
    OBVIOUS
  <2>3. FinishRecovered(s) = t
    BY <1>2, <2>1, <2>2 DEF FinishRecovered
  <2>4. Recolored(s, t) /\ t.finished
    BY <1>1, <2>2, FinishRecolored
  <2>5. t.error_status = status /\ t.callbacks = <<status>>
    BY <1>1, <1>2, <2>2, FinishGood
  <2>6. Placed(file, t) /\ AllRequeued(s, t) /\ AllRecovered(t)
    BY <2>4, RecoloredPlaced
  <2>7. Served(t)
    BY <2>6 DEF Served
  <2>8. ASSUME t.callbacks = <<"OK">>
        PROVE  t.error_status = "OK" /\ (t.info => file.integrity # "mismatch")
    <3>1. status = "OK"
      BY <2>5, <2>8
    <3>2. s.info => file.integrity # "mismatch"
      BY <2>1, <3>1 DEF VerifiedStatus
    <3> QED
      BY <2>4, <2>5, <3>1, <3>2 DEF Recolored
  <2>9. Ended(file, t)
    BY <2>4, <2>6, <2>8 DEF Ended
  <2> QED
    BY <2>3, <2>6, <2>7, <2>9 DEF Flow
<1>3. CASE ~ Idle(s)
  <2>1. FinishRecovered(s) = s
    BY <1>3 DEF FinishRecovered
  <2>2. s.work # {}
    BY <1>1, <1>3, NoWorkIsIdle
  <2>3. s.callbacks # <<"OK">>
    BY <1>1
  <2> QED
    BY <2>1, <2>2, <2>3 DEF Flow, Served, Ended, AllRequeued, Requeued
<1> QED
  BY <1>2, <1>3

(* Every pass ends with the pointers served, or with the download ended. *)
LEMMA queue_next_workFlows ==
  ASSUME file \in Files, NEW s, Good(s), ~ s.finished, Placed(file, s)
  PROVE  LET t == queue_next_work(s) IN Flow(file, t) /\ AllRequeued(s, t)
<1>1. CASE s.error_status # "OK"
  BY <1>1, FinishFailedFlows DEF queue_next_work
<1>2. CASE s.error_status = "OK" /\ AllRecovered(s)
  BY <1>2, FinishRecoveredFlows DEF queue_next_work, Live
<1>3. CASE s.error_status = "OK" /\ ~ AllRecovered(s)
  <2>1. Ready(s)
    BY <1>3 DEF Ready, Live, Placed, Informed
  <2>2. PICK r : r = QueueRequests(s)
    OBVIOUS
  <2>3. /\ Ready(r) /\ AllRequeued(s, r)
        /\ PointersServed(r)
        /\ r.info \/ <<"info", 0>> \in r.work
        /\ r.info => SlotsServed(r)
    BY <2>1, <2>2, QueueRequestsReady
  <2>4. queue_next_work(s) = QueueMore(r)
    BY <1>3, <2>2 DEF queue_next_work
  <2>5. CASE r.info /\ Unrecoverable(r)
    <3>1. PICK f : f = Fail(r, "SHARD_MISSING")
      OBVIOUS
    <3>2. /\ Good(f) /\ SameJobs(r, f)
          /\ f.error_status = "SHARD_MISSING"
      BY <2>3, <3>1, FailGood DEF Ready, Live, ErrorStatus
    <3>3. Recolored(r, f)
      BY <2>3, <3>1, ReadyParts, FailRecolored
    <3>4. Placed(file, f) /\ AllRequeued(r, f)
      BY <2>3, <3>3, RecoloredPlaced DEF Ready
    <3>5. PICK t : t = FinishFailed(f)
      OBVIOUS
    <3>6. Flow(file, t) /\ AllRequeued(f, t)
      BY <2>3, <3>2, <3>4, <3>5, FinishFailedFlows DEF Ready, Live, SameJobs
    <3>7. QueueMore(r) = t
      BY <2>5, <3>1, <3>5 DEF QueueMore, Fail
    <3>8. AllRequeued(s, t)
      <4>1. t.pointers = f.pointers /\ f.pointers = r.pointers
        <5>1. f \in StateType /\ f.error_status # "OK"
          BY <3>2 DEF Good
        <5>2. Recolored(f, Finish(f, f.error_status))
          BY <5>1, FinishRecolored
        <5> QED
          BY <3>3, <3>5, <5>2 DEF FinishFailed, Recolored
      <4> QED
        BY <2>3, <4>1 DEF AllRequeued
    <3> QED
      BY <2>4, <3>6, <3>7, <3>8
  <2>6. CASE ~ (r.info /\ Unrecoverable(r))
    <3>1. PICK t : t = QueueRecoveryAndReports(r)
      OBVIOUS
    <3>2. Flow(file, t) /\ SameStatuses(r, t)
      BY <2>3, <2>6, <3>1, QueueRecoveryAndReportsFlows
    <3>3. QueueMore(r) = t
      BY <2>6, <3>1 DEF QueueMore
    <3>4. AllRequeued(s, t)
      BY <2>3, <3>2 DEF AllRequeued, SameStatuses
    <3> QED
      BY <2>4, <3>2, <3>3, <3>4
  <2> QED
    BY <2>5, <2>6
<1> QED
  BY <1>1, <1>2, <1>3

-----------------------------------------------------------------------------
(* The callbacks: first what the end of a job leaves of the state.         *)

(* Job is no longer outstanding, and little else has changed. *)
Freed(s, r, job) ==
  /\ SameStore(s, r)
  /\ r.info = s.info
  /\ r.completed_shards = s.completed_shards
  /\ r.total_pointers = s.total_pointers
  /\ r.total_parity_pointers = s.total_parity_pointers
  /\ r.rs = s.rs
  /\ r.pointers_completed = s.pointers_completed
  /\ r.error_status = s.error_status
  /\ r.canceled = s.canceled
  /\ r.dequeued = s.dequeued
  /\ r.work = s.work \ {job}
  /\ r.pointers = s.pointers

LEMMA PointerJobFreed ==
  ASSUME NEW s \in StateType, NEW job
  PROVE  LET r == [Complete(s, job) EXCEPT !.requesting_pointers = FALSE]
         IN  Freed(s, r, job) /\ r.truncated = s.truncated
<1>1. PICK w, n : w = s.work \ {job} /\ n = s.pending_work_count - 1
  OBVIOUS
<1>2. PICK r : r = [[s EXCEPT !.work = w, !.pending_work_count = n] EXCEPT
                      !.requesting_pointers = FALSE]
  OBVIOUS
<1>3. r = [Complete(s, job) EXCEPT !.requesting_pointers = FALSE]
  BY <1>1, <1>2 DEF Complete
<1>4. Freed(s, r, job) /\ r.truncated = s.truncated
  BY <1>1, <1>2, Zenon DEF StateType, Freed, SameStore
<1> QED
  BY <1>3, <1>4

LEMMA InfoJobFreed ==
  ASSUME NEW s \in StateType, NEW job
  PROVE  LET r == [Complete(s, job) EXCEPT !.requesting_info = FALSE]
         IN  Freed(s, r, job) /\ r.truncated = s.truncated
<1>1. PICK w, n : w = s.work \ {job} /\ n = s.pending_work_count - 1
  OBVIOUS
<1>2. PICK r : r = [[s EXCEPT !.work = w, !.pending_work_count = n] EXCEPT
                      !.requesting_info = FALSE]
  OBVIOUS
<1>3. r = [Complete(s, job) EXCEPT !.requesting_info = FALSE]
  BY <1>1, <1>2 DEF Complete
<1>4. Freed(s, r, job) /\ r.truncated = s.truncated
  BY <1>1, <1>2, Zenon DEF StateType, Freed, SameStore
<1> QED
  BY <1>3, <1>4

LEMMA RecoverJobFreed ==
  ASSUME NEW s \in StateType, NEW job
  PROVE  LET r == [Complete(s, job) EXCEPT !.recovering_shards = FALSE,
                                           !.truncated = TRUE]
         IN  Freed(s, r, job) /\ r.truncated
<1>1. PICK w, n : w = s.work \ {job} /\ n = s.pending_work_count - 1
  OBVIOUS
<1>2. PICK r : r = [[s EXCEPT !.work = w, !.pending_work_count = n] EXCEPT
                      !.recovering_shards = FALSE, !.truncated = TRUE]
  OBVIOUS
<1>3. r = [Complete(s, job) EXCEPT !.recovering_shards = FALSE, !.truncated = TRUE]
  BY <1>1, <1>2 DEF Complete
<1>4. Freed(s, r, job) /\ r.truncated = TRUE
  BY <1>1, <1>2, Zenon DEF StateType, Freed, SameStore
<1> QED
  BY <1>3, <1>4

(* Only the end of a recovery may say that the file is whole again. *)
Truncated(s, r, kind) ==
  \/ r.truncated = s.truncated
  \/ kind = "recover" /\ r.truncated

(* The end of a job about no particular pointer. *)
LEMMA FreedPlaced ==
  ASSUME NEW s, Good(s), Placed(file, s),
         NEW kind \in {"pointers", "info", "recover"}, <<kind, 0>> \in s.work,
         NEW r, Freed(s, r, <<kind, 0>>), Truncated(s, r, kind)
  PROVE  Placed(file, r)
<1>1. Allocated(r) = Allocated(s)
  BY DEF Freed, Allocated
<1>2. Listed(file, r)
  BY <1>1 DEF Placed, Listed, Freed
<1>3. Informed(r)
  <2>1. kind = "recover" => s.completed_shards = 0
    BY DEF Placed, Informed
  <2>2. s.completed_shards # 0 => AllRecovered(r)
    BY <2>1 DEF Placed, Informed, AllRecovered, Freed, Truncated
  <2> QED
    BY <2>2 DEF Placed, Informed, Freed
<1>4. Recovering(file, r)
  BY <1>1 DEF Placed, Recovering, Freed, Intact, SameStore
<1>5. ASSUME NEW j \in Index PROVE Traced(r, j, r.pointers[j])
  <2>1. Traced(s, j, s.pointers[j])
    BY DEF Placed
  <2> QED
    BY <2>1 DEF Traced, Freed, SameStore
<1>6. Limited(r)
  BY DEF Placed, Limited, Freed, SameStore
<1> QED
  BY <1>2, <1>3, <1>4, <1>5, <1>6 DEF Placed

(* What a callback may do with a pointer, by the jobs outstanding before. *)
Moved(s, i, old, new) ==
  \/ new = old
  \/ old = POINTER_UNINITIALIZED /\ new \in {POINTER_CREATED, POINTER_MISSING}
  \/ /\ <<"replace", i>> \in s.work
     /\ old \in {POINTER_BEING_REPLACED, POINTER_FINISHED}
  \/ /\ <<"shard", i>> \in s.work
     /\ old \in {POINTER_BEING_DOWNLOADED, POINTER_MISSING, POINTER_FINISHED}
     /\ new \in {POINTER_ERROR, POINTER_DOWNLOADED}
  \/ old = POINTER_ERROR /\ new = POINTER_ERROR_REPORTED
  \/ new = POINTER_FINISHED

(* The state t a callback leaves to queue_next_work. *)
Left(s, t) ==
  /\ Placed(file, t)
  /\ \A i \in Index : Moved(s, i, s.pointers[i].status, t.pointers[i].status)

LEMMA SameLeft ==
  ASSUME NEW s, NEW t, Placed(file, t), t.pointers = s.pointers
  PROVE  Left(s, t)
  BY DEF Left, Moved

LEMMA RecoloredLeft ==
  ASSUME NEW s, NEW r, Left(s, r), NEW t, Recolored(r, t)
  PROVE  Left(s, t)
<1>1. Placed(file, t)
  BY RecoloredPlaced DEF Left
<1> QED
  BY <1>1 DEF Left, Recolored

LEMMA FailLeft ==
  ASSUME NEW s, NEW r \in StateType, Left(s, r), NEW status, status # "OK"
  PROVE  Left(s, Fail(r, status))
  BY FailRecolored, RecoloredLeft

LEMMA PointerFailCountRecolored ==
  ASSUME NEW r \in StateType, NEW n
  PROVE  Recolored(r, [r EXCEPT !.pointer_fail_count = n])
<1>1. PICK t : t = [r EXCEPT !.pointer_fail_count = n]
  OBVIOUS
<1>2. Kept(r, t) /\ SameStore(r, t) /\ t.work = r.work /\ t.pointers = r.pointers
  BY <1>1, Zenon DEF StateType, Kept, SameStore
<1> QED
  BY <1>1, <1>2 DEF Recolored, Kept

LEMMA InfoFailCountRecolored ==
  ASSUME NEW r \in StateType, NEW n
  PROVE  Recolored(r, [r EXCEPT !.info_fail_count = n])
<1>1. PICK t : t = [r EXCEPT !.info_fail_count = n]
  OBVIOUS
<1>2. Kept(r, t) /\ SameStore(r, t) /\ t.work = r.work /\ t.pointers = r.pointers
  BY <1>1, Zenon DEF StateType, Kept, SameStore
<1> QED
  BY <1>1, <1>2 DEF Recolored, Kept

LEMMA PointerRequestFailedLeft ==
  ASSUME NEW s, NEW r \in StateType, Left(s, r)
  PROVE  Left(s, PointerRequestFailed(r))
<1>1. CASE r.pointer_fail_count + 1 >= STORJ_MAX_POINTER_TRIES
  <2>1. PICK t : t = [r EXCEPT !.pointer_fail_count = 0]
    OBVIOUS
  <2>2. t \in StateType
    BY <2>1, Zenon DEF StateType
  <2>3. Left(s, t)
    BY <2>1, PointerFailCountRecolored, RecoloredLeft
  <2>4. PointerRequestFailed(r) = Fail(t, "BRIDGE")
    BY <1>1, <2>1 DEF PointerRequestFailed
  <2> QED
    BY <2>2, <2>3, <2>4, FailLeft
<1>2. CASE ~ (r.pointer_fail_count + 1 >= STORJ_MAX_POINTER_TRIES)
  <2>1. PointerRequestFailed(r)
          = [r EXCEPT !.pointer_fail_count = r.pointer_fail_count + 1]
    BY <1>2 DEF PointerRequestFailed
  <2> QED
    BY <2>1, PointerFailCountRecolored, RecoloredLeft
<1> QED
  BY <1>1, <1>2

LEMMA InfoRequestFailedLeft ==
  ASSUME NEW s, NEW r \in StateType, Left(s, r)
  PROVE  Left(s, InfoRequestFailed(r))
<1>1. CASE r.info_fail_count + 1 >= STORJ_MAX_INFO_TRIES
  <2>1. PICK t : t = [r EXCEPT !.info_fail_count = 0]
    OBVIOUS
  <2>2. t \in StateType
    BY <2>1, Zenon DEF StateType
  <2>3. Left(s, t)
    BY <2>1, InfoFailCountRecolored, RecoloredLeft
  <2>4. InfoRequestFailed(r) = Fail(t, "BRIDGE")
    BY <1>1, <2>1 DEF InfoRequestFailed
  <2> QED
    BY <2>2, <2>3, <2>4, FailLeft
<1>2. CASE ~ (r.info_fail_count + 1 >= STORJ_MAX_INFO_TRIES)
  <2>1. InfoRequestFailed(r) = [r EXCEPT !.info_fail_count = r.info_fail_count + 1]
    BY <1>2 DEF InfoRequestFailed
  <2> QED
    BY <2>1, InfoFailCountRecolored, RecoloredLeft
<1> QED
  BY <1>1, <1>2

-----------------------------------------------------------------------------
(* after_request_pointers *)

(* An empty page means that all the file's shards are listed. *)
LEMMA ListEndLeft ==
  ASSUME file \in Files, NEW s, NEW r \in StateType, Left(s, r),
         <<"pointers", 0>> \notin r.work, PageIndex(r) = {}
  PROVE  Left(s, [r EXCEPT !.pointers_completed = TRUE])
<1>1. PICK t : t = [r EXCEPT !.pointers_completed = TRUE]
  OBVIOUS
<1>2. /\ SameStore(r, t)
      /\ t.info = r.info
      /\ t.completed_shards = r.completed_shards
      /\ t.total_pointers = r.total_pointers
      /\ t.total_parity_pointers = r.total_parity_pointers
      /\ t.rs = r.rs
      /\ t.truncated = r.truncated
      /\ t.pointers_completed = TRUE
      /\ t.error_status = r.error_status
      /\ t.canceled = r.canceled
      /\ t.dequeued = r.dequeued
      /\ t.work = r.work
      /\ t.pointers = r.pointers
  BY <1>1, Zenon DEF StateType, SameStore
<1>3. Placed(file, r)
  BY DEF Left
<1>4. r.total_pointers = file.shards
  <2>1. /\ r.total_pointers \in Nat /\ file.shards \in Nat
        /\ file.shards <= MaxShards /\ MaxShards \in Nat
        /\ PointerLimit \in Nat /\ PointerLimit > 0
        /\ r.total_pointers <= file.shards
    BY <1>3, DownloadAssumption DEF FileType, StateType, Placed, Listed
  <2>2. SUFFICES ASSUME r.total_pointers < file.shards PROVE FALSE
    BY <2>1
  <2>3. r.total_pointers \in PageIndex(r)
    BY <2>1, <2>2 DEF PageIndex, Index
  <2> QED
    BY <2>3
<1>5. Allocated(t) = Allocated(r)
  BY <1>2 DEF Allocated
<1>6. Listed(file, t)
  BY <1>2, <1>3, <1>4, <1>5 DEF Placed, Listed
<1>7. Informed(t)
  BY <1>2, <1>3 DEF Placed, Informed, AllRecovered
<1>8. Recovering(file, t)
  BY <1>2, <1>3, <1>5 DEF Placed, Recovering, Intact, SameStore
<1>9. ASSUME NEW j \in Index PROVE Traced(t, j, t.pointers[j])
  <2>1. Traced(r, j, r.pointers[j])
    BY <1>3 DEF Placed
  <2> QED
    BY <1>2, <2>1 DEF Traced, SameStore
<1>10. Limited(t)
  BY <1>2, <1>3 DEF Placed, Limited, SameStore
<1> QED
  BY <1>1, <1>2, <1>6, <1>7, <1>8, <1>9, <1>10 DEF Placed, Left

(* The page continues the list: the new pointers follow the old ones. *)
LEMMA PageFollows ==
  ASSUME file \in Files, NEW r \in StateType, r.total_pointers <= file.shards,
         NEW total, total = r.total_pointers + Cardinality(PageIndex(r))
  PROVE  /\ total \in Nat /\ total <= file.shards /\ r.total_pointers <= total
         /\ \A i \in Index : i < total <=> i < r.total_pointers \/ i \in PageIndex(r)
<1>1. /\ r.total_pointers \in Nat /\ file.shards \in Nat
      /\ file.shards <= MaxShards /\ MaxShards \in Nat
      /\ PointerLimit \in Nat /\ PointerLimit > 0
  BY DownloadAssumption DEF FileType, StateType
<1>2. PICK m \in Nat : m = IF r.total_pointers + PointerLimit <= file.shards
                           THEN r.total_pointers + PointerLimit ELSE file.shards
  BY <1>1
<1>3. r.total_pointers <= m /\ m <= file.shards
  BY <1>1, <1>2
<1>4. PageIndex(r) = r.total_pointers .. (m - 1)
  <2>1. ASSUME NEW i
        PROVE  i \in PageIndex(r) <=> i \in r.total_pointers .. (m - 1)
    BY <1>1, <1>2, <1>3 DEF PageIndex, Index
  <2> QED
    BY <2>1
<1>5. Cardinality(PageIndex(r)) = m - r.total_pointers
  <2>1. PICK low \in Int, high \in Int : low = r.total_pointers /\ high = m - 1
    BY <1>1
  <2>2. Cardinality(low..high) = IF low > high THEN 0 ELSE high - low + 1
    BY FS_Interval
  <2>3. PageIndex(r) = low..high
    BY <1>4, <2>1
  <2> QED
    BY <1>1, <1>3, <2>1, <2>2, <2>3
<1>6. total = m
  BY <1>1, <1>2, <1>5
<1>7. ASSUME NEW i \in Index
      PROVE  i < m <=> i < r.total_pointers \/ i \in PageIndex(r)
  BY <1>1, <1>3, <1>4 DEF Index
<1> QED
  BY <1>2, <1>3, <1>6, <1>7

LEMMA AppendPointersFacts ==
  ASSUME NEW r \in StateType, NEW page \in [PageIndex(r) -> Entry]
  PROVE  LET t == AppendPointers(r, page)
         IN  /\ SameStore(r, t)
             /\ t.info = r.info
             /\ t.completed_shards = r.completed_shards
             /\ t.total_pointers = r.total_pointers + Cardinality(PageIndex(r))
             /\ t.total_parity_pointers = r.total_parity_pointers
                  + Cardinality(ParityAmong(file, PageIndex(r)))
             /\ t.rs = r.rs
             /\ t.truncated = r.truncated
             /\ t.pointers_completed = r.pointers_completed
             /\ t.error_status = IF \E i \in PageIndex(r) : page[i] = "malformed"
                                 THEN "BRIDGE" ELSE r.error_status
             /\ t.canceled = r.canceled
             /\ t.dequeued = r.dequeued
             /\ t.work = r.work
             /\ \A i \in Index :
                  t.pointers[i] = IF i \in PageIndex(r) /\ page[i] # "malformed"
                                  THEN SetPointer(r.pointers[i], page[i], FALSE)
                                  ELSE r.pointers[i]
<1>1. DOMAIN page = PageIndex(r)
  OBVIOUS
<1>2. PICK total, parity :
        /\ total = r.total_pointers + Cardinality(PageIndex(r))
        /\ parity = r.total_parity_pointers
             + Cardinality({i \in PageIndex(r) : i >= file.shards - file.parity})
  OBVIOUS
<1>3. PICK f : f = [i \in Index |->
                      IF i \in PageIndex(r) /\ page[i] # "malformed"
                      THEN SetPointer(r.pointers[i], page[i], FALSE)
                      ELSE r.pointers[i]]
  OBVIOUS
<1>4. PICK error : error = IF \E i \in PageIndex(r) : page[i] = "malformed"
                           THEN "BRIDGE" ELSE r.error_status
  OBVIOUS
<1>5. PICK t : t = [r EXCEPT !.total_pointers = total,
                            !.total_parity_pointers = parity,
                            !.pointers = f,
                            !.error_status = error]
  OBVIOUS
<1>6. t = AppendPointers(r, page)
  BY <1>1, <1>2, <1>3, <1>4, <1>5 DEF AppendPointers
<1>7. /\ SameStore(r, t)
      /\ t.info = r.info
      /\ t.completed_shards = r.completed_shards
      /\ t.total_pointers = total
      /\ t.total_parity_pointers = parity
      /\ t.rs = r.rs
      /\ t.truncated = r.truncated
      /\ t.pointers_completed = r.pointers_completed
      /\ t.error_status = error
      /\ t.canceled = r.canceled
      /\ t.dequeued = r.dequeued
      /\ t.work = r.work
      /\ t.pointers = f
  BY <1>5, Zenon DEF StateType, SameStore
<1>8. parity = r.total_parity_pointers + Cardinality(ParityAmong(file, PageIndex(r)))
  BY <1>2 DEF ParityAmong
<1> QED
  BY <1>2, <1>3, <1>4, <1>6, <1>7, <1>8

(* The parity pointers of two disjoint parts of the list are counted apart. *)
LEMMA ParityAdds ==
  ASSUME NEW A \in SUBSET Index, NEW B \in SUBSET Index, A \cap B = {}
  PROVE  Cardinality(ParityAmong(file, A \cup B))
           = Cardinality(ParityAmong(file, A)) + Cardinality(ParityAmong(file, B))
<1>1. PICK a \in SUBSET Index, b \in SUBSET Index :
        a = ParityAmong(file, A) /\ b = ParityAmong(file, B)
  BY DEF ParityAmong
<1>2. a \cap b = {} /\ ParityAmong(file, A \cup B) = a \cup b
  BY <1>1 DEF ParityAmong
<1>3. /\ IsFiniteSet(a) /\ IsFiniteSet(b)
      /\ Cardinality(a) \in Nat /\ Cardinality(b) \in Nat
  BY IndexCount
<1>4. Cardinality(a \cup b) = Cardinality(a) + Cardinality(b) - Cardinality(a \cap b)
  BY <1>3, FS_Union
<1>5. Cardinality(a \cap b) = 0
  BY <1>2, FS_EmptySet
<1>6. Cardinality(a \cup b) = Cardinality(a) + Cardinality(b)
  BY <1>3, <1>4, <1>5
<1> QED
  BY <1>1, <1>2, <1>6

LEMMA AppendPointersLeft ==
  ASSUME file \in Files, NEW s, NEW r, Good(r), Left(s, r), r.pointers = s.pointers,
         ~ r.pointers_completed, NEW page \in [PageIndex(r) -> Entry]
  PROVE  Left(s, AppendPointers(r, page))
<1>1. PICK t : t = AppendPointers(r, page)
  OBVIOUS
<1>2. r \in StateType /\ Placed(file, r) /\ r.total_pointers <= file.shards
  BY DEF Good, Left, Placed, Listed
<1>3. /\ SameStore(r, t)
      /\ t.info = r.info
      /\ t.completed_shards = r.completed_shards
      /\ t.total_pointers = r.total_pointers + Cardinality(PageIndex(r))
      /\ t.total_parity_pointers = r.total_parity_pointers
           + Cardinality(ParityAmong(file, PageIndex(r)))
      /\ t.pointers_completed = r.pointers_completed
      /\ t.error_status = IF \E i \in PageIndex(r) : page[i] = "malformed"
                          THEN "BRIDGE" ELSE r.error_status
      /\ t.canceled = r.canceled
      /\ t.dequeued = r.dequeued
      /\ t.work = r.work
      /\ \A i \in Index :
           t.pointers[i] = IF i \in PageIndex(r) /\ page[i] # "malformed"
                           THEN SetPointer(r.pointers[i], page[i], FALSE)
                           ELSE r.pointers[i]
  BY <1>1, <1>2, AppendPointersFacts
<1>4. /\ t.total_pointers \in Nat /\ t.total_pointers <= file.shards
      /\ r.total_pointers <= t.total_pointers
      /\ \A i \in Index :
           i < t.total_pointers <=> i < r.total_pointers \/ i \in PageIndex(r)
  BY <1>2, <1>3, PageFollows
<1>5. Listed(file, t)
  <2>1. /\ PageIndex(r) \in SUBSET Index /\ Allocated(r) \in SUBSET Index
        /\ Allocated(t) = Allocated(r) \cup PageIndex(r)
    BY <1>4 DEF PageIndex, Allocated
  <2>2. Allocated(r) \cap PageIndex(r) = {}
    <3>1. ASSUME NEW i \in Allocated(r) PROVE ~ (i >= r.total_pointers)
      BY <1>2 DEF Allocated, StateType, Index
    <3> QED
      BY <3>1 DEF PageIndex
  <2>3. Cardinality(ParityAmong(file, Allocated(r) \cup PageIndex(r)))
          = Cardinality(ParityAmong(file, Allocated(r)))
            + Cardinality(ParityAmong(file, PageIndex(r)))
    BY <2>1, <2>2, ParityAdds
  <2>4. r.total_parity_pointers = Cardinality(ParityAmong(file, Allocated(r)))
    BY <1>2 DEF Placed, Listed
  <2>5. t.total_parity_pointers = Cardinality(ParityAmong(file, Allocated(t)))
    BY <1>3, <2>1, <2>3, <2>4
  <2> QED
    BY <1>3, <1>4, <2>5 DEF Listed
<1>6. r.completed_shards = 0 /\ <<"recover", 0>> \notin r.work
  BY <1>2 DEF Placed, Informed, AllRecovered
<1>7. Informed(t)
  BY <1>2, <1>3, <1>6 DEF Placed, Informed
<1>8. Recovering(file, t)
  BY <1>3, <1>6 DEF Recovering
<1>9. ASSUME NEW j \in Index
      PROVE  /\ Traced(t, j, t.pointers[j])
             /\ Moved(s, j, s.pointers[j].status, t.pointers[j].status)
  <2>1. /\ Traced(r, j, r.pointers[j]) /\ Owns(r, j, r.pointers[j])
        /\ r.pointers[j] \in PointerType
    BY <1>2 DEF Good, Placed, StateType
  <2>2. j \in Int /\ r.total_pointers \in Int /\ t.total_pointers \in Int
    BY <1>2, <1>4 DEF Index, StateType
  <2>3. CASE j \in PageIndex(r) /\ page[j] # "malformed"
    <3>1. PICK q : q = SetPointer(r.pointers[j], page[j], FALSE)
      OBVIOUS
    <3>2. t.pointers[j] = q
      BY <1>3, <2>3, <3>1
    <3>3. /\ q.status \in {POINTER_CREATED, POINTER_MISSING}
          /\ q.send_status = 0 /\ q.send_count = 0 /\ q.timed = FALSE
      <4>1. PICK entry \in Entry : entry = page[j]
        BY <2>3
      <4>2. q = SetPointer(r.pointers[j], entry, FALSE)
        BY <3>1, <4>1
      <4>3. PICK p \in PointerType : p = r.pointers[j]
        BY <2>1
      <4>4. PICK no \in BOOLEAN : no = FALSE
        OBVIOUS
      <4>5. q = SetPointer(p, entry, no)
        BY <4>2, <4>3, <4>4
      <4>6. q.status \in {POINTER_CREATED, POINTER_MISSING}
        BY <4>5, SetPointerPointer
      <4>7. /\ q.send_status = 0 /\ q.send_count = 0 /\ q.timed = FALSE
        BY <4>5, SetPointerReport
      <4> QED
        BY <4>6, <4>7
    <3>4. j < t.total_pointers /\ ~ (j >= t.total_pointers)
      BY <1>4, <2>2, <2>3
    <3>5. ~ (j < r.total_pointers) /\ j >= r.total_pointers
      BY <2>2, <2>3 DEF PageIndex
    <3>6. r.pointers[j].status = POINTER_UNINITIALIZED
      BY <2>1, <3>5 DEF Traced
    <3>7. <<"shard", j>> \notin t.work
      BY <1>3, <2>1, <3>5 DEF Owns
    <3>8. Traced(t, j, q)
      BY <3>3, <3>4, <3>7 DEF Traced
    <3> QED
      BY <3>2, <3>3, <3>6, <3>8 DEF Moved
  <2>4. CASE ~ (j \in PageIndex(r) /\ page[j] # "malformed")
    <3>1. t.pointers[j] = r.pointers[j]
      BY <1>3, <2>4
    <3>2. /\ j >= t.total_pointers => j >= r.total_pointers
          /\ t.error_status = "OK" =>
               /\ r.error_status = "OK"
               /\ j >= r.total_pointers => j >= t.total_pointers
      <4>1. j >= t.total_pointers => j >= r.total_pointers
        BY <1>4, <2>2
      <4>2. ASSUME t.error_status = "OK"
            PROVE  r.error_status = "OK" /\ \A i \in PageIndex(r) : page[i] # "malformed"
        BY <1>3, <4>2
      <4>3. ASSUME t.error_status = "OK", j >= r.total_pointers
            PROVE  j >= t.total_pointers
        <5>1. j \notin PageIndex(r)
          BY <2>4, <4>2, <4>3
        <5> QED
          BY <1>4, <2>2, <4>3, <5>1
      <4> QED
        BY <4>1, <4>2, <4>3
    <3>3. Traced(t, j, r.pointers[j])
      BY <1>3, <2>1, <3>2 DEF Traced, SameStore
    <3> QED
      BY <3>1, <3>3 DEF Moved
  <2> QED
    BY <2>3, <2>4
<1>10. Limited(t)
  BY <1>2, <1>3 DEF Placed, Limited, SameStore
<1> QED
  BY <1>1, <1>5, <1>7, <1>8, <1>9, <1>10 DEF Placed, Left


-----------------------------------------------------------------------------
(* after_request_info and after_recover_shards *)

LEMMA InfoAnsweredFacts ==
  ASSUME NEW r \in StateType, NEW key \in BOOLEAN
  PROVE  LET t == InfoAnswered(r, key)
         IN  /\ SameStore(r, t)
             /\ t.info
             /\ t.completed_shards = r.completed_shards
             /\ t.total_pointers = r.total_pointers
             /\ t.total_parity_pointers = r.total_parity_pointers
             /\ t.pointers_completed = r.pointers_completed
             /\ t.error_status = "OK" => r.error_status = "OK"
             /\ t.canceled = r.canceled
             /\ t.dequeued = r.dequeued
             /\ t.work = r.work
             /\ t.pointers = r.pointers
<1>1. PICK rs, truncated :
        /\ rs = (r.rs \/ file.erasure = "reedsolomon")
        /\ truncated = (r.truncated /\ file.erasure # "reedsolomon")
  OBVIOUS
<1>2. PICK error :
        /\ error = IF ~ key THEN "MEMORY"
                   ELSE IF file.erasure = "other" THEN "BRIDGE"
                   ELSE r.error_status
        /\ error = "OK" => r.error_status = "OK"
  OBVIOUS
<1>3. PICK t : t = [r EXCEPT !.info = TRUE, !.rs = rs, !.truncated = truncated,
                            !.error_status = error]
  OBVIOUS
<1>4. t = InfoAnswered(r, key)
  BY <1>1, <1>2, <1>3, Zenon DEF InfoAnswered
<1>5. /\ SameStore(r, t)
      /\ t.info
      /\ t.completed_shards = r.completed_shards
      /\ t.total_pointers = r.total_pointers
      /\ t.total_parity_pointers = r.total_parity_pointers
      /\ t.pointers_completed = r.pointers_completed
      /\ t.error_status = error
      /\ t.canceled = r.canceled
      /\ t.dequeued = r.dequeued
      /\ t.work = r.work
      /\ t.pointers = r.pointers
  BY <1>3, Zenon DEF StateType, SameStore
<1> QED
  BY <1>2, <1>4, <1>5

(* The info arrives once, and before any recovery. *)
LEMMA InfoAnsweredLeft ==
  ASSUME NEW s, NEW r \in StateType, Left(s, r), r.completed_shards = 0,
         <<"info", 0>> \notin r.work, <<"recover", 0>> \notin r.work,
         NEW key \in BOOLEAN
  PROVE  Left(s, InfoAnswered(r, key))
<1>1. PICK t : t = InfoAnswered(r, key)
  OBVIOUS
<1>2. /\ SameStore(r, t)
      /\ t.info
      /\ t.completed_shards = r.completed_shards
      /\ t.total_pointers = r.total_pointers
      /\ t.total_parity_pointers = r.total_parity_pointers
      /\ t.pointers_completed = r.pointers_completed
      /\ t.error_status = "OK" => r.error_status = "OK"
      /\ t.canceled = r.canceled
      /\ t.dequeued = r.dequeued
      /\ t.work = r.work
      /\ t.pointers = r.pointers
  BY <1>1, InfoAnsweredFacts
<1>3. Placed(file, r) /\ Allocated(t) = Allocated(r)
  BY <1>2 DEF Left, Allocated
<1>4. Listed(file, t)
  BY <1>2, <1>3 DEF Placed, Listed
<1>5. Informed(t)
  BY <1>2 DEF Informed
<1>6. Recovering(file, t)
  BY <1>2 DEF Recovering
<1>7. ASSUME NEW j \in Index PROVE Traced(t, j, t.pointers[j])
  <2>1. Traced(r, j, r.pointers[j])
    BY <1>3 DEF Placed
  <2> QED
    BY <1>2, <2>1 DEF Traced, SameStore
<1>8. Limited(t)
  BY <1>2, <1>3 DEF Placed, Limited, SameStore
<1> QED
  BY <1>1, <1>2, <1>4, <1>5, <1>6, <1>7, <1>8 DEF Placed, Left

LEMMA RecoveredFacts ==
  ASSUME NEW r \in StateType
  PROVE  LET t == Recovered(r)
         IN  /\ SameStore(r, t)
             /\ t.info = r.info
             /\ t.completed_shards = r.completed_shards + r.total_pointers
             /\ t.total_pointers = r.total_pointers
             /\ t.total_parity_pointers = r.total_parity_pointers
             /\ t.truncated = r.truncated
             /\ t.pointers_completed = r.pointers_completed
             /\ t.error_status = r.error_status
             /\ t.canceled = r.canceled
             /\ t.dequeued = r.dequeued
             /\ t.work = r.work
             /\ \A i \in Index :
                  t.pointers[i] = IF i \in Allocated(r)
                                  THEN Marked(r.pointers[i], POINTER_FINISHED)
                                  ELSE r.pointers[i]
<1>1. PICK n : n = r.completed_shards + r.total_pointers
  OBVIOUS
<1>2. PICK f : f = [i \in Index |-> IF i \in Allocated(r)
                                    THEN Marked(r.pointers[i], POINTER_FINISHED)
                                    ELSE r.pointers[i]]
  OBVIOUS
<1>3. PICK t : t = [r EXCEPT !.completed_shards = n, !.pointers = f]
  OBVIOUS
<1>4. t = Recovered(r)
  BY <1>1, <1>2, <1>3 DEF Recovered
<1>5. /\ SameStore(r, t)
      /\ t.info = r.info
      /\ t.completed_shards = n
      /\ t.total_pointers = r.total_pointers
      /\ t.total_parity_pointers = r.total_parity_pointers
      /\ t.truncated = r.truncated
      /\ t.pointers_completed = r.pointers_completed
      /\ t.error_status = r.error_status
      /\ t.canceled = r.canceled
      /\ t.dequeued = r.dequeued
      /\ t.work = r.work
      /\ t.pointers = f
  BY <1>3, Zenon DEF StateType, SameStore
<1> QED
  BY <1>1, <1>2, <1>4, <1>5

(* Recovery finishes every pointer, and completed_shards says so. *)
LEMMA RecoveredLeft ==
  ASSUME NEW s, NEW r \in StateType, Left(s, r), r.completed_shards = 0,
         r.info, r.pointers_completed, r.truncated,
         <<"recover", 0>> \notin r.work
  PROVE  Left(s, Recovered(r))
<1>1. PICK t : t = Recovered(r)
  OBVIOUS
<1>2. /\ SameStore(r, t)
      /\ t.info = r.info
      /\ t.completed_shards = r.completed_shards + r.total_pointers
      /\ t.total_pointers = r.total_pointers
      /\ t.total_parity_pointers = r.total_parity_pointers
      /\ t.truncated = r.truncated
      /\ t.pointers_completed = r.pointers_completed
      /\ t.error_status = r.error_status
      /\ t.canceled = r.canceled
      /\ t.dequeued = r.dequeued
      /\ t.work = r.work
      /\ \A i \in Index :
           t.pointers[i] = IF i \in Allocated(r)
                           THEN Marked(r.pointers[i], POINTER_FINISHED)
                           ELSE r.pointers[i]
  BY <1>1, RecoveredFacts
<1>3. Placed(file, r) /\ Allocated(t) = Allocated(r)
  BY <1>2 DEF Left, Allocated
<1>4. r.total_pointers \in Nat /\ t.completed_shards = r.total_pointers
  <2>1. r.total_pointers \in Nat
    BY DEF StateType
  <2> QED
    BY <1>2, <2>1
<1>5. Listed(file, t)
  BY <1>2, <1>3 DEF Placed, Listed
<1>6. Informed(t)
  BY <1>2, <1>3, <1>4 DEF Placed, Informed, AllRecovered
<1>7. Recovering(file, t)
  BY <1>2 DEF Recovering
<1>8. ASSUME NEW j \in Index
      PROVE  /\ Traced(t, j, t.pointers[j])
             /\ Moved(s, j, s.pointers[j].status, t.pointers[j].status)
  <2>1. /\ Traced(r, j, r.pointers[j])
        /\ r.pointers[j] \in PointerType
        /\ Moved(s, j, s.pointers[j].status, r.pointers[j].status)
    BY <1>3 DEF Placed, Left, StateType
  <2>2. CASE j \in Allocated(r)
    <3>1. j < r.total_pointers /\ ~ (j >= r.total_pointers) /\ t.completed_shards # 0
      BY <1>4, <2>2 DEF Allocated, Index
    <3>2. PICK finished \in -4..4 : finished = POINTER_FINISHED
      OBVIOUS
    <3>3. PICK q : q = Marked(r.pointers[j], finished)
      OBVIOUS
    <3>4. t.pointers[j] = q
      BY <1>2, <2>2, <3>2, <3>3
    <3>5. q.status = finished
      BY <2>1, <3>3, MarkedPointer
    <3>6. SameReport(r.pointers[j], q)
      BY <2>1, <3>3, MarkedReport
    <3>7. q.status = POINTER_FINISHED
      BY <3>2, <3>5
    <3>8. Traced(t, j, q)
      BY <1>2, <2>1, <3>1, <3>6, <3>7 DEF Traced, SameReport
    <3> QED
      BY <3>4, <3>7, <3>8 DEF Moved
  <2>3. CASE j \notin Allocated(r)
    <3>1. t.pointers[j] = r.pointers[j]
      BY <1>2, <2>3
    <3>2. j >= r.total_pointers
      BY <1>4, <2>3 DEF Allocated, Index
    <3>3. r.pointers[j].status = POINTER_UNINITIALIZED
      BY <2>1, <3>2 DEF Traced
    <3>4. Traced(t, j, r.pointers[j])
      BY <1>2, <2>1, <3>2, <3>3 DEF Traced
    <3> QED
      BY <2>1, <3>1, <3>4
  <2> QED
    BY <2>2, <2>3
<1>9. Limited(t)
  BY <1>2, <1>3 DEF Placed, Limited, SameStore
<1> QED
  BY <1>1, <1>5, <1>6, <1>7, <1>8, <1>9 DEF Placed, Left


-----------------------------------------------------------------------------
(* The callbacks about one pointer.                                        *)

(* The job about pointer i ended; only that pointer may have changed.      *)
Touched(s, t, i, job) ==
  /\ t.info = s.info
  /\ t.completed_shards = s.completed_shards
  /\ t.total_pointers = s.total_pointers
  /\ t.total_parity_pointers = s.total_parity_pointers
  /\ t.rs = s.rs
  /\ t.truncated = s.truncated
  /\ t.pointers_completed = s.pointers_completed
  /\ t.error_status = "OK" => s.error_status = "OK"
  /\ t.canceled = s.canceled
  /\ t.dequeued \subseteq s.dequeued
  /\ t.zilch = s.zilch
  /\ s.fetched \subseteq t.fetched
  /\ t.resolving_shards \in {s.resolving_shards, s.resolving_shards - 1}
  /\ t.work = s.work \ {job}
  /\ OthersSame(s, t, i)

LEMMA TouchedPlaced ==
  ASSUME NEW s \in StateType, Placed(file, s), NEW i \in Index,
         NEW kind \in {"shard", "report", "replace"},
         NEW t, Touched(s, t, i, <<kind, i>>),
         Traced(t, i, t.pointers[i]), Intact(s, i) => Intact(t, i)
  PROVE  Placed(file, t)
<1>1. Allocated(t) = Allocated(s)
  BY DEF Touched, Allocated
<1>2. Listed(file, t)
  BY <1>1 DEF Placed, Listed, Touched
<1>3. Informed(t)
  BY DEF Placed, Informed, AllRecovered, Touched
<1>4. ASSUME NEW j \in Index, Intact(s, j) PROVE Intact(t, j)
  <2>1. CASE j = i
    BY <1>4, <2>1
  <2>2. CASE j # i
    BY <1>4, <2>2 DEF Intact, Touched, OthersSame
  <2> QED
    BY <2>1, <2>2
<1>5. Recovering(file, t)
  <2>1. Allocated(s) \in SUBSET Index
    BY DEF Allocated
  <2>2. <<"recover", 0>> \in t.work => <<"recover", 0>> \in s.work
    BY DEF Touched
  <2>3. t.zilch = s.zilch /\ t.rs = s.rs
    BY DEF Touched
  <2> QED
    BY <1>1, <1>4, <2>1, <2>2, <2>3 DEF Placed, Recovering
<1>6. ASSUME NEW j \in Index PROVE Traced(t, j, t.pointers[j])
  <2>1. CASE j = i
    BY <2>1
  <2>2. CASE j # i
    <3>1. Traced(s, j, s.pointers[j]) /\ t.pointers[j] = s.pointers[j]
      BY <2>2 DEF Placed, Touched, OthersSame
    <3>2. /\ <<"shard", j>> \in t.work <=> <<"shard", j>> \in s.work
          /\ <<"report", j>> \in t.work <=> <<"report", j>> \in s.work
          /\ <<"replace", j>> \in t.work <=> <<"replace", j>> \in s.work
      BY <2>2 DEF Touched
    <3> QED
      BY <3>1, <3>2 DEF Traced, Touched
  <2> QED
    BY <2>1, <2>2
<1>7. Limited(t)
  <2>1. /\ s.resolving_shards \in Int /\ STORJ_DOWNLOAD_CONCURRENCY \in Int
        /\ s.resolving_shards <= STORJ_DOWNLOAD_CONCURRENCY
        /\ t.resolving_shards \in {s.resolving_shards, s.resolving_shards - 1}
    BY DownloadAssumption DEF StateType, Placed, Limited, Touched
  <2>2. t.resolving_shards <= STORJ_DOWNLOAD_CONCURRENCY
    BY <2>1
  <2> QED
    BY <2>2 DEF Placed, Limited, Touched
<1> QED
  BY <1>2, <1>3, <1>5, <1>6, <1>7 DEF Placed

(* A pointer of a state whose job was ended is set. *)
LEMMA SetTouched ==
  ASSUME NEW s \in StateType, NEW r \in StateType, NEW i \in Index, NEW job,
         Freed(s, r, job), r.truncated = s.truncated, NEW q
  PROVE  LET t == [r EXCEPT !.pointers[i] = q]
         IN  /\ Touched(s, t, i, job)
             /\ t.pointers[i] = q
             /\ t.error_status = s.error_status
             /\ t.fetched = s.fetched
<1>1. PICK t : t = [r EXCEPT !.pointers[i] = q]
  OBVIOUS
<1>2. /\ Kept(r, t) /\ SameStore(r, t)
      /\ t.work = r.work
      /\ t.pointers[i] = q
      /\ OthersSame(r, t, i)
  BY <1>1, Zenon DEF StateType, Kept, SameStore, OthersSame
<1>3. Touched(s, t, i, job) /\ t.error_status = s.error_status /\ t.fetched = s.fetched
  BY <1>2 DEF Kept, SameStore, OthersSame, Freed, Touched
<1> QED
  BY <1>1, <1>2, <1>3

-----------------------------------------------------------------------------
(* after_request_replace_pointer *)

LEMMA ReplacedPointerLeft ==
  ASSUME NEW s, Good(s), Placed(file, s), NEW i \in Index,
         <<"replace", i>> \in s.work,
         NEW t, Touched(s, t, i, <<"replace", i>>),
         NEW q \in PointerType, q = t.pointers[i],
         \/ q.status = POINTER_CREATED
         \/ q.status = POINTER_MISSING
         \/ q.status = POINTER_ERROR_REPORTED
         \/ q = s.pointers[i] /\ t.error_status # "OK",
         \/ q.send_status = 0 /\ q.send_count = 0 /\ q.timed = FALSE
         \/ SameReport(s.pointers[i], q) /\ q.status # POINTER_CREATED
  PROVE  Left(s, t)
<1>1. s \in StateType /\ s.total_pointers \in Nat
  BY DEF Good, StateType
<1>2. Traced(s, i, s.pointers[i]) /\ Owns(s, i, s.pointers[i])
  BY DEF Good, Placed
<1>3. /\ i < s.total_pointers
      /\ s.pointers[i].status \in {POINTER_BEING_REPLACED, POINTER_FINISHED}
      /\ <<"shard", i>> \notin s.work
      /\ s.pointers[i].send_status # 1
  BY <1>2 DEF Owns, Settled
<1>4. ~ (i >= t.total_pointers)
  BY <1>1, <1>3 DEF Touched, Index
<1>5. ~ Intact(s, i)
  BY <1>3 DEF Intact
<1>6. <<"shard", i>> \notin t.work /\ t.completed_shards = s.completed_shards
  BY <1>3 DEF Touched
<1>7. q.send_status # 1
  BY <1>3 DEF SameReport
<1>8. \/ q.status \in {POINTER_CREATED, POINTER_MISSING, POINTER_ERROR_REPORTED}
      \/ /\ q.status \in {POINTER_BEING_REPLACED, POINTER_FINISHED}
         /\ q.status = s.pointers[i].status
         /\ t.error_status # "OK"
  BY <1>3
<1>9. q.status = POINTER_CREATED =>
        q.send_status = 0 /\ q.send_count = 0 /\ q.timed = FALSE
  OBVIOUS
<1>10. q.status = POINTER_FINISHED => t.completed_shards # 0
  BY <1>2, <1>6, <1>8 DEF Traced
<1>11. Traced(t, i, q)
  BY <1>4, <1>6, <1>7, <1>8, <1>9, <1>10 DEF Traced
<1>12. Placed(file, t)
  BY <1>1, <1>5, <1>11, TouchedPlaced
<1>13. ASSUME NEW j \in Index
       PROVE  Moved(s, j, s.pointers[j].status, t.pointers[j].status)
  <2>1. CASE j = i
    BY <1>3, <2>1 DEF Moved
  <2>2. CASE j # i
    BY <2>2 DEF Moved, Touched, OthersSame
  <2> QED
    BY <2>1, <2>2
<1> QED
  BY <1>12, <1>13 DEF Left

LEMMA ReplacedLeft ==
  ASSUME NEW s, Good(s), Placed(file, s), NEW i \in Index,
         <<"replace", i>> \in s.work,
         NEW r \in StateType, Freed(s, r, <<"replace", i>>),
         r.truncated = s.truncated, NEW entry \in Entry
  PROVE  Left(s, Replaced(r, i, entry))
<1>1. PICK p \in PointerType : p = r.pointers[i]
  BY DEF StateType
<1>2. PICK yes \in BOOLEAN : yes = TRUE
  OBVIOUS
<1>3. PICK q : q = SetPointer(p, entry, yes)
  OBVIOUS
<1>4. q \in PointerType /\ q.status \in {POINTER_CREATED, POINTER_MISSING}
  BY <1>3, SetPointerPointer
<1>5. /\ q.send_status = 0 /\ q.send_count = 0 /\ q.timed = FALSE
  BY <1>3, SetPointerReport
<1>6. PICK t : t = [r EXCEPT !.pointers[i] = q]
  OBVIOUS
<1>7. t = Replaced(r, i, entry)
  BY <1>1, <1>2, <1>3, <1>6 DEF Replaced
<1>8. s \in StateType
  BY DEF Good
<1>9. Touched(s, t, i, <<"replace", i>>) /\ t.pointers[i] = q
  BY <1>6, <1>8, SetTouched
<1>10. q.status = POINTER_CREATED \/ q.status = POINTER_MISSING
  BY <1>4
<1>11. Left(s, t)
  BY <1>4, <1>5, <1>9, <1>10, ReplacedPointerLeft
<1> QED
  BY <1>7, <1>11

LEMMA MarkedLeft ==
  ASSUME NEW s, Good(s), Placed(file, s), NEW i \in Index,
         <<"replace", i>> \in s.work,
         NEW r \in StateType, Freed(s, r, <<"replace", i>>),
         r.truncated = s.truncated,
         NEW status \in {POINTER_MISSING, POINTER_ERROR_REPORTED}
  PROVE  Left(s, [r EXCEPT !.pointers[i] = Marked(r.pointers[i], status)])
<1>1. PICK p \in PointerType : p = r.pointers[i]
  BY DEF StateType
<1>2. PICK q : q = Marked(p, status)
  OBVIOUS
<1>3. status \in -4..4
  OBVIOUS
<1>4. q \in PointerType /\ q.status = status
  BY <1>2, <1>3, MarkedPointer
<1>5. SameReport(p, q)
  BY <1>2, <1>3, MarkedReport
<1>6. PICK t : t = [r EXCEPT !.pointers[i] = q]
  OBVIOUS
<1>7. s \in StateType
  BY DEF Good
<1>8. Touched(s, t, i, <<"replace", i>>) /\ t.pointers[i] = q
  BY <1>6, <1>7, SetTouched
<1>9. SameReport(s.pointers[i], q)
  BY <1>1, <1>5 DEF Freed
<1>10. /\ q.status = POINTER_MISSING \/ q.status = POINTER_ERROR_REPORTED
       /\ q.status # POINTER_CREATED
  BY <1>4
<1>11. Left(s, t)
  BY <1>4, <1>8, <1>9, <1>10, ReplacedPointerLeft
<1> QED
  BY <1>1, <1>2, <1>6, <1>11

LEMMA ReplacementRefusedLeft ==
  ASSUME NEW s, Good(s), Placed(file, s), NEW i \in Index,
         <<"replace", i>> \in s.work,
         NEW r \in StateType, Freed(s, r, <<"replace", i>>),
         r.truncated = s.truncated
  PROVE  Left(s, ReplacementRefused(r, i))
<1>1. PICK status \in {POINTER_MISSING, POINTER_ERROR_REPORTED} :
        status = POINTER_MISSING
  OBVIOUS
<1>2. PICK t : t = [r EXCEPT !.pointers[i] = Marked(r.pointers[i], status)]
  OBVIOUS
<1>3. Left(s, t)
  BY <1>2, MarkedLeft
<1>4. t = ReplacementRefused(r, i)
  BY <1>1, <1>2 DEF ReplacementRefused
<1> QED
  BY <1>3, <1>4

LEMMA ReplacementFailedLeft ==
  ASSUME NEW s, Good(s), Placed(file, s), NEW i \in Index,
         <<"replace", i>> \in s.work,
         NEW r \in StateType, Freed(s, r, <<"replace", i>>),
         r.truncated = s.truncated
  PROVE  Left(s, ReplacementFailed(r, i))
<1>1. PICK n \in Nat, status \in {POINTER_MISSING, POINTER_ERROR_REPORTED} :
        IF r.pointer_fail_count + 1 >= STORJ_MAX_POINTER_TRIES
        THEN n = 0 /\ status = POINTER_MISSING
        ELSE n = r.pointer_fail_count + 1 /\ status = POINTER_ERROR_REPORTED
  <2>1. r.pointer_fail_count + 1 \in Nat
    BY DEF StateType
  <2> QED
    BY <2>1
<1>2. PICK u : u = [r EXCEPT !.pointer_fail_count = n]
  OBVIOUS
<1>3. /\ u \in StateType
      /\ Kept(r, u) /\ SameStore(r, u) /\ u.work = r.work /\ u.pointers = r.pointers
  BY <1>2, Zenon DEF StateType, Kept, SameStore
<1>4. Freed(s, u, <<"replace", i>>) /\ u.truncated = s.truncated
  BY <1>3 DEF Freed, Kept, SameStore
<1>5. PICK t : t = [u EXCEPT !.pointers[i] = Marked(u.pointers[i], status)]
  OBVIOUS
<1>6. Left(s, t)
  BY <1>3, <1>4, <1>5, MarkedLeft
<1>7. t = [r EXCEPT !.pointer_fail_count = n,
                    !.pointers[i] = Marked(@, status)]
  BY <1>2, <1>5, Zenon DEF StateType
<1>8. t = ReplacementFailed(r, i)
  BY <1>1, <1>7 DEF ReplacementFailed
<1> QED
  BY <1>6, <1>8

(* A rate limit, or a malformed answer: the pointer stays as it was, but   *)
(* the download fails.                                                     *)
LEMMA ReplacementErrorLeft ==
  ASSUME NEW s, Good(s), Placed(file, s), NEW i \in Index,
         <<"replace", i>> \in s.work,
         NEW r \in StateType, Freed(s, r, <<"replace", i>>),
         r.truncated = s.truncated, NEW status, status # "OK"
  PROVE  Left(s, Fail(r, status))
<1>1. PICK t : t = Fail(r, status)
  OBVIOUS
<1>2. /\ SameStore(r, t)
      /\ t.info = r.info
      /\ t.completed_shards = r.completed_shards
      /\ t.total_pointers = r.total_pointers
      /\ t.total_parity_pointers = r.total_parity_pointers
      /\ t.rs = r.rs
      /\ t.truncated = r.truncated
      /\ t.pointers_completed = r.pointers_completed
      /\ t.error_status = status
      /\ t.canceled = r.canceled
      /\ t.dequeued = r.dequeued
      /\ t.work = r.work
      /\ t.pointers = r.pointers
  BY <1>1, FailFacts
<1>3. Touched(s, t, i, <<"replace", i>>) /\ t.pointers[i] = s.pointers[i]
  BY <1>2 DEF Freed, SameStore, Touched, OthersSame
<1>4. s.pointers[i] \in PointerType
  BY DEF Good, StateType
<1>5. Owns(s, i, s.pointers[i])
  BY DEF Good
<1>6. s.pointers[i].status # POINTER_CREATED
  BY <1>5 DEF Owns
<1>7. PICK q \in PointerType : q = s.pointers[i]
  BY <1>4
<1>8. SameReport(s.pointers[i], q) /\ q.status # POINTER_CREATED
  BY <1>6, <1>7 DEF SameReport
<1>9. q = t.pointers[i] /\ t.error_status # "OK"
  BY <1>2, <1>3, <1>7
<1>10. Left(s, t)
  BY <1>3, <1>7, <1>8, <1>9, ReplacedPointerLeft
<1> QED
  BY <1>1, <1>10


-----------------------------------------------------------------------------
(* after_request_shard *)

(* A result after_request_shard may be given: an error has its times, and  *)
(* only a job uv_cancel took out of the pool stores nothing without one.   *)
Plausible(s, i, result) ==
  /\ result \in [error : BOOLEAN, stored : BOOLEAN, timed : BOOLEAN]
  /\ result.error => result.timed
  /\ ~ result.error => result.stored \/ i \in s.dequeued

LEMMA ShardDoneFacts ==
  ASSUME NEW s \in StateType, NEW i \in Index, NEW result
  PROVE  LET t == ShardDone(Complete(s, <<"shard", i>>), i, result)
         IN  /\ Touched(s, t, i, <<"shard", i>>)
             /\ t.pointers[i] = Answered(s.pointers[i], result)
             /\ t.error_status = s.error_status
             /\ result.stored => i \in t.fetched
<1>1. PICK w, n : w = s.work \ {<<"shard", i>>} /\ n = s.pending_work_count - 1
  OBVIOUS
<1>2. PICK m : m = s.resolving_shards - 1
  OBVIOUS
<1>3. PICK d, g : /\ d = s.dequeued \ {i}
                  /\ g = IF result.stored THEN s.fetched \cup {i} ELSE s.fetched
  OBVIOUS
<1>4. PICK q : q = Answered(s.pointers[i], result)
  OBVIOUS
<1>5. PICK t : t = [[s EXCEPT !.work = w, !.pending_work_count = n] EXCEPT
                      !.resolving_shards = m, !.dequeued = d, !.fetched = g,
                      !.pointers[i] = q]
  OBVIOUS
<1>6. t = ShardDone(Complete(s, <<"shard", i>>), i, result)
  <2>1. PICK c : c = [s EXCEPT !.work = w, !.pending_work_count = n]
    OBVIOUS
  <2>2. c = Complete(s, <<"shard", i>>)
    BY <1>1, <2>1 DEF Complete
  <2>3. /\ c.resolving_shards = s.resolving_shards
        /\ c.dequeued = s.dequeued
        /\ c.fetched = s.fetched
        /\ c.pointers = s.pointers
    BY <2>1, Zenon DEF StateType
  <2>4. t = [c EXCEPT !.resolving_shards = m, !.dequeued = d, !.fetched = g,
                      !.pointers[i] = q]
    BY <1>5, <2>1
  <2> QED
    BY <1>2, <1>3, <1>4, <2>2, <2>3, <2>4 DEF ShardDone
<1>7. /\ t.work = w
      /\ t.resolving_shards = m
      /\ t.dequeued = d
      /\ t.fetched = g
      /\ t.zilch = s.zilch
      /\ t.pointers[i] = q
      /\ OthersSame(s, t, i)
  BY <1>5, ZenonT(60) DEF StateType, OthersSame
<1>8. /\ t.info = s.info
      /\ t.completed_shards = s.completed_shards
      /\ t.total_pointers = s.total_pointers
      /\ t.total_parity_pointers = s.total_parity_pointers
      /\ t.rs = s.rs
      /\ t.truncated = s.truncated
      /\ t.pointers_completed = s.pointers_completed
      /\ t.error_status = s.error_status
      /\ t.canceled = s.canceled
  BY <1>5, ZenonT(60) DEF StateType
<1>9. d \subseteq s.dequeued /\ s.fetched \subseteq g /\ (result.stored => i \in g)
  BY <1>3
<1>10. Touched(s, t, i, <<"shard", i>>)
  BY <1>1, <1>2, <1>7, <1>8, <1>9 DEF Touched
<1> QED
  BY <1>4, <1>6, <1>7, <1>8, <1>9, <1>10

LEMMA ShardDoneLeft ==
  ASSUME NEW s, Good(s), Placed(file, s), NEW i \in Index,
         <<"shard", i>> \in s.work, NEW result, Plausible(s, i, result)
  PROVE  Left(s, ShardDone(Complete(s, <<"shard", i>>), i, result))
<1>1. s \in StateType /\ s.total_pointers \in Nat
  BY DEF Good, StateType
<1>2. PICK t : t = ShardDone(Complete(s, <<"shard", i>>), i, result)
  OBVIOUS
<1>3. PICK p \in PointerType : p = s.pointers[i]
  BY <1>1 DEF StateType
<1>4. PICK q : q = Answered(p, result)
  OBVIOUS
<1>5. /\ Touched(s, t, i, <<"shard", i>>)
      /\ t.pointers[i] = q
      /\ t.error_status = s.error_status
      /\ result.stored => i \in t.fetched
  BY <1>1, <1>2, <1>3, <1>4, ShardDoneFacts
<1>6. result \in [error : BOOLEAN, stored : BOOLEAN, timed : BOOLEAN]
  BY DEF Plausible
<1>7. /\ q.timed = result.timed
      /\ q.send_count = p.send_count
      /\ q.status = IF result.error THEN POINTER_ERROR ELSE POINTER_DOWNLOADED
  BY <1>4, <1>6, AnsweredReport
<1>8. q.send_status = p.send_status
  BY <1>4, <1>6, AnsweredPointer
<1>9. Traced(s, i, p) /\ Owns(s, i, p)
  BY <1>3 DEF Good, Placed
<1>10. /\ i < s.total_pointers
       /\ p.status \in {POINTER_BEING_DOWNLOADED, POINTER_MISSING, POINTER_FINISHED}
       /\ p.send_status = 0 /\ p.send_count = 0
  BY <1>9 DEF Owns, Traced
<1>11. ~ (i >= t.total_pointers)
  BY <1>1, <1>5, <1>10 DEF Touched, Index
<1>12. 0 < STORJ_MAX_REPORT_TRIES
  BY DownloadAssumption
<1>13. ASSUME q.status = POINTER_ERROR
       PROVE  q.timed /\ q.send_status = 0 /\ q.send_count < STORJ_MAX_REPORT_TRIES
  <2>1. result.error
    BY <1>6, <1>7, <1>13
  <2>2. q.timed
    BY <1>7, <2>1 DEF Plausible
  <2>3. q.send_status = 0 /\ q.send_count < STORJ_MAX_REPORT_TRIES
    BY <1>7, <1>8, <1>10, <1>12
  <2> QED
    BY <2>2, <2>3
<1>14. ASSUME t.error_status = "OK", q.status = POINTER_DOWNLOADED
       PROVE  i \in t.fetched
  <2>1. ~ result.error
    BY <1>7, <1>14
  <2>2. s.dequeued = {}
    BY <1>5, <1>14 DEF Good, Placed, Limited
  <2> QED
    BY <1>5, <2>1, <2>2 DEF Plausible
<1>15. q.status \in {POINTER_ERROR, POINTER_DOWNLOADED}
  BY <1>7
<1>16. <<"shard", i>> \notin t.work
  BY <1>5 DEF Touched
<1>17. q.send_status # 1
  BY <1>8, <1>10
<1>18. Traced(t, i, q)
  BY <1>11, <1>13, <1>14, <1>15, <1>16, <1>17 DEF Traced
<1>19. ~ Intact(s, i)
  BY DEF Intact
<1>20. Placed(file, t)
  BY <1>1, <1>5, <1>18, <1>19, TouchedPlaced
<1>21. ASSUME NEW j \in Index
       PROVE  Moved(s, j, s.pointers[j].status, t.pointers[j].status)
  <2>1. CASE j = i
    BY <1>3, <1>5, <1>10, <1>15, <2>1 DEF Moved
  <2>2. CASE j # i
    BY <1>5, <2>2 DEF Moved, Touched, OthersSame
  <2> QED
    BY <2>1, <2>2
<1> QED
  BY <1>2, <1>20, <1>21 DEF Left

-----------------------------------------------------------------------------
(* after_send_exchange_report *)

LEMMA ReportDoneFacts ==
  ASSUME NEW s \in StateType, NEW i \in Index, NEW accepted
  PROVE  LET t == ReportDone(Complete(s, <<"report", i>>), i, accepted)
         IN  /\ Touched(s, t, i, <<"report", i>>)
             /\ t.pointers[i] = Reported(s.pointers[i], accepted)
             /\ t.error_status = s.error_status
             /\ t.fetched = s.fetched
<1>1. PICK w, n : w = s.work \ {<<"report", i>>} /\ n = s.pending_work_count - 1
  OBVIOUS
<1>2. PICK r : r = [s EXCEPT !.work = w, !.pending_work_count = n]
  OBVIOUS
<1>3. r = Complete(s, <<"report", i>>)
  BY <1>1, <1>2 DEF Complete
<1>4. /\ Kept(s, r) /\ SameStore(s, r)
      /\ r.work = w
      /\ r.pointers = s.pointers
  BY <1>2, Zenon DEF StateType, Kept, SameStore
<1>5. PICK q : q = Reported(s.pointers[i], accepted)
  OBVIOUS
<1>6. PICK t : t = [[s EXCEPT !.work = w, !.pending_work_count = n] EXCEPT
                      !.pointers[i] = q]
  OBVIOUS
<1>7. t = ReportDone(r, i, accepted)
  BY <1>2, <1>4, <1>5, <1>6 DEF ReportDone
<1>8. /\ Kept(s, t) /\ SameStore(s, t)
      /\ t.work = w
      /\ t.pointers[i] = q
      /\ OthersSame(s, t, i)
  BY <1>6, Zenon DEF StateType, Kept, SameStore, OthersSame
<1>9. Touched(s, t, i, <<"report", i>>) /\ t.error_status = s.error_status
  BY <1>1, <1>8 DEF Kept, SameStore, Touched
<1> QED
  BY <1>3, <1>5, <1>7, <1>8, <1>9 DEF SameStore

LEMMA ReportDoneLeft ==
  ASSUME NEW s, Good(s), Placed(file, s), NEW i \in Index,
         <<"report", i>> \in s.work, NEW accepted \in BOOLEAN
  PROVE  Left(s, ReportDone(Complete(s, <<"report", i>>), i, accepted))
<1>1. s \in StateType /\ s.total_pointers \in Nat
  BY DEF Good, StateType
<1>2. PICK t : t = ReportDone(Complete(s, <<"report", i>>), i, accepted)
  OBVIOUS
<1>3. PICK p \in PointerType : p = s.pointers[i]
  BY <1>1 DEF StateType
<1>4. PICK q : q = Reported(p, accepted)
  OBVIOUS
<1>5. /\ Touched(s, t, i, <<"report", i>>)
      /\ t.pointers[i] = q
      /\ t.error_status = s.error_status
      /\ t.fetched = s.fetched
  BY <1>1, <1>2, <1>3, <1>4, ReportDoneFacts
<1>6. /\ q.timed = p.timed
      /\ q.send_count = p.send_count
      /\ q.send_status = IF accepted THEN 2 ELSE 0
      /\ q.status = POINTER_ERROR =>
           ~ accepted /\ p.send_count < STORJ_MAX_REPORT_TRIES
  BY <1>4, ReportedReport
<1>7. \/ q.status = p.status
      \/ p.status = POINTER_ERROR /\ q.status = POINTER_ERROR_REPORTED
  BY <1>4, ReportedPointer
<1>8. Traced(s, i, p) /\ Owns(s, i, p)
  BY <1>3 DEF Good, Placed
<1>9. i < s.total_pointers /\ p.send_status = 1
  BY <1>8 DEF Owns
<1>10. ~ (i >= t.total_pointers)
  BY <1>1, <1>5, <1>9 DEF Touched, Index
<1>11. p.status # POINTER_CREATED /\ <<"shard", i>> \notin s.work
  BY <1>8, <1>9 DEF Traced
<1>12. /\ <<"shard", i>> \notin t.work
       /\ <<"replace", i>> \in s.work => <<"replace", i>> \in t.work
       /\ t.completed_shards = s.completed_shards
       /\ t.fetched = s.fetched
       /\ t.error_status = s.error_status
  BY <1>5, <1>11 DEF Touched
<1>13. q.send_status # 1
  BY <1>6
<1>14. ASSUME q.status = POINTER_ERROR
       PROVE  q.timed /\ q.send_status = 0 /\ q.send_count < STORJ_MAX_REPORT_TRIES
  <2>1. p.status = POINTER_ERROR
    BY <1>7, <1>14
  <2>2. q.timed
    BY <1>6, <1>8, <2>1 DEF Traced
  <2>3. q.send_status = 0
    BY <1>6, <1>14
  <2>4. q.send_count < STORJ_MAX_REPORT_TRIES
    BY <1>6, <1>14
  <2> QED
    BY <2>2, <2>3, <2>4
<1>15. i < s.total_pointers /\ t.total_pointers = s.total_pointers
  BY <1>5, <1>9 DEF Touched
<1>16. t.error_status = "OK" => q.status # POINTER_UNINITIALIZED
  <2>1. ~ (i >= s.total_pointers)
    BY <1>10, <1>15
  <2> QED
    BY <1>7, <1>8, <1>12, <2>1 DEF Traced
<1>17. /\ q.status # POINTER_CREATED
       /\ q.status # POINTER_BEING_DOWNLOADED
       /\ q.status = POINTER_FINISHED => t.completed_shards # 0
       /\ t.error_status = "OK" =>
            /\ q.status = POINTER_BEING_REPLACED => <<"replace", i>> \in t.work
            /\ q.status = POINTER_DOWNLOADED => i \in t.fetched
  BY <1>7, <1>8, <1>11, <1>12 DEF Traced
<1>18. Traced(t, i, q)
  BY <1>10, <1>12, <1>13, <1>14, <1>16, <1>17 DEF Traced
<1>19. Intact(s, i) => Intact(t, i)
  BY <1>3, <1>5, <1>7, <1>12 DEF Intact
<1>20. Placed(file, t)
  BY <1>1, <1>5, <1>18, <1>19, TouchedPlaced
<1>21. ASSUME NEW j \in Index
       PROVE  Moved(s, j, s.pointers[j].status, t.pointers[j].status)
  <2>1. CASE j = i
    BY <1>3, <1>5, <1>7, <2>1 DEF Moved
  <2>2. CASE j # i
    BY <1>5, <2>2 DEF Moved, Touched, OthersSame
  <2> QED
    BY <2>1, <2>2
<1> QED
  BY <1>2, <1>20, <1>21 DEF Left


-----------------------------------------------------------------------------
(* The invariant of the specification.                                     *)

FlowInv == IInv /\ Flow(file, state)

LEMMA NewStatePlaced == file \in Files => Placed(file, NewState)
<1> SUFFICES ASSUME file \in Files PROVE Placed(file, NewState)
  OBVIOUS
<1>1. PICK s : s = NewState
  OBVIOUS
<1>2. /\ s.total_pointers = 0
      /\ s.total_parity_pointers = 0
      /\ ~ s.pointers_completed
      /\ ~ s.info
      /\ s.completed_shards = 0
      /\ s.work = {}
      /\ s.dequeued = {}
      /\ s.resolving_shards = 0
      /\ \A i \in Index : s.pointers[i] = Uninitialized
  BY <1>1 DEF NewState
<1>3. file.shards \in Nat /\ STORJ_DOWNLOAD_CONCURRENCY \in Nat
  BY DownloadAssumption DEF FileType
<1>4. Allocated(s) = {}
  BY <1>2 DEF Allocated, Index
<1>5. Listed(file, s)
  <2>1. ParityAmong(file, Allocated(s)) = {}
    BY <1>4 DEF ParityAmong
  <2>2. Cardinality(ParityAmong(file, Allocated(s))) = 0
    BY <2>1, FS_EmptySet
  <2> QED
    BY <1>2, <1>3, <2>2 DEF Listed
<1>6. Informed(s) /\ Recovering(file, s)
  BY <1>2 DEF Informed, Recovering
<1>7. ASSUME NEW i \in Index PROVE Traced(s, i, s.pointers[i])
  <2>1. /\ Uninitialized.status = POINTER_UNINITIALIZED
        /\ Uninitialized.send_status = 0
    BY DEF Uninitialized
  <2>2. i >= s.total_pointers
    BY <1>2 DEF Index
  <2> QED
    BY <1>2, <1>7, <2>1, <2>2 DEF Traced
<1>8. Limited(s)
  BY <1>2, <1>3 DEF Limited
<1> QED
  BY <1>1, <1>5, <1>6, <1>7, <1>8 DEF Placed

LEMMA InitFlow == Init => FlowInv
<1> SUFFICES ASSUME Init PROVE FlowInv
  OBVIOUS
<1>1. IInv /\ file \in Files /\ state = queue_next_work(NewState)
  BY InitIInv DEF Init
<1>2. Good(NewState) /\ ~ NewState.finished
  BY NewStateLive DEF Live
<1>3. Placed(file, NewState)
  BY <1>1, NewStatePlaced
<1>4. Flow(file, queue_next_work(NewState))
  BY <1>1, <1>2, <1>3, queue_next_workFlows
<1> QED
  BY <1>1, <1>4 DEF FlowInv

(* What a step of the download does with each pointer: a callback first,   *)
(* and the queue_next_work that ends it.                                   *)
Passed(s, t) ==
  \E r : /\ \A i \in Index : Moved(s, i, s.pointers[i].status, r.pointers[i].status)
         /\ AllRequeued(r, t)

(* A callback that leaves the state r to queue_next_work. *)
LeftTo(job, r) ==
  /\ Done(state, job, r)
  /\ Left(state, r)
  /\ Step(r)

LEMMA StepFlows ==
  ASSUME FlowInv, NEW job, NEW r, LeftTo(job, r)
  PROVE  Flow(file, state') /\ file' = file /\ Passed(state, state')
<1>1. /\ file \in Files /\ Good(r) /\ ~ r.finished /\ Placed(file, r)
      /\ state' = queue_next_work(r) /\ file' = file
  BY DEF FlowInv, IInv, LeftTo, Done, Left, Step
<1>2. Flow(file, queue_next_work(r)) /\ AllRequeued(r, queue_next_work(r))
  BY <1>1, queue_next_workFlows
<1>3. \A i \in Index : Moved(state, i, state.pointers[i].status, r.pointers[i].status)
  BY DEF LeftTo, Left
<1> QED
  BY <1>1, <1>2, <1>3 DEF Passed

LEMMA AfterRequestPointersLeft ==
  ASSUME FlowInv, AfterRequestPointers
  PROVE  \E job, r : LeftTo(job, r)
<1> DEFINE job == <<"pointers", 0>>
<1>1. /\ job \in state.work /\ Good(state) /\ Placed(file, state) /\ 0 \in Index
      /\ state \in StateType /\ file \in Files
  BY DownloadAssumption
     DEF AfterRequestPointers, Outstanding, FlowInv, Flow, IInv, Good, Index
<1>2. PICK s : s = [Complete(state, job) EXCEPT !.requesting_pointers = FALSE]
  OBVIOUS
<1>3. Done(state, job, s)
  BY <1>1, <1>2, PointerJobDone
<1>4. Freed(state, s, job) /\ s.truncated = state.truncated
  BY <1>1, <1>2, PointerJobFreed
<1>5. s \in StateType /\ Good(s) /\ s.pointers = state.pointers /\ job \notin s.work
  BY <1>3, <1>4 DEF Done, Good, Freed
<1>6. Placed(file, s)
  <2>1. PICK kind \in {"pointers", "info", "recover"} : kind = "pointers"
    OBVIOUS
  <2>2. <<kind, 0>> \in state.work /\ Freed(state, s, <<kind, 0>>)
    BY <1>1, <1>4, <2>1
  <2>3. Truncated(state, s, kind)
    BY <1>4, <2>1 DEF Truncated
  <2>4. Good(state) /\ Placed(file, state)
    BY <1>1
  <2> QED
    BY <2>2, <2>3, <2>4, FreedPlaced
<1>7. Left(state, s)
  BY <1>5, <1>6, SameLeft
<1>8. \/ PointersAnswered(s)
      \/ Step(PointerRequestFailed(s))
      \/ Step(Fail(s, "BRIDGE"))
  BY <1>2 DEF AfterRequestPointers
<1>9. CASE PointersAnswered(s) /\ PageIndex(s) = {}
  <2>1. Left(state, [s EXCEPT !.pointers_completed = TRUE])
    BY <1>1, <1>5, <1>7, <1>9, ListEndLeft
  <2>2. Done(state, job, [s EXCEPT !.pointers_completed = TRUE])
    BY <1>3, ListEndDone
  <2> QED
    BY <1>9, <2>1, <2>2 DEF PointersAnswered, LeftTo
<1>10. CASE PointersAnswered(s) /\ PageIndex(s) # {}
  <2>1. PICK page \in [PageIndex(s) -> Entry] : Step(AppendPointers(s, page))
    BY <1>10 DEF PointersAnswered
  <2>2. ~ s.pointers_completed
    BY <1>1, <1>4 DEF Placed, Listed, Freed
  <2>3. Left(state, AppendPointers(s, page))
    BY <1>1, <1>5, <1>7, <2>2, AppendPointersLeft
  <2>4. Done(state, job, AppendPointers(s, page))
    BY <1>3, AppendPointersDone
  <2> QED
    BY <2>1, <2>3, <2>4 DEF LeftTo
<1>11. CASE Step(PointerRequestFailed(s))
  <2>1. Left(state, PointerRequestFailed(s))
    BY <1>5, <1>7, PointerRequestFailedLeft
  <2>2. Done(state, job, PointerRequestFailed(s))
    BY <1>3, PointerRequestFailedDone
  <2> QED
    BY <1>11, <2>1, <2>2 DEF LeftTo
<1>12. CASE Step(Fail(s, "BRIDGE"))
  <2>1. Left(state, Fail(s, "BRIDGE"))
    BY <1>5, <1>7, FailLeft
  <2>2. Done(state, job, Fail(s, "BRIDGE"))
    BY <1>3, FailDone DEF ErrorStatus
  <2> QED
    BY <1>12, <2>1, <2>2 DEF LeftTo
<1> QED
  BY <1>8, <1>9, <1>10, <1>11, <1>12

LEMMA AfterRequestReplacePointerLeft ==
  ASSUME FlowInv, NEW i \in Index, AfterRequestReplacePointer(i)
  PROVE  \E job, r : LeftTo(job, r)
<1> DEFINE job == <<"replace", i>>
<1>1. /\ job \in state.work /\ Good(state) /\ Placed(file, state)
      /\ state \in StateType
  BY DEF AfterRequestReplacePointer, Outstanding, FlowInv, Flow, IInv, Good
<1>2. PICK s : s = [Complete(state, job) EXCEPT !.requesting_pointers = FALSE]
  OBVIOUS
<1>3. Done(state, job, s)
  BY <1>1, <1>2, PointerJobDone
<1>4. Freed(state, s, job) /\ s.truncated = state.truncated
  BY <1>1, <1>2, PointerJobFreed
<1>5. s \in StateType /\ s.pointers = state.pointers
  BY <1>3, <1>4 DEF Done, Good, Freed
<1>6. \/ \E entry \in Entry \ {"malformed"} :
           Step(Replaced(s, i, entry)) \/ Step(Fail(Replaced(s, i, entry), "BRIDGE"))
      \/ Step(ReplacementRefused(s, i))
      \/ Step(ReplacementFailed(s, i))
      \/ Step(Fail(s, "BRIDGE"))
  BY <1>2 DEF AfterRequestReplacePointer
<1>7. "BRIDGE" \in ErrorStatus \ {"OK"} /\ "BRIDGE" # "OK"
  BY DEF ErrorStatus
<1>8. ASSUME NEW entry \in Entry,
             Step(Replaced(s, i, entry)) \/ Step(Fail(Replaced(s, i, entry), "BRIDGE"))
      PROVE  \E k, r : LeftTo(k, r)
  <2>1. PICK r : r = Replaced(s, i, entry)
    OBVIOUS
  <2>2. Done(state, job, r) /\ r \in StateType
    BY <1>1, <1>3, <1>5, <2>1, ReplacedDone DEF Done, Good
  <2>3. Left(state, r)
    BY <1>1, <1>4, <1>5, <2>1, ReplacedLeft
  <2>4. Done(state, job, Fail(r, "BRIDGE"))
    BY <1>7, <2>2, FailDone
  <2>5. Left(state, Fail(r, "BRIDGE"))
    BY <1>7, <2>2, <2>3, FailLeft
  <2>6. Step(r) \/ Step(Fail(r, "BRIDGE"))
    BY <1>8, <2>1
  <2> QED
    BY <2>2, <2>3, <2>4, <2>5, <2>6 DEF LeftTo
<1>9. CASE Step(ReplacementRefused(s, i))
  <2>1. Done(state, job, ReplacementRefused(s, i))
    BY <1>1, <1>3, <1>5, ReplacementRefusedDone
  <2>2. Left(state, ReplacementRefused(s, i))
    BY <1>1, <1>4, <1>5, ReplacementRefusedLeft
  <2> QED
    BY <1>9, <2>1, <2>2 DEF LeftTo
<1>10. CASE Step(ReplacementFailed(s, i))
  <2>1. Done(state, job, ReplacementFailed(s, i))
    BY <1>1, <1>3, <1>5, ReplacementFailedDone
  <2>2. Left(state, ReplacementFailed(s, i))
    BY <1>1, <1>4, <1>5, ReplacementFailedLeft
  <2> QED
    BY <1>10, <2>1, <2>2 DEF LeftTo
<1>11. CASE Step(Fail(s, "BRIDGE"))
  <2>1. Done(state, job, Fail(s, "BRIDGE"))
    BY <1>3, <1>7, FailDone
  <2>2. Left(state, Fail(s, "BRIDGE"))
    BY <1>1, <1>4, <1>5, <1>7, ReplacementErrorLeft
  <2> QED
    BY <1>11, <2>1, <2>2 DEF LeftTo
<1> QED
  BY <1>6, <1>8, <1>9, <1>10, <1>11

LEMMA AfterRequestShardLeft ==
  ASSUME FlowInv, NEW i \in Index, AfterRequestShard(i)
  PROVE  \E job, r : LeftTo(job, r)
<1> DEFINE job == <<"shard", i>>
<1>1. job \in state.work /\ Good(state) /\ Placed(file, state)
  BY DEF AfterRequestShard, Outstanding, FlowInv, Flow, IInv
<1>2. PICK result \in ShardResult(i) :
        Step(ShardDone(Complete(state, job), i, result))
  BY DEF AfterRequestShard
<1>3. Plausible(state, i, result)
  <2>1. CASE i \in state.dequeued
    <3>1. result \in [error : {FALSE}, stored : {FALSE}, timed : BOOLEAN]
      BY <2>1, Zenon DEF ShardResult
    <3> QED
      BY <2>1, <3>1 DEF Plausible
  <2>2. CASE i \notin state.dequeued
    <3>1. \/ result = [error |-> FALSE, stored |-> TRUE, timed |-> TRUE]
          \/ result = [error |-> TRUE, stored |-> FALSE, timed |-> TRUE]
      BY <2>2, Zenon DEF ShardResult
    <3>2. CASE result = [error |-> FALSE, stored |-> TRUE, timed |-> TRUE]
      BY <3>2 DEF Plausible
    <3>3. CASE result = [error |-> TRUE, stored |-> FALSE, timed |-> TRUE]
      BY <3>3 DEF Plausible
    <3> QED
      BY <3>1, <3>2, <3>3
  <2> QED
    BY <2>1, <2>2
<1>4. Done(state, job, ShardDone(Complete(state, job), i, result))
  <2>1. result \in [error : BOOLEAN, stored : BOOLEAN, timed : BOOLEAN]
    BY <1>3 DEF Plausible
  <2> QED
    BY <1>1, <2>1, ShardDoneDone
<1>5. Left(state, ShardDone(Complete(state, job), i, result))
  BY <1>1, <1>3, ShardDoneLeft
<1> QED
  BY <1>2, <1>4, <1>5 DEF LeftTo

LEMMA AfterSendExchangeReportLeft ==
  ASSUME FlowInv, NEW i \in Index, AfterSendExchangeReport(i)
  PROVE  \E job, r : LeftTo(job, r)
<1> DEFINE job == <<"report", i>>
<1>1. job \in state.work /\ Good(state) /\ Placed(file, state)
  BY DEF AfterSendExchangeReport, Outstanding, FlowInv, Flow, IInv
<1>2. PICK accepted \in BOOLEAN :
        Step(ReportDone(Complete(state, job), i, accepted))
  BY DEF AfterSendExchangeReport
<1>3. Done(state, job, ReportDone(Complete(state, job), i, accepted))
  BY <1>1, ReportDoneDone
<1>4. Left(state, ReportDone(Complete(state, job), i, accepted))
  BY <1>1, ReportDoneLeft
<1> QED
  BY <1>2, <1>3, <1>4 DEF LeftTo

LEMMA AfterRequestInfoLeft ==
  ASSUME FlowInv, AfterRequestInfo
  PROVE  \E job, r : LeftTo(job, r)
<1> DEFINE job == <<"info", 0>>
<1>1. job \in state.work /\ Good(state) /\ Placed(file, state) /\ state \in StateType
  BY DEF AfterRequestInfo, Outstanding, FlowInv, Flow, IInv, Good
<1>2. PICK s : s = [Complete(state, job) EXCEPT !.requesting_info = FALSE]
  OBVIOUS
<1>3. Done(state, job, s)
  BY <1>1, <1>2, InfoJobDone
<1>4. Freed(state, s, job) /\ s.truncated = state.truncated
  BY <1>1, <1>2, InfoJobFreed
<1>5. s \in StateType /\ s.pointers = state.pointers /\ job \notin s.work
  BY <1>3, <1>4 DEF Done, Good, Freed
<1>6. Placed(file, s)
  <2>1. PICK kind \in {"pointers", "info", "recover"} : kind = "info"
    OBVIOUS
  <2>2. <<kind, 0>> \in state.work /\ Freed(state, s, <<kind, 0>>)
    BY <1>1, <1>4, <2>1
  <2>3. Truncated(state, s, kind)
    BY <1>4, <2>1 DEF Truncated
  <2>4. Good(state) /\ Placed(file, state)
    BY <1>1
  <2> QED
    BY <2>2, <2>3, <2>4, FreedPlaced
<1>7. Left(state, s)
  BY <1>5, <1>6, SameLeft
<1>8. \/ \E key \in BOOLEAN : Step(InfoAnswered(s, key))
      \/ Step(InfoRequestFailed(s))
      \/ Step(Fail(s, "BRIDGE"))
  BY <1>2 DEF AfterRequestInfo
<1>9. s.completed_shards = 0 /\ <<"recover", 0>> \notin s.work
  BY <1>1, <1>4 DEF Placed, Informed, Freed
<1>10. ASSUME NEW key \in BOOLEAN, Step(InfoAnswered(s, key))
       PROVE  \E k, r : LeftTo(k, r)
  <2>1. Left(state, InfoAnswered(s, key))
    BY <1>5, <1>7, <1>9, InfoAnsweredLeft
  <2>2. Done(state, job, InfoAnswered(s, key))
    BY <1>3, InfoAnsweredDone
  <2> QED
    BY <1>10, <2>1, <2>2 DEF LeftTo
<1>11. CASE Step(InfoRequestFailed(s))
  <2>1. Left(state, InfoRequestFailed(s))
    BY <1>5, <1>7, InfoRequestFailedLeft
  <2>2. Done(state, job, InfoRequestFailed(s))
    BY <1>3, InfoRequestFailedDone
  <2> QED
    BY <1>11, <2>1, <2>2 DEF LeftTo
<1>12. CASE Step(Fail(s, "BRIDGE"))
  <2>1. Left(state, Fail(s, "BRIDGE"))
    BY <1>5, <1>7, FailLeft
  <2>2. Done(state, job, Fail(s, "BRIDGE"))
    BY <1>3, FailDone DEF ErrorStatus
  <2> QED
    BY <1>12, <2>1, <2>2 DEF LeftTo
<1> QED
  BY <1>8, <1>10, <1>11, <1>12

LEMMA AfterRecoverShardsLeft ==
  ASSUME FlowInv, AfterRecoverShards
  PROVE  \E job, r : LeftTo(job, r)
<1> DEFINE job == <<"recover", 0>>
<1>1. job \in state.work /\ Good(state) /\ Placed(file, state) /\ state \in StateType
  BY DEF AfterRecoverShards, Outstanding, FlowInv, Flow, IInv, Good
<1>2. PICK s : s = [Complete(state, job) EXCEPT !.recovering_shards = FALSE,
                                               !.truncated = TRUE]
  OBVIOUS
<1>3. Done(state, job, s)
  BY <1>1, <1>2, RecoverJobDone
<1>4. Freed(state, s, job) /\ s.truncated
  BY <1>1, <1>2, RecoverJobFreed
<1>5. s \in StateType /\ s.pointers = state.pointers /\ job \notin s.work
  BY <1>3, <1>4 DEF Done, Good, Freed
<1>6. Placed(file, s)
  <2>1. PICK kind \in {"pointers", "info", "recover"} : kind = "recover"
    OBVIOUS
  <2>2. <<kind, 0>> \in state.work /\ Freed(state, s, <<kind, 0>>)
    BY <1>1, <1>4, <2>1
  <2>3. Truncated(state, s, kind)
    BY <1>4, <2>1 DEF Truncated
  <2>4. Good(state) /\ Placed(file, state)
    BY <1>1
  <2> QED
    BY <2>2, <2>3, <2>4, FreedPlaced
<1>7. Left(state, s)
  BY <1>5, <1>6, SameLeft
<1>8. Step(Recovered(s)) \/ Step(Fail(s, "RECOVERY"))
  BY <1>2 DEF AfterRecoverShards
<1>9. s.info /\ s.pointers_completed /\ s.completed_shards = 0
  BY <1>1, <1>4 DEF Placed, Informed, Freed
<1>10. CASE Step(Recovered(s))
  <2>1. Left(state, Recovered(s))
    BY <1>4, <1>5, <1>7, <1>9, RecoveredLeft
  <2>2. Done(state, job, Recovered(s))
    BY <1>3, RecoveredDone
  <2> QED
    BY <1>10, <2>1, <2>2 DEF LeftTo
<1>11. CASE Step(Fail(s, "RECOVERY"))
  <2>1. Left(state, Fail(s, "RECOVERY"))
    BY <1>5, <1>7, FailLeft
  <2>2. Done(state, job, Fail(s, "RECOVERY"))
    BY <1>3, FailDone DEF ErrorStatus
  <2> QED
    BY <1>11, <2>1, <2>2 DEF LeftTo
<1> QED
  BY <1>8, <1>10, <1>11

LEMMA AfterWorkFlows ==
  ASSUME FlowInv, AfterWork
  PROVE  Flow(file, state') /\ file' = file /\ Passed(state, state')
<1>1. PICK job, r : LeftTo(job, r)
  BY AfterRequestPointersLeft, AfterRequestReplacePointerLeft,
     AfterRequestShardLeft, AfterSendExchangeReportLeft,
     AfterRequestInfoLeft, AfterRecoverShardsLeft DEF AfterWork
<1> QED
  BY <1>1, StepFlows

(* storj_bridge_resolve_file_cancel moves no pointer. *)
LEMMA ResolveFileCancelFlows ==
  ASSUME FlowInv, ResolveFileCancel
  PROVE  Flow(file, state') /\ file' = file /\ state'.pointers = state.pointers
<1>1. /\ state \in StateType /\ Placed(file, state) /\ Ended(file, state)
      /\ ~ state.finished /\ file' = file
  BY DEF FlowInv, Flow, IInv, Good, ResolveFileCancel
<1>2. PICK t : t = state'
  OBVIOUS
<1>3. t.callbacks = << >> /\ t.work = state.work
  BY <1>2, ResolveFileCancelGood DEF FlowInv
<1>4. PICK dequeued :
        t = [state EXCEPT !.canceled = TRUE, !.error_status = "CANCELED",
                          !.dequeued = dequeued]
  BY <1>2 DEF ResolveFileCancel
<1>5. /\ SameStore(state, t)
      /\ t.info = state.info
      /\ t.completed_shards = state.completed_shards
      /\ t.total_pointers = state.total_pointers
      /\ t.total_parity_pointers = state.total_parity_pointers
      /\ t.rs = state.rs
      /\ t.truncated = state.truncated
      /\ t.pointers_completed = state.pointers_completed
      /\ t.error_status = "CANCELED"
      /\ t.canceled = TRUE
      /\ t.pointers = state.pointers
  BY <1>1, <1>4, Zenon DEF StateType, SameStore
<1>6. Recolored(state, t)
  BY <1>3, <1>5 DEF Recolored
<1>7. Placed(file, t)
  BY <1>1, <1>6, RecoloredPlaced
<1>8. Served(t)
  BY <1>5 DEF Served
<1>9. ASSUME t.work = {} PROVE Stalled(t)
  <2>1. Stalled(state)
    BY <1>1, <1>3, <1>9 DEF Ended
  <2> QED
    BY <1>5, <2>1 DEF Stalled, Missing, WithStatus, Allocated
<1>10. Ended(file, t)
  BY <1>3, <1>9 DEF Ended
<1> QED
  BY <1>1, <1>2, <1>5, <1>7, <1>8, <1>10 DEF Flow

LEMMA NextFlow == FlowInv /\ [Next]_vars => FlowInv'
<1> SUFFICES ASSUME FlowInv, [Next]_vars PROVE FlowInv'
  OBVIOUS
<1>1. IInv'
  BY NextIInv DEF FlowInv
<1>2. Flow(file, state') /\ file' = file
  <2>1. CASE AfterWork
    BY <2>1, AfterWorkFlows
  <2>2. CASE ResolveFileCancel
    BY <2>2, ResolveFileCancelFlows
  <2>3. CASE UNCHANGED vars
    BY <2>3 DEF FlowInv, vars
  <2> QED
    BY <2>1, <2>2, <2>3 DEF Next
<1>3. Flow(file', state')
  BY <1>2
<1> QED
  BY <1>1, <1>3 DEF FlowInv


(* The pointers are placed, served and ended as queue_next_work leaves     *)
(* them in every state of a download: what the properties below are read   *)
(* off from.                                                               *)
THEOREM FlowInvariance == Spec => []FlowInv
  BY InitFlow, NextFlow, PTL DEF Spec

-----------------------------------------------------------------------------
(* The properties.                                                         *)

LEMMA NoErasure ==
  ASSUME NEW S \in SUBSET Index, Cardinality(S) <= 0
  PROVE  S = {}
<1>1. IsFiniteSet(S) /\ Cardinality(S) \in Nat
  BY IndexFinite, FS_Subset, FS_CardinalityType
<1>2. Cardinality(S) = 0
  BY <1>1
<1> QED
  BY <1>1, <1>2, FS_EmptySet

LEMMA RecoverySoundHolds == FlowInv => RecoverySound
<1> SUFFICES ASSUME FlowInv, Outstanding("recover", 0)
             PROVE  /\ Allocated(state) \ state.zilch \subseteq state.fetched
                    /\ state.total_pointers = file.shards
                    /\ Cardinality(state.zilch)
                         <= IF state.rs THEN file.parity ELSE 0
                    /\ \A i \in Index :
                         Outstanding("shard", i) => state.rs /\ i \in state.zilch
  BY DEF RecoverySound
<1>1. /\ Good(state) /\ Placed(file, state) /\ state.zilch \in SUBSET Index
      /\ <<"recover", 0>> \in state.work
  BY DEF FlowInv, Flow, IInv, Good, StateType, Outstanding
<1>2. /\ Cardinality(state.zilch) <= IF state.rs THEN file.parity ELSE 0
      /\ \A i \in Allocated(state) \ state.zilch : Intact(state, i)
  BY <1>1 DEF Placed, Recovering
<1>3. Allocated(state) \ state.zilch \subseteq state.fetched
  BY <1>2 DEF Intact
<1>4. state.total_pointers = file.shards
  BY <1>1 DEF Placed, Informed, Listed
<1>5. ASSUME NEW i \in Index, Outstanding("shard", i)
      PROVE  state.rs /\ i \in state.zilch
  <2>1. Owns(state, i, state.pointers[i]) /\ <<"shard", i>> \in state.work
    BY <1>1, <1>5 DEF Good, Outstanding
  <2>2. i \in Allocated(state)
    BY <2>1 DEF Owns, Allocated
  <2>3. i \in state.zilch
    BY <1>2, <2>1, <2>2 DEF Intact
  <2>4. ~ state.rs => state.zilch = {}
    BY <1>1, <1>2, NoErasure
  <2> QED
    BY <2>3, <2>4
<1> QED
  BY <1>2, <1>3, <1>4, <1>5

(* recover_shards reads as they are only shards that are whole in the      *)
(* destination file and that no download writes to, and is given no more   *)
(* erasures than the parity shards can make up for.                        *)
THEOREM RecoveryReadsWhole == Spec => []RecoverySound
  BY RecoverySoundHolds, FlowInvariance, PTL

LEMMA SuccessMeansWholeFileHolds == FlowInv => SuccessMeansWholeFile
<1> SUFFICES ASSUME FlowInv, state.callbacks = <<"OK">>
             PROVE  /\ state.completed_shards = file.shards
                    /\ file.shards > 0 => state.info
                    /\ state.info => file.integrity # "mismatch"
                    /\ ~ state.canceled
  BY DEF SuccessMeansWholeFile
<1>1. /\ AllRecovered(state) /\ state.error_status = "OK"
      /\ state.info => file.integrity # "mismatch"
      /\ Placed(file, state) /\ Good(state)
  BY DEF FlowInv, Flow, IInv, Ended
<1>2. state.completed_shards = file.shards
  BY <1>1 DEF AllRecovered, Placed, Listed
<1>3. file.shards > 0 => state.info
  <2>1. file.shards \in Nat
    BY DownloadAssumption DEF FlowInv, IInv, FileType
  <2>2. file.shards > 0 => state.completed_shards # 0
    BY <1>2, <2>1
  <2> QED
    BY <1>1, <2>2 DEF Placed, Informed
<1>4. ~ state.canceled
  BY <1>1 DEF Good
<1> QED
  BY <1>1, <1>2, <1>3, <1>4

(* When queue_next_work calls finished_cb without an error, every shard    *)
(* the bridge lists has been recovered, the info had arrived, the hmac is  *)
(* not known to be wrong and the download was not canceled.                *)
THEOREM SuccessIsWholeFile == Spec => []SuccessMeansWholeFile
  BY SuccessMeansWholeFileHolds, FlowInvariance, PTL

LEMMA NoForgottenPointerHolds == FlowInv => NoForgottenPointer
<1> SUFFICES ASSUME FlowInv PROVE NoForgottenPointer
  OBVIOUS
<1>1. /\ Good(state) /\ Placed(file, state) /\ Served(state)
  BY DEF FlowInv, Flow, IInv
<1>2. Cardinality(JobsOf(state, {"shard"})) <= STORJ_DOWNLOAD_CONCURRENCY
  BY <1>1 DEF Good, Counted, Placed, Limited
<1>3. ASSUME state.error_status = "OK", ~ AllRecovered(state),
             NEW i \in Allocated(state)
      PROVE  LET p == state.pointers[i] IN
             /\ p.status = POINTER_CREATED =>
                  \/ Outstanding("info", 0)
                  \/ state.resolving_shards >= STORJ_DOWNLOAD_CONCURRENCY
             /\ p.status = POINTER_BEING_DOWNLOADED => Outstanding("shard", i)
             /\ p.status = POINTER_ERROR => Outstanding("report", i)
             /\ p.status = POINTER_BEING_REPLACED => Outstanding("replace", i)
             /\ p.status = POINTER_ERROR_REPORTED =>
                  state.requesting_pointers \/ Missing(state) # {}
  <2>1. Waits(state, i)
    BY <1>1, <1>3 DEF Served
  <2>2. Traced(state, i, state.pointers[i])
    BY <1>1 DEF Placed, Allocated
  <2> QED
    BY <1>3, <2>1, <2>2 DEF Waits, Traced, Outstanding
<1> QED
  BY <1>2, <1>3 DEF NoForgottenPointer

(* After every callback, each pointer in a passing status has its job      *)
(* outstanding, or waits for the info, for a slot in use or behind a       *)
(* pointer given up; and no more slots are used than there are.            *)
THEOREM PointersCared == Spec => []NoForgottenPointer
  BY NoForgottenPointerHolds, FlowInvariance, PTL

LEMMA IdleOnlyWhenDoneHolds == FlowInv => IdleOnlyWhenDone
  BY DEF FlowInv, Flow, Ended, Stalled, IdleOnlyWhenDone, StalledByGivingUp

(* A download with no job outstanding has called finished_cb, or has       *)
(* stalled in the one way there is: behind a pointer of a Reed-Solomon     *)
(* file that queue_request_pointers has just given up.                     *)
THEOREM StallsOneWay == Spec => []IdleOnlyWhenDone
  BY IdleOnlyWhenDoneHolds, FlowInvariance, PTL

(* The two halves of a step, put together.                                 *)
LEMMA PassedForward ==
  ASSUME NEW s, NEW i, NEW old \in -4..4, NEW mid, NEW new,
         Moved(s, i, old, mid), Requeued(mid, new)
  PROVE  /\ old >= POINTER_CREATED =>
              \/ new >= old \/ new = POINTER_ERROR
              \/ /\ old \in {POINTER_MISSING, POINTER_FINISHED}
                 /\ <<"shard", i>> \in s.work \/ <<"replace", i>> \in s.work
         /\ old \in {POINTER_ERROR, POINTER_ERROR_REPORTED} =>
              new <= old \/ new \in {POINTER_MISSING, POINTER_FINISHED}
<1>1. CASE mid = old
  BY <1>1 DEF Requeued
<1>2. CASE old = POINTER_UNINITIALIZED
  BY <1>2
<1>3. CASE /\ <<"replace", i>> \in s.work
           /\ old \in {POINTER_BEING_REPLACED, POINTER_FINISHED}
  BY <1>3
<1>4. CASE /\ <<"shard", i>> \in s.work
           /\ old \in {POINTER_BEING_DOWNLOADED, POINTER_MISSING, POINTER_FINISHED}
           /\ mid \in {POINTER_ERROR, POINTER_DOWNLOADED}
  <2>1. CASE old = POINTER_BEING_DOWNLOADED
    <3>1. new \in {POINTER_ERROR, POINTER_DOWNLOADED, POINTER_MISSING}
      BY <1>4 DEF Requeued
    <3> QED
      BY <2>1, <3>1
  <2>2. CASE old \in {POINTER_MISSING, POINTER_FINISHED}
    BY <1>4, <2>2
  <2> QED
    BY <1>4, <2>1, <2>2
<1>5. CASE old = POINTER_ERROR /\ mid = POINTER_ERROR_REPORTED
  <2>1. new \in {POINTER_ERROR_REPORTED, POINTER_MISSING, POINTER_BEING_REPLACED}
    BY <1>5 DEF Requeued
  <2> QED
    BY <1>5, <2>1
<1>6. CASE mid = POINTER_FINISHED
  <2>1. new = POINTER_FINISHED
    BY <1>6 DEF Requeued
  <2> QED
    BY <2>1
<1> QED
  BY <1>1, <1>2, <1>3, <1>4, <1>5, <1>6 DEF Moved

(* storj_pointer_status_t: a pointer moves forward until an error, then    *)
(* back until it is replaced; but for one given up while its shard is on   *)
(* the way, whose late answer moves it on.                                 *)
THEOREM PointersForward == Spec => PointersMoveForward
<1>1. ASSUME FlowInv, [Next]_vars
      PROVE  [\A i \in Index : MovesForward(i)]_vars
  <2>1. SUFFICES ASSUME Next PROVE \A i \in Index : MovesForward(i)
    BY <1>1
  <2>2. TAKE i \in Index
  <2>3. PICK old, new : old = state.pointers[i].status /\ new = state'.pointers[i].status
    OBVIOUS
  <2>4. old \in -4..4
    BY <1>1, <2>3 DEF FlowInv, IInv, Good, StateType, PointerType
  <2>5. CASE AfterWork
    <3>1. Passed(state, state')
      BY <1>1, <2>5, AfterWorkFlows
    <3>2. PICK mid : Moved(state, i, old, mid) /\ Requeued(mid, new)
      BY <2>3, <3>1 DEF Passed, AllRequeued
    <3>3. /\ old >= POINTER_CREATED =>
              \/ new >= old \/ new = POINTER_ERROR
              \/ /\ old \in {POINTER_MISSING, POINTER_FINISHED}
                 /\ <<"shard", i>> \in state.work \/ <<"replace", i>> \in state.work
          /\ old \in {POINTER_ERROR, POINTER_ERROR_REPORTED} =>
               new <= old \/ new \in {POINTER_MISSING, POINTER_FINISHED}
      BY <2>4, <3>2, PassedForward
    <3> QED
      BY <2>3, <3>3 DEF MovesForward, Outstanding
  <2>6. CASE ResolveFileCancel
    <3>1. new = old
      BY <1>1, <2>3, <2>6, ResolveFileCancelFlows
    <3> QED
      BY <2>3, <2>4, <3>1 DEF MovesForward
  <2> QED
    BY <2>1, <2>5, <2>6 DEF Next
<1> QED
  BY <1>1, FlowInvariance, PTL DEF Spec, PointersMoveForward

=============================================================================
