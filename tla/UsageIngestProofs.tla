------------------------- MODULE UsageIngestProofs -------------------------
(***************************************************************************)
(* Exactly-once metering, for any number of workers, jobs and faults, and  *)
(* the lease that keeps the workers apart.                                 *)
(***************************************************************************)
EXTENDS UsageWindow, BackgroundJobLease, SequenceTheorems, FiniteSums, TLAPS

\* Leaving one position out keeps the kind of the elements.
LEMMA RemoveAtType ==
  ASSUME NEW S, NEW s \in Seq(S), NEW k \in 1..Len(s)
  PROVE  RemoveAt(s, k) \in Seq(S)
<1>1. Len(s) \in Nat /\ \A i \in 1..Len(s) : s[i] \in S
  BY LenProperties, ElementOfSeq
<1>2. SubSeq(s, 1, k - 1) \in Seq(S)
  <2>1. k - 1 \in Int /\ \A i \in 1..(k - 1) : s[i] \in S
    BY <1>1
  <2>2. QED
    BY <2>1, SubSeqProperties
<1>3. SubSeq(s, k + 1, Len(s)) \in Seq(S)
  <2>1. k + 1 \in Int /\ Len(s) \in Int /\ \A i \in (k + 1)..Len(s) : s[i] \in S
    BY <1>1
  <2>2. QED
    BY <2>1, SubSeqProperties
<1>4. QED
  BY <1>2, <1>3, ConcatProperties DEF RemoveAt

\* Taking a job out of the due list leaves a list of the same kind of jobs.
LEMMA WithoutType ==
  ASSUME NEW S, NEW s \in Seq(S), NEW j
  PROVE  Without(s, j) \in Seq(S)
<1>1. CASE Contains(s, j)
  <2>1. (CHOOSE i \in DOMAIN s : s[i] = j) \in 1..Len(s)
    BY <1>1, LenProperties DEF Contains
  <2>2. QED
    BY <1>1, <2>1, RemoveAtType DEF Without
<1>2. CASE ~Contains(s, j)
  BY <1>2 DEF Without
<1>3. QED
  BY <1>1, <1>2

\* The batch Fetch takes consists of due jobs.
LEMMA BatchType ==
  ASSUME NEW S, NEW s \in Seq(S)
  PROVE  LET n == IF Len(s) < BatchSize THEN Len(s) ELSE BatchSize IN
         /\ SubSeq(s, 1, n) \in Seq(S)
         /\ n # 0 => SubSeq(s, 1, n) # <<>>
<1> DEFINE n == IF Len(s) < BatchSize THEN Len(s) ELSE BatchSize
<1>1. n \in 0..Len(s)
  BY LenProperties, BatchSizeAssumption
<1>2. \A i \in 1..n : s[i] \in S
  BY <1>1, LenProperties, ElementOfSeq
<1>3. n \in Int
  BY <1>1
<1> HIDE DEF n
<1>4. /\ SubSeq(s, 1, n) \in Seq(S)
      /\ Len(SubSeq(s, 1, n)) = IF 1 <= n THEN n - 1 + 1 ELSE 0
  BY <1>2, <1>3, SubSeqProperties
<1>5. n # 0 => SubSeq(s, 1, n) # <<>>
  BY <1>1, <1>4
<1>6. QED
  BY <1>4, <1>5 DEF n

\* An empty queue with idle workers satisfies the invariant.
LEMMA IngestInvInit == Init => IngestInv
<1> SUFFICES ASSUME Init PROVE IngestInv
  OBVIOUS
<1>1. \A S : <<>> \in Seq(S)
  BY EmptySeq
<1>2. TypeOK
  BY <1>1 DEF Init, TypeOK, Status, Pc
<1>3. RowsAreUnique
  BY DEF Init, RowsAreUnique
<1>4. OnlyEnqueuedIsTouched
  BY <1>1 DEF Init, OnlyEnqueuedIsTouched, Event
<1>5. WorkersKnowTheirJobs
  BY <1>1 DEF Init, WorkersKnowTheirJobs, Knows, At
<1>6. ProcessedIsCounted
  BY DEF Init, ProcessedIsCounted
<1>7. QED
  BY <1>2, <1>3, <1>4, <1>5, <1>6 DEF IngestInv

-----------------------------------------------------------------------------
\* Jobs are never forgotten, so lists of enqueued jobs stay such lists.
LEMMA EnqueuedGrows ==
  ASSUME NEW s, s \in Seq(Enqueued), Enqueued \subseteq Enqueued'
  PROVE  s \in Seq(Enqueued')
BY SeqMonotonic

\* A write of an event's usage keeps the types of the ledger.
LEMMA RecordUsageType ==
  ASSUME TypeOK, NEW e \in Event, RecordUsage(e)
  PROVE  /\ rows' = [rows EXCEPT ![e] = @ + 1]
         /\ rows' \in [Event -> Nat]
         /\ daily' \in [Bucket -> Nat]
         /\ endpointDaily' \in [Bucket -> [Endpoint -> Nat]]
<1> DEFINE b == Usage[e].bucket
           p == Usage[e].endpoint
           n == Usage[e].count
<1>1. b \in Bucket /\ p \in Endpoint /\ n \in Nat
  BY UsageAssumption
<1>2. /\ rows' = [rows EXCEPT ![e] = @ + 1]
      /\ daily' = [daily EXCEPT ![b] = @ + n]
      /\ endpointDaily' = [endpointDaily EXCEPT ![b][p] = @ + n]
  BY DEF RecordUsage
<1> HIDE DEF b, p, n
<1>3. rows' \in [Event -> Nat]
  BY <1>2 DEF TypeOK
<1>4. daily' \in [Bucket -> Nat]
  BY <1>1, <1>2 DEF TypeOK
<1>5. endpointDaily' \in [Bucket -> [Endpoint -> Nat]]
  BY <1>1, <1>2 DEF TypeOK
<1>6. QED
  BY <1>2, <1>3, <1>4, <1>5

\* A worker inside its batch has a current job, and what is left after it is
\* again a list of enqueued jobs.
LEMMA BatchHead ==
  ASSUME IngestInv, NEW w \in Worker,
         worker[w].pc \in {"recording", "duplicate", "failing"}
  PROVE  /\ Current(w) \in Job
         /\ Current(w) \in Enqueued
         /\ Tail(worker[w].batch) \in Seq(Enqueued)
         /\ Len(worker[w].batch) # 1 => Tail(worker[w].batch) # <<>>
<1>1. worker[w].batch \in Seq(Enqueued) /\ worker[w].batch # <<>>
  BY DEF IngestInv, WorkersKnowTheirJobs, Knows
<1>2. /\ Head(worker[w].batch) \in Enqueued
      /\ Tail(worker[w].batch) \in Seq(Enqueued)
      /\ Len(Tail(worker[w].batch)) = Len(worker[w].batch) - 1
  BY <1>1, HeadTailProperties
<1>3. Len(worker[w].batch) \in Nat \ {0}
  BY <1>1, EmptySeq
<1>4. Len(worker[w].batch) # 1 => Tail(worker[w].batch) # <<>>
  <2> DEFINE l == Len(worker[w].batch)
             t == Tail(worker[w].batch)
  <2>1. Len(<<>>) = 0
    BY EmptySeq
  <2>2. l \in Nat /\ Len(t) = l - 1
    BY <1>2, <1>3
  <2> HIDE DEF l, t
  <2>3. l # 1 => t # <<>>
    BY <2>1, <2>2
  <2>4. QED
    BY <2>3 DEF l, t
<1>5. QED
  BY <1>2, <1>4 DEF Current, Enqueued

\* A worker that does not move knows its jobs as long as none is forgotten.
LEMMA KnowsKept ==
  ASSUME IngestInv, NEW v \in Worker, worker'[v] = worker[v],
         Enqueued \subseteq Enqueued', \A e \in Event : rows[e] > 0 => rows'[e] > 0
  PROVE  Knows(v)'
<1>1. Knows(v)
  BY DEF IngestInv, WorkersKnowTheirJobs
<1>2. worker'[v].batch \in Seq(Enqueued')
  BY <1>1, EnqueuedGrows DEF Knows
<1>3. worker'[v].pc \in {"recording", "duplicate", "failing"} => worker'[v].batch # <<>>
  BY <1>1 DEF Knows
<1>4. worker'[v].pc = "duplicate" => rows'[Head(worker'[v].batch)] > 0
  BY <1>1, BatchHead DEF Knows, At, Current, Event
<1>5. QED
  BY <1>2, <1>3, <1>4 DEF Knows, At, Current

\* Going on to the next job keeps the workers' part of the invariant.
LEMMA AdvanceKeeps ==
  ASSUME IngestInv, NEW w \in Worker,
         worker[w].pc \in {"recording", "duplicate", "failing"}, Advance(w),
         Enqueued \subseteq Enqueued', \A e \in Event : rows[e] > 0 => rows'[e] > 0
  PROVE  /\ worker' \in [Worker -> [pc : Pc, batch : Seq(Job)]]
         /\ WorkersKnowTheirJobs'
<1> DEFINE t == Tail(worker[w].batch)
           q == IF Len(worker[w].batch) = 1 THEN "idle" ELSE "recording"
<1>1. t \in Seq(Enqueued) /\ (q = "recording" => t # <<>>)
  BY BatchHead
<1>2. t \in Seq(Enqueued') /\ t \in Seq(Job)
  BY <1>1, EnqueuedGrows, SeqMonotonic DEF Enqueued
<1>3. worker' = [worker EXCEPT ![w] = [pc |-> q, batch |-> t]]
  BY DEF Advance
<1>4. q \in {"idle", "recording"}
  OBVIOUS
<1> HIDE DEF t, q
<1>5. worker' \in [Worker -> [pc : Pc, batch : Seq(Job)]]
  BY <1>2, <1>3, <1>4 DEF IngestInv, TypeOK, Pc
<1>6. worker'[w] = [pc |-> q, batch |-> t]
  BY <1>3 DEF IngestInv, TypeOK
<1>7. Knows(w)'
  BY <1>1, <1>2, <1>4, <1>6 DEF Knows, At
<1>8. ASSUME NEW v \in Worker, v # w PROVE Knows(v)'
  <2>1. worker'[v] = worker[v]
    BY <1>3, <1>8 DEF IngestInv, TypeOK
  <2>2. QED
    BY <2>1, KnowsKept
<1>9. QED
  BY <1>5, <1>7, <1>8 DEF WorkersKnowTheirJobs

\* Moving within the current job does, too.
LEMMA GotoKeeps ==
  ASSUME IngestInv, NEW w \in Worker, NEW pc \in Pc, Goto(w, pc),
         pc = "duplicate" => rows'[Current(w)] > 0,
         \/ worker[w].pc \in {"recording", "duplicate", "failing"}
         \/ pc \notin {"recording", "duplicate", "failing"},
         Enqueued \subseteq Enqueued', \A e \in Event : rows[e] > 0 => rows'[e] > 0
  PROVE  /\ worker' \in [Worker -> [pc : Pc, batch : Seq(Job)]]
         /\ WorkersKnowTheirJobs'
<1>1. worker' \in [Worker -> [pc : Pc, batch : Seq(Job)]]
  BY DEF Goto, IngestInv, TypeOK
<1>2. worker'[w].pc = pc /\ worker'[w].batch = worker[w].batch
  BY DEF Goto, IngestInv, TypeOK
<1>3. Knows(w) /\ worker[w].batch \in Seq(Enqueued')
  BY EnqueuedGrows DEF IngestInv, WorkersKnowTheirJobs, Knows
<1>4. Knows(w)'
  BY <1>2, <1>3 DEF Knows, At, Current
<1>5. ASSUME NEW v \in Worker, v # w PROVE Knows(v)'
  <2>1. worker'[v] = worker[v]
    BY <1>5 DEF Goto, IngestInv, TypeOK
  <2>2. QED
    BY <2>1, KnowsKept
<1>6. QED
  BY <1>1, <1>4, <1>5 DEF WorkersKnowTheirJobs

\* Writing a job's row keeps the queue's part of the invariant.
LEMMA RowUpdateKeeps ==
  ASSUME IngestInv, NEW j \in Job, NEW st \in Status \ {"none"},
         status' = [status EXCEPT ![j] = st]
  PROVE  /\ status' \in [Job -> Status]
         /\ Enqueued \subseteq Enqueued'
         /\ j \in Enqueued'
         /\ \A k \in Job : k # j => status'[k] = status[k]
         /\ status'[j] = st
         /\ Without(ready, j) \in Seq(Enqueued') /\ Without(ready, j) \in Seq(Job)
<1>1. /\ status' \in [Job -> Status]
      /\ \A k \in Job : k # j => status'[k] = status[k]
      /\ status'[j] = st
  BY DEF IngestInv, TypeOK
<1>2. Enqueued \subseteq Enqueued' /\ j \in Enqueued'
  BY <1>1 DEF Enqueued
<1>3. Without(ready, j) \in Seq(Enqueued)
  BY WithoutType DEF IngestInv, OnlyEnqueuedIsTouched
<1>4. Without(ready, j) \in Seq(Job)
  BY WithoutType DEF IngestInv, TypeOK
<1>5. QED
  BY <1>1, <1>2, <1>3, <1>4, EnqueuedGrows

\* The transaction of processJob: row, aggregates and PROCESSED together.
LEMMA CommitKeeps ==
  ASSUME IngestInv, NEW w \in Worker, CommitRecord(w),
         UNCHANGED holder, faults' \in Nat
  PROVE  /\ TypeOK' <=> worker' \in [Worker -> [pc : Pc, batch : Seq(Job)]]
         /\ RowsAreUnique' /\ OnlyEnqueuedIsTouched' /\ ProcessedIsCounted'
         /\ Enqueued \subseteq Enqueued'
         /\ \A e \in Event : rows[e] > 0 => rows'[e] > 0
         /\ worker[w].pc = "recording"
<1> DEFINE j == Current(w)
<1>1. /\ worker[w].pc = "recording" /\ rows[j] = 0 /\ RecordUsage(j)
      /\ status' = [status EXCEPT ![j] = "PROCESSED"] /\ ready' = Without(ready, j)
      /\ j \in Job /\ j \in Enqueued
  <2>1. /\ worker[w].pc = "recording" /\ ~(rows[j] > 0) /\ RecordUsage(j)
        /\ status' = [status EXCEPT ![j] = "PROCESSED"] /\ ready' = Without(ready, j)
    BY DEF CommitRecord, At, AlreadyRecorded
  <2>2. j \in Job /\ j \in Enqueued
    BY <2>1, BatchHead
  <2>3. rows[j] \in Nat
    BY <2>2 DEF IngestInv, TypeOK, Event
  <2>4. QED
    BY <2>1, <2>2, <2>3
<1> HIDE DEF j
<1>2. /\ rows' = [rows EXCEPT ![j] = @ + 1] /\ rows' \in [Event -> Nat]
      /\ daily' \in [Bucket -> Nat] /\ endpointDaily' \in [Bucket -> [Endpoint -> Nat]]
  BY <1>1, RecordUsageType DEF Event, IngestInv
<1>3. /\ status' \in [Job -> Status] /\ Enqueued \subseteq Enqueued' /\ j \in Enqueued'
      /\ \A k \in Job : k # j => status'[k] = status[k]
      /\ ready' \in Seq(Enqueued') /\ ready' \in Seq(Job)
  BY <1>1, RowUpdateKeeps DEF Status
<1>4. rows'[j] = 1 /\ \A e \in Event : e # j => rows'[e] = rows[e]
  BY <1>1, <1>2 DEF Event, IngestInv, TypeOK
<1>5. TypeOK' <=> worker' \in [Worker -> [pc : Pc, batch : Seq(Job)]]
  BY <1>2, <1>3 DEF IngestInv, TypeOK
<1>6. RowsAreUnique'
  BY <1>4 DEF RowsAreUnique, IngestInv
<1>7. OnlyEnqueuedIsTouched'
  BY <1>3, <1>4 DEF OnlyEnqueuedIsTouched, IngestInv, Event
<1>8. ProcessedIsCounted'
  BY <1>3, <1>4 DEF ProcessedIsCounted, IngestInv, Event
<1>9. \A e \in Event : rows[e] > 0 => rows'[e] > 0
  BY <1>4
<1>10. QED
  BY <1>1, <1>3, <1>5, <1>6, <1>7, <1>8, <1>9

\* The invariant of the queue is inductive.
LEMMA IngestInvStep == IngestInv /\ [Next]_vars => IngestInv'
<1> SUFFICES ASSUME IngestInv, [Next]_vars PROVE IngestInv'
  OBVIOUS
<1>0. Pc = {"idle", "leased", "recording", "duplicate", "failing", "stopped"}
  BY DEF Pc
<1>f. Fault => faults' \in Nat
  BY DEF Fault, IngestInv, TypeOK
<1>1. ASSUME NEW j \in Job, Enqueue(j) PROVE IngestInv'
  <2>1. /\ status' = [status EXCEPT ![j] = "PENDING"] /\ ready' = Append(ready, j)
        /\ UNCHANGED <<rows, daily, endpointDaily, holder, worker, faults>>
        /\ status[j] = "none"
    BY <1>1 DEF Enqueue, ledgerVars
  <2>2. /\ status' \in [Job -> Status] /\ Enqueued \subseteq Enqueued' /\ j \in Enqueued'
        /\ \A k \in Job : k # j => status'[k] = status[k]
        /\ status'[j] = "PENDING"
    BY <2>1, RowUpdateKeeps DEF Status
  <2>3. ready' \in Seq(Job) /\ ready' \in Seq(Enqueued')
    <3>1. ready \in Seq(Enqueued') /\ ready \in Seq(Job)
      BY <2>2, EnqueuedGrows DEF IngestInv, TypeOK, OnlyEnqueuedIsTouched
    <3>2. QED
      BY <2>1, <2>2, <3>1, AppendProperties
  <2>4. TypeOK'
    BY <2>1, <2>2, <2>3 DEF IngestInv, TypeOK
  <2>5. WorkersKnowTheirJobs'
    BY <2>1, <2>2, KnowsKept DEF WorkersKnowTheirJobs
  <2>6. RowsAreUnique' /\ OnlyEnqueuedIsTouched' /\ ProcessedIsCounted'
    BY <2>1, <2>2, <2>3
       DEF IngestInv, RowsAreUnique, OnlyEnqueuedIsTouched, ProcessedIsCounted
  <2>7. QED
    BY <2>4, <2>5, <2>6 DEF IngestInv
<1>2. ASSUME NEW j \in Job, FallDue(j) PROVE IngestInv'
  <2>1. /\ UNCHANGED <<status, rows, daily, endpointDaily, holder, worker, faults>>
        /\ ready' = Append(ready, j) /\ status[j] # "none"
    BY <1>2 DEF FallDue, ledgerVars
  <2>2. Enqueued' = Enqueued /\ j \in Enqueued
    BY <2>1 DEF Enqueued
  <2>3. ready' \in Seq(Job) /\ ready' \in Seq(Enqueued')
    BY <2>1, <2>2, AppendProperties DEF IngestInv, TypeOK, OnlyEnqueuedIsTouched
  <2>4. WorkersKnowTheirJobs'
    BY <2>1, <2>2, KnowsKept DEF WorkersKnowTheirJobs
  <2>5. TypeOK' /\ RowsAreUnique' /\ OnlyEnqueuedIsTouched' /\ ProcessedIsCounted'
    BY <2>1, <2>2, <2>3
       DEF IngestInv, TypeOK, RowsAreUnique, OnlyEnqueuedIsTouched, ProcessedIsCounted
  <2>6. QED
    BY <2>4, <2>5 DEF IngestInv
<1>3. ASSUME NEW d \in Direct, RecordDirect(d) PROVE IngestInv'
  <2>1. /\ rows[d] = 0 /\ RecordUsage(d)
        /\ UNCHANGED <<status, ready, holder, worker, faults>>
    BY <1>3 DEF RecordDirect, queueVars
  <2>2. /\ rows' = [rows EXCEPT ![d] = @ + 1] /\ rows' \in [Event -> Nat]
        /\ daily' \in [Bucket -> Nat] /\ endpointDaily' \in [Bucket -> [Endpoint -> Nat]]
    BY <2>1, RecordUsageType DEF Event, IngestInv
  <2>3. rows'[d] = 1 /\ \A e \in Event : e # d => rows'[e] = rows[e]
    BY <2>1, <2>2 DEF Event, IngestInv, TypeOK
  <2>4. Enqueued' = Enqueued
    BY <2>1 DEF Enqueued
  <2>5. \A j \in Job : rows'[j] = rows[j]
    BY <2>3, EventAssumption DEF Event
  <2>6. WorkersKnowTheirJobs'
    BY <2>1, <2>3, <2>4, KnowsKept DEF WorkersKnowTheirJobs
  <2>7. TypeOK' /\ RowsAreUnique' /\ OnlyEnqueuedIsTouched' /\ ProcessedIsCounted'
    BY <2>1, <2>2, <2>3, <2>4, <2>5
       DEF IngestInv, TypeOK, RowsAreUnique, OnlyEnqueuedIsTouched, ProcessedIsCounted
  <2>8. QED
    BY <2>6, <2>7 DEF IngestInv
<1>4. ASSUME UNCHANGED <<status, ready, rows, daily, endpointDaily>>,
             holder' \in Worker \cup {NoOwner}, faults' \in Nat,
             worker' \in [Worker -> [pc : Pc, batch : Seq(Job)]],
             WorkersKnowTheirJobs'
      PROVE IngestInv'
  <2>1. Enqueued' = Enqueued
    BY <1>4 DEF Enqueued
  <2>2. TypeOK' /\ RowsAreUnique' /\ OnlyEnqueuedIsTouched' /\ ProcessedIsCounted'
    BY <1>4, <2>1
       DEF IngestInv, TypeOK, RowsAreUnique, OnlyEnqueuedIsTouched, ProcessedIsCounted
  <2>3. QED
    BY <1>4, <2>2 DEF IngestInv
<1>5. ASSUME NEW w \in Worker, Acquire(w) PROVE IngestInv'
  <2>1. /\ UNCHANGED <<status, ready, rows, daily, endpointDaily, faults>>
        /\ holder' = w /\ Goto(w, "leased")
    BY <1>5 DEF Acquire, Lease!Grant, queueVars, ledgerVars
  <2>2. Enqueued' = Enqueued
    BY <2>1 DEF Enqueued
  <2>3. worker' \in [Worker -> [pc : Pc, batch : Seq(Job)]] /\ WorkersKnowTheirJobs'
    BY <1>0, <2>1, <2>2, GotoKeeps
  <2>4. QED
    BY <1>4, <2>1, <2>3 DEF IngestInv, TypeOK
<1>6. ASSUME NEW w \in Worker, Fetch(w) PROVE IngestInv'
  <2> DEFINE n == IF Len(ready) < BatchSize THEN Len(ready) ELSE BatchSize
             b == SubSeq(ready, 1, n)
             q == IF n = 0 THEN "idle" ELSE "recording"
  <2>1. /\ UNCHANGED <<status, ready, rows, daily, endpointDaily, faults, holder>>
        /\ worker' = [worker EXCEPT ![w] = [pc |-> q, batch |-> b]]
    BY <1>6 DEF Fetch, queueVars, ledgerVars
  <2>2. b \in Seq(Enqueued) /\ b \in Seq(Job) /\ (q = "recording" => b # <<>>)
    BY BatchType DEF IngestInv, TypeOK, OnlyEnqueuedIsTouched
  <2>3. q \in {"idle", "recording"}
    OBVIOUS
  <2> HIDE DEF n, b, q
  <2>4. Enqueued' = Enqueued
    BY <2>1 DEF Enqueued
  <2>5. worker' \in [Worker -> [pc : Pc, batch : Seq(Job)]]
    BY <1>0, <2>1, <2>2, <2>3 DEF IngestInv, TypeOK
  <2>6. worker'[w] = [pc |-> q, batch |-> b]
    BY <2>1 DEF IngestInv, TypeOK
  <2>7. Knows(w)'
    BY <2>2, <2>3, <2>4, <2>6 DEF Knows, At
  <2>8. ASSUME NEW v \in Worker, v # w PROVE Knows(v)'
    <3>1. worker'[v] = worker[v]
      BY <2>1, <2>8 DEF IngestInv, TypeOK
    <3>2. QED
      BY <2>1, <2>4, <3>1, KnowsKept
  <2>9. WorkersKnowTheirJobs'
    BY <2>7, <2>8 DEF WorkersKnowTheirJobs
  <2>10. QED
    BY <1>4, <2>1, <2>5, <2>9 DEF IngestInv, TypeOK
<1>7. ASSUME NEW w \in Worker, Record(w) PROVE IngestInv'
  <2>1. CommitRecord(w) /\ Advance(w) /\ UNCHANGED <<holder, faults>> /\ faults' \in Nat
    BY <1>7 DEF Record, IngestInv, TypeOK
  <2>2. worker' \in [Worker -> [pc : Pc, batch : Seq(Job)]] /\ WorkersKnowTheirJobs'
    BY <2>1, CommitKeeps, AdvanceKeeps
  <2>3. QED
    BY <2>1, <2>2, CommitKeeps DEF IngestInv
<1>8. ASSUME NEW w \in Worker, RecordUnanswered(w) PROVE IngestInv'
  <2>1. /\ CommitRecord(w) /\ Goto(w, "failing") /\ UNCHANGED holder
        /\ faults' \in Nat
    BY <1>8, <1>f DEF RecordUnanswered
  <2>2. worker' \in [Worker -> [pc : Pc, batch : Seq(Job)]] /\ WorkersKnowTheirJobs'
    BY <1>0, <2>1, CommitKeeps, GotoKeeps
  <2>3. QED
    BY <2>1, <2>2, CommitKeeps DEF IngestInv
<1>9. ASSUME NEW w \in Worker, FindDuplicate(w) PROVE IngestInv'
  <2>1. /\ UNCHANGED <<status, ready, rows, daily, endpointDaily, holder, faults>>
        /\ worker[w].pc = "recording" /\ rows[Current(w)] > 0 /\ Goto(w, "duplicate")
    BY <1>9 DEF FindDuplicate, At, AlreadyRecorded, queueVars, ledgerVars
  <2>2. Enqueued' = Enqueued
    BY <2>1 DEF Enqueued
  <2>3. worker' \in [Worker -> [pc : Pc, batch : Seq(Job)]] /\ WorkersKnowTheirJobs'
    BY <1>0, <2>1, <2>2, GotoKeeps
  <2>4. QED
    BY <1>4, <2>1, <2>3 DEF IngestInv, TypeOK
<1>10. ASSUME NEW w \in Worker, FailRecord(w) PROVE IngestInv'
  <2>1. /\ UNCHANGED <<status, ready, rows, daily, endpointDaily, holder>>
        /\ worker[w].pc = "recording" /\ Goto(w, "failing")
    BY <1>10 DEF FailRecord, At, queueVars, ledgerVars
  <2>2. Enqueued' = Enqueued
    BY <2>1 DEF Enqueued
  <2>3. faults' \in Nat
    BY <1>10, <1>f DEF FailRecord, IngestInv, TypeOK
  <2>4. worker' \in [Worker -> [pc : Pc, batch : Seq(Job)]] /\ WorkersKnowTheirJobs'
    BY <1>0, <2>1, <2>2, GotoKeeps
  <2>5. QED
    BY <1>4, <2>1, <2>3, <2>4 DEF IngestInv, TypeOK
<1>11. ASSUME NEW w \in Worker, MarkJobProcessed(w) \/ MarkJobFailed(w)
       PROVE IngestInv'
  <2> DEFINE j == Current(w)
             st == IF worker[w].pc = "duplicate" THEN "PROCESSED" ELSE "FAILED"
  <2>1. /\ worker[w].pc \in {"recording", "duplicate", "failing"}
        /\ status' = [status EXCEPT ![j] = st] /\ ready' = Without(ready, j)
        /\ UNCHANGED <<rows, daily, endpointDaily, holder, faults>> /\ Advance(w)
    BY <1>11 DEF MarkJobProcessed, MarkJobFailed, Postpone, At, ledgerVars
  <2>2. st \in Status \ {"none"}
    BY DEF Status
  <2>3. st = "PROCESSED" => rows[j] > 0
    BY DEF IngestInv, WorkersKnowTheirJobs, Knows, At
  <2>4. j \in Job
    BY <2>1, BatchHead
  <2> HIDE DEF j, st
  <2>5. /\ status' \in [Job -> Status] /\ Enqueued \subseteq Enqueued'
        /\ \A k \in Job : k # j => status'[k] = status[k]
        /\ status'[j] = st
        /\ ready' \in Seq(Enqueued') /\ ready' \in Seq(Job)
    BY <2>1, <2>2, <2>4, RowUpdateKeeps
  <2>6. worker' \in [Worker -> [pc : Pc, batch : Seq(Job)]] /\ WorkersKnowTheirJobs'
    BY <2>1, <2>5, AdvanceKeeps
  <2>7. TypeOK'
    BY <2>1, <2>5, <2>6 DEF IngestInv, TypeOK
  <2>8. RowsAreUnique' /\ OnlyEnqueuedIsTouched' /\ ProcessedIsCounted'
    BY <2>1, <2>3, <2>5
       DEF IngestInv, RowsAreUnique, OnlyEnqueuedIsTouched, ProcessedIsCounted
  <2>9. QED
    BY <2>6, <2>7, <2>8 DEF IngestInv
<1>12. ASSUME NEW w \in Worker, FailMark(w) PROVE IngestInv'
  <2>1. /\ UNCHANGED <<status, ready, rows, daily, endpointDaily, holder>>
        /\ worker[w].pc \in {"recording", "duplicate", "failing"} /\ Advance(w)
        /\ faults' \in Nat
    BY <1>12, <1>f DEF FailMark, At, queueVars, ledgerVars
  <2>2. Enqueued' = Enqueued
    BY <2>1 DEF Enqueued
  <2>3. worker' \in [Worker -> [pc : Pc, batch : Seq(Job)]] /\ WorkersKnowTheirJobs'
    BY <2>1, <2>2, AdvanceKeeps
  <2>4. QED
    BY <1>4, <2>1, <2>3 DEF IngestInv, TypeOK
<1>13. ASSUME NEW w \in Worker, Crash(w) PROVE IngestInv'
  <2>1. /\ UNCHANGED <<status, ready, rows, daily, endpointDaily, holder, faults>>
        /\ worker' = [worker EXCEPT ![w] = [pc |-> "stopped", batch |-> <<>>]]
    BY <1>13 DEF Crash, queueVars, ledgerVars
  <2>2. Enqueued' = Enqueued
    BY <2>1 DEF Enqueued
  <2>3. <<>> \in Seq(Job) /\ <<>> \in Seq(Enqueued)
    BY EmptySeq
  <2>4. worker' \in [Worker -> [pc : Pc, batch : Seq(Job)]]
    BY <1>0, <2>1, <2>3 DEF IngestInv, TypeOK
  <2>5. Knows(w)'
    <3>1. worker'[w] = [pc |-> "stopped", batch |-> <<>>]
      BY <2>1 DEF IngestInv, TypeOK
    <3>2. QED
      BY <2>2, <2>3, <3>1 DEF Knows, At
  <2>6. ASSUME NEW v \in Worker, v # w PROVE Knows(v)'
    <3>1. worker'[v] = worker[v]
      BY <2>1, <2>6 DEF IngestInv, TypeOK
    <3>2. QED
      BY <2>1, <2>2, <3>1, KnowsKept
  <2>7. WorkersKnowTheirJobs'
    BY <2>5, <2>6 DEF WorkersKnowTheirJobs
  <2>8. QED
    BY <1>4, <2>1, <2>4, <2>7 DEF IngestInv, TypeOK
<1>14. CASE LeaseLapse
  <2>1. /\ UNCHANGED <<status, ready, rows, daily, endpointDaily, worker, faults>>
        /\ holder' = NoOwner
    BY <1>14 DEF LeaseLapse, Lease!Lapse, queueVars, ledgerVars
  <2>2. Enqueued' = Enqueued
    BY <2>1 DEF Enqueued
  <2>3. WorkersKnowTheirJobs'
    BY <2>1, <2>2, KnowsKept DEF WorkersKnowTheirJobs
  <2>4. QED
    BY <1>4, <2>1, <2>3 DEF IngestInv, TypeOK
<1>15. CASE UNCHANGED vars
  <2>1. Enqueued' = Enqueued
    BY <1>15 DEF vars, Enqueued
  <2>2. WorkersKnowTheirJobs'
    BY <1>15, <2>1, KnowsKept DEF vars, WorkersKnowTheirJobs
  <2>3. QED
    BY <1>4, <1>15, <2>2 DEF vars, IngestInv, TypeOK
<1>16. QED
  BY <1>1, <1>2, <1>3, <1>5, <1>6, <1>7, <1>8, <1>9, <1>10, <1>11, <1>12, <1>13,
     <1>14, <1>15 DEF Next, WorkerStep

\* Under every interleaving of enqueues, direct writes, workers, errors, crashes
\* and lapsed leases the queue's invariant holds; with it, no job is PROCESSED
\* whose usage is not recorded, and no job has two rows (processJob).
THEOREM IngestCorrect == Spec => []IngestInv
BY IngestInvInit, IngestInvStep, PTL DEF Spec

-----------------------------------------------------------------------------
\* Nothing was accepted and nothing counted when the tables are empty.
LEMMA LedgerInit == Init => Ledger!Init
BY DEF Init, Ledger!Init, Accepted, Counted, Event

\* A write of usage is one addition to the ledger.
LEMMA RecordUsageCounts ==
  ASSUME IngestInv, NEW e \in Event, rows[e] = 0, RecordUsage(e)
  PROVE  /\ Ledger!AddToTotal(e)
         /\ rows'[e] = 1 /\ \A f \in Event : f # e => rows'[f] = rows[f]
<1>1. rows' = [rows EXCEPT ![e] = @ + 1]
  BY DEF RecordUsage
<1>2. rows'[e] = 1 /\ \A f \in Event : f # e => rows'[f] = rows[f]
  BY <1>1 DEF IngestInv, TypeOK
<1>3. e \notin Counted /\ Counted' = Counted \cup {e}
  BY <1>2 DEF Counted
<1>4. daily' = [daily EXCEPT ![Usage[e].bucket] = @ + Usage[e].count]
  BY DEF RecordUsage
<1>5. QED
  BY <1>2, <1>3, <1>4 DEF Ledger!AddToTotal

\* processJob's transaction counts a job that was accepted before.
LEMMA CommitCounts ==
  ASSUME IngestInv, NEW w \in Worker, CommitRecord(w)
  PROVE  \E j \in Job : Ledger!CountAccepted(j)
<1> DEFINE j == Current(w)
<1>1. /\ worker[w].pc = "recording" /\ ~(rows[j] > 0) /\ RecordUsage(j)
      /\ status' = [status EXCEPT ![j] = "PROCESSED"]
  BY DEF CommitRecord, At, AlreadyRecorded
<1>2. j \in Job /\ j \in Enqueued
  BY <1>1, BatchHead
<1> HIDE DEF j
<1>3. rows[j] = 0
  BY <1>1, <1>2 DEF IngestInv, TypeOK, Event
<1>4. /\ Ledger!AddToTotal(j)
      /\ \A f \in Event : f # j => rows'[f] = rows[f]
  BY <1>1, <1>2, <1>3, RecordUsageCounts DEF Event
<1>5. {k \in Job : status'[k] # "none"} = {k \in Job : status[k] # "none"}
  BY <1>1, <1>2 DEF IngestInv, TypeOK, Enqueued
<1>6. {d \in Direct : rows'[d] > 0} = {d \in Direct : rows[d] > 0}
  BY <1>2, <1>4, EventAssumption DEF Event
<1>7. Accepted' = Accepted /\ j \in Accepted
  BY <1>2, <1>5, <1>6 DEF Accepted, Enqueued
<1>8. QED
  BY <1>2, <1>4, <1>7 DEF Ledger!CountAccepted

\* Every step of the queue is a step of the ledger or leaves it alone.
LEMMA LedgerStep == IngestInv /\ [Next]_vars => [Ledger!Next]_(Ledger!vars)
<1> SUFFICES ASSUME IngestInv, [Next]_vars PROVE [Ledger!Next]_(Ledger!vars)
  OBVIOUS
<1>1. ASSUME UNCHANGED <<rows, daily>>, Enqueued' = Enqueued
      PROVE  UNCHANGED Ledger!vars
  BY <1>1 DEF Ledger!vars, Accepted, Counted, Enqueued
<1>2. ASSUME NEW j \in Job, Enqueue(j) PROVE Ledger!Accept(j)
  <2>1. /\ status[j] = "none" /\ status' = [status EXCEPT ![j] = "PENDING"]
        /\ UNCHANGED <<rows, daily>>
    BY <1>2 DEF Enqueue, ledgerVars
  <2>2. {k \in Job : status'[k] # "none"} = {k \in Job : status[k] # "none"} \cup {j}
    BY <2>1 DEF IngestInv, TypeOK
  <2>3. j \notin Accepted /\ Accepted' = Accepted \cup {j} /\ UNCHANGED <<Counted, daily>>
    BY <2>1, <2>2, EventAssumption DEF Accepted, Counted
  <2>4. QED
    BY <2>3 DEF Ledger!Accept
<1>3. ASSUME NEW d \in Direct, RecordDirect(d) PROVE Ledger!CountImmediately(d)
  <2>1. rows[d] = 0 /\ RecordUsage(d) /\ status' = status /\ d \in Event
    BY <1>3 DEF RecordDirect, queueVars, Event
  <2>2. /\ Ledger!AddToTotal(d)
        /\ rows'[d] = 1 /\ \A f \in Event : f # d => rows'[f] = rows[f]
    BY <2>1, RecordUsageCounts
  <2>3. {e \in Direct : rows'[e] > 0} = {e \in Direct : rows[e] > 0} \cup {d}
    BY <2>1, <2>2 DEF Event
  <2>4. d \notin Accepted /\ Accepted' = Accepted \cup {d}
    BY <2>1, <2>3, EventAssumption DEF Accepted
  <2>5. QED
    BY <2>2, <2>4 DEF Ledger!CountImmediately
<1>4. ASSUME NEW w \in Worker, Record(w) \/ RecordUnanswered(w)
      PROVE  \E j \in Job : Ledger!CountAccepted(j)
  BY <1>4, CommitCounts DEF Record, RecordUnanswered
<1>5. ASSUME NEW w \in Worker, MarkJobProcessed(w) \/ MarkJobFailed(w)
      PROVE  UNCHANGED Ledger!vars
  <2>1. /\ worker[w].pc \in {"recording", "duplicate", "failing"}
        /\ \E st \in {"PROCESSED", "FAILED"} :
             status' = [status EXCEPT ![Current(w)] = st]
        /\ UNCHANGED <<rows, daily>>
    BY <1>5 DEF MarkJobProcessed, MarkJobFailed, Postpone, At, ledgerVars
  <2>2. Current(w) \in Job /\ Current(w) \in Enqueued
    BY <2>1, BatchHead
  <2>3. Enqueued' = Enqueued
    BY <2>1, <2>2 DEF Enqueued, IngestInv, TypeOK
  <2>4. QED
    BY <1>1, <2>1, <2>3
<1>6. ASSUME NEW w \in Worker,
             \/ Acquire(w) \/ Fetch(w) \/ FindDuplicate(w) \/ FailRecord(w)
             \/ FailMark(w) \/ Crash(w)
      PROVE  UNCHANGED Ledger!vars
  <2>1. UNCHANGED <<status, rows, daily>>
    BY <1>6 DEF Acquire, Fetch, FindDuplicate, FailRecord, FailMark, Crash,
                ledgerVars, queueVars
  <2>2. QED
    BY <1>1, <2>1 DEF Enqueued
<1>7. ASSUME LeaseLapse \/ (\E j \in Job : FallDue(j)) \/ UNCHANGED vars
      PROVE  UNCHANGED Ledger!vars
  <2>1. UNCHANGED <<status, rows, daily>>
    BY <1>7 DEF LeaseLapse, FallDue, vars, ledgerVars, queueVars
  <2>2. QED
    BY <1>1, <2>1 DEF Enqueued
<1>8. QED
  BY <1>2, <1>3, <1>4, <1>5, <1>6, <1>7 DEF Next, WorkerStep, Ledger!Next

\* The queue with its workers and the direct writes implement the ledger: every
\* accepted event enters its daily total once (recordUsageInTransaction, the
\* unique sourceJobId).
THEOREM IngestRefines == Spec => ImplementsLedger
<1>1. QED
  BY LedgerInit, LedgerStep, IngestCorrect, PTL
     DEF Spec, ImplementsLedger, Ledger!Spec
-----------------------------------------------------------------------------
\* Rows stand for quantities, and another row adds what its event reports.
LEMMA RecordedType ==
  ASSUME TypeOK
  PROVE  /\ Recorded \in [Event -> Nat]
         /\ \A S \in SUBSET Event : IsFiniteSet(S) /\ Counts(Recorded, S)
<1>1. \A e \in Event : rows[e] * Usage[e].count \in Nat
  <2>1. \A a, b \in Nat : a * b \in Nat
    OBVIOUS
  <2>2. \A e \in Event : rows[e] \in Nat /\ Usage[e].count \in Nat
    BY UsageAssumption DEF TypeOK
  <2> QED
    BY <2>1, <2>2
<1>2. Recorded \in [Event -> Nat]
  BY <1>1 DEF Recorded
<1>3. \A S \in SUBSET Event : IsFiniteSet(S)
  BY EventAssumption, FS_Subset
<1> QED
  BY <1>2, <1>3 DEF Counts

LEMMA RowAdds ==
  ASSUME TypeOK, NEW e \in Event, RecordUsage(e), NEW S \in SUBSET Event
  PROVE  SumFunctionOnSet(Recorded', S) =
           SumFunctionOnSet(Recorded, S) + IF e \in S THEN Usage[e].count ELSE 0
<1>1. /\ IsFiniteSet(S) /\ Counts(Recorded, S)
      /\ SumFunctionOnSet(Recorded, S) \in Nat
  BY RecordedType, SumType
<1>2. Recorded'[e] = Recorded[e] + Usage[e].count /\ Usage[e].count \in Nat
  <2>1. rows'[e] = rows[e] + 1 /\ rows[e] \in Nat
    BY DEF RecordUsage, TypeOK
  <2>2. Usage[e].count \in Nat
    BY UsageAssumption
  <2>3. \A a, b \in Nat : (a + 1) * b = a * b + b
    OBVIOUS
  <2>4. rows'[e] * Usage[e].count = rows[e] * Usage[e].count + Usage[e].count
    BY <2>1, <2>2, <2>3
  <2> QED
    BY <2>2, <2>4 DEF Recorded
<1>3. \A f \in Event \ {e} : Recorded'[f] = Recorded[f]
  BY DEF Recorded, RecordUsage, TypeOK
<1>4. CASE e \in S
  <2>1. \A f \in S \ {e} : Recorded'[f] = Recorded[f]
    BY <1>3
  <2>2. SumFunctionOnSet(Recorded', S) = SumFunctionOnSet(Recorded, S) + Usage[e].count
    BY <1>1, <1>2, <1>4, <2>1, SumRaised
  <2> QED
    BY <1>4, <2>2
<1>5. CASE e \notin S
  <2>1. \A f \in S : Recorded'[f] = Recorded[f]
    BY <1>3, <1>5
  <2>2. SumFunctionOnSet(Recorded', S) = SumFunctionOnSet(Recorded, S)
    BY <1>1, <2>1, SumSame
  <2> QED
    BY <1>1, <1>5, <2>2
<1> QED
  BY <1>4, <1>5

\* The transaction that writes the row moves both aggregates with it.
LEMMA RecordUsageMatches ==
  ASSUME TypeOK, AggregatesMatchRows, NEW e \in Event, RecordUsage(e)
  PROVE  AggregatesMatchRows'
<1> DEFINE use == Usage[e]
           OfDay(b) == {f \in Event : Usage[f].bucket = b}
           OfEndpoint(b, p) == {f \in Event : Usage[f].bucket = b /\ Usage[f].endpoint = p}
<1>1. use.bucket \in Bucket /\ use.endpoint \in Endpoint /\ use.count \in Nat
  BY UsageAssumption
<1>2. ASSUME NEW b \in Bucket
      PROVE  daily'[b] = SumFunctionOnSet(Recorded', OfDay(b))
  <2>1. daily'[b] = daily[b] + IF use.bucket = b THEN use.count ELSE 0
    BY <1>1 DEF RecordUsage, TypeOK
  <2>2. daily[b] = SumFunctionOnSet(Recorded, OfDay(b))
    BY DEF AggregatesMatchRows
  <2>3. OfDay(b) \in SUBSET Event /\ (e \in OfDay(b) <=> use.bucket = b)
    OBVIOUS
  <2>4. SumFunctionOnSet(Recorded', OfDay(b)) =
          SumFunctionOnSet(Recorded, OfDay(b)) + IF e \in OfDay(b) THEN use.count ELSE 0
    BY <2>3, RowAdds
  <2> QED
    BY <2>1, <2>2, <2>3, <2>4
<1>3. ASSUME NEW b \in Bucket, NEW p \in Endpoint
      PROVE  endpointDaily'[b][p] = SumFunctionOnSet(Recorded', OfEndpoint(b, p))
  <2>1. endpointDaily'[b][p] =
          endpointDaily[b][p] + IF use.bucket = b /\ use.endpoint = p THEN use.count ELSE 0
    BY <1>1 DEF RecordUsage, TypeOK
  <2>2. endpointDaily[b][p] = SumFunctionOnSet(Recorded, OfEndpoint(b, p))
    BY DEF AggregatesMatchRows
  <2>3. /\ OfEndpoint(b, p) \in SUBSET Event
        /\ e \in OfEndpoint(b, p) <=> use.bucket = b /\ use.endpoint = p
    OBVIOUS
  <2>4. SumFunctionOnSet(Recorded', OfEndpoint(b, p)) =
          SumFunctionOnSet(Recorded, OfEndpoint(b, p))
            + IF e \in OfEndpoint(b, p) THEN use.count ELSE 0
    BY <2>3, RowAdds
  <2> QED
    BY <2>1, <2>2, <2>3, <2>4
<1> QED
  BY <1>2, <1>3 DEF AggregatesMatchRows

LEMMA AggregatesMatchRowsInit == Init => AggregatesMatchRows
<1> SUFFICES ASSUME Init PROVE AggregatesMatchRows
  OBVIOUS
<1>1. \A e \in Event : Recorded[e] = 0
  BY UsageAssumption DEF Init, Recorded
<1>2. ASSUME NEW S \in SUBSET Event PROVE SumFunctionOnSet(Recorded, S) = 0
  <2>1. IsFiniteSet(S) /\ \A e \in S : Recorded[e] = 0
    BY <1>1, EventAssumption, FS_Subset
  <2> QED
    BY <2>1, SumOfZeros
<1>3. \A b \in Bucket : daily[b] = 0 /\ \A p \in Endpoint : endpointDaily[b][p] = 0
  BY DEF Init
<1> QED
  BY <1>2, <1>3 DEF AggregatesMatchRows

LEMMA AggregatesMatchRowsStep ==
  IngestInv /\ AggregatesMatchRows /\ [Next]_vars => AggregatesMatchRows'
<1> SUFFICES ASSUME IngestInv, AggregatesMatchRows, [Next]_vars PROVE AggregatesMatchRows'
  OBVIOUS
<1>0. TypeOK
  BY DEF IngestInv
<1>1. ASSUME NEW d \in Direct, RecordDirect(d) PROVE AggregatesMatchRows'
  BY <1>0, <1>1, RecordUsageMatches DEF RecordDirect, Event
<1>2. ASSUME NEW w \in Worker, CommitRecord(w) PROVE AggregatesMatchRows'
  <2>1. Current(w) \in Event
    BY <1>2, BatchHead DEF CommitRecord, At, Event
  <2>2. RecordUsage(Current(w))
    BY <1>2 DEF CommitRecord
  <2> QED
    BY <1>0, <2>1, <2>2, RecordUsageMatches
<1>3. ASSUME UNCHANGED ledgerVars PROVE AggregatesMatchRows'
  BY <1>3 DEF AggregatesMatchRows, Recorded, ledgerVars
<1>4. ASSUME NEW w \in Worker,
             \/ Acquire(w) \/ Fetch(w) \/ FindDuplicate(w) \/ FailRecord(w)
             \/ MarkJobProcessed(w) \/ MarkJobFailed(w) \/ FailMark(w) \/ Crash(w)
      PROVE  UNCHANGED ledgerVars
  BY <1>4 DEF Acquire, Fetch, FindDuplicate, FailRecord, MarkJobProcessed, MarkJobFailed,
              FailMark, Crash
<1>5. ASSUME \/ LeaseLapse \/ UNCHANGED vars
             \/ \E j \in Job : Enqueue(j) \/ FallDue(j)
      PROVE  UNCHANGED ledgerVars
  BY <1>5 DEF LeaseLapse, vars, ledgerVars, Enqueue, FallDue
<1> QED
  BY <1>1, <1>2, <1>3, <1>4, <1>5 DEF Next, WorkerStep, Record, RecordUnanswered

\* Whatever number of workers, faults and lapsed leases: both aggregates hold what the
\* rows hold (recordUsageInTransaction).
THEOREM AggregatesCorrect == Spec => []AggregatesMatchRows
<1> QED
  BY AggregatesMatchRowsInit, AggregatesMatchRowsStep, IngestCorrect, PTL DEF Spec

-----------------------------------------------------------------------------
\* A day starts at a multiple of its length, at or before each of its moments and
\* less than a day before it.
LEMMA DayArithmetic ==
  ASSUME NEW t \in Nat
  PROVE  /\ t \div DayLength \in Nat
         /\ DayStart(t) \in Nat /\ DayStart(t) <= t /\ t < DayStart(t) + DayLength
<1>1. DayLength \in Nat \ {0}
  BY DayLengthAssumption
<1>2. /\ t \div DayLength \in Nat /\ t % DayLength \in 0..(DayLength - 1)
      /\ t = DayLength * (t \div DayLength) + (t % DayLength)
  BY <1>1
<1>3. \A a, b \in Nat : a * b \in Nat /\ a * b = b * a
  OBVIOUS
<1>4. (t \div DayLength) * DayLength \in Nat
      /\ (t \div DayLength) * DayLength = DayLength * (t \div DayLength)
  BY <1>1, <1>2, <1>3
<1> QED
  BY <1>1, <1>2, <1>4 DEF DayStart

\* A moment has reached a midnight exactly if the start of its day has.
LEMMA DayAligned ==
  ASSUME NEW t \in Nat, NEW k \in Nat
  PROVE  k * DayLength \in Nat /\ (k * DayLength <= t <=> k * DayLength <= DayStart(t))
<1> DEFINE q == t \div DayLength
           D == DayLength
<1>1. /\ q \in Nat /\ D \in Nat \ {0}
      /\ q * D \in Nat /\ q * D <= t /\ t < q * D + D /\ DayStart(t) = q * D
  BY DayArithmetic, DayLengthAssumption DEF DayStart
<1> HIDE DEF q, D
<1>2. \A a, b \in Nat : a * b \in Nat
  OBVIOUS
<1>3. \A a, b, c \in Nat : (a + b) * c = a * c + b * c
  OBVIOUS
<1>4. k * D \in Nat
  BY <1>1, <1>2
<1>5. CASE k <= q
  <2>1. PICK i \in Nat : q = k + i
    <3>1. q - k \in Nat /\ q = k + (q - k)
      BY <1>1, <1>5
    <3> QED
      BY <3>1
  <2>2. q * D = k * D + i * D /\ i * D \in Nat
    BY <1>1, <1>2, <1>3, <2>1
  <2>3. k * D <= q * D
    BY <1>4, <2>2
  <2> QED
    BY <1>1, <1>4, <2>3 DEF D
<1>6. CASE k > q
  <2>1. PICK i \in Nat : k = (q + 1) + i
    <3>1. k - (q + 1) \in Nat /\ k = (q + 1) + (k - (q + 1))
      BY <1>1, <1>6
    <3> QED
      BY <3>1
  <2>2. k * D = (q + 1) * D + i * D /\ i * D \in Nat
    BY <1>1, <1>2, <1>3, <2>1
  <2>3. (q + 1) * D = q * D + 1 * D /\ 1 * D = D
    BY <1>1, <1>3
  <2>4. k * D > t
    BY <1>1, <2>2, <2>3
  <2> QED
    BY <1>1, <1>4, <2>4 DEF D
<1> QED
  BY <1>1, <1>5, <1>6

\* The three parts of a window follow each other, and the middle one is made of
\* whole days (sumUsageForWindow).
LEMMA PartsOfWindow ==
  ASSUME NEW start \in Nat, NEW end \in Nat, start < end
  PROVE  LET a == StartPartialEnd(start, end)
             z == EndPartialStart(start, end)
             x == FullDaysStart(start)
             y == FullDaysEnd(end) IN
         /\ a \in Nat /\ z \in Nat /\ x \in Nat /\ y \in Nat
         /\ start <= a /\ a <= z /\ z <= end
         /\ \A t \in Nat : Within(t, x, y) <=> Within(t, a, z)
         /\ \A t \in Nat : Within(DayStart(t), x, y) <=> Within(t, x, y)
<1> DEFINE x == FullDaysStart(start)
           y == FullDaysEnd(end)
<1>1. PICK k \in Nat : x = k * DayLength /\ x \in Nat /\ start <= x
  <2>1. /\ start \div DayLength \in Nat /\ DayStart(start) = (start \div DayLength) * DayLength
        /\ DayStart(start) \in Nat /\ start < DayStart(start) + DayLength
        /\ DayLength \in Nat
    BY DayArithmetic, DayLengthAssumption DEF DayStart
  <2>2. CASE start = DayStart(start)
    BY <2>1, <2>2 DEF FullDaysStart
  <2>3. CASE start # DayStart(start)
    <3>1. \A q, d \in Nat : (q + 1) * d = q * d + d
      OBVIOUS
    <3>2. x = ((start \div DayLength) + 1) * DayLength
      BY <2>1, <2>3, <3>1 DEF FullDaysStart
    <3>3. x \in Nat /\ start <= x
      BY <2>1, <2>3 DEF FullDaysStart
    <3>4. (start \div DayLength) + 1 \in Nat
      BY <2>1
    <3> HIDE DEF x
    <3> QED
      BY <3>2, <3>3, <3>4
  <2> QED
    BY <2>2, <2>3
<1>2. PICK l \in Nat : y = l * DayLength /\ y \in Nat /\ y <= end
  BY DayArithmetic DEF FullDaysEnd, DayStart
<1>3. \A t \in Nat : Within(DayStart(t), x, y) <=> Within(t, x, y)
  <2>1. ASSUME NEW t \in Nat PROVE Within(DayStart(t), x, y) <=> Within(t, x, y)
    <3>1. DayStart(t) \in Nat
      BY DayArithmetic
    <3>2. x <= t <=> x <= DayStart(t)
      BY <1>1, DayAligned
    <3>3. y <= t <=> y <= DayStart(t)
      BY <1>2, DayAligned
    <3> HIDE DEF x, y
    <3> QED
      BY <1>1, <1>2, <3>1, <3>2, <3>3 DEF Within
  <2> QED
    BY <2>1
<1> HIDE DEF x, y
<1>4. /\ StartPartialEnd(start, end) = IF x < end THEN x ELSE end
      /\ EndPartialStart(start, end) =
           IF y > StartPartialEnd(start, end) THEN y ELSE StartPartialEnd(start, end)
  BY DEF StartPartialEnd, EndPartialStart, x, y
<1> DEFINE a == StartPartialEnd(start, end)
           z == EndPartialStart(start, end)
<1>5. a \in Nat /\ z \in Nat /\ start <= a /\ a <= z /\ z <= end
  BY <1>1, <1>2, <1>4
<1>6. ASSUME NEW t \in Nat PROVE Within(t, x, y) <=> Within(t, a, z)
  BY <1>1, <1>2, <1>4 DEF Within
<1> QED
  BY <1>1, <1>2, <1>3, <1>5, <1>6 DEF x, y

\* What falls into a window falls into one of its three parts.
LEMMA SumOfWindow ==
  ASSUME NEW S, IsFiniteSet(S), NEW f, Counts(f, S), NEW at, \A e \in S : at[e] \in Nat,
         NEW start \in Nat, NEW a \in Nat, NEW z \in Nat, NEW end \in Nat,
         start <= a, a <= z, z <= end
  PROVE  SumFunctionOnSet(f, {e \in S : Within(at[e], start, end)}) =
           SumFunctionOnSet(f, {e \in S : Within(at[e], start, a)})
             + SumFunctionOnSet(f, {e \in S : Within(at[e], a, z)})
             + SumFunctionOnSet(f, {e \in S : Within(at[e], z, end)})
<1> DEFINE In(from, to) == {e \in S : Within(at[e], from, to)}
<1>1. \A from, to : In(from, to) \in SUBSET S
  OBVIOUS
<1>2. ASSUME NEW p \in Nat, NEW q \in Nat, NEW r \in Nat, p <= q, q <= r
      PROVE  SumFunctionOnSet(f, In(p, r)) =
               SumFunctionOnSet(f, In(p, q)) + SumFunctionOnSet(f, In(q, r))
  <2>1. In(p, r) = In(p, q) \cup In(q, r) /\ In(p, q) \cap In(q, r) = {}
    BY <1>2 DEF Within
  <2> HIDE DEF In
  <2> QED
    BY <1>1, <2>1, SumOfParts
<1>3. SumFunctionOnSet(f, In(start, end)) =
        SumFunctionOnSet(f, In(start, z)) + SumFunctionOnSet(f, In(z, end))
  <2>1. start <= z
    OBVIOUS
  <2> HIDE DEF In
  <2> QED
    BY <1>2, <2>1
<1>4. SumFunctionOnSet(f, In(start, z)) =
        SumFunctionOnSet(f, In(start, a)) + SumFunctionOnSet(f, In(a, z))
  <2> HIDE DEF In
  <2> QED
    BY <1>2
<1> QED
  BY <1>3, <1>4

\* What the daily aggregates hold of a window's whole days is what its rows between
\* the two ends hold (sumDailyAggregates).
LEMMA DaysMatchRows ==
  ASSUME TypeOK, AggregatesMatchRows, NEW x \in Nat, NEW y \in Nat, NEW a \in Nat, NEW z \in Nat,
         \A t \in Nat : Within(DayStart(t), x, y) <=> Within(t, a, z)
  PROVE  /\ DailyUsage(x, y) = AggregatedRows(a, z, Endpoint)
         /\ \A p \in Endpoint : EndpointDailyUsage(x, y, p) = AggregatedRows(a, z, {p})
<1> DEFINE B == Days(x, y)
           part == [e \in Event |-> Usage[e].bucket]
<1>1. IsFiniteSet(B)
  <2>1. B \subseteq x..y
    <3>1. \A b \in B : b \in Nat /\ x <= b /\ b < y
      BY BucketAssumption DEF Days, Within
    <3> HIDE DEF B
    <3> QED
      BY <3>1
  <2>2. IsFiniteSet(x..y)
    BY FS_Interval
  <2> QED
    BY <2>1, <2>2, FS_Subset
<1>2. \A e \in Event : part[e] \in B <=> Within(OccurredAt[e], a, z)
  <2>1. ASSUME NEW e \in Event PROVE part[e] \in B <=> Within(OccurredAt[e], a, z)
    <3>1. part[e] \in Bucket /\ part[e] = DayStart(OccurredAt[e]) /\ OccurredAt[e] \in Nat
      BY UsageAssumption, BucketAssumption, OccurredAtAssumption
    <3> QED
      BY <3>1 DEF Days
  <2> QED
    BY <2>1
<1>3. B \subseteq Bucket
  BY DEF Days
<1> HIDE DEF B
<1>4. DailyUsage(x, y) = AggregatedRows(a, z, Endpoint)
  <2> DEFINE Part == [b \in B |-> {e \in Event : Usage[e].bucket = b}]
             U == {e \in Event : Within(OccurredAt[e], a, z) /\ Usage[e].endpoint \in Endpoint}
  <2>1. IsFiniteSet(Event) /\ Counts(Recorded, Event)
    BY RecordedType
  <2>2. /\ \A b \in B : Part[b] \in SUBSET Event
        /\ \A b, c \in B : b # c => Part[b] \cap Part[c] = {}
        /\ U \in SUBSET Event
        /\ \A e \in Event : e \in U <=> \E b \in B : e \in Part[b]
    BY <1>2, UsageAssumption
  <2>3. \A b \in B : daily[b] = SumFunctionOnSet(Recorded, Part[b])
    BY <1>3 DEF AggregatesMatchRows
  <2> HIDE DEF Part, U
  <2>4. SumFunctionOnSet(daily, B) = SumFunctionOnSet(Recorded, U)
    BY <1>1, <2>1, <2>2, <2>3, SumOverParts
  <2> QED
    BY <2>4 DEF DailyUsage, AggregatedRows, B, U
<1>5. ASSUME NEW p \in Endpoint
      PROVE  EndpointDailyUsage(x, y, p) = AggregatedRows(a, z, {p})
  <2> DEFINE Part == [b \in B |-> {e \in Event : Usage[e].bucket = b /\ Usage[e].endpoint = p}]
             U == {e \in Event : Within(OccurredAt[e], a, z) /\ Usage[e].endpoint \in {p}}
             h == [b \in Bucket |-> endpointDaily[b][p]]
  <2>1. IsFiniteSet(Event) /\ Counts(Recorded, Event)
    BY RecordedType
  <2>2. /\ \A b \in B : Part[b] \in SUBSET Event
        /\ \A b, c \in B : b # c => Part[b] \cap Part[c] = {}
        /\ U \in SUBSET Event
        /\ \A e \in Event : e \in U <=> \E b \in B : e \in Part[b]
    BY <1>2
  <2>3. \A b \in B : h[b] = SumFunctionOnSet(Recorded, Part[b])
    BY <1>3 DEF AggregatesMatchRows
  <2>4. EndpointDailyUsage(x, y, p) = SumFunctionOnSet(h, B)
    BY DEF EndpointDailyUsage, B
  <2> HIDE DEF Part, U, h
  <2>5. SumFunctionOnSet(h, B) = SumFunctionOnSet(Recorded, U)
    BY <1>1, <2>1, <2>2, <2>3, SumOverParts
  <2> QED
    BY <2>4, <2>5 DEF AggregatedRows, U
<1> QED
  BY <1>4, <1>5

\* Rows in an aggregate, and rows in none, split at the ends of the full days.
LEMMA RowsOfWindow ==
  ASSUME TypeOK, NEW endpoints,
         NEW start \in Nat, NEW a \in Nat, NEW z \in Nat, NEW end \in Nat,
         start <= a, a <= z, z <= end
  PROVE  /\ AggregatedRows(start, end, endpoints) =
              AggregatedRows(start, a, endpoints) + AggregatedRows(a, z, endpoints)
                + AggregatedRows(z, end, endpoints)
         /\ UnaggregatedRows(start, end, endpoints) =
              UnaggregatedRows(start, a, endpoints) + UnaggregatedRows(a, z, endpoints)
                + UnaggregatedRows(z, end, endpoints)
         /\ \A p, q \in Nat : /\ AggregatedRows(p, q, endpoints) \in Nat
                              /\ UnaggregatedRows(p, q, endpoints) \in Nat
<1>1. /\ AggregatedRows(start, end, endpoints) =
           AggregatedRows(start, a, endpoints) + AggregatedRows(a, z, endpoints)
             + AggregatedRows(z, end, endpoints)
      /\ \A p, q \in Nat : AggregatedRows(p, q, endpoints) \in Nat
  <2> DEFINE S == {e \in Event : Usage[e].endpoint \in endpoints}
             In(p, q) == {e \in S : Within(OccurredAt[e], p, q)}
  <2>1. /\ IsFiniteSet(S) /\ Counts(Recorded, S) /\ \A e \in S : OccurredAt[e] \in Nat
    BY RecordedType, OccurredAtAssumption
  <2>2. ASSUME NEW p \in Nat, NEW q \in Nat
        PROVE  AggregatedRows(p, q, endpoints) = SumFunctionOnSet(Recorded, In(p, q))
    <3>1. {e \in Event : Within(OccurredAt[e], p, q) /\ Usage[e].endpoint \in endpoints} = In(p, q)
      OBVIOUS
    <3> QED
      BY <3>1 DEF AggregatedRows
  <2>3. \A p, q \in Nat : In(p, q) \in SUBSET S
    OBVIOUS
  <2> HIDE DEF S
  <2>4. SumFunctionOnSet(Recorded, In(start, end)) =
          SumFunctionOnSet(Recorded, In(start, a)) + SumFunctionOnSet(Recorded, In(a, z))
            + SumFunctionOnSet(Recorded, In(z, end))
    BY <2>1, SumOfWindow
  <2> HIDE DEF In
  <2>5. \A p, q \in Nat : SumFunctionOnSet(Recorded, In(p, q)) \in Nat
    BY <2>1, <2>3, SumSteps
  <2> QED
    BY <2>2, <2>4, <2>5
<1>2. /\ UnaggregatedRows(start, end, endpoints) =
           UnaggregatedRows(start, a, endpoints) + UnaggregatedRows(a, z, endpoints)
             + UnaggregatedRows(z, end, endpoints)
      /\ \A p, q \in Nat : UnaggregatedRows(p, q, endpoints) \in Nat
  <2> DEFINE S == {r \in Unaggregated : r.endpoint \in endpoints}
             f == [r \in Unaggregated |-> r.count]
             at == [r \in Unaggregated |-> r.at]
             In(p, q) == {r \in S : Within(at[r], p, q)}
  <2>1. /\ IsFiniteSet(S) /\ Counts(f, S) /\ \A r \in S : at[r] \in Nat
    BY UnaggregatedAssumption, FS_Subset DEF Counts
  <2>2. ASSUME NEW p \in Nat, NEW q \in Nat
        PROVE  UnaggregatedRows(p, q, endpoints) = SumFunctionOnSet(f, In(p, q))
    <3>1. {r \in Unaggregated : Within(r.at, p, q) /\ r.endpoint \in endpoints} = In(p, q)
      OBVIOUS
    <3> QED
      BY <3>1 DEF UnaggregatedRows
  <2>3. \A p, q \in Nat : In(p, q) \in SUBSET S
    OBVIOUS
  <2> HIDE DEF S, f, at
  <2>4. SumFunctionOnSet(f, In(start, end)) =
          SumFunctionOnSet(f, In(start, a)) + SumFunctionOnSet(f, In(a, z))
            + SumFunctionOnSet(f, In(z, end))
    BY <2>1, SumOfWindow
  <2> HIDE DEF In
  <2>5. \A p, q \in Nat : SumFunctionOnSet(f, In(p, q)) \in Nat
    BY <2>1, <2>3, SumSteps
  <2> QED
    BY <2>2, <2>4, <2>5
<1> QED
  BY <1>1, <1>2

\* Rows that no aggregate knows of are looked for between the same two moments.
LEMMA UnaggregatedMatch ==
  ASSUME NEW endpoints, NEW x, NEW y, NEW a, NEW z,
         \A t \in Nat : Within(t, x, y) <=> Within(t, a, z)
  PROVE  UnaggregatedRows(x, y, endpoints) = UnaggregatedRows(a, z, endpoints)
<1>1. {r \in Unaggregated : Within(r.at, x, y) /\ r.endpoint \in endpoints}
        = {r \in Unaggregated : Within(r.at, a, z) /\ r.endpoint \in endpoints}
  BY UnaggregatedAssumption
<1> QED
  BY <1>1 DEF UnaggregatedRows

\* Aggregates that match the rows make every window exact.
LEMMA WindowsFollow == TypeOK /\ AggregatesMatchRows => WindowsAreExact
<1> SUFFICES ASSUME TypeOK, AggregatesMatchRows,
                    NEW start \in Instant, NEW end \in Instant, start < end
             PROVE  /\ SumUsageForWindow(start, end) = RawUsage(start, end, Endpoint)
                    /\ \A p \in Endpoint :
                         EndpointUsageForWindow(p, start, end) = RawUsage(start, end, {p})
  BY DEF WindowsAreExact
<1>0. start \in Nat /\ end \in Nat
  BY InstantAssumption
<1> DEFINE a == StartPartialEnd(start, end)
           z == EndPartialStart(start, end)
           x == FullDaysStart(start)
           y == FullDaysEnd(end)
<1>1. /\ a \in Nat /\ z \in Nat /\ x \in Nat /\ y \in Nat
      /\ start <= a /\ a <= z /\ z <= end
      /\ \A t \in Nat : Within(t, x, y) <=> Within(t, a, z)
      /\ \A t \in Nat : Within(DayStart(t), x, y) <=> Within(t, a, z)
  BY <1>0, PartsOfWindow
<1>2. ASSUME NEW endpoints, NEW dailySum,
             dailySum = AggregatedRows(a, z, endpoints)
      PROVE  WindowSum(start, end, endpoints, dailySum) = RawUsage(start, end, endpoints)
  <2>1. WindowSum(start, end, endpoints, dailySum) =
          RawUsage(start, a, endpoints) + dailySum + UnaggregatedRows(x, y, endpoints)
            + RawUsage(z, end, endpoints)
    BY <1>0 DEF WindowSum
  <2> HIDE DEF a, z, x, y
  <2>2. UnaggregatedRows(x, y, endpoints) = UnaggregatedRows(a, z, endpoints)
    BY <1>1, UnaggregatedMatch
  <2>3. /\ AggregatedRows(start, end, endpoints) =
             AggregatedRows(start, a, endpoints) + AggregatedRows(a, z, endpoints)
               + AggregatedRows(z, end, endpoints)
        /\ UnaggregatedRows(start, end, endpoints) =
             UnaggregatedRows(start, a, endpoints) + UnaggregatedRows(a, z, endpoints)
               + UnaggregatedRows(z, end, endpoints)
        /\ \A p, q \in Nat : /\ AggregatedRows(p, q, endpoints) \in Nat
                             /\ UnaggregatedRows(p, q, endpoints) \in Nat
    BY <1>0, <1>1, RowsOfWindow
  <2> QED
    BY <1>0, <1>1, <1>2, <2>1, <2>2, <2>3 DEF RawUsage
<1>3. /\ DailyUsage(x, y) = AggregatedRows(a, z, Endpoint)
      /\ \A p \in Endpoint : EndpointDailyUsage(x, y, p) = AggregatedRows(a, z, {p})
  <2> HIDE DEF a, z, x, y
  <2> QED
    BY <1>1, DaysMatchRows
<1> QED
  BY <1>2, <1>3 DEF SumUsageForWindow, EndpointUsageForWindow

\* A window counts each of its rows once and no other, for any windows, days, rows and
\* states of the queue (sumUsageForWindow, listEndpointUsageForWindow).
THEOREM WindowsCorrect == Spec => []WindowsAreExact
<1>1. IngestInv => TypeOK
  BY DEF IngestInv
<1> QED
  BY <1>1, WindowsFollow, IngestCorrect, AggregatesCorrect, PTL

-----------------------------------------------------------------------------
(* The lease under which the workers run, row by row: what UsageIngest takes *)
(* from ExclusiveLease, BackgroundJobLease keeps.                            *)

\* What a step of the protocol keeps (LeaseInv is inductive): a transaction that
\* works with an old clock value finds a lease that is still live by the real
\* clock not expired, since its value lies in the past.
LEMMA LeaseInvStep == LeaseInv /\ [LeaseNext]_leaseVars => LeaseInv'
<1> SUFFICES ASSUME LeaseInv, [LeaseNext]_leaseVars PROVE LeaseInv'
  OBVIOUS
<1> USE DurationAssumption, OwnerAssumption, MaxTimeAssumption
<1> USE DEF LeaseInv, LeaseTypeOK, ClockReadsPast, LeaseHonoured, Holds, NewLease, LeaseRow, CyclePlace
<1>1. CASE Tick
  BY <1>1 DEF Tick
<1>2. ASSUME NEW o \in Owner, BeginCycle(o) PROVE LeaseInv'
  BY <1>2 DEF BeginCycle
<1>3. ASSUME NEW o \in Owner, AcquireLease(o) PROVE LeaseInv'
  <2>1. LeaseTypeOK' /\ ClockReadsPast'
    BY <1>3 DEF AcquireLease, MoveTo
  <2>2. ASSUME NEW p \in Owner, Holds(p)' PROVE lease' = NewLease(p)'
    <3>1. CASE p = o
      BY <1>3, <2>2, <3>1 DEF AcquireLease, MoveTo
    <3>2. CASE p # o
      <4>1. Holds(p) /\ lease = NewLease(p) /\ ~MayTake(o)
        BY <1>3, <2>2, <3>2 DEF AcquireLease, MoveTo, MayTake
      <4>2. QED
        BY <4>1, <1>3 DEF AcquireLease
    <3>3. QED
      BY <3>1, <3>2
  <2>3. QED
    BY <2>1, <2>2
<1>4. ASSUME NEW o \in Owner, AcquireUnanswered(o) PROVE LeaseInv'
  <2>1. LeaseTypeOK' /\ ClockReadsPast'
    BY <1>4 DEF AcquireUnanswered, MoveTo
  <2>2. ASSUME NEW p \in Owner, Holds(p)' PROVE FALSE
    <3>1. p # o
      BY <1>4, <2>2 DEF AcquireUnanswered, MoveTo
    <3>2. Holds(p) /\ lease = NewLease(p) /\ ~MayTake(o)
      BY <1>4, <2>2, <3>1 DEF AcquireUnanswered, MoveTo, MayTake
    <3>3. QED
      BY <3>2, <1>4 DEF AcquireUnanswered
  <2>3. QED
    BY <2>1, <2>2
<1>5. ASSUME NEW o \in Owner,
             Refused(o) \/ LoseRace(o) \/ EndCycle(o) \/ ProcessEnds(o)
      PROVE LeaseInv'
  BY <1>5 DEF Refused, LoseRace, EndCycle, ProcessEnds, MoveTo
<1>6. CASE UNCHANGED leaseVars
  BY <1>6 DEF leaseVars
<1>7. QED
  BY <1>1, <1>2, <1>3, <1>4, <1>5, <1>6 DEF LeaseNext

\* With no row and no process in a cycle the invariant holds.
LEMMA LeaseInvInit == LeaseInit => LeaseInv
BY DurationAssumption
   DEF LeaseInit, LeaseInv, LeaseTypeOK, ClockReadsPast, LeaseHonoured, Holds, NewLease, LeaseRow, CyclePlace

\* The rows and readings keep their types, no reading lies in the future, and a
\* process that may count on being alone finds its own row (tryAcquireLease).
THEOREM LeaseCorrect == LeaseSpec => []LeaseInv
BY LeaseInvInit, LeaseInvStep, PTL DEF LeaseSpec

\* Two processes are never both inside a cycle whose lease has not run out.
THEOREM LeaseExcludes == LeaseSpec => []ExclusiveCycle
<1>1. LeaseInv => ExclusiveCycle
  BY DurationAssumption
     DEF LeaseInv, LeaseHonoured, ExclusiveCycle, NewLease, LeaseRow, LeaseTypeOK
<1>2. QED
  BY <1>1, LeaseCorrect, PTL

-----------------------------------------------------------------------------
\* A missing row is a lease nobody holds.
LEMMA AbstractInit == LeaseInit => Abstract!Init
BY DEF LeaseInit, Abstract!Init, LiveHolder

\* Every step of the row protocol grants the abstract lease, lets it lapse, or
\* leaves it alone.
LEMMA AbstractStep == LeaseInv /\ [LeaseNext]_leaseVars => [Abstract!Next]_LiveHolder
<1> SUFFICES ASSUME LeaseInv, [LeaseNext]_leaseVars PROVE [Abstract!Next]_LiveHolder
  OBVIOUS
<1> USE OwnerAssumption, DurationAssumption
<1> USE DEF LeaseInv, LeaseTypeOK, ClockReadsPast, LeaseRow, LiveHolder,
            Abstract!Next, Abstract!Grant, Abstract!Lapse
<1>1. CASE Tick
  BY <1>1 DEF Tick
<1>2. ASSUME NEW o \in Owner, AcquireLease(o) \/ AcquireUnanswered(o)
      PROVE [Abstract!Next]_LiveHolder
  <2>1. MayTake(o) /\ lease' = NewLease(o) /\ clock' = clock
    BY <1>2 DEF AcquireLease, AcquireUnanswered
  <2>2. LiveHolder \in {Nobody, o}
    BY <2>1 DEF MayTake
  <2>3. LiveHolder' \in {Nobody, o}
    BY <2>1 DEF NewLease
  <2>4. QED
    BY <2>2, <2>3
<1>3. ASSUME NEW o \in Owner,
             \/ BeginCycle(o) \/ Refused(o) \/ LoseRace(o) \/ EndCycle(o)
             \/ ProcessEnds(o)
      PROVE LiveHolder' = LiveHolder
  BY <1>3 DEF BeginCycle, Refused, LoseRace, EndCycle, ProcessEnds
<1>4. CASE UNCHANGED leaseVars
  BY <1>4 DEF leaseVars
<1>5. QED
  BY <1>1, <1>2, <1>3, <1>4 DEF LeaseNext

\* The row protocol implements ExclusiveLease: a live lease changes hands only
\* after it has run out.
THEOREM LeaseRefines == LeaseSpec => ImplementsExclusiveLease
<1>1. QED
  BY AbstractInit, AbstractStep, LeaseCorrect, PTL
     DEF LeaseSpec, ImplementsExclusiveLease, Abstract!Spec
=============================================================================
