---------------------------- MODULE UsageIngest ----------------------------
(***************************************************************************)
(* Usage metering: POST /usage/record puts a UsageIngestJob in a table;    *)
(* workers in several processes drain the table in batches, under a lease  *)
(* that may run out while a batch is still being worked through; every     *)
(* job ends as one UsageRecord row and two aggregate increments.           *)
(*                                                                         *)
(* Time is seen through what it makes happen: the lease lapses, and a job  *)
(* whose availableAt lies ahead falls due.  Both may happen at any moment, *)
(* so every batch duration and every retry delay is covered; attempts only *)
(* sets that delay and is left out.  ready lists the jobs the query of     *)
(* drainQueue finds, in its order (availableAt, then createdAt).           *)
(***************************************************************************)
EXTENDS Naturals, Sequences, SequencesExt, FiniteSets, Functions

CONSTANTS Worker,     \* process incarnations that run the ingest worker
          NoOwner,    \* nobody holds the ingest lease
          Job,        \* queued usage events, one UsageIngestJob each
          Direct,     \* usage events written without the queue
          Bucket,     \* subscription and UTC day: a UsageDailyAggregate row
          Endpoint,
          Usage,      \* what each event reports
          Poison,     \* jobs whose transaction can never commit, as when the
                      \* increment overflows the INTEGER aggregate column
          BatchSize,  \* usageIngestQueueBatchSize
          MaxFaults   \* bound on errors that are not due to a poison job

Event == Job \cup Direct

ASSUME WorkerAssumption == NoOwner \notin Worker
ASSUME EventAssumption == /\ Job \cap Direct = {} /\ Poison \subseteq Job
                          /\ IsFiniteSet(Event)
ASSUME UsageAssumption ==
         Usage \in [Event -> [bucket : Bucket, endpoint : Endpoint, count : Nat]]
ASSUME BatchSizeAssumption == BatchSize \in Nat \ {0}
ASSUME MaxFaultsAssumption == MaxFaults \in Nat

VARIABLES status,         \* UsageIngestJob.status, "none" before the row exists
          ready,          \* the due jobs, in the order the worker reads them
          rows,           \* how many UsageRecord rows an event has
          daily,          \* UsageDailyAggregate.requestCount
          endpointDaily,  \* UsageEndpointDailyAggregate.requestCount
          holder,         \* the owner of the live ingest lease (ExclusiveLease)
          worker,         \* per process: where drainQueue stands, and the jobs
                          \* of its batch it has still to work through
          faults

ledgerVars == <<rows, daily, endpointDaily>>
queueVars == <<status, ready>>
vars == <<status, ready, rows, daily, endpointDaily, holder, worker, faults>>

Lease == INSTANCE ExclusiveLease WITH Owner <- Worker

Status == {"none", "PENDING", "FAILED", "PROCESSED"}
Pc == {"idle", "leased", "recording", "duplicate", "failing", "stopped"}

TypeOK == /\ status \in [Job -> Status]
          /\ ready \in Seq(Job)
          /\ rows \in [Event -> Nat]
          /\ daily \in [Bucket -> Nat]
          /\ endpointDaily \in [Bucket -> [Endpoint -> Nat]]
          /\ holder \in Worker \cup {NoOwner}
          /\ worker \in [Worker -> [pc : Pc, batch : Seq(Job)]]
          /\ faults \in Nat

Init == /\ status = [j \in Job |-> "none"]
        /\ ready = <<>>
        /\ rows = [e \in Event |-> 0]
        /\ daily = [b \in Bucket |-> 0]
        /\ endpointDaily = [b \in Bucket |-> [p \in Endpoint |-> 0]]
        /\ holder = NoOwner
        /\ worker = [w \in Worker |-> [pc |-> "idle", batch |-> <<>>]]
        /\ faults = 0

-----------------------------------------------------------------------------
\* A job that the query no longer returns.  It is at most once in ready.
Without(s, j) == IF Contains(s, j)
                   THEN RemoveAt(s, CHOOSE i \in DOMAIN s : s[i] = j)
                   ELSE s

\* A plausible slip: the second aggregate is forgotten.
RecordUsageTotalOnly(e) ==
  LET use == Usage[e] IN
  /\ rows' = [rows EXCEPT ![e] = @ + 1]
  /\ daily' = [daily EXCEPT ![use.bucket] = @ + use.count]
  /\ UNCHANGED endpointDaily

\* The row and both aggregates, in the caller's transaction.
RecordUsage(e) ==
  LET use == Usage[e] IN
  /\ rows' = [rows EXCEPT ![e] = @ + 1]
  /\ daily' = [daily EXCEPT ![use.bucket] = @ + use.count]
  /\ endpointDaily' =
       [endpointDaily EXCEPT ![use.bucket][use.endpoint] = @ + use.count]

\* POST /usage/record with the queue enabled, for an event that passed
\* validateUsageRecordInput; a rejected call changes nothing.
Enqueue(j) ==
  /\ status[j] = "none"
  /\ status' = [status EXCEPT ![j] = "PENDING"]
  /\ ready' = Append(ready, j)
  /\ UNCHANGED <<ledgerVars, holder, worker, faults>>

\* The queue is disabled, or the gateway consumes usage: no sourceJobId.
RecordDirect(d) ==
  /\ rows[d] = 0
  /\ RecordUsage(d)
  /\ UNCHANGED <<queueVars, holder, worker, faults>>

-----------------------------------------------------------------------------
At(w, pc) == worker[w].pc = pc
Goto(w, pc) == worker' = [worker EXCEPT ![w].pc = pc]
Current(w) == Head(worker[w].batch)

\* On to the next job of the batch; the cycle ends with the last one.
Advance(w) ==
  worker' = [worker EXCEPT ![w] =
    [pc |-> IF Len(@.batch) = 1 THEN "idle" ELSE "recording",
     batch |-> Tail(@.batch)]]

Fault == /\ faults < MaxFaults
         /\ faults' = faults + 1

Acquire(w) ==
  /\ At(w, "idle")
  /\ Lease!Grant(w)
  /\ Goto(w, "leased")
  /\ UNCHANGED <<queueVars, ledgerVars, faults>>

\* A batch of due PENDING and FAILED jobs; with none due the cycle is over.
Fetch(w) ==
  /\ At(w, "leased")
  /\ LET n == IF Len(ready) < BatchSize THEN Len(ready) ELSE BatchSize IN
     worker' = [worker EXCEPT ![w] =
       [pc |-> IF n = 0 THEN "idle" ELSE "recording",
        batch |-> SubSeq(ready, 1, n)]]
  /\ UNCHANGED <<queueVars, ledgerVars, holder, faults>>

\* Plausible slips: no unique index on sourceJobId; any P2002 taken for a
\* duplicate; a retry that stays first in line.
AlreadyRecordedUnindexed(j) == FALSE
AlreadyRecordedLoosely(j) ==
  \E e \in Event : rows[e] > 0 /\ Usage[e].bucket = Usage[j].bucket
PostponeNot(j) == status' = [status EXCEPT ![j] = "FAILED"] /\ UNCHANGED ready

\* The unique index on UsageRecord.sourceJobId.
AlreadyRecorded(j) == rows[j] > 0

CommitRecord(w) ==
  LET j == Current(w) IN
  /\ At(w, "recording")
  /\ j \notin Poison
  /\ ~AlreadyRecorded(j)
  /\ RecordUsage(j)
  /\ status' = [status EXCEPT ![j] = "PROCESSED"]
  /\ ready' = Without(ready, j)

Record(w) ==
  /\ CommitRecord(w)
  /\ Advance(w)
  /\ UNCHANGED <<holder, faults>>

\* The transaction committed, but the worker only saw its connection fail.
RecordUnanswered(w) ==
  /\ CommitRecord(w)
  /\ Goto(w, "failing")
  /\ Fault
  /\ UNCHANGED holder

\* P2002 on sourceJobId: the transaction is rolled back.
FindDuplicate(w) ==
  /\ At(w, "recording")
  /\ AlreadyRecorded(Current(w))
  /\ Goto(w, "duplicate")
  /\ UNCHANGED <<queueVars, ledgerVars, holder, faults>>

\* Any other error, the transaction rolled back.
FailRecord(w) ==
  /\ At(w, "recording")
  /\ IF Current(w) \in Poison THEN UNCHANGED faults ELSE Fault
  /\ Goto(w, "failing")
  /\ UNCHANGED <<queueVars, ledgerVars, holder>>

MarkJobProcessed(w) ==
  LET j == Current(w) IN
  /\ At(w, "duplicate")
  /\ status' = [status EXCEPT ![j] = "PROCESSED"]
  /\ ready' = Without(ready, j)
  /\ Advance(w)
  /\ UNCHANGED <<ledgerVars, holder, faults>>

\* FAILED whatever the row says by now, and due again only after a delay.
Postpone(j) == /\ status' = [status EXCEPT ![j] = "FAILED"]
               /\ ready' = Without(ready, j)

MarkJobFailed(w) ==
  /\ At(w, "failing")
  /\ Postpone(Current(w))
  /\ Advance(w)
  /\ UNCHANGED <<ledgerVars, holder, faults>>

\* The marking update itself fails; drainQueue logs it and goes on.
FailMark(w) ==
  /\ At(w, "duplicate") \/ At(w, "failing")
  /\ Fault
  /\ Advance(w)
  /\ UNCHANGED <<queueVars, ledgerVars, holder>>

\* A process goes down for good; the pool keeps one that can take over.
Crash(w) ==
  /\ ~At(w, "stopped")
  /\ \E v \in Worker \ {w} : ~At(v, "stopped")
  /\ worker' = [worker EXCEPT ![w] = [pc |-> "stopped", batch |-> <<>>]]
  /\ UNCHANGED <<queueVars, ledgerVars, holder, faults>>

LeaseLapse == /\ Lease!Lapse
              /\ UNCHANGED <<queueVars, ledgerVars, worker, faults>>

\* The retry delay of a job is over.
FallDue(j) ==
  /\ status[j] \in {"PENDING", "FAILED"}
  /\ ~Contains(ready, j)
  /\ ready' = Append(ready, j)
  /\ UNCHANGED <<status, ledgerVars, holder, worker, faults>>

WorkerStep(w) == \/ Acquire(w)
                 \/ Fetch(w)
                 \/ Record(w)
                 \/ FindDuplicate(w)
                 \/ FailRecord(w)
                 \/ MarkJobProcessed(w)
                 \/ MarkJobFailed(w)

Next == \/ \E j \in Job : Enqueue(j) \/ FallDue(j)
        \/ \E d \in Direct : RecordDirect(d)
        \/ \E w \in Worker : \/ WorkerStep(w)
                             \/ RecordUnanswered(w)
                             \/ FailMark(w)
                             \/ Crash(w)
        \/ LeaseLapse

\* setInterval keeps starting cycles in a live process, a cycle keeps going
\* through its batch, and time passes.
Fairness == /\ \A w \in Worker : WF_vars(WorkerStep(w))
            /\ \A j \in Job : WF_vars(FallDue(j))
            /\ WF_vars(LeaseLapse)

Spec == Init /\ [][Next]_vars
FairSpec == Spec /\ Fairness

-----------------------------------------------------------------------------
Accepted == {j \in Job : status[j] # "none"} \cup {d \in Direct : rows[d] > 0}
Counted == {e \in Event : rows[e] > 0}

\* No job is marked PROCESSED before its usage is in UsageRecord: neither a
\* stale worker, nor a crash, nor a mistaken duplicate loses accepted usage
\* (processJob, markJobProcessed).
ProcessedIsCounted ==
  \A j \in Job : status[j] = "PROCESSED" => rows[j] > 0

Enqueued == {j \in Job : status[j] # "none"}

\* What a worker is about to do never outruns the table: its batch holds jobs
\* that were enqueued, and a job it takes for a duplicate has its row.
Knows(w) ==
  /\ worker[w].batch \in Seq(Enqueued)
  /\ worker[w].pc \in {"recording", "duplicate", "failing"} => worker[w].batch # <<>>
  /\ At(w, "duplicate") => rows[Current(w)] > 0
\* All workers do, a stale one whose lease has lapsed included (drainQueue).
WorkersKnowTheirJobs == \A w \in Worker : Knows(w)

\* However often a job is tried, it has one row (the sourceJobId index).
RowsAreUnique == \A e \in Event : rows[e] <= 1
\* The worker's query and its transactions see only jobs that were enqueued.
OnlyEnqueuedIsTouched == /\ \A j \in Job : rows[j] > 0 => j \in Enqueued
                         /\ ready \in Seq(Enqueued)

\* The inductive invariant of the queue.
IngestInv == /\ TypeOK
             /\ RowsAreUnique
             /\ OnlyEnqueuedIsTouched
             /\ WorkersKnowTheirJobs
             /\ ProcessedIsCounted

\* The requests that the UsageRecord rows of an event stand for.
Recorded == [e \in Event |-> rows[e] * Usage[e].count]

\* After any mix of retries, duplicates, crashes and lease takeovers the two
\* aggregates say what the UsageRecord rows say, per day and per day and endpoint:
\* quota checks and summaries read the aggregates for whole days and rows for the
\* rest (recordUsageInTransaction).
AggregatesMatchRows ==
  \A b \in Bucket :
    /\ daily[b] = SumFunctionOnSet(Recorded, {e \in Event : Usage[e].bucket = b})
    /\ \A p \in Endpoint :
         endpointDaily[b][p] =
           SumFunctionOnSet(Recorded, {e \in Event : Usage[e].bucket = b /\ Usage[e].endpoint = p})

Ledger == INSTANCE MeteringLedger
            WITH Queued <- Job, Immediate <- Direct,
                 accepted <- Accepted, counted <- Counted, total <- daily

\* The queue, its workers and the direct writes together implement the ledger:
\* each accepted event enters its total once (the unique sourceJobId index).
ImplementsLedger == Ledger!Spec

\* Every job that can be recorded at all is recorded and in the end stays
\* PROCESSED, also when a stale worker turned it back to FAILED, and a poison
\* job, which comes back for ever, never keeps the others waiting
\* (drainQueue's order, markJobFailed's availableAt).
EveryJobSettles ==
  \A j \in Job \ Poison :
    status[j] # "none" ~> [](status[j] = "PROCESSED" /\ rows[j] > 0)
=============================================================================
