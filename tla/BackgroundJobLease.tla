------------------------- MODULE BackgroundJobLease -------------------------
(***************************************************************************)
(* The lease that keeps the scheduled jobs of several backend processes    *)
(* apart.  Six services carry the same protocol (usage ingest worker,      *)
(* reconciliation, managed retry, overage collection, alert delivery,      *)
(* metrics history); the usage ingest worker is the one translated here.   *)
(*                                                                         *)
(* A process reads its clock, and only later does its SERIALIZABLE         *)
(* transaction read the lease row and compare-and-set it: the two are      *)
(* separate steps, so the clock value a transaction uses may be old.  The  *)
(* transaction itself is one step; two that overlap end with one of them   *)
(* aborted (P2034), with a unique violation on create (P2002), or with     *)
(* updateMany matching no row, which LoseRace stands for.                  *)
(*                                                                         *)
(* Names are kept apart from those of the services, whose proofs use both. *)
(***************************************************************************)
EXTENDS Naturals

CONSTANTS Owner,     \* leaseOwnerId values: a fresh randomUUID per process
          Nobody,   \* the owner of a row that does not exist yet
          Duration,  \* getLeaseDurationMilliseconds()
          MaxTime    \* bound on the clock

ASSUME OwnerAssumption == Nobody \notin Owner
ASSUME DurationAssumption == Duration \in Nat \ {0}
ASSUME MaxTimeAssumption == MaxTime \in Nat

VARIABLES clock,   \* the time shared by the processes
          lease,   \* the BackgroundJobLease row of this job; a missing row is
                   \* one of Nobody that expired at 0
          cycle    \* per process: where its scheduled cycle stands, and the
                   \* clock value its lease transaction works with

leaseVars == <<clock, lease, cycle>>

CyclePlace == {"idle", "acquiring", "running", "stopped"}
LeaseRow == [owner : Owner \cup {Nobody}, expiresAt : Nat]

LeaseTypeOK == /\ clock \in Nat
               /\ lease \in LeaseRow
               /\ cycle \in [Owner -> [pc : CyclePlace, now : Nat]]

LeaseInit == /\ clock = 0
             /\ lease = [owner |-> Nobody, expiresAt |-> 0]
             /\ cycle = [o \in Owner |-> [pc |-> "idle", now |-> 0]]

Tick == /\ clock < MaxTime
        /\ clock' = clock + 1
        /\ UNCHANGED <<lease, cycle>>

MoveTo(o, pc) == cycle' = [cycle EXCEPT ![o].pc = pc]

\* isRunning keeps a process to one cycle at a time; tryAcquireLease then
\* reads the clock before it opens its transaction.
BeginCycle(o) ==
  /\ cycle[o].pc = "idle"
  /\ cycle' = [cycle EXCEPT ![o] = [pc |-> "acquiring", now |-> clock]]
  /\ UNCHANGED <<clock, lease>>

\* Plausible slips: no look at the expiry, an expiry test that is off by one,
\* a takeover that keeps the old expiry.
MayTakeForeign(o) == TRUE
MayTakeEarly(o) == \/ lease.owner = o
                   \/ lease.expiresAt <= cycle[o].now + 1
NewLeaseKeepingExpiry(o) == [lease EXCEPT !.owner = o]

\* The row is its own, or it is missing or expired by its reading of the clock.
MayTake(o) == \/ lease.owner = o
              \/ lease.expiresAt <= cycle[o].now

NewLease(o) == [owner |-> o, expiresAt |-> cycle[o].now + Duration]

AcquireLease(o) ==
  /\ cycle[o].pc = "acquiring"
  /\ MayTake(o)
  /\ lease' = NewLease(o)
  /\ MoveTo(o, "running")
  /\ UNCHANGED clock

\* The transaction committed, but its answer never reached the process.
AcquireUnanswered(o) ==
  /\ cycle[o].pc = "acquiring"
  /\ MayTake(o)
  /\ lease' = NewLease(o)
  /\ MoveTo(o, "idle")
  /\ UNCHANGED clock

Refused(o) ==
  /\ cycle[o].pc = "acquiring"
  /\ ~MayTake(o)
  /\ MoveTo(o, "idle")
  /\ UNCHANGED <<clock, lease>>

LoseRace(o) ==
  /\ cycle[o].pc = "acquiring"
  /\ MayTake(o)
  /\ MoveTo(o, "idle")
  /\ UNCHANGED <<clock, lease>>

\* The cycle's work is done.  Nothing releases the row: it is left to expire.
EndCycle(o) ==
  /\ cycle[o].pc = "running"
  /\ MoveTo(o, "idle")
  /\ UNCHANGED <<clock, lease>>

\* A process that goes down never returns under the same owner id.
ProcessEnds(o) ==
  /\ cycle[o].pc # "stopped"
  /\ MoveTo(o, "stopped")
  /\ UNCHANGED <<clock, lease>>

LeaseNext == \/ Tick
             \/ \E o \in Owner : \/ BeginCycle(o)
                                 \/ AcquireLease(o)
                                 \/ AcquireUnanswered(o)
                                 \/ Refused(o)
                                 \/ LoseRace(o)
                                 \/ EndCycle(o)
                                 \/ ProcessEnds(o)

LeaseSpec == LeaseInit /\ [][LeaseNext]_leaseVars

-----------------------------------------------------------------------------
\* o is in a cycle and the lease it obtained for it has not run out: the time
\* in which it may count on being alone.
Holds(o) == /\ cycle[o].pc = "running"
            /\ clock < cycle[o].now + Duration

\* No clock value a process works with lies in the future.
ClockReadsPast == \A o \in Owner : cycle[o].now <= clock

\* While a process may count on being alone, the row still says what its own
\* transaction wrote: no other process replaced it, and no renewal that was
\* computed earlier overwrote it (tryAcquireLease, the compare-and-set).
LeaseHonoured ==
  \A o \in Owner : Holds(o) => lease = NewLease(o)

\* The inductive invariant behind the exclusion.
LeaseInv == LeaseTypeOK /\ ClockReadsPast /\ LeaseHonoured

\* Two processes are never both inside a cycle whose lease has not run out
\* (the reason drainQueue and the other jobs take the lease first).
ExclusiveCycle == \A o, p \in Owner : Holds(o) /\ Holds(p) => o = p

\* The owner of the live lease, as ExclusiveLease sees it.
LiveHolder == IF clock < lease.expiresAt THEN lease.owner ELSE Nobody

Abstract == INSTANCE ExclusiveLease WITH NoOwner <- Nobody, holder <- LiveHolder

\* The row protocol implements the exclusive lease: a live lease changes hands
\* only after it has run out, whatever old clock values are still in flight.
ImplementsExclusiveLease == Abstract!Spec
=============================================================================
