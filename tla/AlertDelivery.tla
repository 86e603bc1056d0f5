---------------------------- MODULE AlertDelivery ----------------------------
(***************************************************************************)
(* Operational alerts of one kind and the webhooks they are posted to.     *)
(* Cycles run in several processes under a lease; each reads the alert and *)
(* the stored states once and acts on them while it posts.  Processes go   *)
(* down, targets are away, answers are lost.  The reads at the start of a  *)
(* cycle are one step here.                                                *)
(*                                                                         *)
(* Times are ages, and an age past the cooldown is as good as any other.   *)
(* Counters and firstObservedAt are left out.                              *)
(***************************************************************************)
EXTENDS Naturals, FiniteSets

CONSTANTS Worker,      \* processes that deliver alerts
          NoOwner,     \* nobody holds their lease
          Target,      \* configured targets
          NoTarget,    \* none of them
          Text,        \* severity, title and message an active alert can have
          Details,     \* what its details can be
          Quiet,       \* there is no alert
          Cooldown,    \* ALERT_DELIVERY_COOLDOWN_SECONDS in ticks
          MaxChanges,  \* bound on changes of the alert
          MaxCuts      \* bound on crashes, lost answers, failed updates and
                       \* leases that lapse under a running cycle

\* buildFingerprint: whatever can change in an alert of one kind.
Fingerprint == [text : Text, details : Details]

ASSUME AlertAssumption == /\ NoOwner \notin Worker /\ IsFiniteSet(Worker)
                          /\ Quiet \notin Fingerprint
                          /\ NoTarget \notin Target
                          /\ Cooldown \in Nat \ {0}
                          /\ {MaxChanges, MaxCuts} \subseteq Nat

VARIABLES alert,    \* what listOperationalAlerts would find now
          observed, \* OperationalAlertState: no row, active or resolved
          row,      \* OperationalAlertDeliveryTargetState per target
          holder,   \* whose running cycle the live lease covers
          worker,   \* per process: where its cycle stands and what it read
          told,     \* per target the last notification since the alert changed
          repeats,  \* per target, how often it was told the same too soon
          changes, cuts

vars == <<alert, observed, row, holder, worker, told, repeats, changes, cuts>>
outside == <<alert, told, repeats, changes, cuts>>

\* An age stops at the cooldown; Never has not happened.
Never == Cooldown + 1
Age == 0..Never
Older(age) == IF age < Cooldown THEN age + 1 ELSE age

Alert == Fingerprint \cup {Quiet}

\* fingerprint Quiet: no row yet.
TargetState == [fingerprint : Alert, resolved : BOOLEAN, delivered : Age]
Notice == [fingerprint : Alert, at : Age]
Cycle == [pc : {"idle", "observing", "posting", "succeeded", "failed",
                "resolving", "clearing"},
          at : Age, alert : Alert, todo : SUBSET Target, target : Target \cup {NoTarget}]

NoState == [fingerprint |-> Quiet, resolved |-> FALSE, delivered |-> Never]
Untold == [fingerprint |-> Quiet, at |-> Never]
Idle == [pc |-> "idle", at |-> Never, alert |-> Quiet, todo |-> {}, target |-> NoTarget]

TypeOK ==
  /\ alert \in Alert
  /\ observed \in {"none", "active", "resolved"}
  /\ row \in [Target -> TargetState]
  /\ holder \in Worker \cup {NoOwner}
  /\ worker \in [Worker -> Cycle]
  /\ told \in [Target -> Notice]
  /\ repeats \in [Target -> Nat]
  /\ changes \in 0..MaxChanges /\ cuts \in 0..MaxCuts

Init == /\ alert \in Alert
        /\ observed = "none"
        /\ row = [t \in Target |-> NoState]
        /\ holder = NoOwner
        /\ worker = [w \in Worker |-> Idle]
        /\ told = [t \in Target |-> Untold]
        /\ repeats = [t \in Target |-> 0]
        /\ changes = 0 /\ cuts = 0

-----------------------------------------------------------------------------
(* The system that is watched, the targets, and time. *)

\* It comes, clears, changes its text, or only its details: how long a lease has
\* still to run, how many jobs are behind.
AlertChanges ==
  /\ changes < MaxChanges
  /\ alert' \in Alert \ {alert}
  /\ told' = [t \in Target |-> Untold]
  /\ changes' = changes + 1
  /\ UNCHANGED <<observed, row, holder, worker, repeats, cuts>>

\* A cycle may take any time.
Tick ==
  /\ row' = [t \in Target |-> [row[t] EXCEPT !.delivered = Older(@)]]
  /\ told' = [t \in Target |-> [told[t] EXCEPT !.at = Older(@)]]
  /\ worker' = [w \in Worker |-> [worker[w] EXCEPT !.at = Older(@)]]
  /\ UNCHANGED <<alert, observed, holder, repeats, changes, cuts>>

-----------------------------------------------------------------------------
(* syncOperationalAlerts *)

At(w, pc) == worker[w].pc = pc
Goto(w, pc) == worker' = [worker EXCEPT ![w].pc = pc]
Current(w) == worker[w].target

Stop(w) == /\ worker' = [worker EXCEPT ![w] = Idle]
           /\ holder' = IF holder = w THEN NoOwner ELSE holder

\* Once the last target is done, only alerts that have cleared are resolved.
Proceed(w, todo) ==
  IF todo = {}
    THEN Stop(w)
    ELSE /\ worker' = [worker EXCEPT ![w].pc = "posting", ![w].todo = todo,
                                     ![w].target = NoTarget]
         /\ UNCHANGED holder

\* A plausible slip: a target that could not be reached waits like any other.
ShouldSendOnceTried(state, fingerprint) ==
  \/ state.fingerprint # fingerprint
  \/ state.resolved
  \/ state.delivered = Cooldown

\* A plausible slip: the cooldown is forgotten.
ShouldSendWhileActive(state, fingerprint) == ~state.resolved \/ state.delivered = Never

ShouldSend(state, fingerprint) ==
  \/ state.fingerprint # fingerprint
  \/ state.resolved
  \/ state.delivered \in {Never, Cooldown}

ToNotify == IF alert = Quiet THEN {} ELSE {t \in Target : ShouldSend(row[t], alert)}

\* tryAcquireLease: the row is taken when nobody holds it or its time is over.
AcquireLease(w) == holder = NoOwner /\ holder' = w

\* The time of the cycle, the lease, the alert, and the stored states, from
\* which it is decided at once whom to notify.
Start(w) ==
  /\ At(w, "idle") /\ AcquireLease(w)
  /\ alert # Quiet \/ observed = "active"
  /\ worker' = [worker EXCEPT ![w] =
       [pc |-> IF alert = Quiet THEN "resolving" ELSE "observing", at |-> 0, alert |-> alert,
        todo |-> ToNotify, target |-> NoTarget]]
  /\ UNCHANGED <<outside, observed, row>>

UpsertObservedState(w) ==
  /\ At(w, "observing")
  /\ observed' = "active"
  /\ Proceed(w, worker[w].todo)
  /\ UNCHANGED <<outside, row>>

Cut == /\ cuts < MaxCuts
       /\ cuts' = cuts + 1

\* t has it.  A notice is dated by the start of its cycle, as the code dates it;
\* that the same comes again within the cooldown from then is noted.
Receive(w, t) ==
  /\ told' = [told EXCEPT ![t] = [fingerprint |-> worker[w].alert, at |-> worker[w].at]]
  /\ repeats' = IF told[t].fingerprint = worker[w].alert /\ told[t].at < Cooldown
                  THEN [repeats EXCEPT ![t] = @ + 1] ELSE repeats

DeliverAlert(w, t) ==
  /\ At(w, "posting") /\ t \in worker[w].todo
  /\ worker' = [worker EXCEPT ![w].pc = "succeeded", ![w].target = t]
  /\ Receive(w, t)
  /\ UNCHANGED <<alert, observed, row, holder, changes, cuts>>

\* The target is away, refuses or is too slow; or only its answer is lost.
FailDelivery(w, t) ==
  /\ At(w, "posting") /\ t \in worker[w].todo
  /\ worker' = [worker EXCEPT ![w].pc = "failed", ![w].target = t]
  /\ \/ UNCHANGED <<told, repeats, cuts>>
     \/ Receive(w, t) /\ Cut
  /\ UNCHANGED <<alert, observed, row, holder, changes>>

\* The row is stored with the time the cycle began.
MarkDeliverySuccess(w) ==
  /\ At(w, "succeeded")
  /\ row' = [row EXCEPT ![Current(w)] =
       [fingerprint |-> worker[w].alert, resolved |-> FALSE, delivered |-> worker[w].at]]
  /\ Proceed(w, worker[w].todo \ {Current(w)})
  /\ UNCHANGED <<outside, observed>>

\* The last delivery, whatever it was of, stays in the row.
MarkDeliveryFailure(w) ==
  /\ At(w, "failed")
  /\ row' = [row EXCEPT ![Current(w)].fingerprint = worker[w].alert,
                        ![Current(w)].resolved = FALSE]
  /\ Proceed(w, worker[w].todo \ {Current(w)})
  /\ UNCHANGED <<outside, observed>>

\* resolveClearedAlerts, in two statements.
ResolveState(w) ==
  /\ At(w, "resolving")
  /\ observed' = "resolved"
  /\ Goto(w, "clearing")
  /\ UNCHANGED <<outside, row, holder>>

ResolveTargets(w) ==
  /\ At(w, "clearing")
  /\ row' = [t \in Target |-> [row[t] EXCEPT !.resolved = row[t].fingerprint # Quiet]]
  /\ Stop(w)
  /\ UNCHANGED <<outside, observed>>

-----------------------------------------------------------------------------
(* Failures. *)

\* The update after a success fails: the target counts as not reached.
FailMark(w) ==
  /\ At(w, "succeeded")
  /\ Goto(w, "failed")
  /\ Cut
  /\ UNCHANGED <<alert, observed, row, holder, told, repeats, changes>>

\* The process goes down, or another statement fails and ends the cycle.
Crash(w) ==
  /\ ~At(w, "idle")
  /\ Stop(w)
  /\ Cut
  /\ UNCHANGED <<alert, observed, row, told, repeats, changes>>

LeaseLapse ==
  /\ holder # NoOwner
  /\ holder' = NoOwner
  /\ Cut
  /\ UNCHANGED <<alert, observed, row, worker, told, repeats, changes>>

-----------------------------------------------------------------------------
Step(w) == \/ Start(w) \/ UpsertObservedState(w)
           \/ \E t \in Target : DeliverAlert(w, t) \/ FailDelivery(w, t)
           \/ MarkDeliverySuccess(w) \/ MarkDeliveryFailure(w)
           \/ ResolveState(w) \/ ResolveTargets(w)

Next == \/ AlertChanges \/ Tick \/ LeaseLapse
        \/ \E w \in Worker : Step(w) \/ FailMark(w) \/ Crash(w)

Spec == Init /\ [][Next]_vars

\* setInterval starts cycles, a cycle keeps going (requests have a timeout), and
\* time passes.  A target may be away for long, but not whenever it is tried.
FairSpec == /\ Spec /\ WF_vars(Tick)
            /\ \A w \in Worker : WF_vars(Step(w))
            /\ \A t \in Target : SF_vars(\E w \in Worker : DeliverAlert(w, t))

-----------------------------------------------------------------------------
\* A target that was told does not hear the same again before the cooldown has
\* passed since the cycle that told it began; each crash, lost answer or overlap of
\* cycles lets it hear twice too often at most
\* (shouldSendNotification, markTargetDeliverySuccess).
RemindersKeepTheCooldown == \A t \in Target : repeats[t] <= 2 * cuts

AlertInv == TypeOK /\ RemindersKeepTheCooldown

\* An alert that stays reaches every target and is the last they heard, whatever
\* came before: changes while a cycle ran, failures recorded over earlier
\* deliveries, crashes in between
\* (shouldSendNotification, markTargetDeliveryFailure).
AlertsReachTargets ==
  \A f \in Fingerprint :
    <>[](alert = f) => <>[](\A t \in Target : told[t].fingerprint = f)

\* "Minimum time before re-sending an unchanged alert as a reminder": no target is
\* sent the text it was sent within the cooldown.  It is when only the details have
\* changed (buildFingerprint).
UnchangedAlertsWait ==
  [][\A w \in Worker, t \in Target :
       /\ DeliverAlert(w, t)
       /\ row[t].fingerprint # Quiet /\ ~row[t].resolved /\ row[t].delivered < Cooldown
       => worker[w].alert.text # row[t].fingerprint.text]_vars
=============================================================================
