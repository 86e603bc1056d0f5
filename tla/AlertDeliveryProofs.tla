------------------------ MODULE AlertDeliveryProofs ------------------------
(***************************************************************************)
(* How often a target is told again too soon, for any number of workers    *)
(* and targets, any cooldown and any number of cuts.                       *)
(*                                                                         *)
(* The bound is a potential.  A cycle that runs without its lease can add  *)
(* two things for a target it has yet to tell: a notification too soon and *)
(* a row that hides a later one; it owes one of them once it has told it.  *)
(* The cycle under the lease adds a repeat only where the row, or what a   *)
(* stray is about to make of it, is already a risk, and its own            *)
(* notification ends that.  A cut pays for two.                            *)
(***************************************************************************)
EXTENDS AlertDelivery, FiniteSums, FiniteSetTheorems, TLAPS

\* The three ways in which a cycle moves on.
LEMMA ProceedMoves ==
  ASSUME TypeOK, NEW w \in Worker, NEW todo \in SUBSET Target, Proceed(w, todo)
  PROVE  /\ \A v \in Worker \ {w} : worker'[v] = worker[v]
         /\ worker' \in [Worker -> Cycle]
         /\ todo = {} => Stop(w) /\ worker'[w] = Idle
         /\ todo # {} => /\ worker'[w].pc = "posting" /\ worker'[w].todo = todo
                         /\ worker'[w].at = worker[w].at /\ worker'[w].alert = worker[w].alert
                         /\ holder' = holder
<1> DEFINE c == worker[w]
<1>1. /\ c \in Cycle /\ DOMAIN worker = Worker
      /\ c = [pc |-> c.pc, at |-> c.at, alert |-> c.alert, todo |-> c.todo, target |-> c.target]
  BY DEF TypeOK, Cycle
<1>2. CASE todo = {}
  <2>1. Stop(w) /\ worker' = [worker EXCEPT ![w] = Idle]
    BY <1>2 DEF Proceed, Stop
  <2>2. Idle \in Cycle
    BY AlertAssumption DEF Idle, Cycle, Age, Never, Alert
  <2> QED
    BY <1>2, <2>1, <2>2 DEF TypeOK
<1>3. CASE todo # {}
  <2> DEFINE d == [pc |-> "posting", at |-> c.at, alert |-> c.alert, todo |-> todo,
                   target |-> NoTarget]
  <2>1. worker' = [worker EXCEPT ![w] = d] /\ holder' = holder
    BY <1>1, <1>3 DEF Proceed
  <2>2. d \in Cycle
    BY <1>1 DEF Cycle
  <2> QED
    BY <1>1, <1>3, <2>1, <2>2 DEF TypeOK
<1> QED
  BY <1>2, <1>3

\* A cycle that ends is forgotten.
LEMMA StopMoves ==
  ASSUME TypeOK, NEW w \in Worker, Stop(w)
  PROVE  /\ \A v \in Worker \ {w} : worker'[v] = worker[v]
         /\ worker' \in [Worker -> Cycle] /\ worker'[w] = Idle
<1>1. Idle \in Cycle
  BY AlertAssumption DEF Idle, Cycle, Age, Never, Alert
<1> QED
  BY <1>1 DEF Stop, TypeOK

\* A cycle goes on to a state of its own.
LEMMA GotoMoves ==
  ASSUME TypeOK, NEW w \in Worker, NEW pc \in {"failed", "clearing"}, Goto(w, pc)
  PROVE  /\ \A v \in Worker \ {w} : worker'[v] = worker[v]
         /\ worker' \in [Worker -> Cycle]
         /\ worker'[w] = [worker[w] EXCEPT !.pc = pc]
         /\ worker'[w].pc = pc /\ worker'[w].todo = worker[w].todo /\ worker'[w].at = worker[w].at
         /\ worker'[w].alert = worker[w].alert /\ worker'[w].target = worker[w].target
<1>1. worker[w] \in Cycle
  BY DEF TypeOK
<1>2. [worker[w] EXCEPT !.pc = pc] \in Cycle
  BY <1>1 DEF Cycle
<1>3. worker' = [worker EXCEPT ![w] = [worker[w] EXCEPT !.pc = pc]]
  BY DEF Goto
<1> QED
  BY <1>1, <1>2, <1>3 DEF TypeOK, Cycle

\* A notification is out, with one of the two outcomes (deliverAlert).
LEMMA PostMoves ==
  ASSUME TypeOK, NEW w \in Worker, NEW t \in Target, NEW pc \in {"succeeded", "failed"},
         worker' = [worker EXCEPT ![w].pc = pc, ![w].target = t]
  PROVE  /\ \A v \in Worker \ {w} : worker'[v] = worker[v]
         /\ worker' \in [Worker -> Cycle]
         /\ worker'[w].pc = pc /\ worker'[w].todo = worker[w].todo /\ worker'[w].at = worker[w].at
         /\ worker'[w].alert = worker[w].alert /\ worker'[w].target = t
<1> DEFINE c == worker[w]
           d == [pc |-> pc, at |-> c.at, alert |-> c.alert, todo |-> c.todo, target |-> t]
<1>1. /\ c \in Cycle /\ DOMAIN worker = Worker
      /\ c = [pc |-> c.pc, at |-> c.at, alert |-> c.alert, todo |-> c.todo, target |-> c.target]
  BY DEF TypeOK, Cycle
<1>2. worker' = [worker EXCEPT ![w] = d]
  <2>1. worker' = [worker EXCEPT ![w] = [[c EXCEPT !.pc = pc] EXCEPT !.target = t]]
    BY <1>1
  <2>2. [c EXCEPT !.pc = pc]
          = [pc |-> pc, at |-> c.at, alert |-> c.alert, todo |-> c.todo, target |-> c.target]
    <3> HIDE DEF c
    <3> QED
      BY <1>1
  <2>3. [[c EXCEPT !.pc = pc] EXCEPT !.target = t] = d
    <3> DEFINE e == [pc |-> pc, at |-> c.at, alert |-> c.alert, todo |-> c.todo,
                     target |-> c.target]
    <3>1. [e EXCEPT !.target = t] = d
      <4> HIDE DEF c
      <4> QED
        OBVIOUS
    <3> QED
      BY <2>2, <3>1
  <2> QED
    BY <2>1, <2>3
<1>3. d \in Cycle
  BY <1>1 DEF Cycle
<1>4. worker'[w] = d
  BY <1>1, <1>2
<1>5. worker' \in [Worker -> Cycle] /\ \A v \in Worker \ {w} : worker'[v] = worker[v]
  BY <1>1, <1>2, <1>3 DEF TypeOK
<1> QED
  BY <1>4, <1>5

\* There is an alert to tell of.
Telling(w) == worker[w].pc \in {"observing", "posting", "succeeded", "failed"}

\* A cycle under the lease is the youngest.
CyclesAreSound ==
  /\ \A w \in Worker : /\ worker[w].pc \in {"succeeded", "failed"} => Current(w) \in Target
                       /\ Telling(w) => worker[w].alert # Quiet
                       /\ holder = w => ~At(w, "idle")
  /\ \A w, h \in Worker : holder = h /\ ~At(w, "idle") => worker[h].at <= worker[w].at

\* ... and nothing was told by one that began after it.
AgesAreSound == \A h \in Worker, t \in Target : holder = h => worker[h].at <= told[t].at

\* A step of w moves w on, and may give up its lease.
Moves(w) == /\ \A v \in Worker \ {w} : worker'[v] = worker[v]
            /\ worker' \in [Worker -> Cycle]
            /\ ~At(w, "idle")
            /\ holder' = holder \/ (holder = w /\ holder' = NoOwner)
            /\ \/ worker'[w] = Idle /\ holder' # w
               \/ /\ worker'[w].pc # "idle" /\ holder' = holder
                  /\ worker'[w].at = worker[w].at /\ worker'[w].alert = worker[w].alert
                  /\ worker'[w].pc \in {"succeeded", "failed"} => worker'[w].target \in Target
                  /\ Telling(w)' => Telling(w)

\* What the steps of a cycle under way do to it.
LEMMA StepMoves ==
  ASSUME TypeOK, CyclesAreSound, NEW w \in Worker,
         \/ UpsertObservedState(w) \/ MarkDeliverySuccess(w) \/ MarkDeliveryFailure(w)
         \/ \E t \in Target : DeliverAlert(w, t) \/ FailDelivery(w, t)
         \/ ResolveState(w) \/ ResolveTargets(w) \/ FailMark(w) \/ Crash(w)
  PROVE  Moves(w)
<1>1. ASSUME NEW todo \in SUBSET Target, Proceed(w, todo), Telling(w) PROVE Moves(w)
  <2>1. CASE todo = {}
    <3>1. Stop(w) /\ worker'[w] = Idle
      BY <1>1, <2>1, ProceedMoves
    <3>2. /\ holder' # w /\ (holder' = holder \/ (holder = w /\ holder' = NoOwner))
      BY <3>1, AlertAssumption DEF Stop
    <3> QED
      BY <1>1, <3>1, <3>2, ProceedMoves DEF Moves, Telling, At
  <2>2. CASE todo # {}
    BY <1>1, <2>2, ProceedMoves DEF Moves, Telling, At
  <2> QED
    BY <2>1, <2>2
<1>2. ASSUME Stop(w), ~At(w, "idle") PROVE Moves(w)
  <2>1. /\ holder' # w /\ (holder' = holder \/ (holder = w /\ holder' = NoOwner))
    BY <1>2, AlertAssumption DEF Stop
  <2> QED
    BY <1>2, <2>1, StopMoves DEF Moves
<1>3. worker[w].todo \in SUBSET Target
  BY DEF TypeOK, Cycle
<1>4. CASE UpsertObservedState(w)
  BY <1>1, <1>3, <1>4 DEF UpsertObservedState, At, Telling
<1>5. CASE MarkDeliverySuccess(w) \/ MarkDeliveryFailure(w)
  <2>1. worker[w].todo \ {Current(w)} \in SUBSET Target
    BY <1>3
  <2> QED
    BY <1>1, <1>5, <2>1 DEF MarkDeliverySuccess, MarkDeliveryFailure, At, Telling
<1>6. ASSUME NEW t \in Target, DeliverAlert(w, t) \/ FailDelivery(w, t) PROVE Moves(w)
  <2>1. PICK pc \in {"succeeded", "failed"} :
          worker' = [worker EXCEPT ![w].pc = pc, ![w].target = t]
    BY <1>6 DEF DeliverAlert, FailDelivery
  <2>2. holder' = holder /\ ~At(w, "idle") /\ Telling(w)
    BY <1>6 DEF DeliverAlert, FailDelivery, At, Telling
  <2> QED
    BY <2>1, <2>2, PostMoves DEF Moves
<1>7. CASE ResolveState(w) \/ FailMark(w)
  <2>1. PICK pc \in {"failed", "clearing"} : Goto(w, pc) /\ (pc = "failed" => At(w, "succeeded"))
    BY <1>7 DEF ResolveState, FailMark
  <2>2. holder' = holder /\ ~At(w, "idle")
    BY <1>7 DEF ResolveState, FailMark, At
  <2>3. pc = "failed" => worker[w].target \in Target /\ Telling(w)
    BY <2>1 DEF CyclesAreSound, At, Current, Telling
  <2>4. worker'[w].pc = pc /\ (Telling(w)' => pc = "failed")
    BY <2>1, GotoMoves DEF Telling
  <2> QED
    BY <2>1, <2>2, <2>3, <2>4, GotoMoves DEF Moves
<1>8. CASE ResolveTargets(w) \/ Crash(w)
  BY <1>2, <1>8 DEF ResolveTargets, Crash, At
<1> QED
  BY <1>4, <1>5, <1>6, <1>7, <1>8

\* Older ages stay older, or become the same.
LEMMA OlderKeepsOrder ==
  ASSUME NEW a \in Nat, NEW b \in Nat, a <= b
  PROVE  Older(a) <= Older(b)
BY AlertAssumption DEF Older

\* What time does to the ages.
LEMMA TickMoves ==
  ASSUME TypeOK, Tick
  PROVE  /\ \A w \in Worker : /\ worker'[w].pc = worker[w].pc /\ worker'[w].alert = worker[w].alert
                              /\ worker'[w].todo = worker[w].todo
                              /\ worker'[w].target = worker[w].target
                              /\ worker'[w].at = Older(worker[w].at)
         /\ \A t \in Target : /\ row'[t].fingerprint = row[t].fingerprint
                              /\ row'[t].resolved = row[t].resolved
                              /\ row'[t].delivered = Older(row[t].delivered)
                              /\ told'[t].fingerprint = told[t].fingerprint
                              /\ told'[t].at = Older(told[t].at)
<1>1. \A w \in Worker : /\ worker'[w].pc = worker[w].pc /\ worker'[w].alert = worker[w].alert
                        /\ worker'[w].todo = worker[w].todo
                        /\ worker'[w].target = worker[w].target
                        /\ worker'[w].at = Older(worker[w].at)
  BY DEF Tick, TypeOK, Cycle
<1>2. \A t \in Target : /\ row'[t].fingerprint = row[t].fingerprint
                        /\ row'[t].resolved = row[t].resolved
                        /\ row'[t].delivered = Older(row[t].delivered)
  BY DEF Tick, TypeOK, TargetState
<1>3. \A t \in Target : /\ told'[t].fingerprint = told[t].fingerprint
                        /\ told'[t].at = Older(told[t].at)
  BY DEF Tick, TypeOK, Notice
<1> QED
  BY <1>1, <1>2, <1>3

\* Who is at it, and since when, stays in order.
LEMMA CyclesStay ==
  ASSUME TypeOK, CyclesAreSound, [Next]_vars
  PROVE  CyclesAreSound'
<1>1. /\ Cooldown \in Nat \ {0} /\ Idle.pc = "idle" /\ NoOwner \notin Worker
      /\ holder \in Worker \cup {NoOwner}
      /\ \A w \in Worker : worker[w].at \in Nat
  BY AlertAssumption DEF TypeOK, Cycle, Age, Never, Idle
<1>2. ASSUME NEW w \in Worker, Moves(w) PROVE CyclesAreSound'
  <2>1. \A v \in Worker : Telling(v)' => Telling(v) /\ worker'[v].alert = worker[v].alert
    BY <1>1, <1>2 DEF Moves, Telling
  <2>2. \A v \in Worker : Telling(v)' => worker'[v].alert # Quiet
    BY <2>1 DEF CyclesAreSound
  <2>3. \A v \in Worker : /\ worker'[v].pc \in {"succeeded", "failed"} => Current(v)' \in Target
                          /\ holder' = v => ~At(v, "idle")'
    BY <1>1, <1>2 DEF Moves, CyclesAreSound, At, Current
  <2>4. \A v, h \in Worker : holder' = h /\ ~At(v, "idle")' => worker'[h].at <= worker'[v].at
    BY <1>1, <1>2 DEF Moves, CyclesAreSound, At
  <2> QED
    BY <2>2, <2>3, <2>4 DEF CyclesAreSound
<1>3. ASSUME NEW w \in Worker, Start(w) PROVE CyclesAreSound'
  <2> DEFINE c == [pc |-> IF alert = Quiet THEN "resolving" ELSE "observing", at |-> 0,
                   alert |-> alert, todo |-> ToNotify, target |-> NoTarget]
  <2>1. worker' = [worker EXCEPT ![w] = c] /\ holder' = w
    BY <1>3 DEF Start, AcquireLease
  <2>2. /\ c.at = 0 /\ c.pc # "idle" /\ c.pc \notin {"succeeded", "failed"}
        /\ c.pc \in {"observing", "posting"} => c.alert # Quiet
    OBVIOUS
  <2> HIDE DEF c
  <2>3. worker'[w] = c /\ \A v \in Worker \ {w} : worker'[v] = worker[v]
    BY <2>1 DEF TypeOK
  <2>4. \A v \in Worker : Telling(v)' => worker'[v].alert # Quiet
    BY <2>2, <2>3 DEF CyclesAreSound, Telling
  <2>5. \A v \in Worker : /\ worker'[v].pc \in {"succeeded", "failed"} => Current(v)' \in Target
                          /\ holder' = v => ~At(v, "idle")'
    BY <1>1, <2>1, <2>2, <2>3 DEF CyclesAreSound, At, Current
  <2>6. \A v, h \in Worker : holder' = h /\ ~At(v, "idle")' => worker'[h].at <= worker'[v].at
    BY <1>1, <2>1, <2>2, <2>3 DEF CyclesAreSound, At
  <2> QED
    BY <2>4, <2>5, <2>6 DEF CyclesAreSound
<1>4. CASE Tick
  <2>1. holder' = holder
    BY <1>4 DEF Tick
  <2>2. ASSUME NEW w \in Worker
        PROVE  /\ At(w, "idle")' <=> At(w, "idle")
               /\ worker'[w].pc \in {"succeeded", "failed"} => Current(w)' \in Target
    BY <1>1, <1>4, TickMoves DEF CyclesAreSound, At, Current
  <2>5. \A w \in Worker : Telling(w)' => worker'[w].alert # Quiet
    BY <1>4, TickMoves DEF CyclesAreSound, Telling
  <2>3. ASSUME NEW w \in Worker, NEW h \in Worker, holder = h, ~At(w, "idle")
        PROVE  worker'[h].at <= worker'[w].at
    <3>1. worker[h].at <= worker[w].at
      BY <2>3 DEF CyclesAreSound
    <3>2. worker'[h].at = Older(worker[h].at) /\ worker'[w].at = Older(worker[w].at)
      BY <1>4, TickMoves
    <3> QED
      BY <1>1, <3>1, <3>2, OlderKeepsOrder
  <2>4. \A w \in Worker : holder = w => ~At(w, "idle")
    BY DEF CyclesAreSound
  <2> QED
    BY <2>1, <2>2, <2>3, <2>4, <2>5 DEF CyclesAreSound
<1>5. CASE AlertChanges \/ UNCHANGED vars
  BY <1>5 DEF AlertChanges, vars, CyclesAreSound, At, Current, Telling
<1>6. CASE LeaseLapse
  BY <1>1, <1>6 DEF LeaseLapse, CyclesAreSound, At, Current, Telling
<1> QED
  BY <1>2, <1>3, <1>4, <1>5, <1>6, StepMoves DEF Next, Step

\* A row as its target's state, and a notice as its text and age.
LEMMA Fields ==
  ASSUME TypeOK
  PROVE  /\ \A t \in Target : /\ row[t].fingerprint \in Alert /\ row[t].resolved \in BOOLEAN
                              /\ row[t].delivered \in Age /\ told[t].fingerprint \in Alert
                              /\ told[t].at \in Age /\ repeats[t] \in Nat
         /\ \A w \in Worker : /\ worker[w].at \in Age /\ worker[w].alert \in Alert
                              /\ worker[w].todo \in SUBSET Target
                              /\ worker[w].target \in Target \cup {NoTarget}
         /\ Cooldown \in Nat /\ Cooldown > 0 /\ Never = Cooldown + 1 /\ Age \subseteq Nat
BY AlertAssumption DEF TypeOK, TargetState, Notice, Cycle, Age, Never

\* What is read of the target a notification goes to.
LEMMA ReceiveMoves ==
  ASSUME TypeOK, NEW w \in Worker, NEW t \in Target, Receive(w, t)
  PROVE  /\ told' \in [Target -> Notice] /\ repeats' \in [Target -> Nat]
         /\ told'[t].fingerprint = worker[w].alert /\ told'[t].at = worker[w].at
         /\ \A s \in Target \ {t} : told'[s] = told[s] /\ repeats'[s] = repeats[s]
         /\ repeats'[t] = IF told[t].fingerprint = worker[w].alert
                               /\ told[t].at < Cooldown
                            THEN repeats[t] + 1 ELSE repeats[t]
<1> DEFINE n == [fingerprint |-> worker[w].alert, at |-> worker[w].at]
<1>1. n \in Notice
  BY Fields DEF Notice
<1>2. told' = [told EXCEPT ![t] = n]
  BY DEF Receive
<1>3. /\ told' \in [Target -> Notice] /\ told'[t] = n
      /\ \A s \in Target \ {t} : told'[s] = told[s]
  BY <1>1, <1>2 DEF TypeOK
<1>4. /\ repeats' \in [Target -> Nat]
      /\ \A s \in Target \ {t} : repeats'[s] = repeats[s]
      /\ repeats'[t] = IF told[t].fingerprint = worker[w].alert
                            /\ told[t].at < Cooldown
                         THEN repeats[t] + 1 ELSE repeats[t]
  <2>1. repeats \in [Target -> Nat]
    BY DEF TypeOK
  <2>2. CASE told[t].fingerprint = worker[w].alert /\ told[t].at < Cooldown
    BY <2>1, <2>2 DEF Receive
  <2>3. CASE ~(told[t].fingerprint = worker[w].alert /\ told[t].at < Cooldown)
    <3>1. repeats' = repeats
      BY <2>3 DEF Receive
    <3> QED
      BY <2>1, <2>3, <3>1
  <2> QED
    BY <2>2, <2>3
<1> QED
  BY <1>3, <1>4

\* A field set after the others are known.
LEMMA ResetField ==
  ASSUME NEW a, NEW b, NEW c, NEW d
  PROVE  [[fingerprint |-> a, resolved |-> b, delivered |-> c] EXCEPT !.resolved = d]
           = [fingerprint |-> a, resolved |-> d, delivered |-> c]
OBVIOUS

\* What the two marks write, and what resolving does.
LEMMA MarkMoves ==
  ASSUME TypeOK, CyclesAreSound, NEW w \in Worker, NEW t \in Target, t = Current(w),
         MarkDeliverySuccess(w) \/ MarkDeliveryFailure(w)
  PROVE  /\ row' \in [Target -> TargetState]
         /\ \A s \in Target \ {t} : row'[s] = row[s]
         /\ row'[t].fingerprint = worker[w].alert /\ row'[t].resolved = FALSE
         /\ row'[t].delivered = IF At(w, "succeeded") THEN worker[w].at ELSE row[t].delivered
<1> DEFINE no == FALSE
           d == IF At(w, "succeeded") THEN worker[w].at ELSE row[t].delivered
           r == [fingerprint |-> worker[w].alert, resolved |-> no, delivered |-> d]
<1>1. row' = [row EXCEPT ![t] = r]
  <2>1. CASE MarkDeliverySuccess(w)
    BY <2>1 DEF MarkDeliverySuccess
  <2>2. CASE MarkDeliveryFailure(w)
    <3> DEFINE q == row[t]
               a == worker[w].alert
    <3>1. /\ q = [fingerprint |-> q.fingerprint, resolved |-> q.resolved, delivered |-> q.delivered]
          /\ DOMAIN row = Target
      BY DEF TypeOK, TargetState
    <3>2. row' = [row EXCEPT ![t] = [[q EXCEPT !.fingerprint = a] EXCEPT !.resolved = no]]
      BY <2>2 DEF MarkDeliveryFailure
    <3>3. ~At(w, "succeeded")
      BY <2>2 DEF MarkDeliveryFailure, At
    <3>4. [[q EXCEPT !.fingerprint = a] EXCEPT !.resolved = no]
            = [fingerprint |-> a, resolved |-> no, delivered |-> q.delivered]
      <4> HIDE DEF q, a, no
      <4>1. [q EXCEPT !.fingerprint = a]
              = [fingerprint |-> a, resolved |-> q.resolved, delivered |-> q.delivered]
        BY <3>1
      <4>2. [[fingerprint |-> a, resolved |-> q.resolved, delivered |-> q.delivered]
               EXCEPT !.resolved = no]
              = [fingerprint |-> a, resolved |-> no, delivered |-> q.delivered]
        BY ResetField
      <4> QED
        BY <4>1, <4>2
    <3> QED
      BY <3>2, <3>3, <3>4
  <2> QED
    BY <2>1, <2>2
<1>2. r \in TargetState
  BY Fields DEF TargetState
<1> HIDE DEF r
<1>3. /\ row' \in [Target -> TargetState] /\ row'[t] = r
      /\ \A s \in Target \ {t} : row'[s] = row[s]
  BY <1>1, <1>2 DEF TypeOK
<1> QED
  BY <1>3 DEF r

\* All rows that exist are resolved (resolveClearedAlerts).
LEMMA ResolveMoves ==
  ASSUME TypeOK, NEW w \in Worker, ResolveTargets(w)
  PROVE  /\ row' \in [Target -> TargetState]
         /\ \A t \in Target : /\ row'[t].fingerprint = row[t].fingerprint
                              /\ row'[t].resolved = (row[t].fingerprint # Quiet)
                              /\ row'[t].delivered = row[t].delivered
<1>1. row' = [t \in Target |-> [row[t] EXCEPT !.resolved = row[t].fingerprint # Quiet]]
  BY DEF ResolveTargets
<1>2. \A t \in Target : row[t] \in TargetState
  BY DEF TypeOK
<1>3. ASSUME NEW t \in Target
      PROVE  /\ row'[t] \in TargetState /\ row'[t].fingerprint = row[t].fingerprint
             /\ row'[t].resolved = (row[t].fingerprint # Quiet)
             /\ row'[t].delivered = row[t].delivered
  BY <1>1, <1>2 DEF TargetState
<1> QED
  BY <1>1, <1>3

\* No step leaves the types.
LEMMA TypeStays ==
  ASSUME TypeOK, CyclesAreSound, [Next]_vars
  PROVE  TypeOK'
<1>1. ASSUME NEW w \in Worker, Moves(w)
      PROVE  worker' \in [Worker -> Cycle] /\ holder' \in Worker \cup {NoOwner}
  BY <1>1 DEF Moves, TypeOK
<1>2. Cut => cuts' \in 0..MaxCuts
  BY AlertAssumption DEF Cut, TypeOK
<1>3. ASSUME NEW w \in Worker,
             UpsertObservedState(w) \/ ResolveState(w) \/ FailMark(w) \/ Crash(w)
      PROVE  TypeOK'
  <2>1. Moves(w)
    BY <1>3, StepMoves
  <2> QED
    BY <1>1, <1>2, <1>3, <2>1
       DEF TypeOK, UpsertObservedState, ResolveState, FailMark, Crash, outside
<1>4. ASSUME NEW w \in Worker, MarkDeliverySuccess(w) \/ MarkDeliveryFailure(w) PROVE TypeOK'
  <2>1. Moves(w)
    BY <1>4, StepMoves
  <2>2. Current(w) \in Target
    BY <1>4 DEF MarkDeliverySuccess, MarkDeliveryFailure, CyclesAreSound, At
  <2>3. row' \in [Target -> TargetState]
    BY <1>4, <2>2, MarkMoves
  <2> QED
    BY <1>1, <1>4, <2>1, <2>3 DEF TypeOK, MarkDeliverySuccess, MarkDeliveryFailure, outside
<1>5. ASSUME NEW w \in Worker, ResolveTargets(w) PROVE TypeOK'
  <2>1. Moves(w)
    BY <1>5, StepMoves
  <2> QED
    BY <1>1, <1>5, <2>1, ResolveMoves DEF TypeOK, ResolveTargets, outside
<1>6. ASSUME NEW w \in Worker, NEW t \in Target, DeliverAlert(w, t) \/ FailDelivery(w, t)
      PROVE  TypeOK'
  <2>1. Moves(w)
    BY <1>6, StepMoves
  <2>2. Receive(w, t) => told' \in [Target -> Notice] /\ repeats' \in [Target -> Nat]
    BY ReceiveMoves
  <2> QED
    BY <1>1, <1>2, <1>6, <2>1, <2>2 DEF TypeOK, DeliverAlert, FailDelivery
<1>7. ASSUME NEW w \in Worker, Start(w) PROVE TypeOK'
  <2> DEFINE c == [pc |-> IF alert = Quiet THEN "resolving" ELSE "observing", at |-> 0,
                   alert |-> alert, todo |-> ToNotify, target |-> NoTarget]
  <2>1. ToNotify \in SUBSET Target /\ 0 \in Age
    BY AlertAssumption DEF ToNotify, Age, Never
  <2>2. c \in Cycle
    BY <2>1 DEF Cycle, TypeOK
  <2>3. worker' = [worker EXCEPT ![w] = c]
    BY <1>7 DEF Start
  <2> HIDE DEF c
  <2>4. worker' \in [Worker -> Cycle]
    BY <2>2, <2>3 DEF TypeOK
  <2> QED
    BY <1>7, <2>4 DEF TypeOK, Start, AcquireLease, outside
<1>8. CASE Tick
  <2>1. \A n \in Age : Older(n) \in Age
    BY AlertAssumption DEF Older, Age, Never
  <2>2. worker' \in [Worker -> Cycle]
    BY <1>8, <2>1 DEF Tick, TypeOK, Cycle
  <2>3. row' \in [Target -> TargetState]
    BY <1>8, <2>1 DEF Tick, TypeOK, TargetState
  <2>4. told' \in [Target -> Notice]
    BY <1>8, <2>1 DEF Tick, TypeOK, Notice
  <2> QED
    BY <1>8, <2>2, <2>3, <2>4 DEF Tick, TypeOK
<1>9. CASE AlertChanges
  <2>1. Untold \in Notice
    BY AlertAssumption DEF Untold, Notice, Alert, Age, Never
  <2>2. changes' \in 0..MaxChanges
    BY <1>9, AlertAssumption DEF AlertChanges, TypeOK
  <2>3. told' \in [Target -> Notice]
    BY <1>9, <2>1 DEF AlertChanges
  <2> QED
    BY <1>9, <2>2, <2>3 DEF AlertChanges, TypeOK
<1>10. CASE LeaseLapse
  BY <1>2, <1>10 DEF LeaseLapse, TypeOK
<1>11. CASE UNCHANGED vars
  BY <1>11 DEF vars, TypeOK
<1> QED
  BY <1>3, <1>4, <1>5, <1>6, <1>7, <1>8, <1>9, <1>10, <1>11 DEF Next, Step

\* No notice becomes younger than the cycle under the lease.
LEMMA AgesStay ==
  ASSUME TypeOK, CyclesAreSound, AgesAreSound, [Next]_vars
  PROVE  AgesAreSound'
<1> SUFFICES ASSUME NEW h \in Worker, NEW t \in Target, holder' = h
             PROVE  worker'[h].at <= told'[t].at
  BY DEF AgesAreSound
<1>1. NoOwner \notin Worker /\ holder \in Worker \cup {NoOwner}
  BY AlertAssumption DEF TypeOK
<1>2. ASSUME holder = h, worker'[h].at = worker[h].at, told'[t] = told[t]
      PROVE  worker'[h].at <= told'[t].at
  BY <1>2 DEF AgesAreSound
<1>3. ASSUME NEW w \in Worker, Moves(w)
      PROVE  holder = h /\ worker'[h].at = worker[h].at
  <2>1. holder = h
    BY <1>1, <1>3 DEF Moves
  <2> QED
    BY <1>3, <2>1 DEF Moves
<1>4. ASSUME NEW w \in Worker, NEW s \in Target, DeliverAlert(w, s) \/ FailDelivery(w, s)
      PROVE  worker'[h].at <= told'[t].at
  <2>1. (told' = told \/ Receive(w, s)) /\ ~At(w, "idle") /\ Moves(w)
    BY <1>4, StepMoves DEF DeliverAlert, FailDelivery, At
  <2>2. CASE told'[t] = told[t]
    BY <1>2, <1>3, <2>1, <2>2
  <2>3. CASE told'[t] # told[t]
    <3>1. Receive(w, s) /\ s = t
      BY <2>1, <2>3, ReceiveMoves
    <3>2. told'[t].at = worker[w].at
      BY <3>1, ReceiveMoves
    <3> QED
      BY <1>3, <2>1, <3>2 DEF CyclesAreSound
  <2> QED
    BY <2>2, <2>3
<1>5. ASSUME NEW w \in Worker,
             \/ UpsertObservedState(w) \/ MarkDeliverySuccess(w) \/ MarkDeliveryFailure(w)
             \/ ResolveState(w) \/ ResolveTargets(w) \/ FailMark(w) \/ Crash(w)
      PROVE  worker'[h].at <= told'[t].at
  <2>1. told' = told /\ Moves(w)
    BY <1>5, StepMoves DEF UpsertObservedState, MarkDeliverySuccess, MarkDeliveryFailure,
                           ResolveState, ResolveTargets, FailMark, Crash, outside
  <2> QED
    BY <1>2, <1>3, <2>1
<1>6. ASSUME NEW w \in Worker, Start(w) PROVE worker'[h].at <= told'[t].at
  <2>1. /\ h = w /\ told' = told
        /\ worker' = [worker EXCEPT ![w] =
             [pc |-> IF alert = Quiet THEN "resolving" ELSE "observing", at |-> 0,
              alert |-> alert, todo |-> ToNotify, target |-> NoTarget]]
    BY <1>6 DEF Start, AcquireLease, outside
  <2>2. worker'[h].at = 0
    BY <2>1 DEF TypeOK
  <2> QED
    BY <2>1, <2>2, Fields
<1>7. CASE Tick
  <2>1. worker[h].at <= told[t].at
    BY <1>7 DEF Tick, AgesAreSound
  <2>2. worker'[h].at = Older(worker[h].at) /\ told'[t].at = Older(told[t].at)
    BY <1>7, TickMoves
  <2> QED
    BY <2>1, <2>2, Fields, OlderKeepsOrder
<1>8. CASE AlertChanges
  <2>1. told'[t].at = Never /\ worker'[h].at = worker[h].at
    BY <1>8 DEF AlertChanges, Untold
  <2>2. worker[h].at \in 0..Never
    BY Fields DEF Age
  <2> QED
    BY <2>1, <2>2, Fields
<1>9. CASE LeaseLapse
  BY <1>1, <1>9 DEF LeaseLapse
<1>10. CASE UNCHANGED vars
  BY <1>2, <1>10 DEF vars
<1> QED
  BY <1>4, <1>5, <1>6, <1>7, <1>8, <1>9, <1>10 DEF Next, Step

-----------------------------------------------------------------------------
(* The potential. *)

\* A cycle w has still to tell t; has told it, or tried to, and will write its row;
\* will write every row, as resolved.
Pending(w, t) ==
  /\ t \in worker[w].todo
  /\ worker[w].pc \in {"observing", "posting", "succeeded", "failed"}
  /\ worker[w].pc \in {"succeeded", "failed"} => worker[w].target # t
Reached(w, t) == worker[w].pc = "succeeded" /\ worker[w].target = t
Tried(w, t) == worker[w].pc \in {"succeeded", "failed"} /\ worker[w].target = t
Sweeps(w) == worker[w].pc \in {"resolving", "clearing"}
Writes(w, t) == Tried(w, t) \/ Sweeps(w)

\* What a cycle without the lease can still spoil: a notification and a row, or a row.
Weight(w, t) == IF holder = w THEN 0
                ELSE IF Pending(w, t) THEN 2 ELSE IF Writes(w, t) THEN 1 ELSE 0
Weights(t) == [w \in Worker |-> Weight(w, t)]
Owed(t) == SumFunctionOnSet(Weights(t), Worker)

\* t was told of an alert less than a cooldown ago.
Fresh(t) == told[t].fingerprint # Quiet /\ told[t].at < Cooldown

\* w is about to tell t what it was told last; the cycle under the lease is.
Same(w, t) == Pending(w, t) /\ worker[w].alert = told[t].fingerprint
Soon(t) == \E h \in Worker : holder = h /\ Same(h, t)

\* The cycle under the lease is about to leave a row for something else; or the row of
\* what t has just confirmed.
Overwrites(t) ==
  \E h \in Worker : /\ holder = h
                    /\ \/ Sweeps(h)
                       \/ (Pending(h, t) \/ Tried(h, t)) /\ worker[h].alert # alert
Sets(t) == \E h \in Worker : holder = h /\ Reached(h, t) /\ worker[h].alert = alert

\* The row does not show that t has heard of the alert, or shows it as heard earlier;
\* it will, once a stray that began before what the row shows has told t again.
RowLate(t) == \/ row[t].fingerprint # alert \/ row[t].resolved
              \/ row[t].delivered > told[t].at
Danger(t) == \E u \in Worker : holder # u /\ Same(u, t) /\ row[t].delivered > worker[u].at

\* The next cycle will not see that t was told.
Hidden(t) == /\ told[t].fingerprint = alert
             /\ Overwrites(t) \/ (~Sets(t) /\ (RowLate(t) \/ Danger(t)))
Risk(t) == Fresh(t) /\ (Soon(t) \/ Hidden(t))
Chance(t) == IF Risk(t) THEN 1 ELSE 0

\* What t was told too soon, what strays may still add, and what is coming anyway are
\* covered by the cuts.
Covered(t) == repeats[t] + Owed(t) + Chance(t) <= 2 * cuts

AlertIInv == /\ TypeOK /\ CyclesAreSound /\ AgesAreSound
             /\ \A t \in Target : Covered(t)

\* A cycle can spoil two things for a target at most.
LEMMA WeightValues ==
  ASSUME NEW w \in Worker, NEW t \in Target
  PROVE  Weight(w, t) \in {0, 1, 2}
BY DEF Weight

OwedIsCounted == \A t \in Target : /\ \A w \in Worker : Weight(w, t) \in Nat
                                   /\ Weights(t) = [w \in Worker |-> Weight(w, t)]
                                   /\ Owed(t) = SumFunctionOnSet(Weights(t), Worker)
                                   /\ Owed(t) \in Nat

\* What strays owe is a number, the sum over all of them.
LEMMA OwedIsNat == OwedIsCounted
<1> SUFFICES ASSUME NEW t \in Target
             PROVE  /\ \A w \in Worker : Weight(w, t) \in Nat
                    /\ Owed(t) \in Nat
  BY DEF OwedIsCounted, Weights, Owed
<1>1. \A w \in Worker : Weight(w, t) \in Nat
  BY WeightValues
<1>2. Counts(Weights(t), Worker)
  BY <1>1 DEF Counts, Weights
<1> QED
  BY <1>1, <1>2, SumType, AlertAssumption DEF Owed

\* Only what the process that moves owes changes.
LEMMA OwedMoves ==
  ASSUME NEW t \in Target, NEW w \in Worker,
         \A v \in Worker \ {w} : Weight(v, t)' = Weight(v, t)
  PROVE  \E rest \in Nat : /\ Owed(t) = rest + Weight(w, t) /\ Owed(t)' = rest + Weight(w, t)'
                           /\ Weight(w, t) \in Nat /\ Weight(w, t)' \in Nat
<1> DEFINE f == Weights(t)
           g == [v \in Worker |-> Weight(v, t)']
<1>1. OwedIsCounted /\ OwedIsCounted'
  BY OwedIsNat, PTL
<1>2. \A v \in Worker : Weight(v, t) \in Nat /\ Weight(v, t)' \in Nat
  BY <1>1 DEF OwedIsCounted
<1>3. \A v \in Worker : f[v] = Weight(v, t) /\ g[v] = Weight(v, t)'
  BY DEF Weights
<1>4. Owed(t) = SumFunctionOnSet(f, Worker) /\ Owed(t)' = SumFunctionOnSet(g, Worker)
  BY DEF Owed, Weights
<1>5. \A v \in Worker : v # w => g[v] = f[v]
  BY <1>3
<1>6. g[w] = Weight(w, t)' /\ f[w] = Weight(w, t)
  BY <1>3
<1>7. \A v \in Worker : f[v] \in Nat /\ g[v] \in Nat
  BY <1>2, <1>3
<1> HIDE DEF f, g
<1>8. Counts(f, Worker) /\ Counts(g, Worker)
  BY <1>7 DEF Counts
<1> DEFINE T == Worker \ {w}
           rest == SumFunctionOnSet(f, T)
<1>9. T \in SUBSET Worker /\ T \cup {w} = Worker /\ w \in Worker \ T
  OBVIOUS
<1>10. IsFiniteSet(T) /\ (\A v \in T : g[v] = f[v]) /\ Counts(f, T)
  BY <1>5, <1>8, <1>9, AlertAssumption, FS_Subset DEF Counts
<1> HIDE DEF T
<1>11. rest \in Nat /\ SumFunctionOnSet(f, T \cup {w}) = rest + f[w]
  BY <1>8, <1>9, SumSteps, AlertAssumption
<1>12. SumFunctionOnSet(g, T \cup {w}) = SumFunctionOnSet(g, T) + g[w]
  BY <1>8, <1>9, SumSteps, AlertAssumption
<1>13. SumFunctionOnSet(g, T) = rest
  BY <1>10, SumSame
<1> QED
  BY <1>2, <1>4, <1>6, <1>9, <1>11, <1>12, <1>13

-----------------------------------------------------------------------------
(* What a step of w is to t. *)

\* A step that does not go to t, and does not write its row, leaves w where it was for t.
Kept(w, t) ==
  /\ (Pending(w, t)' <=> Pending(w, t)) /\ (Reached(w, t)' <=> Reached(w, t))
  /\ (Tried(w, t)' <=> Tried(w, t)) /\ (Sweeps(w)' <=> Sweeps(w))
  /\ \/ holder' = holder /\ worker'[w].at = worker[w].at /\ worker'[w].alert = worker[w].alert
     \/ ~Pending(w, t) /\ ~Writes(w, t)

\* One that does leaves its target done.
Done(w, t) == ~Pending(w, t)' /\ ~Writes(w, t)'

\* A cycle that goes on to what is left.
LEMMA ProceedKeeps ==
  ASSUME TypeOK, NEW w \in Worker, NEW t \in Target, NEW todo \in SUBSET Target, Proceed(w, todo),
         worker[w].pc \in {"observing", "succeeded", "failed"}
  PROVE  /\ (Pending(w, t)' <=> t \in todo)
         /\ ~Reached(w, t)' /\ ~Tried(w, t)' /\ ~Sweeps(w)'
<1>1. CASE todo = {}
  <2>1. worker'[w] = Idle
    BY <1>1, ProceedMoves
  <2>2. Idle.pc = "idle" /\ Idle.todo = {}
    BY DEF Idle
  <2> QED
    BY <1>1, <2>1, <2>2 DEF Pending, Reached, Tried, Sweeps
<1>2. CASE todo # {}
  <2>1. worker'[w].pc = "posting" /\ worker'[w].todo = todo
    BY <1>2, ProceedMoves
  <2> QED
    BY <2>1 DEF Pending, Reached, Tried, Sweeps
<1> QED
  BY <1>1, <1>2

\* ... is where it was for every target but the one it leaves.
LEMMA ProceedKept ==
  ASSUME TypeOK, NEW w \in Worker, NEW t \in Target, NEW todo \in SUBSET Target, Proceed(w, todo),
         worker[w].pc \in {"observing", "succeeded", "failed"},
         Pending(w, t) <=> t \in todo, ~Writes(w, t)
  PROVE  Kept(w, t)
<1>1. /\ (Pending(w, t)' <=> t \in todo)
      /\ ~Reached(w, t)' /\ ~Tried(w, t)' /\ ~Sweeps(w)'
  BY ProceedKeeps
<1>2. ~Reached(w, t) /\ ~Tried(w, t) /\ ~Sweeps(w)
  BY DEF Writes, Tried, Reached
<1>3. CASE todo = {}
  BY <1>1, <1>2, <1>3 DEF Kept
<1>4. CASE todo # {}
  <2>1. holder' = holder /\ worker'[w].at = worker[w].at /\ worker'[w].alert = worker[w].alert
    BY <1>4, ProceedMoves
  <2> QED
    BY <1>1, <1>2, <2>1 DEF Kept
<1> QED
  BY <1>3, <1>4

\* Steps that are nothing to t.
LEMMA UpsertKeeps ==
  ASSUME TypeOK, NEW w \in Worker, NEW t \in Target, UpsertObservedState(w)
  PROVE  Kept(w, t)
<1>1. worker[w].todo \in SUBSET Target /\ worker[w].pc = "observing" /\ Proceed(w, worker[w].todo)
  BY Fields DEF UpsertObservedState, At
<1>2. (Pending(w, t) <=> t \in worker[w].todo) /\ ~Writes(w, t)
  BY <1>1 DEF Pending, Writes, Tried, Sweeps
<1> QED
  BY <1>1, <1>2, ProceedKept

\* A mark writes the row of its own target only.
LEMMA MarkKeeps ==
  ASSUME TypeOK, CyclesAreSound, NEW w \in Worker, NEW t \in Target, Current(w) # t,
         MarkDeliverySuccess(w) \/ MarkDeliveryFailure(w)
  PROVE  Kept(w, t)
<1> DEFINE todo == worker[w].todo \ {Current(w)}
<1>1. todo \in SUBSET Target /\ worker[w].pc \in {"succeeded", "failed"} /\ Proceed(w, todo)
  BY Fields DEF MarkDeliverySuccess, MarkDeliveryFailure, At
<1>2. (Pending(w, t) <=> t \in todo) /\ ~Writes(w, t)
  BY <1>1 DEF Pending, Writes, Tried, Sweeps, Current
<1> HIDE DEF todo
<1> QED
  BY <1>1, <1>2, ProceedKept

\* ... and is done with that one.
LEMMA MarkDone ==
  ASSUME TypeOK, CyclesAreSound, NEW w \in Worker, NEW t \in Target, Current(w) = t,
         MarkDeliverySuccess(w) \/ MarkDeliveryFailure(w)
  PROVE  ~Pending(w, t) /\ Tried(w, t) /\ Done(w, t)
<1> DEFINE todo == worker[w].todo \ {Current(w)}
<1>1. todo \in SUBSET Target /\ worker[w].pc \in {"succeeded", "failed"} /\ Proceed(w, todo)
  BY Fields DEF MarkDeliverySuccess, MarkDeliveryFailure, At
<1>2. ~Pending(w, t) /\ Tried(w, t) /\ t \notin todo
  BY <1>1 DEF Pending, Tried, Current
<1> HIDE DEF todo
<1> QED
  BY <1>1, <1>2, ProceedKeeps DEF Done, Writes

\* A notification ends the wait of its target, and is nothing to the others
\* (deliverAlert).
LEMMA PostKeeps ==
  ASSUME TypeOK, NEW w \in Worker, NEW t \in Target, NEW s \in Target,
         DeliverAlert(w, s) \/ FailDelivery(w, s)
  PROVE  /\ holder' = holder /\ worker'[w].at = worker[w].at /\ worker'[w].alert = worker[w].alert
         /\ s # t => Kept(w, t)
         /\ s = t => /\ Pending(w, t) /\ ~Pending(w, t)' /\ Tried(w, t)' /\ ~Sweeps(w)'
                     /\ ~Reached(w, t) /\ ~Writes(w, t)
                     /\ FailDelivery(w, s) => ~Reached(w, t)'
<1>1. PICK pc \in {"succeeded", "failed"} :
        /\ worker' = [worker EXCEPT ![w].pc = pc, ![w].target = s]
        /\ FailDelivery(w, s) => pc = "failed"
  <2>1. CASE FailDelivery(w, s)
    BY <2>1 DEF FailDelivery
  <2>2. CASE ~FailDelivery(w, s)
    BY <2>2 DEF DeliverAlert
  <2> QED
    BY <2>1, <2>2
<1>2. /\ worker'[w].pc = pc /\ worker'[w].todo = worker[w].todo /\ worker'[w].at = worker[w].at
      /\ worker'[w].alert = worker[w].alert /\ worker'[w].target = s
  BY <1>1, PostMoves
<1>3. worker[w].pc = "posting" /\ s \in worker[w].todo /\ holder' = holder
  BY DEF DeliverAlert, FailDelivery, At
<1>4. CASE s # t
  BY <1>2, <1>3, <1>4 DEF Kept, Pending, Reached, Tried, Sweeps
<1>5. CASE s = t
  BY <1>1, <1>2, <1>3, <1>5 DEF Pending, Reached, Tried, Sweeps, Writes
<1> QED
  BY <1>2, <1>3, <1>4, <1>5

\* The alert's own row is not the targets'.
LEMMA ResolveKeeps ==
  ASSUME TypeOK, NEW w \in Worker, NEW t \in Target, ResolveState(w)
  PROVE  Kept(w, t)
<1>1. worker[w].pc = "resolving" /\ Goto(w, "clearing") /\ holder' = holder
  BY DEF ResolveState, At
<1>2. /\ worker'[w].pc = "clearing"
      /\ worker'[w].at = worker[w].at /\ worker'[w].alert = worker[w].alert
  BY <1>1, GotoMoves
<1> QED
  BY <1>1, <1>2 DEF Kept, Pending, Reached, Tried, Sweeps

\* A cycle that ends has nothing more to do for t.
LEMMA StopDone ==
  ASSUME TypeOK, NEW w \in Worker, NEW t \in Target, Stop(w)
  PROVE  Done(w, t) /\ ~Reached(w, t)'
<1>1. worker'[w] = Idle
  BY StopMoves
<1>2. Idle.pc = "idle"
  BY DEF Idle
<1> QED
  BY <1>1, <1>2 DEF Done, Pending, Writes, Tried, Sweeps, Reached

\* The update after a success fails.
LEMMA FailMarkKeeps ==
  ASSUME TypeOK, NEW w \in Worker, NEW t \in Target, FailMark(w)
  PROVE  /\ holder' = holder
         /\ (Pending(w, t)' <=> Pending(w, t)) /\ (Writes(w, t)' <=> Writes(w, t))
<1>1. worker[w].pc = "succeeded" /\ Goto(w, "failed") /\ holder' = holder
  BY DEF FailMark, At
<1>2. /\ worker'[w].pc = "failed" /\ worker'[w].todo = worker[w].todo
      /\ worker'[w].target = worker[w].target
  BY <1>1, GotoMoves
<1> QED
  BY <1>1, <1>2 DEF Pending, Writes, Tried, Sweeps

\* The others are left where they were.
LEMMA OthersStay ==
  ASSUME NEW w \in Worker, NEW v \in Worker, NEW t \in Target, worker'[v] = worker[v]
  PROVE  /\ (Pending(v, t)' <=> Pending(v, t)) /\ (Reached(v, t)' <=> Reached(v, t))
         /\ (Tried(v, t)' <=> Tried(v, t)) /\ (Sweeps(v)' <=> Sweeps(v))
         /\ (Writes(v, t)' <=> Writes(v, t))
BY DEF Pending, Reached, Tried, Sweeps, Writes

\* A step of w weighs for w alone.
LEMMA OthersWeighTheSame ==
  ASSUME TypeOK, NEW w \in Worker, NEW t \in Target, Moves(w)
  PROVE  \A v \in Worker \ {w} : Weight(v, t)' = Weight(v, t)
<1> SUFFICES ASSUME NEW v \in Worker \ {w} PROVE Weight(v, t)' = Weight(v, t)
  OBVIOUS
<1>1. (Pending(v, t)' <=> Pending(v, t)) /\ (Writes(v, t)' <=> Writes(v, t))
  BY OthersStay DEF Moves
<1>2. holder' = v <=> holder = v
  BY AlertAssumption DEF Moves
<1> QED
  BY <1>1, <1>2 DEF Weight

\* A step that is nothing to t weighs nothing.
LEMMA KeptWeighsTheSame ==
  ASSUME NEW w \in Worker, NEW t \in Target, Kept(w, t)
  PROVE  Weight(w, t)' = Weight(w, t)
<1>1. Writes(w, t)' <=> Writes(w, t)
  BY DEF Kept, Writes
<1>2. CASE holder' = holder
  BY <1>1, <1>2 DEF Kept, Weight
<1>3. CASE ~Pending(w, t) /\ ~Writes(w, t)
  BY <1>1, <1>3 DEF Kept, Weight
<1> QED
  BY <1>2, <1>3 DEF Kept

\* A delivery that was confirmed will be written.
LEMMA ReachedWrites ==
  ASSUME NEW w \in Worker, NEW t \in Target, Reached(w, t)
  PROVE  Writes(w, t)
BY DEF Reached, Writes, Tried

-----------------------------------------------------------------------------
(* What the steps do to the risk. *)

\* A step that is nothing to t, and neither writes nor tells, leaves the risk.
LEMMA KeptRisk ==
  ASSUME TypeOK, NEW w \in Worker, NEW t \in Target, Moves(w), Kept(w, t),
         row'[t] = row[t], told'[t] = told[t], alert' = alert
  PROVE  Risk(t)' => Risk(t)
<1>1. \A v \in Worker : v # w => /\ worker'[v] = worker[v] /\ (holder' = v <=> holder = v)
                                 /\ (Pending(v, t)' <=> Pending(v, t))
                                 /\ (Reached(v, t)' <=> Reached(v, t))
                                 /\ (Tried(v, t)' <=> Tried(v, t)) /\ (Sweeps(v)' <=> Sweeps(v))
  <2> SUFFICES ASSUME NEW v \in Worker, v # w
               PROVE  /\ worker'[v] = worker[v] /\ (holder' = v <=> holder = v)
                      /\ (Pending(v, t)' <=> Pending(v, t))
                      /\ (Reached(v, t)' <=> Reached(v, t))
                      /\ (Tried(v, t)' <=> Tried(v, t)) /\ (Sweeps(v)' <=> Sweeps(v))
    OBVIOUS
  <2>1. worker'[v] = worker[v] /\ (holder' = v <=> holder = v)
    BY AlertAssumption DEF Moves
  <2> QED
    BY <2>1, OthersStay
<1>2. /\ (Pending(w, t)' <=> Pending(w, t)) /\ (Reached(w, t)' <=> Reached(w, t))
      /\ (Tried(w, t)' <=> Tried(w, t)) /\ (Sweeps(w)' <=> Sweeps(w))
  BY DEF Kept
<1>3. Pending(w, t) \/ Writes(w, t)
        => holder' = holder /\ worker'[w].at = worker[w].at /\ worker'[w].alert = worker[w].alert
  BY DEF Kept
<1>4. Pending(w, t) \/ Reached(w, t) \/ Tried(w, t) \/ Sweeps(w) => Pending(w, t) \/ Writes(w, t)
  BY ReachedWrites DEF Writes
<1>5. ASSUME NEW v \in Worker, Pending(v, t)' \/ Reached(v, t)' \/ Tried(v, t)' \/ Sweeps(v)'
      PROVE  /\ worker'[v].at = worker[v].at /\ worker'[v].alert = worker[v].alert
             /\ holder' = v <=> holder = v
  BY <1>1, <1>2, <1>3, <1>4, <1>5
<1>6. \A v \in Worker : /\ (Pending(v, t)' <=> Pending(v, t)) /\ (Reached(v, t)' <=> Reached(v, t))
                        /\ (Tried(v, t)' <=> Tried(v, t)) /\ (Sweeps(v)' <=> Sweeps(v))
  BY <1>1, <1>2
<1>7. Soon(t)' => Soon(t)
  BY <1>5, <1>6 DEF Soon, Same
<1>8. Overwrites(t)' => Overwrites(t)
  BY <1>5, <1>6 DEF Overwrites
<1>9. Sets(t) => Sets(t)'
  BY <1>5, <1>6 DEF Sets
<1>10. Danger(t)' => Danger(t)
  BY <1>5, <1>6 DEF Danger, Same
<1>11. (RowLate(t)' <=> RowLate(t)) /\ (Fresh(t)' <=> Fresh(t))
  BY DEF RowLate, Fresh
<1> QED
  BY <1>7, <1>8, <1>9, <1>10, <1>11 DEF Risk, Hidden

\* A stray that tells t the same too soon raises no risk: what its row may hide, it hid
\* as a danger before.
LEMMA StrayRepeats ==
  ASSUME TypeOK, CyclesAreSound, NEW w \in Worker, NEW t \in Target, holder # w,
         DeliverAlert(w, t), told[t].fingerprint = worker[w].alert, told[t].at < Cooldown
  PROVE  Risk(t)' => Risk(t)
<1>1. /\ holder' = holder /\ row' = row /\ alert' = alert
      /\ \A v \in Worker \ {w} : worker'[v] = worker[v]
  <2>1. Moves(w)
    BY StepMoves
  <2> QED
    BY <2>1 DEF DeliverAlert, Moves
<1>2. told'[t].fingerprint = told[t].fingerprint /\ told'[t].at = worker[w].at
  BY ReceiveMoves DEF DeliverAlert
<1>3. Pending(w, t) /\ ~Pending(w, t)'
  BY PostKeeps
<1>4. \A v \in Worker \ {w} : /\ (Pending(v, t)' <=> Pending(v, t))
                              /\ (Reached(v, t)' <=> Reached(v, t))
                              /\ (Tried(v, t)' <=> Tried(v, t)) /\ (Sweeps(v)' <=> Sweeps(v))
  BY <1>1, OthersStay
<1>5. Same(w, t) /\ worker[w].alert # Quiet
  BY <1>3 DEF Same, DeliverAlert, CyclesAreSound, Telling, At
<1>6. Fresh(t)
  BY <1>5 DEF Fresh, Same
<1>7. Soon(t)' => Soon(t)
  BY <1>1, <1>2, <1>4 DEF Soon, Same
<1>8. Overwrites(t)' => Overwrites(t)
  BY <1>1, <1>4 DEF Overwrites
<1>9. Sets(t) => Sets(t)'
  BY <1>1, <1>4 DEF Sets
<1>10. Danger(t)' => Danger(t)
  BY <1>1, <1>2, <1>3, <1>4 DEF Danger, Same
<1>11. RowLate(t)' => RowLate(t) \/ Danger(t)
  BY <1>1, <1>2, <1>5 DEF RowLate, Danger
<1> QED
  BY <1>1, <1>2, <1>6, <1>7, <1>8, <1>9, <1>10, <1>11 DEF Risk, Hidden

\* The notification of the cycle under the lease is the one that was to be feared, if it
\* comes too soon, and its row will say so.
LEMMA HolderTells ==
  ASSUME TypeOK, CyclesAreSound, NEW w \in Worker, NEW t \in Target, holder = w,
         DeliverAlert(w, t)
  PROVE  /\ ~Risk(t)'
         /\ told[t].fingerprint = worker[w].alert /\ told[t].at < Cooldown => Risk(t)
<1>1. holder' = w /\ alert' = alert /\ worker'[w].alert = worker[w].alert
  BY PostKeeps DEF DeliverAlert
<1>2. told'[t].fingerprint = worker[w].alert
  BY ReceiveMoves DEF DeliverAlert
<1>3. Pending(w, t) /\ ~Pending(w, t)' /\ ~Sweeps(w)'
  BY PostKeeps
<1>4. Reached(w, t)'
  <2>1. worker' = [worker EXCEPT ![w].pc = "succeeded", ![w].target = t]
    BY DEF DeliverAlert
  <2>2. worker'[w].pc = "succeeded" /\ worker'[w].target = t
    BY <2>1, PostMoves
  <2> QED
    BY <2>2 DEF Reached
<1>5. ~Soon(t)'
  BY <1>1, <1>3 DEF Soon, Same
<1>6. ~Hidden(t)'
  <2> SUFFICES ASSUME told'[t].fingerprint = alert' PROVE ~Overwrites(t)' /\ Sets(t)'
    BY DEF Hidden
  <2>1. worker'[w].alert = alert'
    BY <1>1, <1>2
  <2> QED
    BY <1>1, <1>3, <1>4, <2>1 DEF Overwrites, Sets
<1>7. ASSUME told[t].fingerprint = worker[w].alert, told[t].at < Cooldown PROVE Risk(t)
  <2>1. worker[w].alert # Quiet
    BY DEF DeliverAlert, CyclesAreSound, Telling, At
  <2> QED
    BY <1>3, <1>7, <2>1 DEF Risk, Soon, Same, Fresh
<1> QED
  BY <1>5, <1>6, <1>7 DEF Risk

\* An attempt nobody heard changes nothing for t.
LEMMA FailsUnheard ==
  ASSUME TypeOK, CyclesAreSound, NEW w \in Worker, NEW t \in Target, FailDelivery(w, t),
         UNCHANGED told
  PROVE  Risk(t)' => Risk(t)
<1>1. /\ holder' = holder /\ row' = row /\ alert' = alert
      /\ \A v \in Worker \ {w} : worker'[v] = worker[v]
  <2>1. Moves(w)
    BY StepMoves
  <2> QED
    BY <2>1 DEF FailDelivery, Moves
<1>2. /\ Pending(w, t) /\ ~Pending(w, t)' /\ ~Sweeps(w)' /\ ~Reached(w, t)
      /\ worker'[w].alert = worker[w].alert
  BY PostKeeps
<1>3. \A v \in Worker \ {w} : /\ (Pending(v, t)' <=> Pending(v, t))
                              /\ (Reached(v, t)' <=> Reached(v, t))
                              /\ (Tried(v, t)' <=> Tried(v, t)) /\ (Sweeps(v)' <=> Sweeps(v))
  BY <1>1, OthersStay
<1>4. Soon(t)' => Soon(t)
  BY <1>1, <1>2, <1>3 DEF Soon, Same
<1>5. Overwrites(t)' => Overwrites(t)
  BY <1>1, <1>2, <1>3 DEF Overwrites
<1>6. Sets(t) => Sets(t)'
  BY <1>1, <1>2, <1>3 DEF Sets
<1>7. Danger(t)' => Danger(t)
  BY <1>1, <1>2, <1>3 DEF Danger, Same
<1>8. (RowLate(t)' <=> RowLate(t)) /\ (Fresh(t)' <=> Fresh(t))
  BY <1>1 DEF RowLate, Fresh
<1> QED
  BY <1>1, <1>4, <1>5, <1>6, <1>7, <1>8 DEF Risk, Hidden

\* The mark of the cycle under the lease: its notification, or none, is as young as any.
LEMMA HolderMarks ==
  ASSUME TypeOK, CyclesAreSound, AgesAreSound, NEW w \in Worker, NEW t \in Target, holder = w,
         Current(w) = t, MarkDeliverySuccess(w) \/ MarkDeliveryFailure(w)
  PROVE  Risk(t)' => Risk(t)
<1>1. Moves(w) /\ told' = told /\ alert' = alert
  BY StepMoves DEF MarkDeliverySuccess, MarkDeliveryFailure, outside
<1>2. ~Pending(w, t) /\ Tried(w, t) /\ ~Pending(w, t)' /\ ~Tried(w, t)' /\ ~Sweeps(w)'
  BY MarkDone DEF Done, Writes
<1>3. /\ row'[t].fingerprint = worker[w].alert /\ row'[t].resolved = FALSE
      /\ row'[t].delivered = IF At(w, "succeeded") THEN worker[w].at ELSE row[t].delivered
  BY MarkMoves
<1>4. holder' \in {w, NoOwner} /\ \A v \in Worker \ {w} : worker'[v] = worker[v]
  BY <1>1 DEF Moves
<1>5. SUFFICES ASSUME Risk(t)' PROVE Risk(t)
  OBVIOUS
<1>6. ~Soon(t)'
  BY <1>2, <1>4, AlertAssumption DEF Soon, Same
<1>7. ~Overwrites(t)'
  BY <1>2, <1>4, AlertAssumption DEF Overwrites
<1>8. /\ Fresh(t) /\ told[t].fingerprint = alert
      /\ RowLate(t)' \/ Danger(t)'
  BY <1>1, <1>5, <1>6, <1>7 DEF Risk, Hidden, Fresh
<1>9. CASE worker[w].alert # alert
  BY <1>2, <1>8, <1>9 DEF Risk, Hidden, Overwrites
<1>10. CASE worker[w].alert = alert
  <2>1. ~At(w, "succeeded")
    <3> SUFFICES ASSUME At(w, "succeeded") PROVE FALSE
      OBVIOUS
    <3>1. row'[t].delivered = worker[w].at /\ worker[w].at <= told[t].at
      BY <1>3 DEF AgesAreSound
    <3>2. ~RowLate(t)'
      BY <1>1, <1>3, <1>10, <3>1, Fields DEF RowLate
    <3>3. ASSUME NEW u \in Worker, Same(u, t)' PROVE ~(row'[t].delivered > worker'[u].at)
      <4>1. u # w /\ worker'[u] = worker[u] /\ Pending(u, t)
        BY <1>2, <1>4, <3>3, OthersStay DEF Same
      <4>2. worker[w].at <= worker[u].at
        BY <4>1 DEF CyclesAreSound, Pending, At
      <4> QED
        BY <3>1, <4>1, <4>2, Fields
    <3> QED
      BY <1>8, <3>2, <3>3 DEF Danger
  <2>2. ~Sets(t)
    BY <2>1 DEF Sets, Reached, At
  <2>3. RowLate(t)' => RowLate(t)
    BY <1>1, <1>3, <1>10, <2>1 DEF RowLate
  <2>4. Danger(t)' => Danger(t)
    <3> SUFFICES ASSUME NEW u \in Worker, Same(u, t)', row'[t].delivered > worker'[u].at
                 PROVE  Danger(t)
      BY DEF Danger
    <3>1. u # w /\ worker'[u] = worker[u] /\ Pending(u, t)
      BY <1>2, <1>4, OthersStay DEF Same
    <3> QED
      BY <1>1, <1>3, <2>1, <3>1 DEF Danger, Same
  <2> QED
    BY <1>8, <2>2, <2>3, <2>4 DEF Risk, Hidden
<1> QED
  BY <1>9, <1>10

\* Rows resolved under the lease were about to be.
LEMMA HolderSweeps ==
  ASSUME TypeOK, NEW w \in Worker, NEW t \in Target, holder = w, ResolveTargets(w)
  PROVE  Risk(t)' => Risk(t)
<1>1. told' = told /\ alert' = alert /\ holder' = NoOwner
  BY DEF ResolveTargets, outside, Stop
<1>2. Overwrites(t)
  BY DEF Overwrites, ResolveTargets, Sweeps, At
<1>3. ~Soon(t)'
  BY <1>1, AlertAssumption DEF Soon
<1> QED
  BY <1>1, <1>2, <1>3 DEF Risk, Hidden, Fresh

\* A cycle that starts tells t what it has just heard only if the row is late.
LEMMA StartRisk ==
  ASSUME TypeOK, NEW w \in Worker, NEW t \in Target, Start(w)
  PROVE  Risk(t)' => Risk(t)
<1> DEFINE c == [pc |-> IF alert = Quiet THEN "resolving" ELSE "observing", at |-> 0,
                 alert |-> alert, todo |-> ToNotify, target |-> NoTarget]
<1>1. /\ holder = NoOwner /\ holder' = w /\ At(w, "idle") /\ told' = told /\ alert' = alert
      /\ row' = row /\ worker' = [worker EXCEPT ![w] = c]
  BY DEF Start, AcquireLease, outside
<1>2. /\ c.alert = alert /\ c.pc = (IF alert = Quiet THEN "resolving" ELSE "observing")
      /\ c.todo = ToNotify
  OBVIOUS
<1> HIDE DEF c
<1>3. worker'[w] = c /\ \A v \in Worker \ {w} : worker'[v] = worker[v]
  BY <1>1 DEF TypeOK
<1>4. SUFFICES ASSUME Risk(t)' PROVE Risk(t)
  OBVIOUS
<1>5. Fresh(t)
  BY <1>1, <1>4 DEF Risk, Fresh
<1>6. ~Sets(t)
  BY <1>1, AlertAssumption DEF Sets
<1>7. ~Reached(w, t)' /\ ~Tried(w, t)'
  BY <1>2, <1>3 DEF Reached, Tried
<1>8. CASE Soon(t)'
  <2>1. Pending(w, t)' /\ worker'[w].alert = told'[t].fingerprint
    BY <1>1, <1>8 DEF Soon, Same
  <2>2. told[t].fingerprint = alert /\ t \in ToNotify
    BY <1>1, <1>2, <1>3, <2>1 DEF Pending
  <2>3. ShouldSend(row[t], alert)
    BY <2>2 DEF ToNotify
  <2>4. RowLate(t)
    BY <1>5, <2>3, Fields DEF ShouldSend, RowLate, Fresh
  <2> QED
    BY <1>5, <1>6, <2>2, <2>4 DEF Risk, Hidden
<1>9. CASE Hidden(t)'
  <2>1. told[t].fingerprint = alert /\ alert # Quiet
    BY <1>1, <1>5, <1>9 DEF Hidden, Fresh
  <2>2. ~Sweeps(w)' /\ worker'[w].alert = alert
    BY <1>2, <1>3, <2>1 DEF Sweeps
  <2>3. ~Overwrites(t)'
    BY <1>1, <2>2 DEF Overwrites
  <2>4. RowLate(t)' => RowLate(t)
    BY <1>1 DEF RowLate
  <2>5. Danger(t)' => Danger(t)
    <3> SUFFICES ASSUME NEW u \in Worker, holder' # u, Same(u, t)',
                        row'[t].delivered > worker'[u].at
                 PROVE  Danger(t)
      BY DEF Danger
    <3>1. u # w /\ worker'[u] = worker[u] /\ Pending(u, t)
      BY <1>1, <1>3, OthersStay DEF Same
    <3> QED
      BY <1>1, <3>1, AlertAssumption DEF Danger, Same
  <2> QED
    BY <1>5, <1>6, <1>9, <2>1, <2>3, <2>4, <2>5 DEF Hidden, Risk
<1> QED
  BY <1>4, <1>8, <1>9 DEF Risk

\* A cycle that loses its lease before it has told t was a risk already, if it becomes
\* one.
LEMMA LapseRisk ==
  ASSUME TypeOK, NEW t \in Target, LeaseLapse, NEW h \in Worker, holder = h, Pending(h, t)
  PROVE  Risk(t)' => Risk(t)
<1>1. holder' = NoOwner /\ told' = told /\ alert' = alert
  BY DEF LeaseLapse
<1>2. ~Soon(t)'
  BY <1>1, AlertAssumption DEF Soon
<1>3. SUFFICES ASSUME Risk(t)' PROVE Risk(t)
  OBVIOUS
<1>4. Fresh(t) /\ told[t].fingerprint = alert
  BY <1>1, <1>2, <1>3 DEF Risk, Hidden, Fresh
<1>5. CASE worker[h].alert = alert
  BY <1>4, <1>5 DEF Risk, Soon, Same
<1>6. CASE worker[h].alert # alert
  BY <1>4, <1>6 DEF Risk, Hidden, Overwrites
<1> QED
  BY <1>5, <1>6

\* Time makes nothing late.
LEMMA TickRisk ==
  ASSUME TypeOK, NEW t \in Target, Tick
  PROVE  Risk(t)' => Risk(t)
<1>1. alert' = alert /\ holder' = holder
  BY DEF Tick
<1>2. \A w \in Worker : /\ (Pending(w, t)' <=> Pending(w, t)) /\ (Reached(w, t)' <=> Reached(w, t))
                        /\ (Tried(w, t)' <=> Tried(w, t)) /\ (Sweeps(w)' <=> Sweeps(w))
                        /\ worker'[w].alert = worker[w].alert
  BY TickMoves DEF Pending, Reached, Tried, Sweeps
<1>3. /\ told'[t].fingerprint = told[t].fingerprint /\ told'[t].at = Older(told[t].at)
      /\ row'[t].fingerprint = row[t].fingerprint /\ row'[t].resolved = row[t].resolved
      /\ row'[t].delivered = Older(row[t].delivered)
      /\ \A w \in Worker : worker'[w].at = Older(worker[w].at)
  BY TickMoves
<1>4. Fresh(t)' => Fresh(t)
  BY <1>3, Fields DEF Fresh, Older
<1>5. Soon(t)' => Soon(t)
  BY <1>1, <1>2, <1>3 DEF Soon, Same
<1>6. Overwrites(t)' => Overwrites(t)
  BY <1>1, <1>2 DEF Overwrites
<1>7. Sets(t) => Sets(t)'
  BY <1>1, <1>2 DEF Sets
<1>8. RowLate(t)' => RowLate(t)
  <2>1. row[t].delivered <= told[t].at => row'[t].delivered <= told'[t].at
    BY <1>3, Fields, OlderKeepsOrder
  <2>2. row'[t].delivered \in Nat /\ told'[t].at \in Nat
    BY <1>3, Fields DEF Older
  <2> QED
    BY <1>1, <1>3, <2>1, <2>2, Fields DEF RowLate
<1>9. Danger(t)' => Danger(t)
  <2> SUFFICES ASSUME NEW u \in Worker, holder' # u, Same(u, t)', row'[t].delivered > worker'[u].at
               PROVE  Danger(t)
    BY DEF Danger
  <2>1. row[t].delivered <= worker[u].at => row'[t].delivered <= worker'[u].at
    BY <1>3, Fields, OlderKeepsOrder
  <2>2. row'[t].delivered \in Nat /\ worker'[u].at \in Nat
    BY <1>3, Fields DEF Older
  <2>3. row[t].delivered > worker[u].at
    BY <2>1, <2>2, Fields
  <2> QED
    BY <1>1, <1>2, <1>3, <2>3 DEF Danger, Same
<1> QED
  BY <1>1, <1>3, <1>4, <1>5, <1>6, <1>7, <1>8, <1>9 DEF Risk, Hidden

-----------------------------------------------------------------------------
(* What pays for what. *)

\* What the bound adds up are numbers.
LEMMA CoveredValues ==
  ASSUME TypeOK, NEW t \in Target
  PROVE  repeats[t] \in Nat /\ cuts \in Nat /\ Owed(t) \in Nat /\ Chance(t) \in {0, 1}
BY Fields, OwedIsNat, AlertAssumption DEF TypeOK, Chance, OwedIsCounted

\* A step that costs no cut may add a repeat for which something else goes, or a risk
\* for which a weight does.
LEMMA PaidByWeight ==
  ASSUME TypeOK, TypeOK', NEW t \in Target, NEW w \in Worker, Covered(t), Moves(w),
         cuts' = cuts,
         \/ repeats'[t] = repeats[t] /\ Weight(w, t)' <= Weight(w, t) /\ (Risk(t)' => Risk(t))
         \/ repeats'[t] = repeats[t] /\ Weight(w, t)' + 1 <= Weight(w, t)
         \/ /\ repeats'[t] = repeats[t] + 1 /\ Weight(w, t)' + 1 <= Weight(w, t)
            /\ Risk(t)' => Risk(t)
         \/ repeats'[t] = repeats[t] + 1 /\ Weight(w, t)' <= Weight(w, t) /\ Risk(t) /\ ~Risk(t)'
  PROVE  Covered(t)'
<1>1. PICK rest \in Nat : /\ Owed(t) = rest + Weight(w, t) /\ Owed(t)' = rest + Weight(w, t)'
                          /\ Weight(w, t) \in Nat /\ Weight(w, t)' \in Nat
  BY OthersWeighTheSame, OwedMoves
<1>2. repeats[t] \in Nat /\ repeats'[t] \in Nat /\ cuts \in Nat
  BY Fields, CoveredValues
<1>3. /\ Chance(t) = (IF Risk(t) THEN 1 ELSE 0)
      /\ Chance(t)' = (IF Risk(t)' THEN 1 ELSE 0)
  BY DEF Chance
<1>4. repeats[t] + (rest + Weight(w, t)) + Chance(t) <= 2 * cuts
  BY <1>1 DEF Covered
<1>5. repeats'[t] + (rest + Weight(w, t)') + Chance(t)' <= 2 * cuts
  <2> DEFINE n == Weight(w, t)
             m == Weight(w, t)'
             c == Chance(t)
             d == Chance(t)'
             q == Risk(t)
             r == Risk(t)'
  <2>1. c = (IF q THEN 1 ELSE 0) /\ d = (IF r THEN 1 ELSE 0)
    BY <1>3
  <2>2. c \in {0, 1} /\ d \in {0, 1} /\ ((r => q) => d <= c) /\ (q /\ ~r => c = 1 /\ d = 0)
    BY <2>1
  <2>3. \/ repeats'[t] = repeats[t] /\ m <= n /\ d <= c
        \/ repeats'[t] = repeats[t] /\ m + 1 <= n
        \/ repeats'[t] = repeats[t] + 1 /\ m + 1 <= n /\ d <= c
        \/ repeats'[t] = repeats[t] + 1 /\ m <= n /\ c = 1 /\ d = 0
    BY <2>2
  <2>4. n \in Nat /\ m \in Nat /\ repeats[t] + (rest + n) + c <= 2 * cuts
    BY <1>1, <1>4
  <2>5. c \in {0, 1} /\ d \in {0, 1}
    BY <2>2
  <2> HIDE DEF n, m, c, d, q, r
  <2>6. repeats'[t] + (rest + m) + d <= 2 * cuts
    BY <1>2, <2>3, <2>4, <2>5
  <2> QED
    BY <2>6 DEF m, d
<1> QED
  BY <1>1, <1>5 DEF Covered

\* A cut pays for two.
LEMMA PaidByCut ==
  ASSUME TypeOK, TypeOK', NEW t \in Target, Covered(t), Cut,
         NEW owed, owed = Owed(t)', NEW n \in Nat, owed <= Owed(t) + n,
         \/ repeats'[t] <= repeats[t] /\ n <= 1
         \/ repeats'[t] <= repeats[t] + 1 /\ n = 0
         \/ repeats'[t] <= repeats[t] /\ n <= 2 /\ (Risk(t)' => Risk(t))
  PROVE  Covered(t)'
<1>1. OwedIsCounted /\ OwedIsCounted'
  BY OwedIsNat, PTL
<1>2. /\ repeats[t] \in Nat /\ repeats'[t] \in Nat /\ cuts \in Nat /\ cuts' = cuts + 1
      /\ Owed(t) \in Nat /\ Owed(t)' \in Nat
  BY <1>1, Fields, CoveredValues DEF OwedIsCounted, Cut, TypeOK
<1> DEFINE o == Owed(t)
           p == Owed(t)'
           c == Chance(t)
           d == Chance(t)'
<1>3. /\ c \in {0, 1} /\ d \in {0, 1} /\ ((Risk(t)' => Risk(t)) => d <= c)
  BY DEF Chance
<1>4. \/ repeats'[t] <= repeats[t] /\ n <= 1
      \/ repeats'[t] <= repeats[t] + 1 /\ n = 0
      \/ repeats'[t] <= repeats[t] /\ n <= 2 /\ d <= c
  BY <1>3
<1>5. repeats[t] + o + c <= 2 * cuts
  BY DEF Covered
<1>6. p <= o + n /\ o \in Nat /\ p \in Nat
  BY <1>2
<1>7. repeats'[t] + p + d <= 2 * cuts'
  <2>1. c \in {0, 1} /\ d \in {0, 1}
    BY <1>3
  <2> HIDE DEF o, p, c, d
  <2> QED
    BY <1>2, <1>4, <1>5, <1>6, <2>1
<1> QED
  BY <1>7 DEF Covered

\* Telling t, or trying to, is one thing less to do.
LEMMA TellWeighs ==
  ASSUME TypeOK, NEW w \in Worker, NEW t \in Target, DeliverAlert(w, t) \/ FailDelivery(w, t)
  PROVE  /\ holder = w => Weight(w, t)' = Weight(w, t)
         /\ holder # w => Weight(w, t)' + 1 = Weight(w, t)
<1>1. /\ holder' = holder /\ Pending(w, t) /\ ~Pending(w, t)' /\ Tried(w, t)'
  BY PostKeeps
<1>2. Writes(w, t)'
  BY <1>1 DEF Writes
<1>3. CASE holder = w
  BY <1>1, <1>3 DEF Weight
<1>4. CASE holder # w
  BY <1>1, <1>2, <1>4 DEF Weight
<1> QED
  BY <1>3, <1>4

\* Once w has nothing more to do for t.
LEMMA DoneWeighs ==
  ASSUME NEW w \in Worker, NEW t \in Target, Done(w, t)
  PROVE  /\ Weight(w, t)' = 0
         /\ holder # w /\ Writes(w, t) => Weight(w, t)' + 1 <= Weight(w, t)
BY DEF Done, Weight

\* A cut leaves at most one more thing to be done.
LEMMA CutMoves ==
  ASSUME TypeOK, TypeOK', NEW t \in Target, NEW w \in Worker, Covered(t), Moves(w), Cut,
         Weight(w, t)' <= Weight(w, t),
         \/ repeats'[t] = repeats[t]
         \/ repeats'[t] = repeats[t] + 1
  PROVE  Covered(t)'
<1>1. PICK rest \in Nat : /\ Owed(t) = rest + Weight(w, t) /\ Owed(t)' = rest + Weight(w, t)'
                          /\ Weight(w, t) \in Nat /\ Weight(w, t)' \in Nat
  BY OthersWeighTheSame, OwedMoves
<1> DEFINE owed == Owed(t)'
           o == Owed(t)
           n == Weight(w, t)
           m == Weight(w, t)'
<1>2. owed <= o + 0
  <2>1. owed = rest + m /\ o = rest + n /\ m <= n /\ m \in Nat /\ n \in Nat
    BY <1>1
  <2> HIDE DEF owed, o, n, m
  <2> QED
    BY <1>1, <2>1
<1>3. repeats'[t] <= repeats[t] + 1
  BY Fields
<1>4. owed = Owed(t)'
  OBVIOUS
<1> HIDE DEF owed
<1> QED
  BY <1>2, <1>3, <1>4, PaidByCut

\* A lease that lapses turns its cycle into a stray, which may owe two things.
LEMMA LapseCovered ==
  ASSUME TypeOK, TypeOK', CyclesAreSound, NEW t \in Target, Covered(t), LeaseLapse
  PROVE  Covered(t)'
<1>1. PICK h \in Worker : holder = h
  BY DEF LeaseLapse, TypeOK
<1>2. /\ holder' = NoOwner /\ worker' = worker /\ repeats' = repeats /\ Cut
  BY DEF LeaseLapse
<1>3. \A v \in Worker \ {h} : Weight(v, t)' = Weight(v, t)
  BY <1>1, <1>2, AlertAssumption DEF Weight, Pending, Writes, Tried, Sweeps
<1>4. PICK rest \in Nat : /\ Owed(t) = rest + Weight(h, t) /\ Owed(t)' = rest + Weight(h, t)'
                          /\ Weight(h, t) \in Nat /\ Weight(h, t)' \in Nat
  BY <1>3, OwedMoves
<1>5. Weight(h, t) = 0
  BY <1>1 DEF Weight
<1>6. /\ Weight(h, t)' \in {0, 1, 2}
      /\ ~Pending(h, t) => Weight(h, t)' \in {0, 1}
  BY <1>2, AlertAssumption DEF Weight, Pending, Writes, Tried, Sweeps
<1>7. Pending(h, t) => (Risk(t)' => Risk(t))
  BY <1>1, LapseRisk
<1> DEFINE owed == Owed(t)'
           n == Weight(h, t)'
<1>8. owed <= Owed(t) + n /\ owed = Owed(t)'
  <2>1. owed = rest + n /\ Owed(t) = rest + 0
    BY <1>4, <1>5
  <2>2. n \in Nat
    BY <1>4
  <2> HIDE DEF owed, n
  <2> QED
    BY <1>4, <2>1, <2>2 DEF owed
<1>9. n \in Nat /\ repeats'[t] <= repeats[t]
  BY <1>2, <1>4, Fields
<1>10. \/ n <= 1
       \/ n <= 2 /\ (Risk(t)' => Risk(t))
  BY <1>6, <1>7
<1> HIDE DEF owed, n
<1> QED
  BY <1>2, <1>8, <1>9, <1>10, PaidByCut

\* Where nothing is told and no cycle moves.
LEMMA NobodyMoves ==
  ASSUME TypeOK, TypeOK', NEW t \in Target, Covered(t), cuts' = cuts, repeats' = repeats,
         \A v \in Worker : Weight(v, t)' = Weight(v, t), Risk(t)' => Risk(t)
  PROVE  Covered(t)'
<1>1. OwedIsCounted /\ OwedIsCounted'
  BY OwedIsNat, PTL
<1> DEFINE f == Weights(t)
           g == Weights(t)'
<1>2. Counts(f, Worker) /\ \A v \in Worker : g[v] = f[v]
  BY <1>1 DEF Counts, OwedIsCounted, Weights
<1>3. Owed(t) = SumFunctionOnSet(f, Worker) /\ Owed(t)' = SumFunctionOnSet(g, Worker)
  BY DEF Owed
<1> HIDE DEF f, g
<1>4. Owed(t)' = Owed(t)
  BY <1>2, <1>3, SumSame, AlertAssumption
<1>5. /\ repeats[t] \in Nat /\ cuts \in Nat /\ Owed(t) \in Nat
      /\ repeats[t] + Owed(t) + Chance(t) <= 2 * cuts
  BY CoveredValues DEF Covered
<1> DEFINE c == Chance(t)
           d == Chance(t)'
           o == Owed(t)
<1>6. c \in {0, 1} /\ d \in {0, 1} /\ d <= c
  BY DEF Chance
<1>7. repeats[t] + o + d <= 2 * cuts
  <2> HIDE DEF c, d
  <2>1. repeats[t] + o + c <= 2 * cuts
    BY <1>5 DEF c
  <2> HIDE DEF o
  <2>2. o \in Nat
    BY <1>5 DEF o
  <2> QED
    BY <1>5, <1>6, <2>1, <2>2
<1> QED
  BY <1>4, <1>7 DEF Covered

\* A notification to t.
LEMMA DeliveryCovered ==
  ASSUME TypeOK, TypeOK', CyclesAreSound, NEW w \in Worker, NEW t \in Target,
         Covered(t), DeliverAlert(w, t), Moves(w)
  PROVE  Covered(t)'
<1>1. cuts' = cuts /\ Weight(w, t) \in Nat /\ Weight(w, t)' \in Nat
  BY WeightValues DEF DeliverAlert, Weight
<1>2. Telling(w) /\ worker[w].alert # Quiet
  BY DEF DeliverAlert, At, Telling, CyclesAreSound
<1>3. repeats'[t] = IF told[t].fingerprint = worker[w].alert
                          /\ told[t].at < Cooldown
                       THEN repeats[t] + 1 ELSE repeats[t]
  BY ReceiveMoves DEF DeliverAlert
<1>4. CASE holder = w
  <2>1. Weight(w, t)' <= Weight(w, t)
    <3>1. Weight(w, t)' = Weight(w, t)
      BY <1>4, TellWeighs
    <3> QED
      BY <1>1, <3>1
  <2>2. ~Risk(t)'
    BY <1>4, HolderTells
  <2>3. CASE told[t].fingerprint = worker[w].alert /\ told[t].at < Cooldown
    <3>1. Risk(t) /\ repeats'[t] = repeats[t] + 1
      BY <1>2, <1>3, <1>4, <2>3, HolderTells
    <3> QED
      BY <1>1, <2>1, <2>2, <3>1, PaidByWeight
  <2>4. CASE ~(told[t].fingerprint = worker[w].alert /\ told[t].at < Cooldown)
    <3>1. repeats'[t] = repeats[t]
      BY <1>3, <2>4
    <3> QED
      BY <1>1, <2>1, <2>2, <3>1, PaidByWeight
  <2> QED
    BY <2>3, <2>4
<1>5. CASE holder # w
  <2>1. Weight(w, t)' + 1 <= Weight(w, t)
    <3>1. Weight(w, t)' + 1 = Weight(w, t)
      BY <1>5, TellWeighs
    <3> QED
      BY <1>1, <3>1
  <2>2. CASE told[t].fingerprint = worker[w].alert /\ told[t].at < Cooldown
    <3>1. (Risk(t)' => Risk(t)) /\ repeats'[t] = repeats[t] + 1
      BY <1>3, <1>5, <2>2, StrayRepeats
    <3> QED
      BY <1>1, <2>1, <3>1, PaidByWeight
  <2>3. CASE ~(told[t].fingerprint = worker[w].alert /\ told[t].at < Cooldown)
    <3>1. repeats'[t] = repeats[t]
      BY <1>3, <2>3
    <3> QED
      BY <1>1, <2>1, <3>1, PaidByWeight
  <2> QED
    BY <2>2, <2>3
<1> QED
  BY <1>4, <1>5

\* An attempt on t that fails, heard or not.
LEMMA FailureCovered ==
  ASSUME TypeOK, TypeOK', CyclesAreSound, NEW w \in Worker, NEW t \in Target,
         Covered(t), FailDelivery(w, t), Moves(w)
  PROVE  Covered(t)'
<1>1. Weight(w, t) \in Nat /\ Weight(w, t)' \in Nat
  BY WeightValues DEF Weight
<1>2. Weight(w, t)' <= Weight(w, t)
  <2>1. Weight(w, t)' = Weight(w, t) \/ Weight(w, t)' + 1 = Weight(w, t)
    BY TellWeighs
  <2> QED
    BY <1>1, <2>1
<1>3. CASE UNCHANGED <<told, repeats, cuts>>
  <2>1. Risk(t)' => Risk(t)
    BY <1>3, FailsUnheard
  <2> QED
    BY <1>2, <1>3, <2>1, PaidByWeight
<1>4. CASE Receive(w, t) /\ Cut
  <2>1. repeats'[t] = repeats[t] \/ repeats'[t] = repeats[t] + 1
    BY <1>4, ReceiveMoves
  <2> QED
    BY <1>2, <1>4, <2>1, CutMoves
<1> QED
  BY <1>3, <1>4 DEF FailDelivery

\* Steps that are nothing to t.
LEMMA KeptCovered ==
  ASSUME TypeOK, TypeOK', NEW w \in Worker, NEW t \in Target, Covered(t), Moves(w), Kept(w, t),
         row'[t] = row[t], told'[t] = told[t], alert' = alert, repeats'[t] = repeats[t],
         cuts' = cuts
  PROVE  Covered(t)'
<1>1. Risk(t)' => Risk(t)
  BY KeptRisk
<1>2. Weight(w, t)' <= Weight(w, t)
  <2>1. Weight(w, t)' = Weight(w, t) /\ Weight(w, t) \in Nat
    BY KeptWeighsTheSame, WeightValues
  <2> QED
    BY <2>1
<1> QED
  BY <1>1, <1>2, PaidByWeight

\* A row that is written, by a stray or under the lease.
LEMMA WriteCovered ==
  ASSUME TypeOK, TypeOK', NEW w \in Worker, NEW t \in Target, Covered(t), Moves(w),
         Writes(w, t), Done(w, t), repeats'[t] = repeats[t], cuts' = cuts,
         holder = w => (Risk(t)' => Risk(t))
  PROVE  Covered(t)'
<1>1. CASE holder = w
  <2>1. Weight(w, t)' <= Weight(w, t)
    <3>1. Weight(w, t)' = 0 /\ Weight(w, t) \in Nat
      BY DoneWeighs, WeightValues
    <3> QED
      BY <3>1
  <2> QED
    BY <1>1, <2>1, PaidByWeight
<1>2. CASE holder # w
  <2>1. Weight(w, t)' + 1 <= Weight(w, t)
    BY <1>2, DoneWeighs
  <2> QED
    BY <2>1, PaidByWeight
<1> QED
  BY <1>1, <1>2

\* The two marks (markTargetDeliverySuccess, markTargetDeliveryFailure).
LEMMA MarkCovered ==
  ASSUME TypeOK, TypeOK', CyclesAreSound, AgesAreSound, NEW w \in Worker, NEW t \in Target,
         Covered(t), Moves(w),
         MarkDeliverySuccess(w) \/ MarkDeliveryFailure(w)
  PROVE  Covered(t)'
<1>1. UNCHANGED outside /\ Current(w) \in Target
  BY DEF MarkDeliverySuccess, MarkDeliveryFailure, CyclesAreSound, At
<1>2. CASE Current(w) = t
  <2>1. Writes(w, t) /\ Done(w, t)
    BY <1>2, MarkDone DEF Writes
  <2>2. holder = w => (Risk(t)' => Risk(t))
    BY <1>2, HolderMarks
  <2> QED
    BY <1>1, <2>1, <2>2, WriteCovered DEF outside
<1>3. CASE Current(w) # t
  <2>1. Kept(w, t) /\ row'[t] = row[t]
    BY <1>1, <1>3, MarkKeeps, MarkMoves
  <2> QED
    BY <1>1, <2>1, KeptCovered DEF outside
<1> QED
  BY <1>2, <1>3

\* Resolving every row (resolveClearedAlerts).
LEMMA SweepCovered ==
  ASSUME TypeOK, TypeOK', NEW w \in Worker, NEW t \in Target,
         Covered(t), Moves(w), ResolveTargets(w)
  PROVE  Covered(t)'
<1>1. UNCHANGED outside /\ Writes(w, t) /\ Done(w, t)
  BY StopDone DEF ResolveTargets, At, Writes, Sweeps
<1>2. holder = w => (Risk(t)' => Risk(t))
  BY HolderSweeps
<1> QED
  BY <1>1, <1>2, WriteCovered DEF outside

\* A failure that nobody hears of.
LEMMA CrashCovered ==
  ASSUME TypeOK, TypeOK', NEW w \in Worker, NEW t \in Target, Covered(t), Moves(w),
         FailMark(w) \/ Crash(w)
  PROVE  Covered(t)'
<1>1. repeats' = repeats /\ Cut
  BY DEF FailMark, Crash
<1>2. Weight(w, t)' <= Weight(w, t)
  <2>1. Weight(w, t) \in Nat
    BY WeightValues
  <2>2. CASE FailMark(w)
    <3>1. Weight(w, t)' = Weight(w, t)
      BY <2>2, FailMarkKeeps DEF Weight
    <3> QED
      BY <2>1, <3>1
  <2>3. CASE Crash(w)
    <3>1. Weight(w, t)' = 0
      BY <2>3, StopDone, DoneWeighs DEF Crash
    <3> QED
      BY <2>1, <3>1
  <2> QED
    BY <2>2, <2>3
<1> QED
  BY <1>1, <1>2, CutMoves

\* A cycle that starts owes nothing, as it has the lease.
LEMMA StartCovered ==
  ASSUME TypeOK, TypeOK', NEW w \in Worker, NEW t \in Target, Covered(t), Start(w)
  PROVE  Covered(t)'
<1>1. /\ holder = NoOwner /\ holder' = w /\ At(w, "idle") /\ UNCHANGED outside
      /\ \A v \in Worker \ {w} : worker'[v] = worker[v]
  BY DEF Start, AcquireLease, TypeOK
<1>2. ASSUME NEW v \in Worker PROVE Weight(v, t)' = Weight(v, t)
  <2>1. CASE v = w
    BY <1>1, <2>1, AlertAssumption DEF Weight, Pending, Writes, Tried, Sweeps, At
  <2>2. CASE v # w
    <3>1. (Pending(v, t)' <=> Pending(v, t)) /\ (Writes(v, t)' <=> Writes(v, t))
      BY <1>1, <2>2, OthersStay
    <3> QED
      BY <1>1, <2>2, <3>1, AlertAssumption DEF Weight
  <2> QED
    BY <2>1, <2>2
<1>3. Risk(t)' => Risk(t)
  BY StartRisk
<1> QED
  BY <1>1, <1>2, <1>3, NobodyMoves DEF outside

\* Time passes.
LEMMA TickCovered ==
  ASSUME TypeOK, TypeOK', NEW t \in Target, Covered(t), Tick
  PROVE  Covered(t)'
<1>1. UNCHANGED <<holder, repeats, cuts>>
  BY DEF Tick
<1>2. \A v \in Worker : Weight(v, t)' = Weight(v, t)
  BY <1>1, TickMoves DEF Weight, Pending, Writes, Tried, Sweeps
<1>3. Risk(t)' => Risk(t)
  BY TickRisk
<1> QED
  BY <1>1, <1>2, <1>3, NobodyMoves

\* An alert that changes makes what was told irrelevant.
LEMMA ChangeCovered ==
  ASSUME TypeOK, TypeOK', NEW t \in Target, Covered(t), AlertChanges
  PROVE  Covered(t)'
<1>1. UNCHANGED <<holder, worker, repeats, cuts>> /\ told'[t].fingerprint = Quiet
  BY DEF AlertChanges, Untold
<1>2. \A v \in Worker : Weight(v, t)' = Weight(v, t)
  BY <1>1 DEF Weight, Pending, Writes, Tried, Sweeps
<1>3. ~Risk(t)'
  BY <1>1 DEF Risk, Fresh
<1> QED
  BY <1>1, <1>2, <1>3, NobodyMoves

\* Nobody was told anything yet.
LEMMA AlertIInit == Init => AlertIInv
<1> SUFFICES ASSUME Init PROVE AlertIInv
  OBVIOUS
<1>1. Cooldown \in Nat \ {0} /\ MaxChanges \in Nat /\ MaxCuts \in Nat /\ NoOwner \notin Worker
  BY AlertAssumption
<1>2. /\ NoState \in TargetState /\ Untold \in Notice /\ Idle \in Cycle
      /\ NoState.delivered = Never /\ Untold.fingerprint = Quiet
      /\ Idle.pc = "idle" /\ Idle.todo = {}
  BY <1>1 DEF NoState, TargetState, Untold, Notice, Idle, Cycle, Alert, Age, Never
<1> USE DEF Init
<1>3. TypeOK
  BY <1>1, <1>2 DEF TypeOK
<1>4. \A w \in Worker : At(w, "idle") /\ holder # w
  BY <1>1, <1>2 DEF At
<1>5. CyclesAreSound
  BY <1>4 DEF CyclesAreSound, At, Telling
<1>6. AgesAreSound
  BY <1>4 DEF AgesAreSound
<1>7. ASSUME NEW t \in Target PROVE Covered(t)
  <2>1. \A w \in Worker : Weight(w, t) = 0
    BY <1>4 DEF Weight, Pending, Writes, Tried, Sweeps, At
  <2>2. \A w \in Worker : Weights(t)[w] = 0
    BY <2>1 DEF Weights
  <2>3. Owed(t) = 0
    BY <2>2, SumOfZeros, AlertAssumption DEF Owed
  <2>4. Chance(t) = 0
    BY <1>2 DEF Chance, Risk, Fresh
  <2>5. repeats[t] = 0 /\ cuts = 0
    OBVIOUS
  <2> QED
    BY <2>3, <2>4, <2>5 DEF Covered
<1> QED
  BY <1>3, <1>5, <1>6, <1>7 DEF AlertIInv

\* Every step keeps it.
LEMMA AlertIStep == AlertIInv /\ [Next]_vars => AlertIInv'
<1> SUFFICES ASSUME AlertIInv, [Next]_vars PROVE AlertIInv'
  OBVIOUS
<1>1. TypeOK /\ CyclesAreSound /\ AgesAreSound /\ \A t \in Target : Covered(t)
  BY DEF AlertIInv
<1>2. TypeOK' /\ CyclesAreSound' /\ AgesAreSound'
  BY <1>1, TypeStays, CyclesStay, AgesStay
<1>3. SUFFICES ASSUME NEW t \in Target PROVE Covered(t)'
  BY <1>2 DEF AlertIInv
<1>4. ASSUME NEW w \in Worker, UpsertObservedState(w) PROVE Covered(t)'
  <2>1. UNCHANGED <<outside, row>> /\ Moves(w)
    BY <1>1, <1>4, StepMoves DEF UpsertObservedState
  <2> QED
    BY <1>1, <1>2, <1>4, <2>1, UpsertKeeps, KeptCovered DEF outside
<1>5. ASSUME NEW w \in Worker, ResolveState(w) PROVE Covered(t)'
  <2>1. UNCHANGED <<outside, row>> /\ Moves(w)
    BY <1>1, <1>5, StepMoves DEF ResolveState
  <2> QED
    BY <1>1, <1>2, <1>5, <2>1, ResolveKeeps, KeptCovered DEF outside
<1>6. ASSUME NEW w \in Worker, NEW s \in Target, DeliverAlert(w, s) \/ FailDelivery(w, s)
      PROVE  Covered(t)'
  <2>1. Moves(w)
    BY <1>1, <1>6, StepMoves
  <2>2. CASE s = t
    BY <1>1, <1>2, <1>6, <2>1, <2>2, DeliveryCovered, FailureCovered
  <2>3. CASE s # t
    <3>1. Kept(w, t)
      BY <1>1, <1>6, <2>3, PostKeeps
    <3>2. /\ row' = row /\ alert' = alert
          /\ \/ Receive(w, s) /\ (cuts' = cuts \/ Cut)
             \/ UNCHANGED <<told, repeats, cuts>>
      BY <1>6 DEF DeliverAlert, FailDelivery
    <3>3. told'[t] = told[t] /\ repeats'[t] = repeats[t]
      BY <1>1, <2>3, <3>2, ReceiveMoves
    <3>4. CASE cuts' = cuts
      BY <1>1, <1>2, <2>1, <3>1, <3>2, <3>3, <3>4, KeptCovered
    <3>5. CASE Cut
      <4>1. Weight(w, t)' <= Weight(w, t)
        <5>1. Weight(w, t)' = Weight(w, t) /\ Weight(w, t) \in Nat
          BY <3>1, KeptWeighsTheSame, WeightValues
        <5> QED
          BY <5>1
      <4> QED
        BY <1>1, <1>2, <2>1, <3>3, <3>5, <4>1, CutMoves
    <3> QED
      BY <3>2, <3>4, <3>5
  <2> QED
    BY <2>2, <2>3
<1>7. ASSUME NEW w \in Worker, MarkDeliverySuccess(w) \/ MarkDeliveryFailure(w) PROVE Covered(t)'
  BY <1>1, <1>2, <1>7, StepMoves, MarkCovered
<1>8. ASSUME NEW w \in Worker, ResolveTargets(w) PROVE Covered(t)'
  BY <1>1, <1>2, <1>8, StepMoves, SweepCovered
<1>9. ASSUME NEW w \in Worker, FailMark(w) \/ Crash(w) PROVE Covered(t)'
  BY <1>1, <1>2, <1>9, StepMoves, CrashCovered
<1>10. ASSUME NEW w \in Worker, Start(w) PROVE Covered(t)'
  BY <1>1, <1>2, <1>10, StartCovered
<1>11. CASE Tick
  BY <1>1, <1>2, <1>11, TickCovered
<1>12. CASE AlertChanges
  BY <1>1, <1>2, <1>12, ChangeCovered
<1>13. CASE LeaseLapse
  BY <1>1, <1>2, <1>13, LapseCovered
<1>14. CASE UNCHANGED vars
  <2>1. /\ repeats' = repeats /\ cuts' = cuts /\ holder' = holder /\ worker' = worker
        /\ told' = told /\ row' = row /\ alert' = alert
    BY <1>14 DEF vars
  <2>2. \A v \in Worker : Weight(v, t)' = Weight(v, t)
    BY <2>1 DEF Weight, Pending, Writes, Tried, Sweeps
  <2>3. Risk(t)' => Risk(t)
    BY <2>1 DEF Risk, Fresh, Soon, Hidden, Overwrites, Sets, RowLate, Danger, Same, Pending,
                Tried, Sweeps, Reached
  <2> QED
    BY <1>1, <1>2, <2>1, <2>2, <2>3, NobodyMoves
<1> QED
  BY <1>4, <1>5, <1>6, <1>7, <1>8, <1>9, <1>10, <1>11, <1>12, <1>13, <1>14 DEF Next, Step

\* A target does not hear the same again before a cooldown has passed since the cycle that
\* told it began, but for twice at most for every crash, lost answer, failed update or
\* lapsed lease (shouldSendNotification, markTargetDeliverySuccess).
THEOREM AlertCorrect == Spec => []AlertInv
<1>1. AlertIInv => AlertInv
  <2> SUFFICES ASSUME AlertIInv, NEW t \in Target PROVE TypeOK /\ repeats[t] <= 2 * cuts
    BY DEF AlertIInv, AlertInv, RemindersKeepTheCooldown
  <2>1. TypeOK /\ Covered(t)
    BY DEF AlertIInv
  <2>2. repeats[t] \in Nat /\ cuts \in Nat /\ Owed(t) \in Nat /\ Chance(t) \in {0, 1}
    BY <2>1, CoveredValues
  <2>3. repeats[t] + Owed(t) + Chance(t) <= 2 * cuts
    BY <2>1 DEF Covered
  <2> QED
    BY <2>1, <2>2, <2>3
<1> QED
  BY <1>1, AlertIInit, AlertIStep, PTL DEF Spec
=============================================================================
