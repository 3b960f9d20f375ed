--------------------- MODULE NotificationWorker_proofs ---------------------
(***************************************************************************)
(* Proofs about the notification service worker, for any number of keys,   *)
(* deliveries and tabs and any limits that satisfy WorkerAssumption.       *)
(***************************************************************************)
EXTENDS NotificationWorker, FiniteSetTheorems, TLAPS

Busy == [pc : DeliveryPCs \ {"idle"}, key : Keys, generation : 0..MaxGeneration]

\* A delivery that is not idle carries its key and generation.
LEMMA BusyJob ==
  ASSUME TypeOK, NEW d \in Deliveries, job[d].pc # "idle"
  PROVE  job[d] \in Busy
BY DEF TypeOK, Jobs, Busy, Idle

LEMMA IdleJob == Idle \in Jobs /\ Idle.pc = "idle"
BY DEF Idle, Jobs

\* What a request of a tab makes of the settings.
LEMMA SettingsTyped ==
  ASSUME TypeOK, NEW request, Applies(request)
  PROVE  Changed(request) \in Settings
<1>1. CASE StartsOff(request)
  BY <1>1, WorkerAssumption DEF TypeOK, Applies, Changed, Settings
<1>2. CASE ~StartsOff(request)
  BY <1>2, WorkerAssumption DEF TypeOK, Applies, Changed, Settings
<1> QED BY <1>1, <1>2

LEMMA InitTyped == Init => TypeOK
BY WorkerAssumption, IdleJob DEF Init, TypeOK, DEFAULT_SETTINGS, Settings, TabStates

LEMMA MessageTyped ==
  ASSUME TypeOK, NEW t \in Tabs, NEW request, NEW next \in {"idle", "begun"},
         OnMessage(t, request, next)
  PROVE  TypeOK'
<1>1. settings' \in Settings
  BY SettingsTyped DEF OnMessage, TypeOK
<1>2. settings'.generation \in 0..MaxGeneration
  BY <1>1 DEF Settings
<1>3. tab' \in [Tabs -> TabStates]
  <2>1. CASE tab' = [tab EXCEPT ![t].pc = "idle"]
    BY <2>1 DEF TypeOK, TabStates
  <2>2. CASE tab' = [tab EXCEPT ![t] = [pc |-> IF Applies(request) THEN next ELSE "idle",
                                         known |-> settings'.generation]]
    BY <1>2, <2>2 DEF TypeOK, TabStates
  <2> QED BY <2>1, <2>2 DEF OnMessage
<1>4. crossed' \subseteq Deliveries /\ overtaken' \subseteq Tabs
  BY DEF OnMessage, TypeOK
<1> QED BY <1>1, <1>3, <1>4 DEF OnMessage, TypeOK, store

LEMMA TabTyped ==
  ASSUME TypeOK, NEW t \in Tabs,
         \/ EnableBegins(t) \/ EnableFinishes(t) \/ EnableAborts(t)
         \/ DisableClicked(t) \/ Refresh(t)
  PROVE  TypeOK'
<1>1. CASE EnableBegins(t)
  BY <1>1, MessageTyped DEF EnableBegins
<1>2. CASE EnableFinishes(t)
  BY <1>2, MessageTyped DEF EnableFinishes
<1>3. CASE EnableAborts(t)
  BY <1>3 DEF EnableAborts, TypeOK, TabStates, store
<1>4. CASE DisableClicked(t)
  BY <1>4, MessageTyped DEF DisableClicked
<1>5. CASE Refresh(t)
  BY <1>5 DEF Refresh, TypeOK, TabStates, Settings, store, history
<1> QED BY <1>1, <1>2, <1>3, <1>4, <1>5

\* How a delivery moves on.
LEMMA GotoTyped ==
  ASSUME TypeOK, NEW d \in Deliveries, job[d].pc # "idle",
         NEW pc \in DeliveryPCs \ {"idle"}, Goto(d, pc)
  PROVE  job' \in [Deliveries -> Jobs]
BY BusyJob DEF TypeOK, Goto, Busy, Jobs

LEMMA EndTyped ==
  ASSUME TypeOK, NEW d \in Deliveries, End(d)
  PROVE  job' \in [Deliveries -> Jobs]
BY IdleJob DEF TypeOK, End

LEMMA DeliveryTyped ==
  ASSUME TypeOK, NEW d \in Deliveries,
         \/ \E k \in Keys : Push(d, k)
         \/ ReadSettings(d) \/ ClaimEvent(d) \/ Recheck(d)
         \/ Show(d) \/ ShowFails(d) \/ ReleaseClaim(d) \/ StorageFails(d)
  PROVE  TypeOK'
<1>1. ASSUME NEW k \in Keys, Push(d, k) PROVE TypeOK'
  <2>1. job' \in [Deliveries -> Jobs]
    BY <1>1, WorkerAssumption DEF Push, TypeOK, Jobs, DeliveryPCs
  <2> QED BY <1>1, <2>1 DEF Push, TypeOK, store, history
<1>2. CASE ReadSettings(d)
  <2>1. job[d] \in Busy
    BY <1>2, BusyJob DEF ReadSettings
  <2>2. job' \in [Deliveries -> Jobs]
    <3>1. CASE settings.enabled
      BY <1>2, <2>1, <3>1 DEF ReadSettings, TypeOK, Busy, Jobs, Settings, DeliveryPCs
    <3>2. CASE ~settings.enabled
      BY <1>2, <3>2, EndTyped DEF ReadSettings
    <3> QED BY <3>1, <3>2
  <2> QED BY <1>2, <2>2 DEF ReadSettings, TypeOK, store
<1>3. CASE ClaimEvent(d)
  <2> DEFINE k == job[d].key
             exp == IF Claimed(k) THEN [expires EXCEPT ![k] = Expiry] ELSE expires
  <2>1. k \in Keys
    BY <1>3, BusyJob DEF ClaimEvent, Busy
  <2>2. Expiry \in Nat
    BY WorkerAssumption DEF Expiry, TypeOK
  <2>3. exp \in [Keys -> Nat]
    BY <2>1, <2>2 DEF TypeOK
  <2>4. PICK gone \in PruneEvents(claims \cup {k}, exp) :
          /\ claims' = (claims \cup {k}) \ gone
          /\ expires' = [j \in Keys |-> IF j \in gone THEN 0 ELSE exp[j]]
          /\ lapsed' = lapsed \cup Expired(gone, exp)
          /\ evicted' = evicted \cup (gone \ Expired(gone, exp))
    BY <1>3 DEF ClaimEvent
  <2>5. gone \subseteq Keys
    BY <2>1, <2>4 DEF PruneEvents, TypeOK
  <2>6. claims' \subseteq Keys /\ expires' \in [Keys -> Nat]
        /\ lapsed' \subseteq Keys /\ evicted' \subseteq Keys
    <3> HIDE DEF exp
    <3> QED BY <2>1, <2>3, <2>4, <2>5 DEF TypeOK, Expired
  <2>7. job' \in [Deliveries -> Jobs]
    <3>1. CASE Claimed(k)
      BY <1>3, <3>1, GotoTyped DEF ClaimEvent, DeliveryPCs
    <3>2. CASE ~Claimed(k)
      BY <1>3, <3>2, EndTyped DEF ClaimEvent
    <3> QED BY <3>1, <3>2
  <2>8. crossed' \subseteq Deliveries
    BY <1>3 DEF ClaimEvent, TypeOK
  <2> QED BY <1>3, <2>6, <2>7, <2>8 DEF ClaimEvent, TypeOK
<1>4. CASE Recheck(d)
  <2>1. job[d].key \in Keys
    BY <1>4, BusyJob DEF Recheck, Busy
  <2>2. job' \in [Deliveries -> Jobs]
    BY <1>4, GotoTyped, EndTyped DEF Recheck, DeliveryPCs
  <2>3. dropped' \subseteq Keys /\ crossed' \subseteq Deliveries
    BY <1>4, <2>1 DEF Recheck, TypeOK
  <2> QED BY <1>4, <2>2, <2>3 DEF Recheck, TypeOK, store
<1>5. CASE Show(d)
  <2>1. job[d].key \in Keys
    BY <1>5, BusyJob DEF Show, Busy
  <2>2. shown' \in [Keys -> 0..2]
    BY <1>5, <2>1 DEF Show, TypeOK
  <2>3. job' \in [Deliveries -> Jobs]
    BY <1>5, EndTyped DEF Show
  <2> QED BY <1>5, <2>2, <2>3 DEF Show, TypeOK, store
<1>6. CASE ShowFails(d)
  <2>1. job' \in [Deliveries -> Jobs]
    BY <1>6, GotoTyped DEF ShowFails, DeliveryPCs
  <2> QED BY <1>6, <2>1 DEF ShowFails, TypeOK, store, history
<1>7. CASE ReleaseClaim(d)
  <2>1. job[d].key \in Keys
    BY <1>7, BusyJob DEF ReleaseClaim, Busy
  <2>2. expires' \in [Keys -> Nat] /\ claims' \subseteq Keys
    BY <1>7, <2>1 DEF ReleaseClaim, TypeOK
  <2>3. job' \in [Deliveries -> Jobs]
    BY <1>7, EndTyped DEF ReleaseClaim
  <2> QED BY <1>7, <2>2, <2>3 DEF ReleaseClaim, TypeOK, history
<1>8. CASE StorageFails(d)
  <2>1. job[d].key \in Keys
    BY <1>8, BusyJob DEF StorageFails, Busy
  <2>2. job' \in [Deliveries -> Jobs]
    BY <1>8, EndTyped DEF StorageFails
  <2>3. dropped' \subseteq Keys /\ crossed' \subseteq Deliveries
    BY <1>8, <2>1 DEF StorageFails, TypeOK
  <2> QED BY <1>8, <2>2, <2>3 DEF StorageFails, TypeOK, store
<1> QED BY <1>1, <1>2, <1>3, <1>4, <1>5, <1>6, <1>7, <1>8

LEMMA WorkerEndsTyped == TypeOK /\ WorkerEnds => TypeOK'
<1> SUFFICES ASSUME TypeOK, WorkerEnds PROVE TypeOK'
  OBVIOUS
<1>1. \A d \in Deliveries : Holds(d) => job[d].key \in Keys
  BY BusyJob DEF Holds, Busy
<1>2. dropped' \subseteq Keys
  BY <1>1 DEF WorkerEnds, TypeOK
<1>3. job' \in [Deliveries -> Jobs]
  BY IdleJob DEF WorkerEnds
<1> QED BY <1>2, <1>3 DEF WorkerEnds, TypeOK, store

LEMMA StepTyped == TypeOK /\ [Next]_vars => TypeOK'
<1> SUFFICES ASSUME TypeOK, [Next]_vars PROVE TypeOK'
  OBVIOUS
<1>1. CASE \E t \in Tabs : \/ EnableBegins(t) \/ EnableFinishes(t) \/ EnableAborts(t)
                           \/ DisableClicked(t) \/ Refresh(t)
  BY <1>1, TabTyped
<1>2. ASSUME NEW k \in Keys, Observed(k) PROVE TypeOK'
  BY <1>2, WorkerAssumption DEF Observed, TypeOK, store, history
<1>3. CASE \E d \in Deliveries :
             \/ \E k \in Keys : Push(d, k)
             \/ ReadSettings(d) \/ ClaimEvent(d) \/ Recheck(d)
             \/ Show(d) \/ ShowFails(d) \/ ReleaseClaim(d) \/ StorageFails(d)
  BY <1>3, DeliveryTyped
<1>4. CASE WorkerEnds
  BY <1>4, WorkerEndsTyped
<1>5. CASE Tick
  BY <1>5 DEF Tick, TypeOK, store, history
<1>6. CASE UNCHANGED vars
  BY <1>6 DEF TypeOK, vars, store, history
<1> QED BY <1>1, <1>2, <1>3, <1>4, <1>5, <1>6 DEF Next

\* Type correctness of the worker, its store and the tabs.
THEOREM WorkerTypes == Spec => []TypeOK
BY InitTyped, StepTyped, PTL DEF Spec

-----------------------------------------------------------------------------
(* What the steps of a delivery do                                         *)

Gone == evicted \cup lapsed

LEMMA EndJob ==
  ASSUME TypeOK, NEW d \in Deliveries, End(d)
  PROVE  /\ job'[d] = Idle /\ job'[d].pc = "idle"
         /\ \A e \in Deliveries \ {d} : job'[e] = job[e]
BY IdleJob DEF TypeOK, End

LEMMA GotoJob ==
  ASSUME TypeOK, NEW d \in Deliveries, job[d].pc # "idle", NEW pc, Goto(d, pc)
  PROVE  /\ job'[d].pc = pc /\ job'[d].key = job[d].key
         /\ job'[d].generation = job[d].generation
         /\ \A e \in Deliveries \ {d} : job'[e] = job[e]
BY BusyJob DEF TypeOK, Goto, Busy

\* The transaction of claimEvent: what it drops is on record, and what it
\* drops for its age has expired.
LEMMA ClaimEffect ==
  ASSUME TypeOK, NEW d \in Deliveries, ClaimEvent(d)
  PROVE  /\ job[d].pc = "checked" /\ job[d].key \in Keys
         /\ claims' \subseteq claims \cup {job[d].key}
         /\ claims \cup {job[d].key} \subseteq claims' \cup Gone'
         /\ Gone \subseteq Gone'
         /\ \A k \in claims' : expires'[k] =
              IF k = job[d].key /\ Claimed(k) THEN Expiry ELSE expires[k]
         /\ \A k \in lapsed' \ lapsed :
              /\ k \in claims \cup {job[d].key}
              /\ now >= IF k = job[d].key /\ Claimed(k) THEN Expiry ELSE expires[k]
<1> DEFINE k == job[d].key
           exp == IF Claimed(k) THEN [expires EXCEPT ![k] = Expiry] ELSE expires
<1>1. job[d].pc = "checked" /\ k \in Keys
  BY BusyJob DEF ClaimEvent, Busy
<1>2. \A j \in Keys : exp[j] = IF j = k /\ Claimed(j) THEN Expiry ELSE expires[j]
  BY <1>1 DEF TypeOK
<1>3. PICK gone \in PruneEvents(claims \cup {k}, exp) :
        /\ claims' = (claims \cup {k}) \ gone
        /\ expires' = [j \in Keys |-> IF j \in gone THEN 0 ELSE exp[j]]
        /\ lapsed' = lapsed \cup Expired(gone, exp)
        /\ evicted' = evicted \cup (gone \ Expired(gone, exp))
  BY DEF ClaimEvent
<1> HIDE DEF exp
<1>4. gone \subseteq claims \cup {k} /\ claims \cup {k} \subseteq Keys
  BY <1>1, <1>3 DEF PruneEvents, TypeOK
<1>5. Gone' = Gone \cup gone
  BY <1>3 DEF Gone, Expired
<1>6. \A j \in claims' : expires'[j] = exp[j]
  BY <1>3, <1>4
<1>7. \A j \in lapsed' \ lapsed : j \in gone /\ exp[j] <= now
  BY <1>3 DEF Expired
<1>8. \A j \in lapsed' \ lapsed : exp[j] \in Nat
  <2>1. Expiry \in Nat
    BY WorkerAssumption DEF Expiry, TypeOK
  <2> QED BY <1>2, <1>4, <1>7, <2>1 DEF TypeOK
<1> QED BY <1>1, <1>2, <1>3, <1>4, <1>5, <1>6, <1>7, <1>8 DEF TypeOK

-----------------------------------------------------------------------------
(* An event is displayed once                                              *)

\* Unless its claim was dropped, an event that is being delivered or was
\* displayed is claimed, and there is only one delivery or display behind it.
Ownership ==
  /\ \A k \in Keys : shown[k] > 1 => k \in Gone
  /\ \A k \in Keys : shown[k] > 0 => k \in claims \cup Gone
  /\ \A d \in Deliveries : Holds(d) => job[d].key \in claims \cup Gone
  /\ \A d \in Deliveries : Holds(d) /\ shown[job[d].key] > 0 => job[d].key \in Gone
  /\ \A d, e \in Deliveries :
       d # e /\ Holds(d) /\ Holds(e) /\ job[d].key = job[e].key => job[d].key \in Gone

LEMMA OwnershipFrame ==
  ASSUME TypeOK, Ownership, UNCHANGED <<claims, shown, evicted, lapsed>>,
         \A d \in Deliveries : Holds(d)' => Holds(d) /\ job'[d].key = job[d].key
  PROVE  Ownership'
<1>1. Gone' = Gone
  BY DEF Gone
<1> QED BY <1>1 DEF Ownership

LEMMA OwnershipStep == TypeOK /\ Ownership /\ [Next]_vars => Ownership'
<1> SUFFICES ASSUME TypeOK, Ownership, [Next]_vars PROVE Ownership'
  OBVIOUS
<1>1. CASE UNCHANGED <<job, claims, shown, evicted, lapsed>>
  BY <1>1, OwnershipFrame DEF Holds
<1>2. ASSUME NEW d \in Deliveries, NEW k \in Keys, Push(d, k) PROVE Ownership'
  <2>1. \A e \in Deliveries : Holds(e)' => Holds(e) /\ job'[e].key = job[e].key
    BY <1>2 DEF Push, Holds, TypeOK
  <2> QED BY <1>2, <2>1, OwnershipFrame DEF Push, store, history
<1>3. ASSUME NEW d \in Deliveries, ReadSettings(d) PROVE Ownership'
  <2>1. \A e \in Deliveries : Holds(e)' => Holds(e) /\ job'[e].key = job[e].key
    <3>1. CASE settings.enabled
      BY <1>3, <3>1, BusyJob DEF ReadSettings, Holds, TypeOK, Busy
    <3>2. CASE ~settings.enabled
      BY <1>3, <3>2, EndJob DEF ReadSettings, Holds
    <3> QED BY <3>1, <3>2
  <2> QED BY <1>3, <2>1, OwnershipFrame DEF ReadSettings, store
<1>4. ASSUME NEW d \in Deliveries, ClaimEvent(d) PROVE Ownership'
  <2> DEFINE k == job[d].key
  <2>1. /\ job[d].pc = "checked" /\ k \in Keys /\ shown' = shown
        /\ claims \cup {k} \subseteq claims' \cup Gone' /\ Gone \subseteq Gone'
    BY <1>4, ClaimEffect DEF ClaimEvent
  <2>2. CASE ~Claimed(k)
    <3>1. \A e \in Deliveries : Holds(e)' => e # d /\ Holds(e) /\ job'[e] = job[e]
      BY <1>4, <2>2, EndJob DEF ClaimEvent, Holds
    <3> QED BY <2>1, <3>1 DEF Ownership
  <2>3. CASE Claimed(k)
    <3>1. /\ job'[d].key = k
          /\ \A e \in Deliveries \ {d} : job'[e] = job[e]
      BY <1>4, <2>1, <2>3, GotoJob DEF ClaimEvent
    <3>2. \A e \in Deliveries \ {d} : Holds(e)' <=> Holds(e)
      BY <3>1 DEF Holds
    <3>3. shown[k] > 0 => k \in Gone
      BY <2>1, <2>3 DEF Ownership, Claimed
    <3>4. \A e \in Deliveries \ {d} : Holds(e) /\ job[e].key = k => k \in Gone
      BY <2>3 DEF Ownership, Claimed
    <3>5. \A j \in Keys : (shown'[j] > 1 => j \in Gone') /\ (shown'[j] > 0 => j \in claims' \cup Gone')
      BY <2>1 DEF Ownership
    <3>6. \A e \in Deliveries :
            /\ Holds(e)' => job'[e].key \in claims' \cup Gone'
            /\ Holds(e)' /\ shown'[job'[e].key] > 0 => job'[e].key \in Gone'
      BY <2>1, <3>1, <3>2, <3>3 DEF Ownership
    <3>7. \A e, f \in Deliveries :
            e # f /\ Holds(e)' /\ Holds(f)' /\ job'[e].key = job'[f].key => job'[e].key \in Gone'
      BY <2>1, <3>1, <3>2, <3>4 DEF Ownership
    <3> QED BY <3>5, <3>6, <3>7 DEF Ownership
  <2> QED BY <2>2, <2>3
<1>5. ASSUME NEW d \in Deliveries, Recheck(d) PROVE Ownership'
  <2>1. \A e \in Deliveries : Holds(e)' => Holds(e) /\ job'[e].key = job[e].key
    <3>1. CASE Confirmed(d)
      BY <1>5, <3>1, GotoJob DEF Recheck, Holds
    <3>2. CASE ~Confirmed(d)
      BY <1>5, <3>2, EndJob DEF Recheck, Holds
    <3> QED BY <3>1, <3>2
  <2> QED BY <1>5, <2>1, OwnershipFrame DEF Recheck, store
<1>6. ASSUME NEW d \in Deliveries, Show(d) PROVE Ownership'
  <2> DEFINE k == job[d].key
  <2>1. k \in Keys /\ Holds(d)
    BY <1>6, BusyJob DEF Show, Busy, Holds
  <2>2. /\ Gone' = Gone /\ claims' = claims
        /\ shown'[k] > 1 => shown[k] > 0
        /\ \A j \in Keys \ {k} : shown'[j] = shown[j]
    BY <1>6, <2>1 DEF Show, Gone, TypeOK, store
  <2>3. \A e \in Deliveries : Holds(e)' => e # d /\ Holds(e) /\ job'[e] = job[e]
    BY <1>6, EndJob DEF Show, Holds
  <2>4. \A j \in Keys : (shown'[j] > 1 => j \in Gone') /\ (shown'[j] > 0 => j \in claims' \cup Gone')
    BY <2>1, <2>2 DEF Ownership
  <2>5. \A e \in Deliveries : Holds(e) => job[e].key \in Keys
    BY BusyJob DEF Holds, Busy
  <2>6. \A e \in Deliveries : Holds(e)' /\ shown'[job'[e].key] > 0 => job'[e].key \in Gone'
    BY <2>1, <2>2, <2>3, <2>5 DEF Ownership
  <2> QED BY <2>2, <2>3, <2>4, <2>6 DEF Ownership
<1>7. ASSUME NEW d \in Deliveries, ShowFails(d) PROVE Ownership'
  <2>1. \A e \in Deliveries : Holds(e)' => Holds(e) /\ job'[e].key = job[e].key
    BY <1>7, GotoJob DEF ShowFails, Holds
  <2> QED BY <1>7, <2>1, OwnershipFrame DEF ShowFails, store, history
<1>8. ASSUME NEW d \in Deliveries, ReleaseClaim(d) PROVE Ownership'
  <2> DEFINE k == job[d].key
  <2>1. Holds(d) /\ Gone' = Gone /\ shown' = shown /\ claims' = claims \ {k}
    BY <1>8 DEF ReleaseClaim, Holds, Gone, history
  <2>2. \A e \in Deliveries : Holds(e)' => e # d /\ Holds(e) /\ job'[e] = job[e]
    BY <1>8, EndJob DEF ReleaseClaim, Holds
  <2>3. shown[k] > 0 => k \in Gone
    BY <2>1 DEF Ownership
  <2>4. \A e \in Deliveries \ {d} : Holds(e) /\ job[e].key = k => k \in Gone
    BY <2>1 DEF Ownership
  <2> QED BY <2>1, <2>2, <2>3, <2>4 DEF Ownership
<1>9. ASSUME NEW d \in Deliveries, StorageFails(d) PROVE Ownership'
  <2>1. \A e \in Deliveries : Holds(e)' => Holds(e) /\ job'[e].key = job[e].key
    BY <1>9, EndJob DEF StorageFails, Holds
  <2> QED BY <1>9, <2>1, OwnershipFrame DEF StorageFails, store
<1>10. CASE WorkerEnds
  <2>1. \A e \in Deliveries : ~Holds(e)'
    BY <1>10, IdleJob DEF WorkerEnds, Holds
  <2> QED BY <1>10, <2>1, OwnershipFrame DEF WorkerEnds, store
<1>11. ASSUME NEW t \in Tabs,
              \/ EnableBegins(t) \/ EnableFinishes(t) \/ EnableAborts(t)
              \/ DisableClicked(t) \/ Refresh(t)
       PROVE  UNCHANGED <<job, claims, shown, evicted, lapsed>>
  BY <1>11 DEF EnableBegins, EnableFinishes, EnableAborts, DisableClicked, Refresh, OnMessage,
               store, history
<1>12. (\E k \in Keys : Observed(k)) \/ Tick \/ UNCHANGED vars
         => UNCHANGED <<job, claims, shown, evicted, lapsed>>
  BY DEF Observed, Tick, vars, store, history
<1> QED BY <1>1, <1>2, <1>3, <1>4, <1>5, <1>6, <1>7, <1>8, <1>9, <1>10, <1>11, <1>12 DEF Next

\* An event is displayed at most once as long as its claim is not dropped, for
\* any number of concurrent deliveries and restarts of the worker.
THEOREM ShownOnceHolds == Spec => []ShownOnce
<1>1. Init => Ownership
  BY IdleJob DEF Init, Ownership, Holds
<1>2. Ownership => ShownOnce
  BY DEF Ownership, ShownOnce, Gone
<1> QED BY <1>1, <1>2, InitTyped, StepTyped, OwnershipStep, PTL DEF Spec

-----------------------------------------------------------------------------
(* A claim without a display                                               *)

\* Steps that leave claims, displays and the deliveries that hold a claim alone.
LEMMA AccountedFrame ==
  ASSUME ClaimAccounted, UNCHANGED <<claims, shown>>, dropped \subseteq dropped',
         \A d \in Deliveries : Holds(d) =>
           (Holds(d)' /\ job'[d].key = job[d].key) \/ job[d].key \in dropped'
  PROVE  ClaimAccounted'
BY DEF ClaimAccounted

LEMMA AccountedStep == TypeOK /\ ClaimAccounted /\ [Next]_vars => ClaimAccounted'
<1> SUFFICES ASSUME TypeOK, ClaimAccounted, [Next]_vars PROVE ClaimAccounted'
  OBVIOUS
<1>1. CASE UNCHANGED <<job, claims, shown, dropped>>
  BY <1>1 DEF ClaimAccounted, Holds
<1>2. ASSUME NEW d \in Deliveries, NEW k \in Keys, Push(d, k) PROVE ClaimAccounted'
  <2>1. \A e \in Deliveries : Holds(e) => Holds(e)' /\ job'[e].key = job[e].key
    BY <1>2, IdleJob DEF Push, Holds, TypeOK
  <2> QED BY <1>2, <2>1, AccountedFrame DEF Push, store, history
<1>3. ASSUME NEW d \in Deliveries, ReadSettings(d) PROVE ClaimAccounted'
  <2>1. ~Holds(d) /\ \A e \in Deliveries \ {d} : job'[e] = job[e]
    BY <1>3 DEF ReadSettings, End, Holds, TypeOK
  <2>2. \A e \in Deliveries : Holds(e) => Holds(e)' /\ job'[e].key = job[e].key
    BY <2>1 DEF Holds
  <2> QED BY <1>3, <2>2, AccountedFrame DEF ReadSettings, store
<1>4. ASSUME NEW d \in Deliveries, ClaimEvent(d) PROVE ClaimAccounted'
  <2>1. /\ ~Holds(d) /\ claims' \subseteq claims \cup {job[d].key}
        /\ shown' = shown /\ dropped' = dropped
    BY <1>4, ClaimEffect DEF ClaimEvent, Holds
  <2>2. CASE Claimed(job[d].key)
    <3>1. /\ Holds(d)' /\ job'[d].key = job[d].key
          /\ \A e \in Deliveries \ {d} : job'[e] = job[e]
      BY <1>4, <2>2, GotoJob DEF ClaimEvent, Holds
    <3>2. \A e \in Deliveries : Holds(e) => Holds(e)' /\ job'[e].key = job[e].key
      BY <2>1, <3>1 DEF Holds
    <3> QED BY <2>1, <3>1, <3>2 DEF ClaimAccounted
  <2>3. CASE ~Claimed(job[d].key)
    <3>1. \A e \in Deliveries \ {d} : job'[e] = job[e]
      BY <1>4, <2>3, EndJob DEF ClaimEvent
    <3>2. \A e \in Deliveries : Holds(e) => Holds(e)' /\ job'[e].key = job[e].key
      BY <2>1, <3>1 DEF Holds
    <3>3. claims' \subseteq claims
      BY <2>1, <2>3 DEF Claimed
    <3> QED BY <2>1, <3>2, <3>3 DEF ClaimAccounted
  <2> QED BY <2>2, <2>3
<1>5. ASSUME NEW d \in Deliveries, Recheck(d) PROVE ClaimAccounted'
  <2>1. \A e \in Deliveries : Holds(e) =>
          (Holds(e)' /\ job'[e].key = job[e].key) \/ job[e].key \in dropped'
    <3>1. CASE Confirmed(d)
      BY <1>5, <3>1, GotoJob DEF Recheck, Holds
    <3>2. CASE ~Confirmed(d)
      BY <1>5, <3>2, EndJob DEF Recheck, Holds
    <3> QED BY <3>1, <3>2
  <2>2. dropped \subseteq dropped'
    BY <1>5 DEF Recheck
  <2> QED BY <1>5, <2>1, <2>2, AccountedFrame DEF Recheck, store
<1>6. ASSUME NEW d \in Deliveries, Show(d) PROVE ClaimAccounted'
  <2>1. job[d].key \in Keys
    BY <1>6, BusyJob DEF Show, Busy
  <2>2. /\ claims' = claims /\ dropped' = dropped
        /\ shown'[job[d].key] > 0
        /\ \A k \in Keys : shown[k] > 0 => shown'[k] > 0
    BY <1>6, <2>1 DEF Show, TypeOK, store
  <2>3. \A e \in Deliveries \ {d} : job'[e] = job[e]
    BY <1>6, EndJob DEF Show
  <2>4. \A e \in Deliveries \ {d} : Holds(e)' <=> Holds(e)
    BY <2>3 DEF Holds
  <2>5. ASSUME NEW k \in claims' PROVE shown'[k] > 0 \/ k \in dropped' \/
                 \E e \in Deliveries : Holds(e)' /\ job'[e].key = k
    BY <2>2, <2>3, <2>4, <2>5 DEF ClaimAccounted, TypeOK
  <2> QED BY <2>5 DEF ClaimAccounted
<1>7. ASSUME NEW d \in Deliveries, ShowFails(d) PROVE ClaimAccounted'
  <2>1. \A e \in Deliveries : Holds(e) => Holds(e)' /\ job'[e].key = job[e].key
    BY <1>7, GotoJob DEF ShowFails, Holds
  <2> QED BY <1>7, <2>1, AccountedFrame DEF ShowFails, store, history
<1>8. ASSUME NEW d \in Deliveries, ReleaseClaim(d) PROVE ClaimAccounted'
  <2>1. claims' = claims \ {job[d].key} /\ shown' = shown /\ dropped' = dropped
    BY <1>8 DEF ReleaseClaim, history
  <2>2. \A e \in Deliveries \ {d} : job'[e] = job[e]
    BY <1>8, EndJob DEF ReleaseClaim
  <2>3. \A e \in Deliveries \ {d} : Holds(e)' <=> Holds(e)
    BY <2>2 DEF Holds
  <2> QED BY <2>1, <2>2, <2>3 DEF ClaimAccounted
<1>9. ASSUME NEW d \in Deliveries, StorageFails(d) PROVE ClaimAccounted'
  <2>1. \A e \in Deliveries : Holds(e) =>
          (Holds(e)' /\ job'[e].key = job[e].key) \/ job[e].key \in dropped'
    BY <1>9, EndJob DEF StorageFails, Holds
  <2>2. dropped \subseteq dropped'
    BY <1>9 DEF StorageFails
  <2> QED BY <1>9, <2>1, <2>2, AccountedFrame DEF StorageFails, store
<1>10. CASE WorkerEnds
  <2>1. \A e \in Deliveries : Holds(e) => job[e].key \in dropped'
    BY <1>10 DEF WorkerEnds
  <2>2. dropped \subseteq dropped'
    BY <1>10 DEF WorkerEnds
  <2> QED BY <1>10, <2>1, <2>2, AccountedFrame DEF WorkerEnds, store
<1>11. ASSUME NEW t \in Tabs,
              \/ EnableBegins(t) \/ EnableFinishes(t) \/ EnableAborts(t)
              \/ DisableClicked(t) \/ Refresh(t)
       PROVE  UNCHANGED <<job, claims, shown, dropped>>
  BY <1>11 DEF EnableBegins, EnableFinishes, EnableAborts, DisableClicked, Refresh, OnMessage,
               store, history
<1>12. (\E k \in Keys : Observed(k)) \/ Tick \/ UNCHANGED vars
         => UNCHANGED <<job, claims, shown, dropped>>
  BY DEF Observed, Tick, vars, store, history
<1> QED BY <1>1, <1>2, <1>3, <1>4, <1>5, <1>6, <1>7, <1>8, <1>9, <1>10, <1>11, <1>12 DEF Next

\* A claim that suppresses an event nobody displayed belongs to a delivery
\* under way or to one that was given up.
THEOREM ClaimsAccounted == Spec => []ClaimAccounted
<1>1. Init => ClaimAccounted
  BY DEF Init, ClaimAccounted
<1> QED BY <1>1, InitTyped, StepTyped, AccountedStep, PTL DEF Spec

-----------------------------------------------------------------------------
(* Generations: what a Disable retires                                     *)

Between(d) == job[d].pc \in {"checked", "claimed"}

\* A delivery between its two looks at the settings has a generation that was
\* stored; one that a Disable crossed has an older one.
JobGenerations ==
  /\ \A d \in Deliveries : Between(d) => job[d].generation <= settings.generation
  /\ \A d \in crossed : Between(d) /\ job[d].generation < settings.generation

\* No tab knows a generation that was not stored; an overtaken one knows an
\* older one than the current.
TabGenerations ==
  /\ \A t \in Tabs : tab[t].known <= settings.generation
  /\ \A t \in overtaken : tab[t].pc = "begun" /\ tab[t].known < settings.generation

\* A request leaves the generation as it is, or switches notifications off and
\* makes a new one.
LEMMA MessageEffect ==
  ASSUME TypeOK, NEW t \in Tabs, NEW request, NEW next, OnMessage(t, request, next)
  PROVE  /\ settings.generation \in Nat /\ settings'.generation \in Nat
         /\ \/ /\ Applies(request) /\ StartsOff(request)
               /\ settings'.generation = settings.generation + 1
               /\ ~settings'.enabled
               /\ crossed' = crossed \cup {d \in Deliveries : Between(d)}
               /\ overtaken' = {u \in Tabs : u # t /\ tab[u].pc = "begun"}
            \/ /\ settings'.generation = settings.generation
               /\ settings'.enabled => settings.enabled \/ (Applies(request) /\ ~StartsOff(request))
               /\ crossed' = crossed /\ overtaken' = overtaken \ {t}
         /\ tab'[t].known \in {tab[t].known, settings'.generation}
         /\ \A u \in Tabs \ {t} : tab'[u] = tab[u]
<1>1. settings.generation \in Nat
  BY WorkerAssumption DEF TypeOK, Settings
<1>2. tab'[t].known \in {tab[t].known, settings'.generation}
  BY DEF OnMessage, TypeOK, TabStates
<1>3. \A u \in Tabs \ {t} : tab'[u] = tab[u]
  BY DEF OnMessage, TypeOK
<1>4. CASE Applies(request) /\ StartsOff(request)
  BY <1>1, <1>2, <1>3, <1>4 DEF OnMessage, Changed, Between
<1>5. CASE Applies(request) /\ ~StartsOff(request)
  BY <1>1, <1>2, <1>3, <1>5 DEF OnMessage, Changed
<1>6. CASE ~Applies(request)
  BY <1>1, <1>2, <1>3, <1>6 DEF OnMessage
<1> QED BY <1>4, <1>5, <1>6

LEMMA MessageGenerations ==
  ASSUME TypeOK, JobGenerations, TabGenerations,
         NEW t \in Tabs, NEW request, NEW next, OnMessage(t, request, next)
  PROVE  JobGenerations' /\ TabGenerations'
<1>1. /\ \A d \in Deliveries : Between(d) => job[d].generation \in Nat
      /\ \A u \in Tabs : tab[u].known \in Nat
  BY BusyJob, WorkerAssumption DEF Between, Busy, TypeOK, TabStates
<1>2. job' = job /\ \A d \in Deliveries : Between(d)' <=> Between(d)
  BY DEF OnMessage, Between
<1>3. JobGenerations'
  BY <1>1, <1>2, MessageEffect DEF JobGenerations, TypeOK
<1>4. TabGenerations'
  BY <1>1, MessageEffect DEF TabGenerations, TypeOK
<1> QED BY <1>3, <1>4

LEMMA GenerationsStep ==
  TypeOK /\ JobGenerations /\ TabGenerations /\ [Next]_vars => JobGenerations' /\ TabGenerations'
<1> SUFFICES ASSUME TypeOK, JobGenerations, TabGenerations, [Next]_vars
             PROVE  JobGenerations' /\ TabGenerations'
  OBVIOUS
<1>1. CASE UNCHANGED <<settings, job, tab, crossed, overtaken>>
  BY <1>1 DEF JobGenerations, TabGenerations, Between
<1>2. ASSUME NEW t \in Tabs, EnableBegins(t) \/ EnableFinishes(t) \/ DisableClicked(t)
      PROVE  JobGenerations' /\ TabGenerations'
  BY <1>2, MessageGenerations DEF EnableBegins, EnableFinishes, DisableClicked
<1>3. ASSUME NEW t \in Tabs, EnableAborts(t) PROVE JobGenerations' /\ TabGenerations'
  <2>1. JobGenerations'
    BY <1>3 DEF EnableAborts, JobGenerations, Between
  <2>2. TabGenerations'
    BY <1>3 DEF EnableAborts, TabGenerations, TypeOK, TabStates
  <2> QED BY <2>1, <2>2
<1>4. ASSUME NEW t \in Tabs, Refresh(t) PROVE JobGenerations' /\ TabGenerations'
  <2>1. JobGenerations'
    BY <1>4 DEF Refresh, JobGenerations, Between, history
  <2>2. settings.generation \in Nat
    BY WorkerAssumption DEF TypeOK, Settings
  <2>3. TabGenerations'
    BY <1>4, <2>2 DEF Refresh, TabGenerations, TypeOK, TabStates, history
  <2> QED BY <2>1, <2>3
<1>5. ASSUME UNCHANGED <<settings, tab, overtaken>>, NEW d \in Deliveries,
             crossed' \subseteq crossed, \A e \in Deliveries \ {d} : job'[e] = job[e],
             Between(d)' => job'[d].generation <= settings.generation,
             d \in crossed' => Between(d)' /\ job'[d].generation = job[d].generation
      PROVE  JobGenerations' /\ TabGenerations'
  <2>1. \A e \in Deliveries \ {d} : Between(e)' <=> Between(e)
    BY <1>5 DEF Between
  <2>2. JobGenerations'
    BY <1>5, <2>1 DEF JobGenerations, TypeOK
  <2>3. TabGenerations'
    BY <1>5 DEF TabGenerations
  <2> QED BY <2>2, <2>3
<1>6. ASSUME NEW d \in Deliveries, NEW k \in Keys, Push(d, k)
      PROVE  JobGenerations' /\ TabGenerations'
  <2>1. d \notin crossed
    BY <1>6, IdleJob DEF Push, JobGenerations, Between
  <2>2. ~Between(d)' /\ \A e \in Deliveries \ {d} : job'[e] = job[e]
    BY <1>6 DEF Push, TypeOK, Between
  <2> QED BY <1>5, <1>6, <2>1, <2>2 DEF Push, history
<1>7. ASSUME NEW d \in Deliveries, ReadSettings(d) PROVE JobGenerations' /\ TabGenerations'
  <2>1. \A e \in Deliveries \ {d} : job'[e] = job[e]
    BY <1>7 DEF ReadSettings, End, TypeOK
  <2>2. Between(d)' => job'[d].generation <= settings.generation
    <3>1. CASE settings.enabled
      <4>1. job'[d].generation = settings.generation
        BY <1>7, <3>1, BusyJob DEF ReadSettings, TypeOK, Busy
      <4>2. settings.generation \in Nat
        BY WorkerAssumption DEF TypeOK, Settings
      <4> QED BY <4>1, <4>2
    <3>2. CASE ~settings.enabled
      BY <1>7, <3>2, EndJob DEF ReadSettings, Between
    <3> QED BY <3>1, <3>2
  <2> QED BY <1>5, <1>7, <2>1, <2>2 DEF ReadSettings
<1>8. ASSUME NEW d \in Deliveries, ClaimEvent(d) PROVE JobGenerations' /\ TabGenerations'
  <2>1. CASE Claimed(job[d].key)
    <3>1. /\ job[d].pc = "checked" /\ Goto(d, "claimed")
          /\ crossed' = crossed /\ UNCHANGED <<settings, tab, overtaken>>
      BY <1>8, <2>1 DEF ClaimEvent
    <3>2. /\ Between(d)' /\ job'[d].generation = job[d].generation
          /\ \A e \in Deliveries \ {d} : job'[e] = job[e]
      BY <3>1, GotoJob DEF Between
    <3>3. job[d].generation <= settings.generation
      BY <3>1 DEF JobGenerations, Between
    <3> QED BY <1>5, <3>1, <3>2, <3>3
  <2>2. CASE ~Claimed(job[d].key)
    <3>1. End(d) /\ crossed' = crossed \ {d} /\ UNCHANGED <<settings, tab, overtaken>>
      BY <1>8, <2>2 DEF ClaimEvent
    <3>2. ~Between(d)' /\ \A e \in Deliveries \ {d} : job'[e] = job[e]
      BY <3>1, EndJob DEF Between
    <3> QED BY <1>5, <3>1, <3>2
  <2> QED BY <2>1, <2>2
<1>9. ASSUME NEW d \in Deliveries, Recheck(d) PROVE JobGenerations' /\ TabGenerations'
  <2>1. d \notin crossed'
    <3>1. CASE Confirmed(d)
      <4>1. settings.generation \in Nat
        BY WorkerAssumption DEF TypeOK, Settings
      <4> QED BY <1>9, <3>1, <4>1 DEF Recheck, Confirmed, JobGenerations
    <3>2. CASE ~Confirmed(d)
      BY <1>9, <3>2 DEF Recheck
    <3> QED BY <3>1, <3>2
  <2>2. ~Between(d)' /\ \A e \in Deliveries \ {d} : job'[e] = job[e]
    BY <1>9, GotoJob, EndJob DEF Recheck, Between
  <2> QED BY <1>5, <1>9, <2>1, <2>2 DEF Recheck
<1>10. ASSUME NEW d \in Deliveries, Show(d) \/ ShowFails(d) \/ ReleaseClaim(d) \/ StorageFails(d)
       PROVE  JobGenerations' /\ TabGenerations'
  <2>1. d \notin crossed'
    BY <1>10 DEF Show, ShowFails, ReleaseClaim, StorageFails, JobGenerations, Between, history
  <2>2. ~Between(d)' /\ \A e \in Deliveries \ {d} : job'[e] = job[e]
    BY <1>10, GotoJob, EndJob DEF Show, ShowFails, ReleaseClaim, StorageFails, Between
  <2> QED BY <1>5, <1>10, <2>1, <2>2 DEF Show, ShowFails, ReleaseClaim, StorageFails, history
<1>11. CASE WorkerEnds
  <2>1. \A d \in Deliveries : ~Between(d)'
    BY <1>11, IdleJob DEF WorkerEnds, Between
  <2> QED BY <1>11, <2>1 DEF WorkerEnds, JobGenerations, TabGenerations
<1>12. (\E k \in Keys : Observed(k)) \/ Tick \/ UNCHANGED vars
         => UNCHANGED <<settings, job, tab, crossed, overtaken>>
  BY DEF Observed, Tick, vars, history
<1> QED BY <1>1, <1>2, <1>3, <1>4, <1>6, <1>7, <1>8, <1>9, <1>10, <1>11, <1>12 DEF Next

LEMMA InitGenerations == Init => JobGenerations /\ TabGenerations
BY IdleJob DEF Init, JobGenerations, TabGenerations, Between, DEFAULT_SETTINGS

\* No delivery displays an event across a Disable, for any number of
\* deliveries, tabs and requests.
THEOREM DisableStopsDeliveries == Spec => []NoShowAcrossDisable
<1>1. JobGenerations => NoShowAcrossDisable
  BY DEF JobGenerations, NoShowAcrossDisable, Between
<1> QED BY <1>1, InitTyped, StepTyped, InitGenerations, GenerationsStep, PTL DEF Spec

\* The step that switches notifications on is the end of an Enable that nobody
\* overtook.
LEMMA OnlyCurrentEnable ==
  TypeOK /\ TabGenerations /\ [Next]_vars =>
    (~settings.enabled /\ settings'.enabled => \E t \in Tabs : tab[t].pc = "begun" /\ t \notin overtaken)
<1> SUFFICES ASSUME TypeOK, TabGenerations, [Next]_vars, ~settings.enabled, settings'.enabled
             PROVE  \E t \in Tabs : tab[t].pc = "begun" /\ t \notin overtaken
  OBVIOUS
<1>1. ASSUME NEW t \in Tabs, EnableBegins(t) PROVE FALSE
  <2>1. StartsOff(Begin(tab[t].known))
    BY DEF StartsOff, Begin
  <2> QED BY <1>1, <2>1, MessageEffect DEF EnableBegins
<1>2. ASSUME NEW t \in Tabs, DisableClicked(t) PROVE FALSE
  <2>1. StartsOff(Disable)
    BY DEF StartsOff, Disable
  <2> QED BY <1>2, <2>1, MessageEffect DEF DisableClicked
<1>3. ASSUME NEW t \in Tabs, EnableFinishes(t)
      PROVE  tab[t].pc = "begun" /\ t \notin overtaken
  <2>1. Applies(Enable(tab[t].known))
    BY <1>3, MessageEffect DEF EnableFinishes
  <2>2. tab[t].known = settings.generation
    BY <2>1 DEF Applies, NeedsMatch, Enable
  <2>3. settings.generation \in Nat
    BY WorkerAssumption DEF TypeOK, Settings
  <2> QED BY <1>3, <2>2, <2>3 DEF EnableFinishes, TabGenerations
<1>4. (\E t \in Tabs : EnableAborts(t) \/ Refresh(t)) \/ (\E k \in Keys : Observed(k)) \/ WorkerEnds
      \/ Tick \/ UNCHANGED vars => settings' = settings
  BY DEF EnableAborts, Refresh, Observed, WorkerEnds, Tick, vars
<1>5. (\E d \in Deliveries :
         \/ \E k \in Keys : Push(d, k)
         \/ ReadSettings(d) \/ ClaimEvent(d) \/ Recheck(d)
         \/ Show(d) \/ ShowFails(d) \/ ReleaseClaim(d) \/ StorageFails(d)) => settings' = settings
  BY DEF Push, ReadSettings, ClaimEvent, Recheck, Show, ShowFails, ReleaseClaim, StorageFails
<1> QED BY <1>1, <1>2, <1>3, <1>4, <1>5 DEF Next

\* An Enable that another tab's Enable or Disable followed never switches
\* notifications on.
THEOREM OvertakenEnableRetired == Spec => DisableRetiresEnable
<1>1. TypeOK /\ TabGenerations /\ [Next]_vars =>
        [~settings.enabled /\ settings'.enabled
           => \E t \in Tabs : tab[t].pc = "begun" /\ t \notin overtaken]_vars
  BY OnlyCurrentEnable
<1> QED BY <1>1, InitTyped, StepTyped, InitGenerations, GenerationsStep, PTL
        DEF Spec, DisableRetiresEnable

-----------------------------------------------------------------------------
(* What pruneEvents drops                                                  *)

\* A delivery's event was acceptable when the delivery began; a claim outlives
\* the acceptance of its event; a claim that lapsed did so after it.
Dated ==
  /\ \A d \in Deliveries : job[d].pc # "idle" =>
       stamp[job[d].key] > 0 /\ stamp[job[d].key] <= now + Skew
  /\ \A k \in claims : stamp[k] > 0 /\ expires[k] > stamp[k] + MaxAge
  /\ \A k \in lapsed : stamp[k] > 0 /\ now > stamp[k] + MaxAge

\* Steps that date nothing anew and claim nothing.
LEMMA DatedFrame ==
  ASSUME TypeOK, Dated, now' \in Nat, now' >= now, claims' \subseteq claims, lapsed' = lapsed,
         \A k \in claims' : expires'[k] = expires[k],
         \A k \in Keys : stamp[k] > 0 => stamp'[k] = stamp[k],
         \A d \in Deliveries : job'[d].pc # "idle" =>
           job[d].pc # "idle" /\ job'[d].key = job[d].key
  PROVE  Dated'
<1>1. \A d \in Deliveries : job[d].pc # "idle" => job[d].key \in Keys
  BY BusyJob DEF Busy
<1>2. ASSUME NEW d \in Deliveries, job'[d].pc # "idle"
      PROVE  stamp'[job'[d].key] > 0 /\ stamp'[job'[d].key] <= now' + Skew
  <2>1. /\ job'[d].key = job[d].key /\ job[d].key \in Keys
        /\ stamp[job[d].key] > 0 /\ stamp[job[d].key] <= now + Skew
    BY <1>1, <1>2 DEF Dated
  <2> QED BY <2>1, WorkerAssumption DEF TypeOK
<1>3. \A k \in claims' : stamp'[k] > 0 /\ expires'[k] > stamp'[k] + MaxAge
  BY DEF Dated, TypeOK
<1>4. \A k \in lapsed' : stamp'[k] > 0 /\ now' > stamp'[k] + MaxAge
  BY WorkerAssumption DEF Dated, TypeOK
<1> QED BY <1>2, <1>3, <1>4 DEF Dated

LEMMA DatedClaim ==
  ASSUME TypeOK, Dated, NEW d \in Deliveries, ClaimEvent(d)
  PROVE  Dated'
<1> DEFINE k == job[d].key
<1>1. /\ k \in Keys /\ stamp[k] \in Nat /\ stamp[k] > 0 /\ stamp[k] <= now + Skew
      /\ UNCHANGED <<now, stamp>>
  BY ClaimEffect DEF Dated, TypeOK, ClaimEvent
<1>2. Expiry > stamp[k] + MaxAge /\ Expiry > now
  BY <1>1, WorkerAssumption DEF Expiry, TypeOK
<1>3. \A e \in Deliveries : job'[e].pc # "idle" =>
        job[e].pc # "idle" /\ job'[e].key = job[e].key
  <2>1. CASE Claimed(k)
    BY <2>1, GotoJob DEF ClaimEvent
  <2>2. CASE ~Claimed(k)
    BY <2>2, EndJob DEF ClaimEvent
  <2> QED BY <2>1, <2>2
<1>4. \A e \in Deliveries : job'[e].pc # "idle" =>
        stamp'[job'[e].key] > 0 /\ stamp'[job'[e].key] <= now' + Skew
  BY <1>1, <1>3 DEF Dated
<1>5. \A j \in claims' : stamp'[j] > 0 /\ expires'[j] > stamp'[j] + MaxAge
  <2> SUFFICES ASSUME NEW j \in claims' PROVE stamp[j] > 0 /\ expires'[j] > stamp[j] + MaxAge
    BY <1>1
  <2>1. CASE j = k /\ Claimed(j)
    BY <1>1, <1>2, <2>1, ClaimEffect
  <2>2. CASE ~(j = k /\ Claimed(j))
    BY <2>2, ClaimEffect DEF Claimed, Dated
  <2> QED BY <2>1, <2>2
<1>6. \A j \in lapsed' : stamp'[j] > 0 /\ now' > stamp'[j] + MaxAge
  <2> SUFFICES ASSUME NEW j \in lapsed' PROVE stamp[j] > 0 /\ now > stamp[j] + MaxAge
    BY <1>1
  <2>1. CASE j \in lapsed
    BY <2>1 DEF Dated
  <2>2. CASE j \notin lapsed
    <3>1. /\ j \in claims \cup {k}
          /\ now >= IF j = k /\ Claimed(j) THEN Expiry ELSE expires[j]
      BY <2>2, ClaimEffect
    <3>2. ~(j = k /\ Claimed(j))
      BY <1>2, <3>1, WorkerAssumption DEF Expiry, TypeOK
    <3>3. j \in claims /\ now >= expires[j]
      BY <3>1, <3>2 DEF Claimed
    <3> QED BY <3>3, WorkerAssumption DEF Dated, TypeOK
  <2> QED BY <2>1, <2>2
<1> QED BY <1>4, <1>5, <1>6 DEF Dated

LEMMA DatedStep == TypeOK /\ Dated /\ [Next]_vars => Dated'
<1> SUFFICES ASSUME TypeOK, Dated, [Next]_vars PROVE Dated'
  OBVIOUS
<1>1. now \in Nat
  BY DEF TypeOK
<1>2. CASE UNCHANGED <<now, claims, expires, lapsed, stamp, job>>
  BY <1>1, <1>2, DatedFrame
<1>3. ASSUME NEW k \in Keys, Observed(k) PROVE Dated'
  <2>1. \A j \in Keys : stamp[j] > 0 => stamp'[j] = stamp[j]
    BY <1>3 DEF Observed, TypeOK
  <2> QED BY <1>1, <1>3, <2>1, DatedFrame DEF Observed, store, history
<1>4. CASE Tick
  BY <1>1, <1>4, DatedFrame DEF Tick, store, history
<1>5. ASSUME NEW d \in Deliveries, NEW k \in Keys, Push(d, k) PROVE Dated'
  <2>1. /\ job'[d].key = k /\ \A e \in Deliveries \ {d} : job'[e] = job[e]
        /\ UNCHANGED <<now, claims, expires, lapsed, stamp>>
        /\ stamp[k] > 0 /\ stamp[k] <= now + Skew
    BY <1>5, WorkerAssumption DEF Push, NormalizedEvent, TypeOK, store, history
  <2> QED BY <2>1 DEF Dated
<1>6. ASSUME NEW d \in Deliveries, ReadSettings(d) PROVE Dated'
  <2>1. \A e \in Deliveries : job'[e].pc # "idle" =>
          job[e].pc # "idle" /\ job'[e].key = job[e].key
    <3>1. CASE settings.enabled
      BY <1>6, <3>1, BusyJob DEF ReadSettings, TypeOK, Busy
    <3>2. CASE ~settings.enabled
      BY <1>6, <3>2, EndJob DEF ReadSettings
    <3> QED BY <3>1, <3>2
  <2> QED BY <1>1, <1>6, <2>1, DatedFrame DEF ReadSettings, store
<1>7. ASSUME NEW d \in Deliveries, Recheck(d) \/ Show(d) \/ ShowFails(d) \/ StorageFails(d)
      PROVE  Dated'
  <2>1. \A e \in Deliveries : job'[e].pc # "idle" =>
          job[e].pc # "idle" /\ job'[e].key = job[e].key
    BY <1>7, GotoJob, EndJob DEF Recheck, Show, ShowFails, StorageFails
  <2>2. UNCHANGED <<now, claims, expires, lapsed, stamp>>
    BY <1>7 DEF Recheck, Show, ShowFails, StorageFails, store, history
  <2> QED BY <1>1, <2>1, <2>2, DatedFrame
<1>8. ASSUME NEW d \in Deliveries, ReleaseClaim(d) PROVE Dated'
  <2>1. \A e \in Deliveries : job'[e].pc # "idle" =>
          job[e].pc # "idle" /\ job'[e].key = job[e].key
    BY <1>8, EndJob DEF ReleaseClaim
  <2>2. claims' \subseteq claims /\ \A k \in claims' : expires'[k] = expires[k]
    BY <1>8 DEF ReleaseClaim, TypeOK
  <2> QED BY <1>1, <1>8, <2>1, <2>2, DatedFrame DEF ReleaseClaim, history
<1>9. CASE WorkerEnds
  <2>1. \A e \in Deliveries : job'[e].pc = "idle"
    BY <1>9, IdleJob DEF WorkerEnds
  <2> QED BY <1>1, <1>9, <2>1, DatedFrame DEF WorkerEnds, store
<1>10. ASSUME NEW t \in Tabs,
              \/ EnableBegins(t) \/ EnableFinishes(t) \/ EnableAborts(t)
              \/ DisableClicked(t) \/ Refresh(t)
       PROVE  UNCHANGED <<now, claims, expires, lapsed, stamp, job>>
  BY <1>10 DEF EnableBegins, EnableFinishes, EnableAborts, DisableClicked, Refresh, OnMessage,
               store, history
<1>11. UNCHANGED vars => UNCHANGED <<now, claims, expires, lapsed, stamp, job>>
  BY DEF vars, store, history
<1> QED BY <1>2, <1>3, <1>4, <1>5, <1>6, <1>7, <1>8, <1>9, <1>10, <1>11, DatedClaim DEF Next

\* A claim lapses only after its event is too old to be accepted again, because
\* a claim is kept longer than MaxAge and Skew together.
THEOREM LapsedEventsStale == Spec => []LapsedIsStale
<1>1. Init => Dated
  BY IdleJob DEF Init, Dated
<1>2. TypeOK /\ Dated => LapsedIsStale
  BY WorkerAssumption DEF TypeOK, Dated, LapsedIsStale, NormalizedEvent
<1> QED BY <1>1, <1>2, InitTyped, StepTyped, DatedStep, PTL DEF Spec

\* One transaction: if it drops a claim that has not expired, it dropped all
\* that have, and stopped at the limit.
LEMMA PruneStopsAtLimit ==
  ASSUME NEW keep, IsFiniteSet(keep), NEW exp \in [keep -> Nat], now \in Nat,
         NEW gone \in PruneEvents(keep, exp), gone # Expired(gone, exp)
  PROVE  Cardinality(keep \ gone) = MaxEvents
<1> DEFINE old == Expired(keep, exp)
<1>1. gone \subseteq keep /\ Cardinality(gone) = PruneCount(keep, exp)
      /\ \A g \in gone, k \in keep \ gone : exp[g] <= exp[k]
  BY DEF PruneEvents
<1>2. PICK g \in gone : ~(exp[g] <= now)
  BY DEF Expired
<1>3. old \subseteq gone \ {g}
  BY <1>1, <1>2 DEF Expired
<1>4. IsFiniteSet(gone) /\ IsFiniteSet(gone \ {g}) /\ IsFiniteSet(old)
  BY <1>1, <1>3, FS_Subset
<1>5. Cardinality(old) <= Cardinality(gone \ {g})
  BY <1>3, <1>4, FS_Subset
<1>6. Cardinality(gone \ {g}) = Cardinality(gone) - 1
  BY <1>2, <1>4, FS_RemoveElement
<1>7. /\ Cardinality(gone) \in Nat /\ Cardinality(old) \in Nat /\ Cardinality(keep) \in Nat
      /\ Cardinality(gone \ {g}) \in Nat
  BY <1>4, FS_CardinalityType
<1>8. Cardinality(gone) # Cardinality(old)
  BY <1>5, <1>6, <1>7
<1>9. Cardinality(gone) = Excess(keep) /\ Excess(keep) > Cardinality(old)
  BY <1>1, <1>8 DEF PruneCount
<1>10. Cardinality(gone) = Cardinality(keep) - MaxEvents
  BY <1>7, <1>9, WorkerAssumption DEF Excess
<1>11. Cardinality(keep \ gone) = Cardinality(keep) - Cardinality(gone)
  <2>1. keep \cap gone = gone
    BY <1>1
  <2> QED BY <2>1, <1>4, FS_Difference
<1> QED BY <1>7, <1>10, <1>11, WorkerAssumption

LEMMA EvictsAtLimit ==
  TypeOK /\ [Next]_vars => (evicted' # evicted => Cardinality(claims') = MaxEvents)
<1> SUFFICES ASSUME TypeOK, [Next]_vars, evicted' # evicted
             PROVE  Cardinality(claims') = MaxEvents
  OBVIOUS
<1>1. PICK d \in Deliveries : ClaimEvent(d)
  BY DEF Next, vars, history, store, EnableBegins, EnableFinishes, EnableAborts, DisableClicked,
         Refresh, OnMessage, Observed, Push, ReadSettings, Recheck, Show, ShowFails, ReleaseClaim,
         StorageFails, WorkerEnds, Tick
<1> DEFINE k == job[d].key
           keep == claims \cup {k}
           exp == IF Claimed(k) THEN [expires EXCEPT ![k] = Expiry] ELSE expires
           dates == [j \in keep |-> exp[j]]
<1>2. k \in Keys /\ keep \subseteq Keys
  BY <1>1, ClaimEffect DEF TypeOK
<1>3. exp \in [Keys -> Nat]
  <2>1. Expiry \in Nat
    BY WorkerAssumption DEF Expiry, TypeOK
  <2> QED BY <1>2, <2>1 DEF TypeOK
<1>4. PICK gone \in PruneEvents(keep, exp) :
        /\ claims' = keep \ gone
        /\ evicted' = evicted \cup (gone \ Expired(gone, exp))
  BY <1>1 DEF ClaimEvent
<1> HIDE DEF exp
<1>5. gone \subseteq keep /\ gone # Expired(gone, exp)
  BY <1>4 DEF PruneEvents
<1>6. dates \in [keep -> Nat] /\ \A j \in keep : dates[j] = exp[j]
  BY <1>2, <1>3
<1>7. Expired(keep, dates) = Expired(keep, exp) /\ Expired(gone, dates) = Expired(gone, exp)
  BY <1>5, <1>6 DEF Expired
<1>8. gone \in PruneEvents(keep, dates)
  BY <1>4, <1>5, <1>6, <1>7 DEF PruneEvents, PruneCount
<1>9. IsFiniteSet(keep)
  BY <1>2, FS_Subset, WorkerAssumption
<1> HIDE DEF dates, keep
<1> QED BY <1>4, <1>5, <1>6, <1>7, <1>8, <1>9, PruneStopsAtLimit DEF TypeOK

\* For any number of claims and any limit, a claim that has not expired is
\* dropped only to bring the store to its limit.
THEOREM EvictionStopsAtLimit == Spec => EvictsOnlyWhenFull
<1>1. TypeOK /\ [Next]_vars => [evicted' # evicted => Cardinality(claims') = MaxEvents]_vars
  BY EvictsAtLimit
<1> QED BY <1>1, InitTyped, StepTyped, PTL DEF Spec, EvictsOnlyWhenFull
=============================================================================
