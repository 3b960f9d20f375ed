------------------------- MODULE NotificationWorker -------------------------
(***************************************************************************)
(* The notification service worker (internal/html/vue-ui/                  *)
(* notifications-sw.js): the delivery settings and the event claims it     *)
(* keeps in IndexedDB, the push deliveries that run concurrently over      *)
(* them, and the Enable and Disable requests of the dashboard's tabs.      *)
(*                                                                         *)
(* One IndexedDB transaction is one step: the browser serializes them.     *)
(* Between two transactions of a delivery anything may happen, including   *)
(* the browser ending the worker: what is in IndexedDB then stays, what    *)
(* the handlers hold in memory is gone.                                    *)
(***************************************************************************)
EXTENDS Naturals, FiniteSets

CONSTANTS
  Keys,           \* event keys the server may push
  Deliveries,     \* push events the worker can be handling at once
  Tabs,           \* dashboard windows of this browser
  MaxEvents,      \* MAX_EVENTS: claims kept after a prune
  Retention,      \* RETENTION_MS: how long a claim is kept
  MaxAge,         \* MAX_EVENT_AGE_MS: how old an event may be
  Skew,           \* how far in the future its timestamp may be (30 s)
  MaxGeneration,  \* Number.MAX_SAFE_INTEGER
  MaxTime         \* bound: the last instant of the model's clock

\* A claim outlives every timestamp the worker still accepts: 30 days are more
\* than five minutes and 30 seconds.
ASSUME WorkerAssumption ==
  /\ {MaxEvents, Retention, MaxAge, Skew, MaxGeneration, MaxTime} \subseteq Nat
  /\ Retention > MaxAge + Skew
  /\ IsFiniteSet(Keys)

VARIABLES
  settings,   \* the record 'delivery' of the store 'settings'
  claims,     \* the keys in the store 'events'
  expires,    \* when each of them may be dropped (0: no claim)
  now,        \* Date.now()
  stamp,      \* timestamp of each event (0: the server has not sent it)
  job,        \* what each delivery is doing
  tab,        \* what each tab is doing
  shown,      \* history: how often each event was displayed (2: twice or more)
  evicted,    \* history: keys dropped because the store was full
  lapsed,     \* history: keys dropped because their claim had expired
  dropped,    \* history: keys whose delivery ended between claim and display
  crossed,    \* history: deliveries that saw notifications switched off
              \*   between their two looks at the settings
  overtaken   \* history: tabs whose unfinished Enable was followed by
              \*   another tab's Enable or Disable

store   == <<claims, expires>>
history == <<shown, evicted, lapsed, dropped, crossed, overtaken>>
vars    == <<settings, store, now, stamp, job, tab, history>>

Settings    == [enabled : BOOLEAN, generation : 0..MaxGeneration]
DeliveryPCs == {"idle", "admitted", "checked", "claimed", "showing", "releasing"}
Idle        == [pc |-> "idle"]
Jobs        == {Idle} \cup
               [pc : DeliveryPCs \ {"idle"}, key : Keys, generation : 0..MaxGeneration]
TabStates   == [pc : {"idle", "begun"}, known : 0..MaxGeneration]

\* One type per variable; a key that is not claimed has no expiry.
TypeOK ==
  /\ settings \in Settings
  /\ claims \subseteq Keys
  /\ expires \in [Keys -> Nat]
  /\ now \in Nat
  /\ stamp \in [Keys -> Nat]
  /\ job \in [Deliveries -> Jobs]
  /\ tab \in [Tabs -> TabStates]
  /\ shown \in [Keys -> 0..2]
  /\ evicted \subseteq Keys
  /\ lapsed \subseteq Keys
  /\ dropped \subseteq Keys
  /\ crossed \subseteq Deliveries
  /\ overtaken \subseteq Tabs

DEFAULT_SETTINGS == [enabled |-> FALSE, generation |-> 0]

Init ==
  /\ settings = DEFAULT_SETTINGS
  /\ claims = {}
  /\ expires = [k \in Keys |-> 0]
  /\ now = 1
  /\ stamp = [k \in Keys |-> 0]
  /\ job = [d \in Deliveries |-> Idle]
  /\ tab = [t \in Tabs |-> [pc |-> "idle", known |-> 0]]
  /\ shown = [k \in Keys |-> 0]
  /\ evicted = {} /\ lapsed = {} /\ dropped = {}
  /\ crossed = {} /\ overtaken = {}

-----------------------------------------------------------------------------
(* Settings: requests of the tabs                                          *)

Begin(g)  == [type |-> "begin", generation |-> g]
Enable(g) == [type |-> "set", enabled |-> TRUE, generation |-> g]
Disable   == [type |-> "set", enabled |-> FALSE]

StartsOff(request)  == request.type = "begin" \/ ~request.enabled
NeedsMatch(request) == request.type = "begin" \/ request.enabled

\* changeSettings: what the transaction stores, or nothing (not applied).
Applies(request) ==
  /\ NeedsMatch(request) => request.generation = settings.generation
  /\ StartsOff(request) => settings.generation < MaxGeneration

\* Mutant of Changed: switching off keeps the generation.
BugChanged(request) ==
  IF StartsOff(request)
  THEN [enabled |-> FALSE,
        generation |-> IF request.type = "begin" THEN settings.generation + 1
                                                 ELSE settings.generation]
  ELSE [enabled |-> TRUE, generation |-> settings.generation]

Changed(request) ==
  IF StartsOff(request)
  THEN [enabled |-> FALSE, generation |-> settings.generation + 1]
  ELSE [enabled |-> TRUE, generation |-> settings.generation]

\* The message handler: the settings transaction and its reply, which tells
\* the tab the stored generation. Next is what the tab does with an applied
\* request. The reply is lost when the worker ends first or takes longer than
\* the tab waits: the tab then goes back to idle, none the wiser.
OnMessage(t, request, next) ==
  /\ settings' = IF Applies(request) THEN Changed(request) ELSE settings
  /\ \/ tab' = [tab EXCEPT ![t] =
                  [pc |-> IF Applies(request) THEN next ELSE "idle",
                   known |-> settings'.generation]]
     \/ tab' = [tab EXCEPT ![t].pc = "idle"]
  /\ IF Applies(request) /\ StartsOff(request)
     THEN /\ crossed' = crossed \cup {d \in Deliveries : job[d].pc \in {"checked", "claimed"}}
          /\ overtaken' = {u \in Tabs : u # t /\ tab[u].pc = "begun"}
     ELSE UNCHANGED crossed /\ overtaken' = overtaken \ {t}
  /\ UNCHANGED <<store, now, stamp, job, shown, evicted, lapsed, dropped>>

\* The tabs' side (enable, disable and refresh of the dashboard's bundle).
\* Enable first persists its intent for the generation the tab last saw, ...
EnableBegins(t) ==
  /\ tab[t].pc = "idle"
  /\ OnMessage(t, Begin(tab[t].known), "begun")

\* ... and after permission, subscription and registration at the server turns
\* delivery on, for the generation its first request got.
EnableFinishes(t) ==
  /\ tab[t].pc = "begun"
  /\ OnMessage(t, Enable(tab[t].known), "idle")

\* The browser or the server refused, a request timed out, or the tab was closed.
EnableAborts(t) ==
  /\ tab[t].pc = "begun"
  /\ tab' = [tab EXCEPT ![t].pc = "idle"]
  /\ overtaken' = overtaken \ {t}
  /\ UNCHANGED <<settings, store, now, stamp, job, shown, evicted, lapsed, dropped, crossed>>

DisableClicked(t) ==
  /\ tab[t].pc = "idle"
  /\ OnMessage(t, Disable, "idle")

\* notification-settings-get: when the tab becomes visible and when the worker
\* announces a change, unless the tab is busy.
Refresh(t) ==
  /\ tab[t].pc = "idle"
  /\ tab[t].known # settings.generation
  /\ tab' = [tab EXCEPT ![t].known = settings.generation]
  /\ UNCHANGED <<settings, store, now, stamp, job, history>>

-----------------------------------------------------------------------------
(* Deliveries                                                              *)

\* The server dates an event; several pushes of it may follow (retries after a
\* crash, one per provider attempt).
Observed(k) ==
  /\ stamp[k] = 0
  /\ \E ts \in 1..(now + Skew + 1) : stamp' = [stamp EXCEPT ![k] = ts]
  /\ UNCHANGED <<settings, store, now, job, tab, history>>

\* normalizedEvent: the payload is well formed and its timestamps are neither
\* too old nor too far ahead.
NormalizedEvent(k) ==
  /\ 0 < stamp[k]
  /\ stamp[k] <= now + Skew
  /\ now <= stamp[k] + MaxAge

Goto(d, pc) == job' = [job EXCEPT ![d].pc = pc]
End(d)      == job' = [job EXCEPT ![d] = Idle]

\* deliver starts: an unacceptable event ends it at once.
Push(d, k) ==
  /\ job[d] = Idle
  /\ NormalizedEvent(k)
  /\ job' = [job EXCEPT ![d] = [pc |-> "admitted", key |-> k, generation |-> 0]]
  /\ UNCHANGED <<settings, store, now, stamp, tab, history>>

\* The first look at the settings.
ReadSettings(d) ==
  /\ job[d].pc = "admitted"
  /\ IF settings.enabled
     THEN job' = [job EXCEPT ![d].pc = "checked", ![d].generation = settings.generation]
     ELSE End(d)
  /\ crossed' = crossed \ {d}
  /\ UNCHANGED <<settings, store, now, stamp, tab, shown, evicted, lapsed, dropped, overtaken>>

\* pruneEvents walks the claims from the earliest expiry on, and deletes as
\* long as the store is over its limit or the claim has expired. Claims that
\* expire together are in the order of their keys, which are hashes.
Expired(keep, exp) == {k \in keep : exp[k] <= now}
Excess(keep) == IF Cardinality(keep) > MaxEvents THEN Cardinality(keep) - MaxEvents ELSE 0

\* Mutant of PruneCount: expired claims do not count towards the excess.
BugPruneCount(keep, exp) == Excess(keep) + Cardinality(Expired(keep, exp))

PruneCount(keep, exp) ==
  LET old == Cardinality(Expired(keep, exp))
  IN  IF Excess(keep) > old THEN Excess(keep) ELSE old

PruneEvents(keep, exp) ==
  {gone \in SUBSET keep :
     /\ Cardinality(gone) = PruneCount(keep, exp)
     /\ \A g \in gone, k \in keep \ gone : exp[g] <= exp[k]}

\* Mutant of Expiry: a claim is kept no longer than an event is accepted.
BugExpiry == now + MaxAge

Expiry == now + Retention

\* Mutant of Claimed: the key is not looked up.
BugClaimed(k) == TRUE

\* claimEvent: one transaction looks the key up, claims it, and prunes.
Claimed(k) == k \notin claims
ClaimEvent(d) ==
  LET k    == job[d].key
      keep == claims \cup {k}
      exp  == IF Claimed(k) THEN [expires EXCEPT ![k] = Expiry] ELSE expires
  IN  /\ job[d].pc = "checked"
      /\ \E gone \in PruneEvents(keep, exp) :
           /\ claims' = keep \ gone
           /\ expires' = [j \in Keys |-> IF j \in gone THEN 0 ELSE exp[j]]
           /\ lapsed' = lapsed \cup Expired(gone, exp)
           /\ evicted' = evicted \cup (gone \ Expired(gone, exp))
      /\ IF Claimed(k) THEN Goto(d, "claimed") ELSE End(d)
      /\ crossed' = IF Claimed(k) THEN crossed ELSE crossed \ {d}
      /\ UNCHANGED <<settings, now, stamp, tab, shown, dropped, overtaken>>

\* Mutant of Confirmed: the generation is not compared.
BugConfirmed(d) == settings.enabled

\* The second look: a delivery whose settings were switched off meanwhile is
\* given up. Its claim stays.
Confirmed(d) == settings.enabled /\ settings.generation = job[d].generation
Recheck(d) ==
  /\ job[d].pc = "claimed"
  /\ IF Confirmed(d)
     THEN Goto(d, "showing") /\ UNCHANGED <<dropped, crossed>>
     ELSE /\ End(d)
          /\ dropped' = dropped \cup {job[d].key}
          /\ crossed' = crossed \ {d}
  /\ UNCHANGED <<settings, store, now, stamp, tab, shown, evicted, lapsed, overtaken>>

Show(d) ==
  /\ job[d].pc = "showing"
  /\ shown' = [shown EXCEPT ![job[d].key] = IF @ < 2 THEN @ + 1 ELSE @]
  /\ End(d)
  /\ UNCHANGED <<settings, store, now, stamp, tab, evicted, lapsed, dropped, crossed, overtaken>>

\* Mutant of ShowFails: the claim is kept.
BugShowFails(d) ==
  /\ job[d].pc = "showing"
  /\ End(d)
  /\ UNCHANGED <<settings, store, now, stamp, tab, history>>

\* showNotification rejected: the claim is given back.
ShowFails(d) ==
  /\ job[d].pc = "showing"
  /\ Goto(d, "releasing")
  /\ UNCHANGED <<settings, store, now, stamp, tab, history>>

ReleaseClaim(d) ==
  /\ job[d].pc = "releasing"
  /\ claims' = claims \ {job[d].key}
  /\ expires' = [expires EXCEPT ![job[d].key] = 0]
  /\ End(d)
  /\ UNCHANGED <<settings, now, stamp, tab, history>>

\* IndexedDB refuses a transaction: the delivery ends, the store is as it was.
StorageFails(d) ==
  /\ job[d].pc \in {"admitted", "checked", "claimed", "releasing"}
  /\ End(d)
  /\ dropped' = IF job[d].pc \in {"claimed", "releasing"}
                THEN dropped \cup {job[d].key} ELSE dropped
  /\ crossed' = crossed \ {d}
  /\ UNCHANGED <<settings, store, now, stamp, tab, shown, evicted, lapsed, overtaken>>

-----------------------------------------------------------------------------
(* The environment                                                         *)

Holds(d) == job[d].pc \in {"claimed", "showing", "releasing"}

\* The browser ends the worker with everything it was doing.
WorkerEnds ==
  /\ \E d \in Deliveries : job[d] # Idle
  /\ job' = [d \in Deliveries |-> Idle]
  /\ dropped' = dropped \cup {job[d].key : d \in {e \in Deliveries : Holds(e)}}
  /\ crossed' = {}
  /\ UNCHANGED <<settings, store, now, stamp, tab, shown, evicted, lapsed, overtaken>>

Tick ==
  /\ now < MaxTime
  /\ now' = now + 1
  /\ UNCHANGED <<settings, store, stamp, job, tab, history>>

Next ==
  \/ \E t \in Tabs : \/ EnableBegins(t) \/ EnableFinishes(t) \/ EnableAborts(t)
                     \/ DisableClicked(t) \/ Refresh(t)
  \/ \E k \in Keys : Observed(k)
  \/ \E d \in Deliveries :
       \/ \E k \in Keys : Push(d, k)
       \/ ReadSettings(d) \/ ClaimEvent(d) \/ Recheck(d)
       \/ Show(d) \/ ShowFails(d) \/ ReleaseClaim(d) \/ StorageFails(d)
  \/ WorkerEnds
  \/ Tick

Spec == Init /\ [][Next]_vars

-----------------------------------------------------------------------------
(* Properties                                                              *)

\* However often the server pushes an event, and whatever runs concurrently,
\* fails or is ended, it is displayed at most once, unless pruneEvents dropped
\* its claim in the meantime (docs/web-push.md: "stable event keys let the
\* service worker deduplicate those deliveries").
ShownOnce ==
  \A k \in Keys : shown[k] > 1 => k \in evicted \cup lapsed

\* A claim is dropped for its age only when normalizedEvent already refuses
\* the event, so that no later push of it can be displayed.
LapsedIsStale == \A k \in lapsed : ~NormalizedEvent(k)

\* A claim that has not expired is dropped only to bring the store down to its
\* limit, never below it: what expired counts towards the excess.
EvictsOnlyWhenFull ==
  [][evicted' # evicted => Cardinality(claims') = MaxEvents]_vars

\* No delivery displays an event when notifications were switched off between
\* its two looks at the settings, even if they were switched on again.
NoShowAcrossDisable ==
  \A d \in crossed : job[d].pc \notin {"showing", "releasing"}

\* A claim without a display behind it, which suppresses every later push of
\* its event, belongs to a delivery under way or to one that was given up; the
\* one showNotification refused leaves none.
ClaimAccounted ==
  \A k \in claims :
    \/ shown[k] > 0
    \/ \E d \in Deliveries : Holds(d) /\ job[d].key = k
    \/ k \in dropped

\* Notifications are switched on only by an Enable that no other Enable or
\* Disable followed ("another tab's Disable retires it").
DisableRetiresEnable ==
  [][~settings.enabled /\ settings'.enabled
       => \E t \in Tabs : tab[t].pc = "begun" /\ t \notin overtaken]_vars
=============================================================================
