--------------------------- MODULE TelemetrySource ---------------------------
(***************************************************************************)
(* Which telemetry source may write the dashboard state, and when.         *)
(*                                                                         *)
(* internal/mqtt keeps one state that two sources can feed: a Cerbo MQTT   *)
(* session (paho callbacks) and the Internet gateway IGW (a poll loop and  *)
(* override acknowledgements, internal/gateway).  main.go picks one at     *)
(* start-up and, after a failover, probes MQTT and switches back.  Every   *)
(* callback carries the session it was subscribed in and the push          *)
(* generation it read; both are compared with the current ones under       *)
(* gatewayMu before the state is touched.                                  *)
(*                                                                         *)
(* Atomicity: one action is one critical section or one access to an       *)
(* atomic.  gatewayMu's read side is held by a callback over two actions   *)
(* (state commit, push observation), so its writers wait for it.           *)
(***************************************************************************)
EXTENDS Naturals, FiniteSets

CONSTANTS
  Callbacks,        \* paho callbacks that may be in flight at once
  MaxLosses,        \* bound: broker connections lost in a behaviour
  MaxRefusals,      \* bound: calls of Subscribe that fail on an open connection
  MaxPolls,         \* bound: gateway polls begun in a behaviour
  MaxUpsets,        \* bound: losses, refusals and polls together
  Appliers,         \* who applies IGW snapshots: "poll", and "ack" (applyOverride)
  Kinds             \* kinds of messages, and parts of the state, followed

ASSUME SourceAssumption ==
  /\ MaxLosses \in Nat
  /\ MaxRefusals \in Nat
  /\ MaxPolls \in Nat /\ MaxUpsets \in Nat
  /\ Appliers \subseteq {"poll", "ack"} /\ "poll" \in Appliers
  /\ Kinds \subseteq {"controller", "banner", "device"}

VARIABLES
  \* paho and the broker (external)
  broker,               \* IsConnectionOpen
  subscription,         \* session the live subscriptions are bound to, 0: none
  republish,            \* a full keepalive was answered by no snapshot yet
  losses, lostPc,       \* connections lost; progress of the lost handler
  refusals,             \* calls of Subscribe that failed on an open connection
  \* internal/mqtt.Client
  subscriptionsEnabled, mqttSession, keepalive,
  subscribePc, subscribeSession,
  gatewayMode, gatewayConnected, gatewayPublish,
  pushGeneration, pushSource, pushConnected,
  cb,                   \* callbacks in flight: progress and what they captured
  \* internal/gateway.Client
  cancelled, polls, pollOk, gwPc, gwGeneration,
  \* main.go: start-up, then the recovery probe
  starter,
  \* the published state, each part tagged with the source that wrote it
  banners, native, controller,
  \* history
  pushSeen,             \* sources observed by push in this generation
  lostSession,          \* the session number that retired the last lost one
  mishaps               \* what befell the open connection's latest session

pahoVars == <<broker, subscription, republish, losses, refusals, lostPc, lostSession, mishaps>>
sessionVars == <<subscriptionsEnabled, mqttSession, keepalive, subscribePc, subscribeSession>>
modeVars == <<gatewayMode, gatewayConnected, gatewayPublish>>
pushVars == <<pushGeneration, pushSource, pushConnected, pushSeen>>
gatewayVars == <<cancelled, polls, pollOk, gwPc, gwGeneration>>
viewVars == <<banners, native, controller>>
vars == <<pahoVars, sessionVars, modeVars, pushVars, cb, gatewayVars, starter, viewVars>>

\* Sessions count from 1; tag 0 is the gateway.
GatewayTag == 0
Subscribers == {"starter", "handler"}  \* main.go, and paho's OnConnect handler

\* The parts of the state never influence each other or the control, so an
\* instance may follow only some of them.
Follow(kind, var, new) == IF kind \in Kinds THEN new ELSE {var}

Spared == losses + refusals + polls < MaxUpsets

NoCallback == [pc |-> "idle", session |-> 0, generation |-> 0, kind |-> "device"]
NoController == [available |-> FALSE, live |-> FALSE, via |-> GatewayTag]

Init ==
  /\ broker = FALSE /\ subscription = 0 /\ republish = FALSE
  /\ losses = 0 /\ refusals = 0 /\ lostPc = "idle" /\ lostSession = 0 /\ mishaps = {}
  /\ subscriptionsEnabled = FALSE /\ mqttSession = 0 /\ keepalive = FALSE
  /\ subscribePc = [w \in Subscribers |-> "idle"]
  /\ subscribeSession = [w \in Subscribers |-> 0]
  /\ gatewayMode = FALSE /\ gatewayConnected = FALSE /\ gatewayPublish = FALSE
  /\ pushGeneration = 0 /\ pushSource = "startup" /\ pushConnected = FALSE
  /\ cb = [c \in Callbacks |-> NoCallback]
  /\ cancelled = FALSE /\ polls = 0 /\ pollOk = FALSE
  /\ gwPc = [a \in Appliers |-> "off"]
  /\ gwGeneration = [a \in Appliers |-> 0]
  /\ starter = "connect"
  /\ banners = {} /\ native = {} /\ controller = NoController
  /\ pushSeen = {}

-----------------------------------------------------------------------------
(* Locks and the operations both sources share. *)

\* A state callback holds the read side of gatewayMu from its fence until its
\* push observation returns; nobody holds the write side between actions.
HoldsSource(c) == cb[c].pc \in {"commit", "observe"}
GatewayMuFree == \A c \in Callbacks : ~HoldsSource(c)

\* resetPush: a new generation, which forgets what the old one had observed.
resetPush(source, connected) ==
  /\ pushGeneration' = pushGeneration + 1
  /\ pushSource' = source
  /\ pushConnected' = connected
  /\ pushSeen' = {}

\* Mutant of resetMQTTPush: a source that is already MQTT keeps its generation.
BugResetMQTTPush(connected) ==
  IF gatewayMode \/ pushSource = "mqtt" THEN UNCHANGED pushVars ELSE resetPush("mqtt", connected)

\* resetMQTTPush leaves the gateway's generation alone.
resetMQTTPush(connected) ==
  IF gatewayMode THEN UNCHANGED pushVars ELSE resetPush("mqtt", connected)

\* Mutant of resetNativeNotifications: the banners outlive the caches.
BugResetNotifications(clearBanners) == banners' = banners

\* resetNativeNotifications: the native slot and alarm caches go with the
\* session that filled them; the native banners only when clearBanners says so.
\* The other notifications (of the controller, say) stay on display.
resetNativeNotifications(clearBanners) ==
  banners' = IF clearBanners THEN {b \in banners : ~b.native} ELSE banners

\* Mutant of advanceMQTTSession: the counter moves without the source lock.
BugAdvance ==
  /\ mqttSession' = mqttSession + 1
  /\ resetNativeNotifications(~gatewayMode)

\* advanceMQTTSession retires every callback of the session before it.
advanceMQTTSession ==
  /\ GatewayMuFree
  /\ mqttSession' = mqttSession + 1
  /\ resetNativeNotifications(~gatewayMode)

\* observePush admits an observation of the current source and generation.
observePush(source, generation, tag) ==
  /\ pushSeen' = IF pushSource = source /\ pushGeneration = generation /\ pushConnected
                 THEN pushSeen \cup {tag} ELSE pushSeen
  /\ UNCHANGED <<pushGeneration, pushSource, pushConnected>>

\* Mutant of RevokeController: a connection loss keeps the availability.
BugRevoke == controller' = controller

\* ApplyControllerSnapshot(st, nil) revokes availability; clearOptionalTelemetry
\* and expiry also forget when the last live frame came.
RevokeController == controller' = [controller EXCEPT !.available = FALSE]
clearOptionalTelemetry == controller' = [controller EXCEPT !.available = FALSE, !.live = FALSE]

-----------------------------------------------------------------------------
(* paho: connections, and the handlers it starts in goroutines of their own. *)

\* The connection opens (first Connect or an automatic reconnect) and paho
\* starts the OnConnect handler.  It does not wait for the lost handler of the
\* connection before, which it started with go.  Bound: one handler of each kind
\* at a time.
BrokerUp ==
  /\ ~broker
  /\ subscribePc["handler"] = "idle"
  /\ broker' = TRUE
  /\ subscribePc' = [subscribePc EXCEPT !["handler"] = "onconnect"]
  /\ UNCHANGED <<subscription, republish, losses, refusals, lostPc, lostSession, mishaps,
                 subscriptionsEnabled, mqttSession, keepalive, subscribeSession, modeVars,
                 pushVars, cb, gatewayVars, starter, viewVars>>

\* A clean session loses its subscriptions and any snapshot still to come.
BrokerDown ==
  /\ broker /\ lostPc = "idle" /\ losses < MaxLosses /\ Spared
  /\ broker' = FALSE /\ subscription' = 0 /\ republish' = FALSE
  /\ losses' = losses + 1
  /\ lostPc' = "advance"
  /\ mishaps' = {}
  /\ UNCHANGED <<refusals, lostSession, sessionVars, modeVars, pushVars, cb, gatewayVars, starter,
                 viewVars>>

\* A step of the lost handler that comes after the reconnect.
MaybeOvertaken == mishaps' = IF broker THEN mishaps \cup {"overtaken"} ELSE mishaps

\* ConnectionLost handler: retire the session, stop the keepalive loop, then
\* invalidateCerbo in two critical sections.
LostAdvance ==
  /\ lostPc = "advance"
  /\ advanceMQTTSession
  /\ lostSession' = mqttSession'
  /\ lostPc' = "keepalive"
  /\ MaybeOvertaken
  /\ UNCHANGED <<broker, subscription, republish, losses, refusals, subscriptionsEnabled,
                 keepalive, subscribePc, subscribeSession, modeVars, pushVars, cb, gatewayVars,
                 starter, native, controller>>

LostStopKeepalive ==
  /\ lostPc = "keepalive"
  /\ keepalive' = FALSE
  /\ lostPc' = "reset"
  /\ MaybeOvertaken
  /\ UNCHANGED <<broker, subscription, republish, losses, refusals, lostSession,
                 subscriptionsEnabled, mqttSession, subscribePc, subscribeSession, modeVars,
                 pushVars, cb, gatewayVars, starter, viewVars>>

LostReset ==
  /\ lostPc = "reset" /\ GatewayMuFree
  /\ resetMQTTPush(FALSE)
  /\ lostPc' = "invalidate"
  /\ MaybeOvertaken
  /\ UNCHANGED <<broker, subscription, republish, losses, refusals, lostSession, sessionVars,
                 modeVars, cb, gatewayVars, starter, viewVars>>

\* invalidateCerbo clears every direct field, whoever wrote it.
LostInvalidate ==
  /\ lostPc = "invalidate"
  /\ native' = {}
  /\ RevokeController
  /\ lostPc' = "idle"
  /\ MaybeOvertaken
  /\ UNCHANGED <<broker, subscription, republish, losses, refusals, lostSession, sessionVars,
                 modeVars, pushVars, cb, gatewayVars, starter, banners>>

-----------------------------------------------------------------------------
(* Subscribe, called by main.go and by the OnConnect handler.              *)

\* Mutant of CallSubscribe: a reconnect does not subscribe again.
BugCallSubscribe(w) ==
  /\ subscriptionsEnabled' = TRUE
  /\ subscribePc' = [subscribePc EXCEPT ![w] = IF w = "handler" THEN "idle" ELSE "lock"]

CallSubscribe(w) ==
  /\ subscriptionsEnabled' = TRUE
  /\ subscribePc' = [subscribePc EXCEPT ![w] = "lock"]

ReturnSubscribe(w, result) ==
  /\ subscribePc' = [subscribePc EXCEPT ![w] = IF w = "handler" THEN "idle" ELSE result]
  /\ subscribeSession' = [subscribeSession EXCEPT ![w] = 0]

HoldsSubscribeMu(w) == subscribePc[w] \in {"advance", "reset", "clear", "bind", "keepalive"}

\* OnConnect does nothing until main.go has called Subscribe once.
OnConnect ==
  /\ subscribePc["handler"] = "onconnect"
  /\ IF subscriptionsEnabled
     THEN CallSubscribe("handler")
     ELSE /\ subscribePc' = [subscribePc EXCEPT !["handler"] = "idle"]
          /\ UNCHANGED subscriptionsEnabled
  /\ UNCHANGED <<pahoVars, mqttSession, keepalive, subscribeSession, modeVars, pushVars, cb,
                 gatewayVars, starter, viewVars>>

SubscribeLock(w) ==
  /\ subscribePc[w] = "lock"
  /\ \A v \in Subscribers : ~HoldsSubscribeMu(v)
  /\ IF broker
     THEN subscribePc' = [subscribePc EXCEPT ![w] = "advance"] /\ UNCHANGED subscribeSession
     ELSE ReturnSubscribe(w, "error")
  /\ UNCHANGED <<pahoVars, subscriptionsEnabled, mqttSession, keepalive, modeVars, pushVars,
                 cb, gatewayVars, starter, viewVars>>

SubscribeAdvance(w) ==
  /\ subscribePc[w] = "advance"
  /\ advanceMQTTSession
  /\ subscribeSession' = [subscribeSession EXCEPT ![w] = mqttSession']
  /\ subscribePc' = [subscribePc EXCEPT ![w] = "reset"]
  /\ mishaps' = {}
  /\ UNCHANGED <<broker, subscription, republish, losses, refusals, lostPc, lostSession,
                 subscriptionsEnabled, keepalive, modeVars, pushVars, cb, gatewayVars, starter,
                 native, controller>>

SubscribeReset(w) ==
  /\ subscribePc[w] = "reset" /\ GatewayMuFree
  /\ resetMQTTPush(TRUE)
  /\ subscribePc' = [subscribePc EXCEPT ![w] = "clear"]
  /\ UNCHANGED <<pahoVars, subscriptionsEnabled, mqttSession, keepalive, subscribeSession, modeVars,
                 cb, gatewayVars, starter, viewVars>>

\* cerboLeaves = nil, then the overlay clears what earlier sessions owned.
SubscribeClear(w) ==
  /\ subscribePc[w] = "clear"
  /\ native' = native \cap {GatewayTag}
  /\ subscribePc' = [subscribePc EXCEPT ![w] = "bind"]
  /\ UNCHANGED <<pahoVars, subscriptionsEnabled, mqttSession, keepalive, subscribeSession, modeVars,
                 pushVars, cb, gatewayVars, starter, banners, controller>>

\* Every topic is subscribed with callbacks bound to this call's session.  If
\* one is refused, or the connection goes, Subscribe returns: the topics before
\* it stay bound and no keepalive loop is started.
SubscribeBind(w) ==
  /\ subscribePc[w] = "bind"
  /\ \/ /\ broker
        /\ subscription' = subscribeSession[w]
        /\ subscribePc' = [subscribePc EXCEPT ![w] = "keepalive"]
        /\ UNCHANGED <<subscribeSession, refusals, mishaps>>
     \/ /\ broker /\ refusals < MaxRefusals /\ Spared
        /\ subscription' \in {subscription, subscribeSession[w]}
        /\ ReturnSubscribe(w, "error")
        /\ refusals' = refusals + 1
        /\ mishaps' = mishaps \cup {"refused"}
     \/ /\ ~broker
        /\ ReturnSubscribe(w, "error")
        /\ UNCHANGED <<subscription, refusals, mishaps>>
  /\ UNCHANGED <<broker, republish, losses, lostPc, lostSession, subscriptionsEnabled, mqttSession,
                 keepalive, modeVars, pushVars, cb, gatewayVars, starter, viewVars>>

\* Mutant of startKeepalive: only the first session starts the loop.
BugStartKeepalive == keepalive' = (keepalive \/ mqttSession = 1) /\ republish' = broker

\* startKeepalive asks the Cerbo for one full snapshot; later keepalives
\* suppress the republication.
startKeepalive == keepalive' = TRUE /\ republish' = broker

SubscribeKeepalive(w) ==
  /\ subscribePc[w] = "keepalive"
  /\ startKeepalive
  /\ ReturnSubscribe(w, "ok")
  /\ UNCHANGED <<broker, subscription, losses, refusals, lostPc, lostSession, mishaps,
                 subscriptionsEnabled, mqttSession, modeVars, pushVars, cb, gatewayVars, starter,
                 viewVars>>

-----------------------------------------------------------------------------
(* A message callback, from paho's router to its push observation.         *)

\* The callback goes on, or returns and its locals are gone.
Goto(c, to) == cb' = [cb EXCEPT ![c].pc = to]
Return(c) == cb' = [cb EXCEPT ![c] = NoCallback]

\* paho routes a message to the callback of the live subscription.  A device
\* message while a snapshot is due is that snapshot.
Route(c, kind) ==
  /\ broker /\ subscription # 0
  /\ cb[c].pc = "idle"
  /\ cb' = [cb EXCEPT ![c] = [pc |-> "routed", session |-> subscription, generation |-> 0, kind |-> kind]]
  /\ republish' = (republish /\ kind # "device")
  /\ UNCHANGED <<broker, subscription, losses, refusals, lostPc, lostSession, mishaps,
                 sessionVars, modeVars, pushVars, gatewayVars, starter, viewVars>>

\* bindPushCallback / bindControllerCallback read the generation and compare the
\* session; a retired callback returns before it decodes.  The fence repeats
\* both comparisons, so one step for the two reads loses no outcome.
Bind(c) ==
  /\ cb[c].pc = "routed"
  /\ IF mqttSession = cb[c].session
     THEN cb' = [cb EXCEPT ![c].pc = "decoded", ![c].generation = pushGeneration]
     ELSE Return(c)
  /\ UNCHANGED <<pahoVars, sessionVars, modeVars, pushVars, gatewayVars, starter, viewVars>>

\* The fence: active source, generation and session, under gatewayMu.RLock.
SourceCurrent(c) ==
  /\ ~gatewayMode
  /\ cb[c].generation = pushGeneration
  /\ cb[c].session = mqttSession

Fence(c) ==
  /\ cb[c].pc = "decoded"
  /\ IF SourceCurrent(c) THEN Goto(c, "commit") ELSE Return(c)
  /\ UNCHANGED <<pahoVars, sessionVars, modeVars, pushVars, gatewayVars, starter, viewVars>>

\* applyControllerMessage: a retained frame shows the controller but does not
\* make it live; an empty frame makes it unavailable.
ApplyController(c, retained, empty) ==
  /\ cb[c].kind = "controller"
  /\ controller' = [available |-> ~empty, live |-> ~retained, via |-> cb[c].session]
  /\ Return(c)
  /\ UNCHANGED <<banners, native>>

\* A notification on display: native if its source is "victron" or its ID
\* begins with "victron-", and then with the source that put it there.
Banner(native_, via) == [native |-> native_, via |-> IF native_ THEN via ELSE GatewayTag]

\* applyNotificationMessage: a message on inverter/notifications, by default the
\* controller's own; its payload may say otherwise.  It replaces the notification
\* with its ID, and the oldest of a full list.
ApplyNotification(c, native_) ==
  /\ cb[c].kind = "banner"
  /\ \E gone \in SUBSET banners : banners' = (banners \ gone) \cup {Banner(native_, cb[c].session)}
  /\ Goto(c, "observe")
  /\ UNCHANGED <<native, controller>>

\* A native slot (applyPlatformNotification) or raw alarm (onAlarmMessage) shows
\* a banner, replaces or clears others; a raw alarm does not go on to push.
ApplyBanner(c, rawAlarm) ==
  /\ cb[c].kind = "banner"
  /\ \E gone \in SUBSET banners, shown \in SUBSET {Banner(TRUE, cb[c].session)} :
       banners' = (banners \ gone) \cup shown
  /\ IF rawAlarm THEN Return(c) ELSE Goto(c, "observe")
  /\ UNCHANGED <<native, controller>>

\* applyCerboDeviceMessage
ApplyDevice(c) ==
  /\ cb[c].kind = "device"
  /\ native' = native \cup {cb[c].session}
  /\ Goto(c, "observe")
  /\ UNCHANGED <<banners, controller>>

Commit(c) ==
  /\ cb[c].pc = "commit"
  /\ \/ \E retained, empty \in BOOLEAN : ApplyController(c, retained, empty)
     \/ \E native_ \in BOOLEAN : ApplyNotification(c, native_)
     \/ \E rawAlarm \in BOOLEAN : ApplyBanner(c, rawAlarm)
     \/ ApplyDevice(c)
  /\ UNCHANGED <<pahoVars, sessionVars, modeVars, pushVars, gatewayVars, starter>>

Observe(c) ==
  /\ cb[c].pc = "observe"
  /\ observePush("mqtt", cb[c].generation, cb[c].session)
  /\ Return(c)
  /\ UNCHANGED <<pahoVars, sessionVars, modeVars, gatewayVars, starter, viewVars>>

\* A live frame ages out for commands after 30 s, for display after 120 s; the
\* gateway owns the freshness of its own envelope.
ControllerAges ==
  /\ controller.live
  /\ controller' = [controller EXCEPT !.live = FALSE]
  /\ UNCHANGED <<pahoVars, sessionVars, modeVars, pushVars, cb, gatewayVars, starter, banners,
                 native>>

ControllerExpires ==
  /\ controller.available /\ ~controller.live /\ controller.via # GatewayTag
  /\ clearOptionalTelemetry
  /\ UNCHANGED <<pahoVars, sessionVars, modeVars, pushVars, cb, gatewayVars, starter, banners,
                 native>>

-----------------------------------------------------------------------------
(* The gateway client: the poll loop, and an override acknowledgement that *)
(* applies its snapshot from the command's own goroutine.                  *)

GwStep(a, from, to) == gwPc[a] = from /\ gwPc' = [gwPc EXCEPT ![a] = to]

PollBegin ==
  /\ ~cancelled /\ polls < MaxPolls /\ Spared
  /\ GwStep("poll", "idle", "fetch")
  /\ polls' = polls + 1
  /\ UNCHANGED <<pahoVars, sessionVars, modeVars, pushVars, cb, cancelled, pollOk, gwGeneration,
                 starter, viewVars>>

\* Mutant of AfterFetch: a cancelled request is retried.
BugAfterFetch == IF cancelled THEN "fetch" ELSE "status"

\* FetchSnapshot returns; after a cancellation its result is not used.
AfterFetch == IF cancelled THEN "idle" ELSE "status"

PollResult(ok) ==
  /\ GwStep("poll", "fetch", AfterFetch)
  /\ pollOk' = ok
  /\ UNCHANGED <<pahoVars, sessionVars, modeVars, pushVars, cb, cancelled, polls, gwGeneration,
                 starter, viewVars>>

AfterStatus == IF pollOk THEN "check" ELSE "idle"

\* SetGatewayConnected reads the mode under gatewayMu and acts on it later.
SetGatewayConnected ==
  /\ GatewayMuFree
  /\ gatewayConnected' = pollOk
  /\ GwStep("poll", "status", IF gatewayConnected = pollOk THEN AfterStatus
                              ELSE IF gatewayMode THEN "reset" ELSE "clear")
  /\ UNCHANGED <<pahoVars, sessionVars, gatewayMode, gatewayPublish, pushVars, cb, cancelled, polls,
                 pollOk, gwGeneration, starter, viewVars>>

StatusReset ==
  /\ GwStep("poll", "reset", "clear")
  /\ resetPush("gateway", pollOk)
  /\ UNCHANGED <<pahoVars, sessionVars, modeVars, cb, cancelled, polls, pollOk, gwGeneration,
                 starter, viewVars>>

StatusClear ==
  /\ GwStep("poll", "clear", AfterStatus)
  /\ IF pollOk THEN UNCHANGED controller ELSE clearOptionalTelemetry
  /\ UNCHANGED <<pahoVars, sessionVars, modeVars, pushVars, cb, cancelled, polls, pollOk,
                 gwGeneration, starter, banners, native>>

PollCheck ==
  /\ GwStep("poll", "check", IF cancelled THEN "idle" ELSE "apply")
  /\ UNCHANGED <<pahoVars, sessionVars, modeVars, pushVars, cb, cancelled, polls, pollOk,
                 gwGeneration, starter, viewVars>>

PollExit ==
  /\ cancelled
  /\ GwStep("poll", "idle", "done")
  /\ UNCHANGED <<pahoVars, sessionVars, modeVars, pushVars, cb, cancelled, polls, pollOk,
                 gwGeneration, starter, viewVars>>

\* applyOverride: commandApplyMu, and only then is the context looked at.
AckBegin ==
  /\ ~cancelled /\ "ack" \in Appliers
  /\ GwStep("ack", "idle", "apply")
  /\ UNCHANGED <<pahoVars, sessionVars, modeVars, pushVars, cb, cancelled, polls, pollOk,
                 gwGeneration, starter, viewVars>>

\* ApplyState in three steps.  It does not look at gatewayMode.
ApplyCapture(a) ==
  /\ GwStep(a, "apply", "observe")
  /\ gwGeneration' = [gwGeneration EXCEPT ![a] = pushGeneration]
  /\ UNCHANGED <<pahoVars, sessionVars, modeVars, pushVars, cb, cancelled, polls, pollOk, starter,
                 viewVars>>

ApplyObserve(a) ==
  /\ GwStep(a, "observe", "state")
  /\ observePush("gateway", gwGeneration[a], GatewayTag)
  /\ gwGeneration' = [gwGeneration EXCEPT ![a] = 0]
  /\ UNCHANGED <<pahoVars, sessionVars, modeVars, cb, cancelled, polls, pollOk, starter, viewVars>>

\* The snapshot replaces the state; an omitted notification list or controller
\* envelope keeps the previous one (availability itself is not kept).
ApplyState(a) ==
  /\ GwStep(a, "state", "idle")
  /\ native' \in Follow("device", native, {{GatewayTag}})
  /\ banners' \in Follow("banner", banners, {banners} \cup SUBSET {Banner(n, GatewayTag) : n \in BOOLEAN})
  /\ controller' \in Follow("controller", controller,
                            {[available |-> TRUE, live |-> TRUE, via |-> GatewayTag], NoController,
                             [controller EXCEPT !.available = FALSE]})
  /\ UNCHANGED <<pahoVars, sessionVars, modeVars, pushVars, cb, cancelled, polls, pollOk,
                 gwGeneration, starter>>

-----------------------------------------------------------------------------
(* main.go: start-up over MQTT, failover to IGW, the recovery probe.       *)

\* startMQTT connects, then subscribes; at start-up and in every probe.
StartMQTT(from, to) ==
  /\ starter = from /\ broker
  /\ starter' = to
  /\ CallSubscribe("starter")
  /\ UNCHANGED <<pahoVars, mqttSession, keepalive, subscribeSession, modeVars, pushVars, cb,
                 gatewayVars, viewVars>>

\* startMQTT returned.
MQTTStarted(from, ok, failed) ==
  /\ starter = from
  /\ subscribePc["starter"] \in {"ok", "error"}
  /\ starter' = IF subscribePc["starter"] = "ok" THEN ok ELSE failed
  /\ subscribePc' = [subscribePc EXCEPT !["starter"] = "idle"]
  /\ UNCHANGED <<pahoVars, subscriptionsEnabled, mqttSession, keepalive, subscribeSession, modeVars,
                 pushVars, cb, gatewayVars, viewVars>>

\* Ten attempts failed and IGW is configured.
EnableGatewayMode ==
  /\ starter = "connect" /\ GatewayMuFree
  /\ starter' = "enabled"
  /\ gatewayMode' = TRUE
  /\ resetPush("gateway", FALSE)
  /\ resetNativeNotifications(TRUE)
  /\ UNCHANGED <<pahoVars, sessionVars, gatewayConnected, gatewayPublish, cb, gatewayVars, native,
                 controller>>

\* The state half of EnableGatewayMode and DisableGatewayMode.
ClearForSwitch(from, to) ==
  /\ starter = from
  /\ starter' = to
  /\ clearOptionalTelemetry
  /\ UNCHANGED <<pahoVars, sessionVars, modeVars, pushVars, cb, gatewayVars, banners, native>>

\* SetGatewayPublisher(fn), gwClient.Start, then the probe goroutine.
StartGateway ==
  /\ starter = "start" /\ GatewayMuFree
  /\ starter' = "probe"
  /\ gatewayPublish' = TRUE
  /\ gwPc' = [a \in Appliers |-> "idle"]
  /\ UNCHANGED <<pahoVars, sessionVars, gatewayMode, gatewayConnected, pushVars, cb, cancelled,
                 polls, pollOk, gwGeneration, viewVars>>

\* gwClient.Stop: cancel, then wait for the loop and for a running apply.
StopGateway ==
  /\ starter = "stop"
  /\ starter' = "join"
  /\ cancelled' = TRUE
  /\ UNCHANGED <<pahoVars, sessionVars, modeVars, pushVars, cb, polls, pollOk, gwPc, gwGeneration,
                 viewVars>>

\* Mutants of Joined: Stop forgets the acknowledgement, or waits for nobody.
BugJoinLoop == gwPc["poll"] = "done"
BugJoinNobody == cancelled

Joined == gwPc["poll"] = "done" /\ \A a \in Appliers \ {"poll"} : gwPc[a] = "idle"

JoinGateway ==
  /\ starter = "join" /\ Joined
  /\ starter' = "unpublish"
  /\ UNCHANGED <<pahoVars, sessionVars, modeVars, pushVars, cb, gatewayVars, viewVars>>

ClearPublisher ==
  /\ starter = "unpublish" /\ GatewayMuFree
  /\ starter' = "disable"
  /\ gatewayPublish' = FALSE
  /\ UNCHANGED <<pahoVars, sessionVars, gatewayMode, gatewayConnected, pushVars, cb, gatewayVars,
                 viewVars>>

DisableGatewayMode ==
  /\ starter = "disable" /\ GatewayMuFree
  /\ starter' = "disabled"
  /\ gatewayMode' = FALSE
  /\ gatewayConnected' = FALSE
  /\ resetPush("mqtt", broker)
  /\ resetNativeNotifications(TRUE)
  /\ UNCHANGED <<pahoVars, sessionVars, gatewayPublish, cb, gatewayVars, native, controller>>

-----------------------------------------------------------------------------
LostHandler == LostAdvance \/ LostStopKeepalive \/ LostReset \/ LostInvalidate

SubscribeStep(w) ==
  \/ SubscribeLock(w) \/ SubscribeAdvance(w) \/ SubscribeReset(w)
  \/ SubscribeClear(w) \/ SubscribeBind(w) \/ SubscribeKeepalive(w)

CallbackStep(c) ==
  Bind(c) \/ Fence(c) \/ Commit(c) \/ Observe(c)

PollStep ==
  \/ \E ok \in BOOLEAN : PollResult(ok)
  \/ SetGatewayConnected \/ StatusReset \/ StatusClear \/ PollCheck \/ PollExit

ApplyStep(a) == ApplyCapture(a) \/ ApplyObserve(a) \/ ApplyState(a)

StarterStep ==
  \/ StartMQTT("connect", "subscribe")
  \/ MQTTStarted("subscribe", "serving", "connect")
  \/ ClearForSwitch("enabled", "start")
  \/ StartGateway
  \/ StartMQTT("probe", "probing")
  \/ MQTTStarted("probing", "stop", "probe")
  \/ StopGateway \/ JoinGateway \/ ClearPublisher \/ DisableGatewayMode
  \/ ClearForSwitch("disabled", "serving")

Next ==
  \/ BrokerUp \/ BrokerDown
  \/ LostHandler
  \/ OnConnect \/ \E w \in Subscribers : SubscribeStep(w)
  \/ \E c \in Callbacks : CallbackStep(c)
  \/ \E c \in Callbacks, kind \in Kinds : Route(c, kind)
  \/ ControllerAges \/ ControllerExpires
  \/ PollBegin \/ PollStep \/ AckBegin
  \/ \E a \in Appliers : ApplyStep(a)
  \/ EnableGatewayMode
  \/ StarterStep

Spec == Init /\ [][Next]_vars

\* Every goroutine runs on, and Go's RWMutex lets a waiting writer in before
\* new readers, so steps that need gatewayMu are not starved by callbacks.
\* Cancelling a request makes FetchSnapshot return.  Nothing forces the broker,
\* the poll ticker or a message.
Fairness ==
  /\ SF_vars(LostHandler) /\ SF_vars(OnConnect)
  /\ \A w \in Subscribers : SF_vars(SubscribeStep(w))
  /\ \A c \in Callbacks : WF_vars(CallbackStep(c))
  /\ SF_vars(PollStep)
  /\ \A a \in Appliers : WF_vars(ApplyStep(a))
  /\ SF_vars(StarterStep)

LiveSpec == Spec /\ Fairness

-----------------------------------------------------------------------------
(* Properties. *)

CallbackPcs == {"idle", "routed", "decoded", "commit", "observe"}
SubscribePcs == {"idle", "onconnect", "lock", "advance", "reset", "clear", "bind", "keepalive", "ok", "error"}
GatewayPcs == {"off", "idle", "fetch", "status", "reset", "clear", "check", "apply", "observe", "state", "done"}
StarterPcs == {"connect", "subscribe", "serving", "enabled", "start", "probe", "probing", "stop", "join",
               "unpublish", "disable", "disabled"}

PahoType ==
  /\ broker \in BOOLEAN /\ subscription \in Nat /\ republish \in BOOLEAN
  /\ losses \in Nat /\ refusals \in Nat /\ lostSession \in Nat
  /\ lostPc \in {"idle", "advance", "keepalive", "reset", "invalidate"}
  /\ mishaps \subseteq {"overtaken", "refused"}
SessionType ==
  /\ subscriptionsEnabled \in BOOLEAN /\ mqttSession \in Nat /\ keepalive \in BOOLEAN
  /\ subscribePc \in [Subscribers -> SubscribePcs]
  /\ subscribeSession \in [Subscribers -> Nat]
ModeType ==
  /\ gatewayMode \in BOOLEAN /\ gatewayConnected \in BOOLEAN /\ gatewayPublish \in BOOLEAN
PushType ==
  /\ pushGeneration \in Nat /\ pushSource \in {"startup", "mqtt", "gateway"}
  /\ pushConnected \in BOOLEAN /\ pushSeen \in SUBSET Nat
CallbackType ==
  cb \in [Callbacks -> [pc : CallbackPcs, session : Nat, generation : Nat,
                        kind : {"controller", "banner", "device"}]]
GatewayType ==
  /\ cancelled \in BOOLEAN /\ polls \in Nat /\ pollOk \in BOOLEAN
  /\ gwPc \in [Appliers -> GatewayPcs]
  /\ gwGeneration \in [Appliers -> Nat]
ViewType ==
  /\ banners \in SUBSET [native : BOOLEAN, via : Nat] /\ native \in SUBSET Nat
  /\ controller \in [available : BOOLEAN, live : BOOLEAN, via : Nat]

\* Types of the state of mqtt.Client, gateway.Client and main.go.
TypeOK ==
  /\ PahoType /\ SessionType /\ ModeType /\ PushType /\ CallbackType /\ GatewayType /\ ViewType
  /\ starter \in StarterPcs

\* A callback that passed the fence is still current when it writes the state
\* and when push observes it: retirement (advanceMQTTSession, resetPush, the
\* mode switches) waits for it, even if it was waiting for stateMu.
SourceFence ==
  \A c \in Callbacks : HoldsSource(c) => SourceCurrent(c)

\* The gateway client touches the shared state only while IGW is the source:
\* ApplyState and SetGatewayConnected do not check it, Stop's join must.
GatewayRetired ==
  (\E a \in Appliers : gwPc[a] \notin {"off", "idle", "done"}) => gatewayMode

\* Push listens to the source that owns the state, although a gateway status
\* change resets push after it has released gatewayMu (client.go:196-201).
PushFollowsSource == (pushSource = "gateway") <=> gatewayMode

\* Every native banner on display came from the current owner: this MQTT
\* session, or the gateway.  No native alarm of a retired session or source is
\* shown; the notifications resetNativeNotifications keeps are not native.
BannersCurrent ==
  \A b \in banners : b.native => b.via = IF gatewayMode THEN GatewayTag ELSE mqttSession

\* One push generation (one delivery epoch) never mixes observations caused by
\* messages of two MQTT sessions or of MQTT and IGW, so no transition is inferred
\* across a reconnect or a source switch.  (An observation is of the whole list:
\* the notifications that resetNativeNotifications keeps are seen again with it.)
PushEpochPure == Cardinality(pushSeen) <= 1

\* No controller frame received before a connection loss, or from the other
\* source, can authorise a command once the loss or the switch was handled.
ControllerReady == controller.available /\ controller.live
ControllerAuthority ==
  ControllerReady /\ lostPc = "idle" /\ starter \notin {"enabled", "disabled"}
    => IF gatewayMode THEN controller.via = GatewayTag
                      ELSE controller.via # GatewayTag /\ controller.via >= lostSession

\* Nothing is running that could still change the session.
Quiescent ==
  /\ lostPc = "idle"
  /\ \A w \in Subscribers : subscribePc[w] = "idle"
  /\ \A c \in Callbacks : cb[c].pc = "idle"

\* An open connection at rest that is subscribed at all.
Subscribed == Quiescent /\ broker /\ subscription # 0
Served == subscription = mqttSession /\ keepalive /\ (gatewayMode \/ pushConnected)

\* An open, subscribed connection at rest delivers to callbacks of the current
\* session, has its keepalive loop and is connected for push, whatever calls of
\* Subscribe overlapped.  Two things spoil it until the next Subscribe: the lost
\* handler of the connection before ran late, or a topic was refused.
ReconnectLive == Subscribed /\ mishaps = {} => Served

\* "The MQTT read-only refresh runs every 20 seconds" (docs/operations.md:35), for
\* as long as the subscribed connection is open and no topic was refused.
RefreshRuns == Subscribed /\ "refused" \notin mishaps => keepalive

\* "On success it stops IGW polling and resumes MQTT as the exclusive live
\* source" (main.go:347): once the probe has switched and the snapshot the
\* session asked for has come, the readings on display are that session's.
MQTTResumed ==
  cancelled /\ starter = "serving" /\ Quiescent /\ broker /\ ~republish => native = {mqttSession}

\* gwClient.Stop returns: it never waits forever for the poll loop or for an
\* acknowledgement, so a recovered broker is not blocked by a dead gateway.
StopReturns == starter = "stop" ~> starter = "serving" /\ ~gatewayMode

\* If the broker stays up, its messages end up with callbacks of the current
\* session for good: the calls of Subscribe by main.go and by OnConnect neither
\* block each other nor retire each other's callbacks.  Excepted are a late lost
\* handler and a refused topic, which nothing repairs before the next reconnect.
ResubscribeCompletes ==
  \/ []<>~broker \/ <>[](mishaps # {})
  \/ <>[](subscriptionsEnabled => subscription = mqttSession)
=============================================================================
