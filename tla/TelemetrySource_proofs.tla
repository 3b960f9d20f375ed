----------------------- MODULE TelemetrySource_proofs -----------------------
(***************************************************************************)
(* Proofs that the source fence of internal/mqtt holds for any number of   *)
(* callbacks in flight, losses and polls.                                  *)
(***************************************************************************)
EXTENDS TelemetrySource, FiniteSetTheorems, TLAPS

\* What a step leaves alone keeps its type.
LEMMA Unchanged ==
  ASSUME TypeOK
  PROVE  /\ UNCHANGED pahoVars => PahoType'
         /\ UNCHANGED sessionVars => SessionType'
         /\ UNCHANGED modeVars => ModeType'
         /\ UNCHANGED pushVars => PushType'
         /\ UNCHANGED cb => CallbackType'
         /\ UNCHANGED gatewayVars => GatewayType'
         /\ UNCHANGED viewVars => ViewType'
         /\ UNCHANGED starter => (starter \in StarterPcs)'
  <1>1. UNCHANGED pahoVars => PahoType' BY DEF TypeOK, PahoType, pahoVars
  <1>2. UNCHANGED sessionVars => SessionType' BY DEF TypeOK, SessionType, sessionVars
  <1>3. UNCHANGED modeVars => ModeType' BY DEF TypeOK, ModeType, modeVars
  <1>4. UNCHANGED pushVars => PushType' BY DEF TypeOK, PushType, pushVars
  <1>5. UNCHANGED cb => CallbackType' BY DEF TypeOK, CallbackType
  <1>6. UNCHANGED gatewayVars => GatewayType' BY DEF TypeOK, GatewayType, gatewayVars
  <1>7. UNCHANGED viewVars => ViewType' BY DEF TypeOK, ViewType, viewVars
  <1> QED BY <1>1, <1>2, <1>3, <1>4, <1>5, <1>6, <1>7 DEF TypeOK

\* resetPush and resetMQTTPush start a generation of the right type.
LEMMA TypeReset ==
  ASSUME TypeOK, NEW connected \in BOOLEAN
  PROVE  /\ \A source \in {"startup", "mqtt", "gateway"} : resetPush(source, connected) => PushType'
         /\ resetMQTTPush(connected) => PushType'
  <1>1. ASSUME NEW source \in {"startup", "mqtt", "gateway"}, resetPush(source, connected) PROVE PushType'
    BY <1>1 DEF resetPush, TypeOK, PushType
  <1>2. ASSUME resetMQTTPush(connected) PROVE PushType'
    BY <1>1, <1>2, Unchanged DEF resetMQTTPush
  <1> QED BY <1>1, <1>2

\* resetNativeNotifications only takes banners away.
LEMMA TypeBanners ==
  ASSUME TypeOK, NEW clearBanners \in BOOLEAN, resetNativeNotifications(clearBanners)
  PROVE  (banners \in SUBSET [native : BOOLEAN, via : Nat])'
  BY DEF resetNativeNotifications, TypeOK, ViewType

LEMMA TypeOvertaken ==
  ASSUME TypeOK, MaybeOvertaken
  PROVE  mishaps' \subseteq {"overtaken", "refused"}
  BY DEF MaybeOvertaken, TypeOK, PahoType

LEMMA TypeInit == Init => TypeOK
  <1> SUFFICES ASSUME Init PROVE TypeOK OBVIOUS
  <1> USE DEF Init
  <1>1. PahoType BY DEF PahoType
  <1>2. SessionType BY DEF SessionType, Subscribers, SubscribePcs
  <1>3. ModeType BY DEF ModeType
  <1>4. PushType BY DEF PushType
  <1>5. CallbackType BY DEF CallbackType, NoCallback, CallbackPcs
  <1>6. GatewayType BY DEF GatewayType, GatewayPcs
  <1>7. ViewType BY DEF ViewType, NoController, GatewayTag
  <1> QED BY <1>1, <1>2, <1>3, <1>4, <1>5, <1>6, <1>7 DEF TypeOK, StarterPcs

\* paho's connection events and the lost handler.
LEMMA TypePaho ==
  ASSUME TypeOK, BrokerUp \/ BrokerDown \/ LostHandler \/ OnConnect
  PROVE  TypeOK'
  <1>1. CASE BrokerUp
    <2>1. PahoType' BY <1>1 DEF BrokerUp, TypeOK, PahoType
    <2>2. SessionType' BY <1>1 DEF BrokerUp, TypeOK, SessionType, SubscribePcs
    <2> QED BY <1>1, <2>1, <2>2, Unchanged DEF BrokerUp, TypeOK
  <1>2. CASE BrokerDown
    <2>1. PahoType'
      <3>1. losses' \in Nat BY <1>2, SourceAssumption DEF BrokerDown, TypeOK, PahoType
      <3>2. broker' \in BOOLEAN /\ republish' \in BOOLEAN /\ subscription' \in Nat BY <1>2 DEF BrokerDown
      <3>3. lostSession' \in Nat /\ refusals' \in Nat /\ lostPc' = "advance" BY <1>2 DEF BrokerDown, TypeOK, PahoType
      <3>4. mishaps' = {} BY <1>2 DEF BrokerDown
      <3> QED BY <3>1, <3>2, <3>3, <3>4 DEF PahoType
    <2> QED BY <1>2, <2>1, Unchanged DEF BrokerDown, TypeOK
  <1>3. CASE LostAdvance
    <2>1. PahoType' BY <1>3, TypeOvertaken DEF LostAdvance, advanceMQTTSession, TypeOK, PahoType, SessionType
    <2>2. SessionType' BY <1>3 DEF LostAdvance, advanceMQTTSession, TypeOK, SessionType
    <2>3. ViewType' BY <1>3, TypeBanners DEF LostAdvance, advanceMQTTSession, TypeOK, ViewType
    <2> QED BY <1>3, <2>1, <2>2, <2>3, Unchanged DEF LostAdvance, TypeOK
  <1>4. CASE LostStopKeepalive
    <2>1. PahoType' /\ SessionType' BY <1>4, TypeOvertaken DEF LostStopKeepalive, TypeOK, PahoType, SessionType
    <2> QED BY <1>4, <2>1, Unchanged DEF LostStopKeepalive, TypeOK
  <1>5. CASE LostReset
    <2>1. PahoType' BY <1>5, TypeOvertaken DEF LostReset, TypeOK, PahoType
    <2>2. PushType' BY <1>5, TypeReset DEF LostReset
    <2> QED BY <1>5, <2>1, <2>2, Unchanged DEF LostReset, TypeOK
  <1>6. CASE LostInvalidate
    <2>1. PahoType' BY <1>6, TypeOvertaken DEF LostInvalidate, TypeOK, PahoType
    <2>2. ViewType' BY <1>6 DEF LostInvalidate, RevokeController, TypeOK, ViewType
    <2> QED BY <1>6, <2>1, <2>2, Unchanged DEF LostInvalidate, TypeOK
  <1>7. CASE OnConnect
    <2>1. SessionType' BY <1>7 DEF OnConnect, CallSubscribe, TypeOK, SessionType, SubscribePcs
    <2> QED BY <1>7, <2>1, Unchanged DEF OnConnect, TypeOK
  <1> QED BY <1>1, <1>2, <1>3, <1>4, <1>5, <1>6, <1>7 DEF LostHandler

LEMMA TypeSubscribe ==
  ASSUME TypeOK, NEW w \in Subscribers, SubscribeStep(w)
  PROVE  TypeOK'
  <1>1. CASE SubscribeLock(w)
    <2>1. SessionType' BY <1>1 DEF SubscribeLock, ReturnSubscribe, TypeOK, SessionType, SubscribePcs
    <2> QED BY <1>1, <2>1, Unchanged DEF SubscribeLock, TypeOK
  <1>2. CASE SubscribeAdvance(w)
    <2>1. SessionType' BY <1>2 DEF SubscribeAdvance, advanceMQTTSession, TypeOK, SessionType, SubscribePcs
    <2>2. ViewType' BY <1>2, TypeBanners DEF SubscribeAdvance, advanceMQTTSession, TypeOK, ViewType
    <2>3. PahoType' BY <1>2 DEF SubscribeAdvance, TypeOK, PahoType
    <2> QED BY <1>2, <2>1, <2>2, <2>3, Unchanged DEF SubscribeAdvance, TypeOK
  <1>3. CASE SubscribeReset(w)
    <2>1. SessionType' BY <1>3 DEF SubscribeReset, TypeOK, SessionType, SubscribePcs
    <2>2. PushType' BY <1>3, TypeReset DEF SubscribeReset
    <2> QED BY <1>3, <2>1, <2>2, Unchanged DEF SubscribeReset, TypeOK
  <1>4. CASE SubscribeClear(w)
    <2>1. SessionType' BY <1>4 DEF SubscribeClear, TypeOK, SessionType, SubscribePcs
    <2>2. ViewType' BY <1>4 DEF SubscribeClear, TypeOK, ViewType
    <2> QED BY <1>4, <2>1, <2>2, Unchanged DEF SubscribeClear, TypeOK
  <1>5. CASE SubscribeBind(w)
    <2>1. SessionType' BY <1>5 DEF SubscribeBind, ReturnSubscribe, TypeOK, SessionType, SubscribePcs
    <2>2. mishaps' \subseteq {"overtaken", "refused"}
      <3>1. mishaps' = mishaps \/ mishaps' = mishaps \cup {"refused"} BY <1>5 DEF SubscribeBind
      <3> QED BY <3>1 DEF TypeOK, PahoType
    <2>3. subscription' \in Nat BY <1>5 DEF SubscribeBind, TypeOK, PahoType, SessionType
    <2>4. refusals' \in Nat BY <1>5 DEF SubscribeBind, TypeOK, PahoType
    <2>5. PahoType' BY <1>5, <2>2, <2>3, <2>4 DEF SubscribeBind, TypeOK, PahoType
    <2> QED BY <1>5, <2>1, <2>5, Unchanged DEF SubscribeBind, TypeOK
  <1>6. CASE SubscribeKeepalive(w)
    <2>1. SessionType' BY <1>6 DEF SubscribeKeepalive, startKeepalive, ReturnSubscribe, TypeOK, SessionType, SubscribePcs
    <2>2. PahoType' BY <1>6 DEF SubscribeKeepalive, startKeepalive, TypeOK, PahoType
    <2> QED BY <1>6, <2>1, <2>2, Unchanged DEF SubscribeKeepalive, TypeOK
  <1> QED BY <1>1, <1>2, <1>3, <1>4, <1>5, <1>6 DEF SubscribeStep

\* A message callback from the router to its push observation.
LEMMA TypeCallback ==
  ASSUME TypeOK, NEW c \in Callbacks,
         CallbackStep(c) \/ (\E kind \in Kinds : Route(c, kind))
  PROVE  TypeOK'
  <1>1. ASSUME NEW kind \in Kinds, Route(c, kind) PROVE TypeOK'
    <2>1. PahoType' BY <1>1 DEF Route, TypeOK, PahoType
    <2>2. CallbackType' BY <1>1, SourceAssumption DEF Route, TypeOK, PahoType, CallbackType, CallbackPcs
    <2> QED BY <1>1, <2>1, <2>2, Unchanged DEF Route, TypeOK
  <1>2. CASE Bind(c)
    <2>1. CallbackType' BY <1>2 DEF Bind, Return, TypeOK, PushType, CallbackType, CallbackPcs, NoCallback
    <2> QED BY <1>2, <2>1, Unchanged DEF Bind, TypeOK
  <1>3. CASE Fence(c)
    <2>1. CallbackType' BY <1>3 DEF Fence, Return, Goto, TypeOK, CallbackType, CallbackPcs, NoCallback
    <2> QED BY <1>3, <2>1, Unchanged DEF Fence, TypeOK
  <1>4. CASE Commit(c)
    <2>1. CallbackType'
      <3>1. Return(c) \/ Goto(c, "observe")
        BY <1>4 DEF Commit, ApplyController, ApplyNotification, ApplyBanner, ApplyDevice
      <3>2. CASE Return(c) BY <3>2 DEF Return, TypeOK, CallbackType, CallbackPcs, NoCallback
      <3>3. CASE Goto(c, "observe") BY <3>3 DEF Goto, TypeOK, CallbackType, CallbackPcs
      <3> QED BY <3>1, <3>2, <3>3
    <2>2. ViewType'
      <3>1. cb[c].session \in Nat BY DEF TypeOK, CallbackType
      <3>2. ASSUME NEW retained \in BOOLEAN, NEW empty \in BOOLEAN, ApplyController(c, retained, empty)
            PROVE  ViewType'
        BY <3>1, <3>2 DEF ApplyController, TypeOK, ViewType
      <3>3. ASSUME NEW rawAlarm \in BOOLEAN, ApplyBanner(c, rawAlarm) PROVE ViewType'
        <4>1. banners' \subseteq banners \cup {Banner(TRUE, cb[c].session)} BY <3>3 DEF ApplyBanner
        <4>2. Banner(TRUE, cb[c].session) \in [native : BOOLEAN, via : Nat] BY <3>1 DEF Banner
        <4> QED BY <3>3, <4>1, <4>2 DEF ApplyBanner, TypeOK, ViewType
      <3>5. ASSUME NEW native_ \in BOOLEAN, ApplyNotification(c, native_) PROVE ViewType'
        <4>1. Banner(native_, cb[c].session) \in [native : BOOLEAN, via : Nat] BY <3>1 DEF Banner, GatewayTag
        <4> QED BY <3>5, <4>1 DEF ApplyNotification, TypeOK, ViewType
      <3>4. CASE ApplyDevice(c) BY <3>1, <3>4 DEF ApplyDevice, TypeOK, ViewType
      <3> QED BY <1>4, <3>2, <3>3, <3>4, <3>5 DEF Commit
    <2> QED BY <1>4, <2>1, <2>2, Unchanged DEF Commit, TypeOK
  <1>5. CASE Observe(c)
    <2>1. CallbackType' BY <1>5 DEF Observe, Return, TypeOK, CallbackType, CallbackPcs, NoCallback
    <2>2. PushType' BY <1>5 DEF Observe, observePush, TypeOK, PushType, CallbackType
    <2> QED BY <1>5, <2>1, <2>2, Unchanged DEF Observe, TypeOK
  <1> QED BY <1>1, <1>2, <1>3, <1>4, <1>5 DEF CallbackStep

LEMMA TypeController ==
  ASSUME TypeOK, ControllerAges \/ ControllerExpires
  PROVE  TypeOK'
  <1>1. ViewType'
    BY DEF TypeOK, ViewType, ControllerAges, ControllerExpires, clearOptionalTelemetry
  <1> QED BY <1>1, Unchanged DEF ControllerAges, ControllerExpires, TypeOK

\* The gateway client's goroutines.
LEMMA TypeGateway ==
  ASSUME TypeOK, PollBegin \/ PollStep \/ AckBegin \/ \E a \in Appliers : ApplyStep(a)
  PROVE  TypeOK'
  <1> USE DEF GwStep
  <1>1. CASE PollBegin
    <2>1. GatewayType' BY <1>1, SourceAssumption DEF PollBegin, TypeOK, GatewayType, GatewayPcs
    <2> QED BY <1>1, <2>1, Unchanged DEF PollBegin, TypeOK
  <1>2. ASSUME NEW ok \in BOOLEAN, PollResult(ok) PROVE TypeOK'
    <2>1. GatewayType' BY <1>2 DEF PollResult, AfterFetch, TypeOK, GatewayType, GatewayPcs
    <2> QED BY <1>2, <2>1, Unchanged DEF PollResult, TypeOK
  <1>3. CASE SetGatewayConnected
    <2>1. GatewayType' BY <1>3 DEF SetGatewayConnected, AfterStatus, TypeOK, GatewayType, GatewayPcs
    <2>2. ModeType' BY <1>3 DEF SetGatewayConnected, TypeOK, GatewayType, ModeType
    <2> QED BY <1>3, <2>1, <2>2, Unchanged DEF SetGatewayConnected, TypeOK
  <1>4. CASE StatusReset
    <2>1. GatewayType' BY <1>4 DEF StatusReset, TypeOK, GatewayType, GatewayPcs
    <2>2. PushType' BY <1>4 DEF StatusReset, resetPush, TypeOK, GatewayType, PushType
    <2> QED BY <1>4, <2>1, <2>2, Unchanged DEF StatusReset, TypeOK
  <1>5. CASE StatusClear
    <2>1. GatewayType' BY <1>5 DEF StatusClear, AfterStatus, TypeOK, GatewayType, GatewayPcs
    <2>2. ViewType' BY <1>5 DEF StatusClear, clearOptionalTelemetry, TypeOK, ViewType
    <2> QED BY <1>5, <2>1, <2>2, Unchanged DEF StatusClear, TypeOK
  <1>6. CASE PollCheck
    <2>1. GatewayType' BY <1>6 DEF PollCheck, TypeOK, GatewayType, GatewayPcs
    <2> QED BY <1>6, <2>1, Unchanged DEF PollCheck, TypeOK
  <1>7. CASE PollExit \/ AckBegin
    <2>1. GatewayType' BY <1>7 DEF PollExit, AckBegin, TypeOK, GatewayType, GatewayPcs
    <2> QED BY <1>7, <2>1, Unchanged DEF PollExit, AckBegin, TypeOK
  <1>8. ASSUME NEW a \in Appliers, ApplyStep(a) PROVE TypeOK'
    <2>1. CASE ApplyCapture(a)
      <3>1. GatewayType' BY <2>1 DEF ApplyCapture, TypeOK, PushType, GatewayType, GatewayPcs
      <3> QED BY <2>1, <3>1, Unchanged DEF ApplyCapture, TypeOK
    <2>2. CASE ApplyObserve(a)
      <3>1. GatewayType' BY <2>2 DEF ApplyObserve, TypeOK, GatewayType, GatewayPcs
      <3>2. PushType' BY <2>2 DEF ApplyObserve, observePush, GatewayTag, TypeOK, PushType
      <3> QED BY <2>2, <3>1, <3>2, Unchanged DEF ApplyObserve, TypeOK
    <2>3. CASE ApplyState(a)
      <3>1. GatewayType' BY <2>3 DEF ApplyState, TypeOK, GatewayType, GatewayPcs
      <3>2. (banners \in SUBSET [native : BOOLEAN, via : Nat] /\ native \in SUBSET Nat)'
        <4>1. banners' = banners \/ banners' \subseteq {Banner(n, GatewayTag) : n \in BOOLEAN}
          BY <2>3 DEF ApplyState, Follow
        <4>2. {Banner(n, GatewayTag) : n \in BOOLEAN} \subseteq [native : BOOLEAN, via : Nat]
          BY DEF Banner, GatewayTag
        <4>3. native' \in SUBSET Nat BY <2>3 DEF ApplyState, Follow, GatewayTag, TypeOK, ViewType
        <4> QED BY <4>1, <4>2, <4>3 DEF TypeOK, ViewType
      <3>3. (controller \in [available : BOOLEAN, live : BOOLEAN, via : Nat])'
        <4>1. controller' \in {controller, [available |-> TRUE, live |-> TRUE, via |-> GatewayTag],
                               NoController, [controller EXCEPT !.available = FALSE]}
          BY <2>3 DEF ApplyState, Follow
        <4>2. [available |-> TRUE, live |-> TRUE, via |-> GatewayTag]
                 \in [available : BOOLEAN, live : BOOLEAN, via : Nat] BY DEF GatewayTag
        <4>3. NoController \in [available : BOOLEAN, live : BOOLEAN, via : Nat] BY DEF NoController, GatewayTag
        <4>4. [controller EXCEPT !.available = FALSE] \in [available : BOOLEAN, live : BOOLEAN, via : Nat]
          BY DEF TypeOK, ViewType
        <4> QED BY <4>1, <4>2, <4>3, <4>4 DEF TypeOK, ViewType
      <3> QED BY <2>3, <3>1, <3>2, <3>3, Unchanged DEF ApplyState, TypeOK, ViewType
    <2> QED BY <1>8, <2>1, <2>2, <2>3 DEF ApplyStep
  <1> QED BY <1>1, <1>2, <1>3, <1>4, <1>5, <1>6, <1>7, <1>8 DEF PollStep

\* main.go: start-up, failover and the recovery probe.
LEMMA TypeStarter ==
  ASSUME TypeOK, EnableGatewayMode \/ StarterStep
  PROVE  TypeOK'
  <1> USE DEF StarterPcs
  <1>1. CASE EnableGatewayMode
    <2>1. PushType' BY <1>1, TypeReset DEF EnableGatewayMode
    <2>2. ModeType' BY <1>1 DEF EnableGatewayMode, TypeOK, ModeType
    <2>3. ViewType' BY <1>1, TypeBanners DEF EnableGatewayMode, TypeOK, ViewType
    <2> QED BY <1>1, <2>1, <2>2, <2>3, Unchanged DEF EnableGatewayMode, TypeOK
  <1>2. ASSUME NEW from, NEW to \in StarterPcs, StartMQTT(from, to) PROVE TypeOK'
    <2>1. SessionType' BY <1>2 DEF StartMQTT, CallSubscribe, TypeOK, SessionType, SubscribePcs
    <2> QED BY <1>2, <2>1, Unchanged DEF StartMQTT, TypeOK
  <1>3. ASSUME NEW from, NEW ok \in StarterPcs, NEW failed \in StarterPcs, MQTTStarted(from, ok, failed)
        PROVE  TypeOK'
    <2>1. SessionType' BY <1>3 DEF MQTTStarted, TypeOK, SessionType, SubscribePcs
    <2> QED BY <1>3, <2>1, Unchanged DEF MQTTStarted, TypeOK
  <1>4. ASSUME NEW from, NEW to \in StarterPcs, ClearForSwitch(from, to) PROVE TypeOK'
    <2>1. ViewType' BY <1>4 DEF ClearForSwitch, clearOptionalTelemetry, TypeOK, ViewType
    <2> QED BY <1>4, <2>1, Unchanged DEF ClearForSwitch, TypeOK
  <1>5. CASE StartGateway
    <2>1. ModeType' /\ GatewayType' BY <1>5 DEF StartGateway, TypeOK, ModeType, GatewayType, GatewayPcs
    <2> QED BY <1>5, <2>1, Unchanged DEF StartGateway, TypeOK
  <1>6. CASE StopGateway \/ JoinGateway \/ ClearPublisher
    <2>1. ModeType' /\ GatewayType'
      BY <1>6 DEF StopGateway, JoinGateway, ClearPublisher, TypeOK, ModeType, GatewayType, modeVars, gatewayVars
    <2> QED BY <1>6, <2>1, Unchanged DEF StopGateway, JoinGateway, ClearPublisher, TypeOK
  <1>7. CASE DisableGatewayMode
    <2>1. PushType' BY <1>7 DEF DisableGatewayMode, resetPush, TypeOK, PahoType, PushType
    <2>2. ModeType' /\ ViewType'
      BY <1>7, TypeBanners DEF DisableGatewayMode, TypeOK, ModeType, ViewType
    <2> QED BY <1>7, <2>1, <2>2, Unchanged DEF DisableGatewayMode, TypeOK
  <1> QED BY <1>1, <1>2, <1>3, <1>4, <1>5, <1>6, <1>7 DEF StarterStep

LEMMA TypeStep ==
  ASSUME TypeOK, [Next]_vars
  PROVE  TypeOK'
  <1>1. CASE Next
    BY <1>1, TypePaho, TypeSubscribe, TypeCallback, TypeController, TypeGateway, TypeStarter DEF Next
  <1>2. CASE UNCHANGED vars BY <1>2, Unchanged DEF vars, TypeOK
  <1> QED BY <1>1, <1>2

\* Every variable of mqtt.Client, gateway.Client and main.go keeps its type in
\* every reachable state.
THEOREM TypeCorrect == Spec => []TypeOK
  BY TypeInit, TypeStep, PTL DEF Spec

-----------------------------------------------------------------------------
(* The inductive invariant. *)

\* main.go's progress decides who owns the state and how far the gateway
\* client got: it starts after EnableGatewayMode and is joined before
\* DisableGatewayMode.
GatewayOff == \A a \in Appliers : gwPc[a] = "off"
StarterMode ==
  gatewayMode <=> starter \in {"enabled", "start", "probe", "probing", "stop", "join", "unpublish", "disable"}
GatewayLife ==
  /\ starter \in {"connect", "subscribe", "enabled", "start"} => GatewayOff
  /\ starter = "join" => cancelled
  /\ starter \in {"unpublish", "disable", "disabled"} => cancelled /\ Joined
  /\ starter = "serving" => GatewayOff \/ (cancelled /\ Joined)

Life == StarterMode /\ GatewayLife
Core == SourceFence /\ PushFollowsSource /\ BannersCurrent

-----------------------------------------------------------------------------
(* The gateway client's life. *)

PahoStep == BrokerUp \/ BrokerDown \/ LostHandler \/ OnConnect
SubscriberStep == \E w \in Subscribers : SubscribeStep(w)
MessageStep == \E c \in Callbacks : CallbackStep(c) \/ (\E kind \in Kinds : Route(c, kind))
FreshnessStep == ControllerAges \/ ControllerExpires
GatewayStep == PollBegin \/ PollStep \/ AckBegin \/ (\E a \in Appliers : ApplyStep(a))
MainStep == EnableGatewayMode \/ StarterStep

LEMMA NextSplit ==
  Next => PahoStep \/ SubscriberStep \/ MessageStep \/ FreshnessStep \/ GatewayStep \/ MainStep
  BY DEF Next, PahoStep, SubscriberStep, MessageStep, FreshnessStep, GatewayStep, MainStep

lifeVars == <<starter, gatewayMode, cancelled, gwPc>>

\* The MQTT side never touches main.go's progress or the gateway client.
LEMMA MqttFrame ==
  ASSUME PahoStep \/ SubscriberStep \/ MessageStep \/ FreshnessStep
  PROVE  UNCHANGED lifeVars
  <1> USE DEF lifeVars, modeVars, gatewayVars
  <1>1. CASE BrokerUp BY <1>1 DEF BrokerUp
  <1>2. CASE BrokerDown BY <1>2 DEF BrokerDown
  <1>3. CASE LostAdvance BY <1>3 DEF LostAdvance
  <1>4. CASE LostStopKeepalive BY <1>4 DEF LostStopKeepalive
  <1>5. CASE LostReset BY <1>5 DEF LostReset
  <1>6. CASE LostInvalidate BY <1>6 DEF LostInvalidate
  <1>7. CASE OnConnect BY <1>7 DEF OnConnect
  <1>8. ASSUME NEW w \in Subscribers, SubscribeStep(w) PROVE UNCHANGED lifeVars
    <2>1. CASE SubscribeLock(w) BY <2>1 DEF SubscribeLock
    <2>2. CASE SubscribeAdvance(w) BY <2>2 DEF SubscribeAdvance
    <2>3. CASE SubscribeReset(w) BY <2>3 DEF SubscribeReset
    <2>4. CASE SubscribeClear(w) BY <2>4 DEF SubscribeClear
    <2>5. CASE SubscribeBind(w) BY <2>5 DEF SubscribeBind
    <2>6. CASE SubscribeKeepalive(w) BY <2>6 DEF SubscribeKeepalive
    <2> QED BY <1>8, <2>1, <2>2, <2>3, <2>4, <2>5, <2>6 DEF SubscribeStep
  <1>9. ASSUME NEW c \in Callbacks, CallbackStep(c) \/ (\E kind \in Kinds : Route(c, kind))
        PROVE  UNCHANGED lifeVars
    <2>1. CASE Bind(c) \/ Fence(c) BY <2>1 DEF Bind, Fence
    <2>2. CASE Commit(c) \/ Observe(c) BY <2>2 DEF Commit, Observe
    <2>3. CASE \E kind \in Kinds : Route(c, kind) BY <2>3 DEF Route
    <2> QED BY <1>9, <2>1, <2>2, <2>3 DEF CallbackStep
  <1>10. CASE FreshnessStep BY <1>10 DEF FreshnessStep, ControllerAges, ControllerExpires
  <1> QED BY <1>1, <1>2, <1>3, <1>4, <1>5, <1>6, <1>7, <1>8, <1>9, <1>10
          DEF PahoStep, LostHandler, SubscriberStep, MessageStep

\* A goroutine of the gateway client that takes a step was started and has not
\* been joined.
Working ==
  \E a \in Appliers : gwPc[a] \notin {"off", "done"} /\ (a # "poll" /\ gwPc[a] = "idle" => ~cancelled)

LEMMA GatewayFrame ==
  ASSUME GatewayStep
  PROVE  Working /\ UNCHANGED <<starter, gatewayMode, cancelled>>
  <1> USE SourceAssumption DEF GwStep, Working, modeVars
  <1>1. CASE PollBegin BY <1>1 DEF PollBegin
  <1>2. CASE \E ok \in BOOLEAN : PollResult(ok) BY <1>2 DEF PollResult
  <1>3. CASE SetGatewayConnected BY <1>3 DEF SetGatewayConnected
  <1>4. CASE StatusReset \/ StatusClear BY <1>4 DEF StatusReset, StatusClear
  <1>5. CASE PollCheck \/ PollExit BY <1>5 DEF PollCheck, PollExit
  <1>6. CASE AckBegin BY <1>6 DEF AckBegin
  <1>7. ASSUME NEW a \in Appliers, ApplyStep(a) PROVE Working /\ UNCHANGED <<starter, gatewayMode, cancelled>>
    <2>1. CASE ApplyCapture(a) BY <2>1 DEF ApplyCapture
    <2>2. CASE ApplyObserve(a) BY <2>2 DEF ApplyObserve
    <2>3. CASE ApplyState(a) BY <2>3 DEF ApplyState
    <2> QED BY <1>7, <2>1, <2>2, <2>3 DEF ApplyStep
  <1> QED BY <1>1, <1>2, <1>3, <1>4, <1>5, <1>6, <1>7 DEF GatewayStep, PollStep

LEMMA WorkingMode ==
  ASSUME TypeOK, Life, Working
  PROVE  starter \in {"probe", "probing", "stop", "join"} /\ gatewayMode
  <1>1. ~GatewayOff /\ ~(cancelled /\ Joined)
    BY DEF Working, GatewayOff, Joined
  <1>2. starter \in StarterPcs BY DEF TypeOK
  <1> QED BY <1>1, <1>2 DEF Life, StarterMode, GatewayLife, StarterPcs

\* main.go enables the gateway mode before it starts the gateway client and
\* joins the client before it disables the mode.
LEMMA LifeStep ==
  ASSUME TypeOK, Life, [Next]_vars
  PROVE  Life'
  <1> USE DEF Life, StarterMode, GatewayLife
  <1>1. ASSUME UNCHANGED lifeVars PROVE Life'
    BY <1>1 DEF lifeVars, GatewayOff, Joined
  <1>2. CASE GatewayStep
    <2>1. starter \in {"probe", "probing", "stop", "join"} /\ gatewayMode BY <1>2, GatewayFrame, WorkingMode
    <2>2. UNCHANGED <<starter, gatewayMode, cancelled>> BY <1>2, GatewayFrame
    <2> QED BY <2>1, <2>2
  <1>3. CASE EnableGatewayMode
    BY <1>3 DEF EnableGatewayMode, gatewayVars, GatewayOff
  <1>4. CASE StartMQTT("connect", "subscribe") \/ StartMQTT("probe", "probing")
    BY <1>4 DEF StartMQTT, modeVars, gatewayVars, GatewayOff
  <1>5. CASE MQTTStarted("subscribe", "serving", "connect") \/ MQTTStarted("probing", "stop", "probe")
    BY <1>5 DEF MQTTStarted, modeVars, gatewayVars, GatewayOff
  <1>6. CASE ClearForSwitch("enabled", "start") \/ ClearForSwitch("disabled", "serving")
    BY <1>6 DEF ClearForSwitch, modeVars, gatewayVars, GatewayOff, Joined
  <1>7. CASE StartGateway \/ StopGateway
    BY <1>7 DEF StartGateway, StopGateway, modeVars
  <1>8. CASE JoinGateway \/ ClearPublisher
    BY <1>8 DEF JoinGateway, ClearPublisher, modeVars, gatewayVars, Joined
  <1>9. CASE DisableGatewayMode
    BY <1>9 DEF DisableGatewayMode, gatewayVars, Joined
  <1>10. CASE MainStep
    BY <1>3, <1>4, <1>5, <1>6, <1>7, <1>8, <1>9, <1>10 DEF MainStep, StarterStep
  <1>11. CASE UNCHANGED vars BY <1>1, <1>11 DEF vars, lifeVars, modeVars, gatewayVars
  <1> QED BY <1>1, <1>2, <1>10, <1>11, NextSplit, MqttFrame

-----------------------------------------------------------------------------
(* The source fence, push's source and the banners. *)

coreVars == <<gatewayMode, mqttSession, pushGeneration, pushSource, banners, cb>>

LEMMA CoreFrame ==
  ASSUME Core, UNCHANGED coreVars
  PROVE  Core'
  BY DEF Core, coreVars, SourceFence, HoldsSource, SourceCurrent, PushFollowsSource, BannersCurrent

\* Retirement waits for gatewayMu: nobody who passed the fence is overtaken.
LEMMA CoreRetire ==
  ASSUME TypeOK, Core, GatewayMuFree, UNCHANGED cb
  PROVE  SourceFence'
  BY DEF GatewayMuFree, SourceFence, HoldsSource

LEMMA CoreAdvance ==
  ASSUME TypeOK, Core, advanceMQTTSession, UNCHANGED <<gatewayMode, pushVars, cb>>
  PROVE  Core'
  <1>1. SourceFence' BY CoreRetire DEF advanceMQTTSession
  <1>2. PushFollowsSource' BY DEF Core, PushFollowsSource, pushVars
  <1>3. BannersCurrent'
    BY DEF advanceMQTTSession, resetNativeNotifications, Core, BannersCurrent, TypeOK, ModeType
  <1> QED BY <1>1, <1>2, <1>3 DEF Core

LEMMA CoreReset ==
  ASSUME TypeOK, Core, GatewayMuFree, NEW connected \in BOOLEAN, resetMQTTPush(connected),
         UNCHANGED <<gatewayMode, mqttSession, banners, cb>>
  PROVE  Core'
  <1>1. SourceFence' BY CoreRetire
  <1>2. PushFollowsSource'
    BY DEF resetMQTTPush, resetPush, Core, PushFollowsSource, pushVars
  <1>3. BannersCurrent' BY DEF Core, BannersCurrent
  <1> QED BY <1>1, <1>2, <1>3 DEF Core

LEMMA CorePaho ==
  ASSUME TypeOK, Core, PahoStep \/ SubscriberStep
  PROVE  Core'
  <1> USE DEF coreVars, modeVars, pushVars, sessionVars, viewVars
  <1>1. CASE BrokerUp BY <1>1, CoreFrame DEF BrokerUp
  <1>2. CASE BrokerDown BY <1>2, CoreFrame DEF BrokerDown
  <1>3. CASE LostAdvance BY <1>3, CoreAdvance DEF LostAdvance
  <1>4. CASE LostStopKeepalive BY <1>4, CoreFrame DEF LostStopKeepalive
  <1>5. CASE LostReset BY <1>5, CoreReset DEF LostReset
  <1>6. CASE LostInvalidate BY <1>6, CoreFrame DEF LostInvalidate
  <1>7. CASE OnConnect BY <1>7, CoreFrame DEF OnConnect
  <1>8. ASSUME NEW w \in Subscribers, SubscribeStep(w) PROVE Core'
    <2>1. CASE SubscribeLock(w) BY <2>1, CoreFrame DEF SubscribeLock
    <2>2. CASE SubscribeAdvance(w) BY <2>2, CoreAdvance DEF SubscribeAdvance
    <2>3. CASE SubscribeReset(w) BY <2>3, CoreReset DEF SubscribeReset
    <2>4. CASE SubscribeClear(w) BY <2>4, CoreFrame DEF SubscribeClear
    <2>5. CASE SubscribeBind(w) BY <2>5, CoreFrame DEF SubscribeBind
    <2>6. CASE SubscribeKeepalive(w) BY <2>6, CoreFrame DEF SubscribeKeepalive
    <2> QED BY <1>8, <2>1, <2>2, <2>3, <2>4, <2>5, <2>6 DEF SubscribeStep
  <1> QED BY <1>1, <1>2, <1>3, <1>4, <1>5, <1>6, <1>7, <1>8 DEF PahoStep, LostHandler, SubscriberStep

\* A callback passes the fence only while it is current, writes banners of the
\* current session only, and moves no other callback.
LEMMA CoreMessage ==
  ASSUME TypeOK, Core, MessageStep
  PROVE  Core'
  <1>0. PICK c \in Callbacks : CallbackStep(c) \/ (\E kind \in Kinds : Route(c, kind))
    BY DEF MessageStep
  <1>1. UNCHANGED <<gatewayMode, mqttSession, pushGeneration, pushSource>>
    <2>1. CASE Bind(c) \/ Fence(c) BY <2>1 DEF Bind, Fence, modeVars, sessionVars, pushVars
    <2>2. CASE Commit(c) BY <2>2 DEF Commit, modeVars, sessionVars, pushVars
    <2>3. CASE Observe(c) BY <2>3 DEF Observe, observePush, modeVars, sessionVars
    <2>4. CASE \E kind \in Kinds : Route(c, kind) BY <2>4 DEF Route, modeVars, sessionVars, pushVars
    <2> QED BY <1>0, <2>1, <2>2, <2>3, <2>4 DEF CallbackStep
  <1>2. PushFollowsSource' BY <1>1 DEF Core, PushFollowsSource
  <1>3. \A d \in Callbacks \ {c} : cb'[d] = cb[d]
    <2>1. CASE Bind(c) BY <2>1 DEF Bind, Return, TypeOK, CallbackType
    <2>2. CASE Fence(c) BY <2>2 DEF Fence, Return, Goto, TypeOK, CallbackType
    <2>3. CASE Commit(c)
      <3>1. Return(c) \/ Goto(c, "observe") BY <2>3 DEF Commit, ApplyController, ApplyNotification, ApplyBanner, ApplyDevice
      <3> QED BY <3>1 DEF Return, Goto, TypeOK, CallbackType
    <2>4. CASE Observe(c) BY <2>4 DEF Observe, Return, TypeOK, CallbackType
    <2>5. CASE \E kind \in Kinds : Route(c, kind) BY <2>5 DEF Route, TypeOK, CallbackType
    <2> QED BY <1>0, <2>1, <2>2, <2>3, <2>4, <2>5 DEF CallbackStep
  <1>4. HoldsSource(c)' => SourceCurrent(c)'
    <2> USE DEF HoldsSource, SourceCurrent
    <2>1. CASE Bind(c) BY <2>1 DEF Bind, Return, NoCallback, TypeOK, CallbackType
    <2>2. CASE Fence(c) BY <1>1, <2>2 DEF Fence, Return, Goto, NoCallback, TypeOK, CallbackType
    <2>3. CASE Commit(c)
      <3>1. Return(c) \/ Goto(c, "observe") BY <2>3 DEF Commit, ApplyController, ApplyNotification, ApplyBanner, ApplyDevice
      <3>2. SourceCurrent(c) BY <2>3 DEF Commit, Core, SourceFence
      <3> QED BY <1>1, <3>1, <3>2 DEF Return, Goto, NoCallback, TypeOK, CallbackType
    <2>4. CASE Observe(c) BY <2>4 DEF Observe, Return, NoCallback, TypeOK, CallbackType
    <2>5. CASE \E kind \in Kinds : Route(c, kind) BY <2>5 DEF Route, TypeOK, CallbackType
    <2> QED BY <1>0, <2>1, <2>2, <2>3, <2>4, <2>5 DEF CallbackStep
  <1>5. SourceFence'
    <2> SUFFICES ASSUME NEW d \in Callbacks, HoldsSource(d)' PROVE SourceCurrent(d)'
      BY DEF SourceFence
    <2>1. CASE d = c BY <1>4, <2>1
    <2>2. CASE d # c BY <1>1, <1>3, <2>2 DEF Core, SourceFence, HoldsSource, SourceCurrent
    <2> QED BY <2>1, <2>2
  <1>6. BannersCurrent'
    <2>1. CASE Bind(c) \/ Fence(c) BY <1>1, <2>1 DEF Bind, Fence, Core, BannersCurrent, viewVars
    <2>2. CASE Observe(c) BY <1>1, <2>2 DEF Observe, Core, BannersCurrent, viewVars
    <2>3. CASE \E kind \in Kinds : Route(c, kind) BY <1>1, <2>3 DEF Route, Core, BannersCurrent, viewVars
    <2>4. CASE Commit(c)
      <3>1. ~gatewayMode /\ cb[c].session = mqttSession
        BY <2>4 DEF Commit, Core, SourceFence, HoldsSource, SourceCurrent
      <3>2. \A b \in banners' : b \in banners \/ \E n \in BOOLEAN : b = Banner(n, cb[c].session)
        BY <2>4 DEF Commit, ApplyController, ApplyNotification, ApplyBanner, ApplyDevice
      <3>3. \A n \in BOOLEAN : Banner(n, cb[c].session).native => Banner(n, cb[c].session).via = cb[c].session
        BY DEF Banner
      <3> QED BY <1>1, <3>1, <3>2, <3>3 DEF Core, BannersCurrent
    <2> QED BY <1>0, <2>1, <2>2, <2>3, <2>4 DEF CallbackStep
  <1> QED BY <1>2, <1>5, <1>6 DEF Core

\* The gateway client works in gateway mode only, where no callback holds the
\* source: its unlocked resetPush and its banners disturb nobody.
LEMMA CoreGateway ==
  ASSUME TypeOK, Life, Core, GatewayStep
  PROVE  Core'
  <1> USE DEF coreVars, modeVars, pushVars, sessionVars, viewVars
  <1>0. gatewayMode BY GatewayFrame, WorkingMode
  <1>1. CASE PollBegin \/ AckBegin BY <1>1, CoreFrame DEF PollBegin, AckBegin
  <1>2. CASE \E ok \in BOOLEAN : PollResult(ok) BY <1>2, CoreFrame DEF PollResult
  <1>3. CASE SetGatewayConnected BY <1>3, CoreFrame DEF SetGatewayConnected
  <1>4. CASE StatusReset
    <2>1. UNCHANGED <<gatewayMode, mqttSession, banners, cb>> /\ pushSource' = "gateway"
      BY <1>4 DEF StatusReset, resetPush
    <2> QED BY <1>0, <2>1 DEF Core, SourceFence, HoldsSource, SourceCurrent, PushFollowsSource, BannersCurrent
  <1>5. CASE StatusClear BY <1>5, CoreFrame DEF StatusClear
  <1>6. CASE PollCheck \/ PollExit BY <1>6, CoreFrame DEF PollCheck, PollExit
  <1>7. ASSUME NEW a \in Appliers, ApplyStep(a) PROVE Core'
    <2>1. CASE ApplyCapture(a) BY <2>1, CoreFrame DEF ApplyCapture
    <2>2. CASE ApplyObserve(a) BY <2>2, CoreFrame DEF ApplyObserve, observePush
    <2>3. CASE ApplyState(a)
      <3>1. UNCHANGED <<gatewayMode, mqttSession, pushGeneration, pushSource, cb>>
        BY <2>3 DEF ApplyState
      <3>2. \A b \in banners' : b \in banners \/ \E n \in BOOLEAN : b = Banner(n, GatewayTag)
        BY <2>3 DEF ApplyState, Follow
      <3>3. \A n \in BOOLEAN : Banner(n, GatewayTag).via = GatewayTag BY DEF Banner
      <3>4. BannersCurrent' BY <1>0, <3>1, <3>2, <3>3 DEF Core, BannersCurrent
      <3> QED BY <3>1, <3>4 DEF Core, SourceFence, HoldsSource, SourceCurrent, PushFollowsSource
    <2> QED BY <1>7, <2>1, <2>2, <2>3 DEF ApplyStep
  <1> QED BY <1>1, <1>2, <1>3, <1>4, <1>5, <1>6, <1>7 DEF GatewayStep, PollStep

\* The mode switches take gatewayMu, reset push and clear the banners.
LEMMA CoreMain ==
  ASSUME TypeOK, Core, MainStep
  PROVE  Core'
  <1> USE DEF coreVars, modeVars, pushVars, sessionVars, viewVars
  <1>1. CASE EnableGatewayMode \/ DisableGatewayMode
    <2>1. SourceFence' BY <1>1, CoreRetire DEF EnableGatewayMode, DisableGatewayMode
    <2>2. PushFollowsSource'
      BY <1>1 DEF EnableGatewayMode, DisableGatewayMode, resetPush, PushFollowsSource
    <2>3. BannersCurrent'
      BY <1>1 DEF EnableGatewayMode, DisableGatewayMode, resetNativeNotifications, BannersCurrent
    <2> QED BY <2>1, <2>2, <2>3 DEF Core
  <1>2. CASE StartMQTT("connect", "subscribe") \/ StartMQTT("probe", "probing")
    BY <1>2, CoreFrame DEF StartMQTT
  <1>3. CASE MQTTStarted("subscribe", "serving", "connect") \/ MQTTStarted("probing", "stop", "probe")
    BY <1>3, CoreFrame DEF MQTTStarted
  <1>4. CASE ClearForSwitch("enabled", "start") \/ ClearForSwitch("disabled", "serving")
    BY <1>4, CoreFrame DEF ClearForSwitch
  <1>5. CASE StartGateway BY <1>5, CoreFrame DEF StartGateway
  <1>6. CASE StopGateway \/ JoinGateway BY <1>6, CoreFrame DEF StopGateway, JoinGateway
  <1>7. CASE ClearPublisher BY <1>7, CoreFrame DEF ClearPublisher
  <1> QED BY <1>1, <1>2, <1>3, <1>4, <1>5, <1>6, <1>7 DEF MainStep, StarterStep

\* The inductive invariant of the ownership protocol: types, the life of the
\* starter and of the gateway goroutines, the fence, push and the banners.
THEOREM CoreInvariant == Spec => [](TypeOK /\ Life /\ Core)
  <1> DEFINE IInv == TypeOK /\ Life /\ Core
  <1>1. Init => IInv
    <2> SUFFICES ASSUME Init PROVE IInv OBVIOUS
    <2>1. Life BY DEF Init, Life, StarterMode, GatewayLife, GatewayOff
    <2>2. SourceFence BY DEF Init, SourceFence, HoldsSource, NoCallback
    <2>3. PushFollowsSource /\ BannersCurrent BY DEF Init, PushFollowsSource, BannersCurrent
    <2> QED BY TypeInit, <2>1, <2>2, <2>3 DEF Core
  <1>2. IInv /\ [Next]_vars => IInv'
    <2> SUFFICES ASSUME IInv, [Next]_vars PROVE Core'
      BY LifeStep, TypeStep
    <2>1. CASE FreshnessStep
      BY <2>1, CoreFrame DEF FreshnessStep, ControllerAges, ControllerExpires, coreVars, modeVars, pushVars,
                             sessionVars
    <2>2. CASE UNCHANGED vars BY <2>2, CoreFrame DEF vars, coreVars, modeVars, pushVars, sessionVars, viewVars
    <2> QED BY <2>1, <2>2, NextSplit, CorePaho, CoreMessage, CoreGateway, CoreMain
  <1> QED BY <1>1, <1>2, PTL DEF Spec

\* For any number of callbacks in flight, losses and polls: a callback that
\* passed the fence is current until its push observation has returned.
THEOREM FenceHolds == Spec => []SourceFence
  <1>1. Core => SourceFence BY DEF Core
  <1> QED BY <1>1, CoreInvariant, PTL

\* The gateway client works only while the gateway owns the state: the join in
\* gwClient.Stop is what makes ApplyState's missing mode check safe.
THEOREM GatewayHolds == Spec => []GatewayRetired
  <1>1. TypeOK /\ Life => GatewayRetired
    <2> SUFFICES ASSUME TypeOK, Life, NEW a \in Appliers, gwPc[a] \notin {"off", "idle", "done"}
                 PROVE  gatewayMode
      BY DEF GatewayRetired
    <2>1. Working BY DEF Working
    <2> QED BY <2>1, WorkingMode
  <1> QED BY <1>1, CoreInvariant, PTL

\* Push listens to the owner of the state, although SetGatewayConnected resets
\* push outside gatewayMu.
THEOREM PushSourceHolds == Spec => []PushFollowsSource
  <1>1. Core => PushFollowsSource BY DEF Core
  <1> QED BY <1>1, CoreInvariant, PTL

\* No native banner of a retired session or source is ever on display.
THEOREM BannersHold == Spec => []BannersCurrent
  <1>1. Core => BannersCurrent BY DEF Core
  <1> QED BY <1>1, CoreInvariant, PTL
-----------------------------------------------------------------------------
(* Sessions: nothing is ahead of mqttSession. *)

\* Nothing carries a session that has not been started yet.
SessionOrder ==
  /\ lostSession <= mqttSession /\ subscription <= mqttSession
  /\ \A w \in Subscribers : subscribeSession[w] <= mqttSession
  /\ \A c \in Callbacks : cb[c].session <= mqttSession /\ (cb[c].pc # "idle" => cb[c].session # 0)

orderVars == <<mqttSession, lostSession, subscription, subscribeSession, cb>>

LEMMA OrderFrame == ASSUME SessionOrder, UNCHANGED orderVars PROVE SessionOrder'
  BY DEF SessionOrder, orderVars

\* advanceMQTTSession only moves the newest session ahead.
LEMMA OrderPaho ==
  ASSUME TypeOK, SessionOrder, PahoStep
  PROVE  SessionOrder'
  <1> USE DEF orderVars, sessionVars
  <1>1. CASE BrokerUp BY <1>1, OrderFrame DEF BrokerUp
  <1>2. CASE BrokerDown
    <2>1. subscription' = 0 /\ UNCHANGED <<lostSession, mqttSession, subscribeSession, cb>> BY <1>2 DEF BrokerDown
    <2> QED BY <2>1 DEF SessionOrder, TypeOK, SessionType
  <1>3. CASE LostAdvance
    <2>1. lostSession' = mqttSession' /\ mqttSession' = mqttSession + 1 /\ UNCHANGED <<subscription, subscribeSession, cb>>
      BY <1>3 DEF LostAdvance, advanceMQTTSession
    <2> QED BY <2>1 DEF SessionOrder, TypeOK, SessionType, PahoType, CallbackType
  <1>4. CASE LostStopKeepalive BY <1>4, OrderFrame DEF LostStopKeepalive
  <1>5. CASE LostReset BY <1>5, OrderFrame DEF LostReset
  <1>6. CASE LostInvalidate BY <1>6, OrderFrame DEF LostInvalidate
  <1>7. CASE OnConnect BY <1>7, OrderFrame DEF OnConnect, pahoVars
  <1> QED BY <1>1, <1>2, <1>3, <1>4, <1>5, <1>6, <1>7 DEF PahoStep, LostHandler

LEMMA OrderSubscribe ==
  ASSUME TypeOK, SessionOrder, NEW w \in Subscribers, SubscribeStep(w)
  PROVE  SessionOrder'
  <1> USE DEF orderVars, sessionVars, pahoVars
  <1>0. mqttSession \in Nat BY DEF TypeOK, SessionType
  <1>1. ASSUME UNCHANGED <<mqttSession, lostSession, subscription, cb>>,
               subscribeSession' = subscribeSession \/ subscribeSession' = [subscribeSession EXCEPT ![w] = 0]
        PROVE  SessionOrder'
    BY <1>0, <1>1 DEF SessionOrder, TypeOK, SessionType
  <1>2. CASE SubscribeLock(w) BY <1>1, <1>2 DEF SubscribeLock, ReturnSubscribe
  <1>3. CASE SubscribeAdvance(w)
    <2>1. mqttSession' = mqttSession + 1 /\ UNCHANGED <<subscription, lostSession, cb>>
          /\ subscribeSession' = [subscribeSession EXCEPT ![w] = mqttSession']
      BY <1>3 DEF SubscribeAdvance, advanceMQTTSession
    <2> QED BY <1>0, <2>1 DEF SessionOrder, TypeOK, SessionType, PahoType, CallbackType
  <1>4. CASE SubscribeReset(w) BY <1>1, <1>4 DEF SubscribeReset
  <1>5. CASE SubscribeClear(w) BY <1>1, <1>5 DEF SubscribeClear
  <1>6. CASE SubscribeBind(w)
    <2>1. UNCHANGED <<mqttSession, lostSession, cb>> BY <1>6 DEF SubscribeBind
    <2>2. subscription' \in {subscription, subscribeSession[w]} BY <1>6 DEF SubscribeBind
    <2>3. subscribeSession' = subscribeSession \/ subscribeSession' = [subscribeSession EXCEPT ![w] = 0]
      BY <1>6 DEF SubscribeBind, ReturnSubscribe
    <2> QED BY <1>0, <2>1, <2>2, <2>3 DEF SessionOrder, TypeOK, SessionType
  <1>7. CASE SubscribeKeepalive(w) BY <1>1, <1>7 DEF SubscribeKeepalive, ReturnSubscribe
  <1> QED BY <1>2, <1>3, <1>4, <1>5, <1>6, <1>7 DEF SubscribeStep

LEMMA OrderMessage ==
  ASSUME TypeOK, SessionOrder, NEW c \in Callbacks, CallbackStep(c) \/ (\E kind \in Kinds : Route(c, kind))
  PROVE  SessionOrder'
  <1>0. mqttSession \in Nat BY DEF TypeOK, SessionType
  <1>1. UNCHANGED <<mqttSession, lostSession, subscription, subscribeSession>>
    <2> USE DEF pahoVars, sessionVars
    <2>1. CASE Bind(c) \/ Fence(c) BY <2>1 DEF Bind, Fence
    <2>2. CASE Commit(c) BY <2>2 DEF Commit
    <2>3. CASE Observe(c) BY <2>3 DEF Observe
    <2>4. CASE \E kind \in Kinds : Route(c, kind) BY <2>4 DEF Route
    <2> QED BY <2>1, <2>2, <2>3, <2>4 DEF CallbackStep
  <1>2. \A d \in Callbacks : cb'[d].session <= mqttSession /\ (cb'[d].pc # "idle" => cb'[d].session # 0)
    <2>1. CASE Bind(c)
      BY <1>0, <2>1 DEF Bind, Return, NoCallback, SessionOrder, TypeOK, CallbackType
    <2>2. CASE Fence(c)
      BY <1>0, <2>2 DEF Fence, Return, Goto, NoCallback, SessionOrder, TypeOK, CallbackType
    <2>3. CASE Commit(c)
      <3>1. Return(c) \/ Goto(c, "observe") BY <2>3 DEF Commit, ApplyController, ApplyNotification, ApplyBanner, ApplyDevice
      <3> QED BY <1>0, <2>3, <3>1 DEF Commit, Return, Goto, NoCallback, SessionOrder, TypeOK, CallbackType
    <2>4. CASE Observe(c)
      BY <1>0, <2>4 DEF Observe, Return, NoCallback, SessionOrder, TypeOK, CallbackType
    <2>5. CASE \E kind \in Kinds : Route(c, kind)
      BY <1>0, <2>5 DEF Route, SessionOrder, TypeOK, CallbackType
    <2> QED BY <2>1, <2>2, <2>3, <2>4, <2>5 DEF CallbackStep
  <1> QED BY <1>1, <1>2 DEF SessionOrder

LEMMA OrderStep ==
  ASSUME TypeOK, SessionOrder, [Next]_vars
  PROVE  SessionOrder'
  <1> USE DEF orderVars, sessionVars, pahoVars
  <1>1. CASE FreshnessStep BY <1>1, OrderFrame DEF FreshnessStep, ControllerAges, ControllerExpires
  <1>2. CASE GatewayStep
    <2>1. CASE PollBegin \/ AckBegin BY <2>1, OrderFrame DEF PollBegin, AckBegin
    <2>2. CASE \E ok \in BOOLEAN : PollResult(ok) BY <2>2, OrderFrame DEF PollResult
    <2>3. CASE SetGatewayConnected BY <2>3, OrderFrame DEF SetGatewayConnected
    <2>4. CASE StatusReset \/ StatusClear BY <2>4, OrderFrame DEF StatusReset, StatusClear
    <2>5. CASE PollCheck \/ PollExit BY <2>5, OrderFrame DEF PollCheck, PollExit
    <2>6. ASSUME NEW a \in Appliers, ApplyStep(a) PROVE SessionOrder'
      BY <2>6, OrderFrame DEF ApplyStep, ApplyCapture, ApplyObserve, ApplyState
    <2> QED BY <1>2, <2>1, <2>2, <2>3, <2>4, <2>5, <2>6 DEF GatewayStep, PollStep
  <1>3. CASE MainStep
    <2>1. CASE EnableGatewayMode \/ DisableGatewayMode
      BY <2>1, OrderFrame DEF EnableGatewayMode, DisableGatewayMode
    <2>2. CASE StartMQTT("connect", "subscribe") \/ StartMQTT("probe", "probing")
      BY <2>2, OrderFrame DEF StartMQTT
    <2>3. CASE MQTTStarted("subscribe", "serving", "connect") \/ MQTTStarted("probing", "stop", "probe")
      BY <2>3, OrderFrame DEF MQTTStarted
    <2>4. CASE ClearForSwitch("enabled", "start") \/ ClearForSwitch("disabled", "serving")
      BY <2>4, OrderFrame DEF ClearForSwitch
    <2>5. CASE StartGateway BY <2>5, OrderFrame DEF StartGateway
    <2>6. CASE StopGateway \/ JoinGateway \/ ClearPublisher
      BY <2>6, OrderFrame DEF StopGateway, JoinGateway, ClearPublisher
    <2> QED BY <1>3, <2>1, <2>2, <2>3, <2>4, <2>5, <2>6 DEF MainStep, StarterStep
  <1>4. CASE UNCHANGED vars BY <1>4, OrderFrame DEF vars
  <1> QED BY <1>1, <1>2, <1>3, <1>4, NextSplit, OrderPaho, OrderSubscribe, OrderMessage DEF SubscriberStep, MessageStep

-----------------------------------------------------------------------------
(* What push has seen in this generation. *)

\* Callbacks of session n may exist, now or later: push was reset for it.
Delivering(n) ==
  /\ n # 0
  /\ \/ subscription = n
     \/ \E c \in Callbacks : cb[c].session = n
     \/ \E w \in Subscribers : subscribePc[w] \in {"clear", "bind", "keepalive"} /\ subscribeSession[w] = n

\* While the current session can deliver, push saw nothing but that session.
SeenCurrent ==
  /\ gatewayMode => pushSeen \subseteq {GatewayTag}
  /\ ~gatewayMode /\ Delivering(mqttSession) => pushSeen \subseteq {mqttSession}
  /\ \A x, y \in pushSeen : x = y

seenVars == <<gatewayMode, mqttSession, pushSeen, subscription, subscribePc, subscribeSession, cb>>

LEMMA SeenFrame == ASSUME SeenCurrent, UNCHANGED seenVars PROVE SeenCurrent'
  BY DEF SeenCurrent, Delivering, seenVars

\* A step that lets no new callback come keeps it, and so does a new generation.
LEMMA SeenQuiet ==
  ASSUME SeenCurrent, UNCHANGED <<gatewayMode, mqttSession, pushSeen>>,
         Delivering(mqttSession)' => Delivering(mqttSession)
  PROVE  SeenCurrent'
  BY DEF SeenCurrent

LEMMA SeenFresh == ASSUME pushSeen' = {} PROVE SeenCurrent'
  BY DEF SeenCurrent

\* Nobody can deliver for a session that starts only now.
LEMMA SeenAdvance ==
  ASSUME TypeOK, SessionOrder, SeenCurrent, advanceMQTTSession, UNCHANGED <<gatewayMode, pushSeen, subscription, cb>>,
         \A w \in Subscribers : subscribePc'[w] \in {"clear", "bind", "keepalive"} => subscribeSession'[w] <= mqttSession
  PROVE  SeenCurrent'
  <1>1. mqttSession \in Nat /\ mqttSession' = mqttSession + 1 BY DEF TypeOK, SessionType, advanceMQTTSession
  <1>2. subscription' # mqttSession' BY <1>1 DEF SessionOrder, TypeOK, PahoType
  <1>3. \A c \in Callbacks : cb'[c].session # mqttSession' BY <1>1 DEF SessionOrder, TypeOK, CallbackType
  <1>4. \A w \in Subscribers :
          subscribePc'[w] \in {"clear", "bind", "keepalive"} => subscribeSession'[w] # mqttSession'
    BY <1>1
  <1>5. ~Delivering(mqttSession)' BY <1>2, <1>3, <1>4 DEF Delivering
  <1> QED BY <1>5 DEF SeenCurrent

LEMMA SeenPaho ==
  ASSUME TypeOK, SessionOrder, SeenCurrent, PahoStep
  PROVE  SeenCurrent'
  <1> USE DEF seenVars, sessionVars, modeVars, pushVars, pahoVars
  <1>1. CASE BrokerUp
    <2>1. UNCHANGED <<gatewayMode, mqttSession, pushSeen, subscription, subscribeSession, cb>>
          /\ subscribePc' = [subscribePc EXCEPT !["handler"] = "onconnect"]
      BY <1>1 DEF BrokerUp
    <2>2. Delivering(mqttSession)' => Delivering(mqttSession)
      BY <2>1 DEF Delivering, TypeOK, SessionType
    <2> QED BY <2>1, <2>2, SeenQuiet
  <1>2. CASE BrokerDown
    <2>1. UNCHANGED <<gatewayMode, mqttSession, pushSeen, subscribePc, subscribeSession, cb>> /\ subscription' = 0
      BY <1>2 DEF BrokerDown
    <2>2. Delivering(mqttSession)' => Delivering(mqttSession) BY <2>1 DEF Delivering
    <2> QED BY <2>1, <2>2, SeenQuiet
  <1>3. CASE LostAdvance
    <2>1. advanceMQTTSession /\ UNCHANGED <<gatewayMode, pushSeen, subscription, cb, subscribePc, subscribeSession>>
      BY <1>3 DEF LostAdvance
    <2> QED BY <2>1, SeenAdvance DEF SessionOrder
  <1>4. CASE LostStopKeepalive BY <1>4, SeenFrame DEF LostStopKeepalive
  <1>5. CASE LostReset BY <1>5, SeenFrame, SeenFresh DEF LostReset, resetMQTTPush, resetPush
  <1>6. CASE LostInvalidate BY <1>6, SeenFrame DEF LostInvalidate
  <1>7. CASE OnConnect
    <2>1. UNCHANGED <<gatewayMode, mqttSession, pushSeen, subscription, subscribeSession, cb>>
          /\ (subscribePc' = [subscribePc EXCEPT !["handler"] = "lock"]
                \/ subscribePc' = [subscribePc EXCEPT !["handler"] = "idle"])
      BY <1>7 DEF OnConnect, CallSubscribe
    <2>2. Delivering(mqttSession)' => Delivering(mqttSession)
      BY <2>1 DEF Delivering, TypeOK, SessionType
    <2> QED BY <2>1, <2>2, SeenQuiet
  <1> QED BY <1>1, <1>2, <1>3, <1>4, <1>5, <1>6, <1>7 DEF PahoStep, LostHandler

\* Subscribe resets push before its callbacks are bound.
LEMMA SeenSubscribe ==
  ASSUME TypeOK, SessionOrder, SeenCurrent, NEW w \in Subscribers, SubscribeStep(w)
  PROVE  SeenCurrent'
  <1> USE DEF seenVars, sessionVars, modeVars, pushVars, pahoVars
  <1>1. ASSUME UNCHANGED <<gatewayMode, mqttSession, pushSeen, subscription, cb>>, ReturnSubscribe(w, "ok") \/ ReturnSubscribe(w, "error")
        PROVE  SeenCurrent'
    <2>1. \A v \in Subscribers :
            subscribePc'[v] \in {"clear", "bind", "keepalive"}
              => v # w /\ subscribePc'[v] = subscribePc[v] /\ subscribeSession'[v] = subscribeSession[v]
      BY <1>1 DEF ReturnSubscribe, TypeOK, SessionType
    <2>2. Delivering(mqttSession)' => Delivering(mqttSession) BY <1>1, <2>1 DEF Delivering
    <2> QED BY <1>1, <2>2, SeenQuiet
  <1>2. CASE SubscribeLock(w)
    <2>1. CASE broker
      <3>1. UNCHANGED <<gatewayMode, mqttSession, pushSeen, subscription, subscribeSession, cb>>
            /\ subscribePc' = [subscribePc EXCEPT ![w] = "advance"]
        BY <1>2, <2>1 DEF SubscribeLock
      <3>2. Delivering(mqttSession)' => Delivering(mqttSession)
        BY <3>1 DEF Delivering, TypeOK, SessionType
      <3> QED BY <3>1, <3>2, SeenQuiet
    <2>2. CASE ~broker BY <1>1, <1>2, <2>2 DEF SubscribeLock
    <2> QED BY <2>1, <2>2
  <1>3. CASE SubscribeAdvance(w)
    <2>1. advanceMQTTSession /\ UNCHANGED <<gatewayMode, pushSeen, subscription, cb>> BY <1>3 DEF SubscribeAdvance
    <2>2. \A v \in Subscribers : subscribePc'[v] \in {"clear", "bind", "keepalive"} => subscribeSession'[v] <= mqttSession
      BY <1>3 DEF SubscribeAdvance, SessionOrder, TypeOK, SessionType
    <2> QED BY <2>1, <2>2, SeenAdvance
  <1>4. CASE SubscribeReset(w)
    <2>1. CASE gatewayMode
      <3>1. UNCHANGED <<gatewayMode, pushSeen>> BY <1>4, <2>1 DEF SubscribeReset, resetMQTTPush
      <3> QED BY <2>1, <3>1 DEF SeenCurrent
    <2>2. CASE ~gatewayMode BY <1>4, <2>2, SeenFresh DEF SubscribeReset, resetMQTTPush, resetPush
    <2> QED BY <2>1, <2>2
  <1>5. CASE SubscribeClear(w)
    <2>1. UNCHANGED <<gatewayMode, mqttSession, pushSeen, subscription, subscribeSession, cb>>
          /\ subscribePc[w] = "clear" /\ subscribePc' = [subscribePc EXCEPT ![w] = "bind"]
      BY <1>5 DEF SubscribeClear
    <2>2. Delivering(mqttSession)' => Delivering(mqttSession)
      BY <2>1 DEF Delivering, TypeOK, SessionType
    <2> QED BY <2>1, <2>2, SeenQuiet
  <1>6. CASE SubscribeBind(w)
    <2>1. /\ UNCHANGED <<gatewayMode, mqttSession, pushSeen, cb>> /\ subscribePc[w] = "bind"
          /\ subscription' \in {subscription, subscribeSession[w]}
      BY <1>6 DEF SubscribeBind
    <2>2. /\ \A v \in Subscribers : v # w => subscribePc'[v] = subscribePc[v] /\ subscribeSession'[v] = subscribeSession[v]
          /\ subscribePc'[w] = "keepalive" => subscribeSession'[w] = subscribeSession[w]
          /\ subscribePc'[w] \in {"keepalive", "idle", "error"}
      BY <1>6 DEF SubscribeBind, ReturnSubscribe, TypeOK, SessionType
    <2>3. Delivering(mqttSession)' => Delivering(mqttSession) BY <2>1, <2>2 DEF Delivering
    <2> QED BY <2>1, <2>3, SeenQuiet
  <1>7. CASE SubscribeKeepalive(w) BY <1>1, <1>7 DEF SubscribeKeepalive
  <1> QED BY <1>2, <1>3, <1>4, <1>5, <1>6, <1>7 DEF SubscribeStep

\* A callback that observes is of the current session, which is delivering.
LEMMA SeenMessage ==
  ASSUME TypeOK, SessionOrder, SourceFence, SeenCurrent, NEW c \in Callbacks,
         CallbackStep(c) \/ (\E kind \in Kinds : Route(c, kind))
  PROVE  SeenCurrent'
  <1> USE DEF sessionVars, modeVars, pushVars, pahoVars
  <1>1. ASSUME UNCHANGED <<gatewayMode, mqttSession, subscription, subscribePc, subscribeSession, pushSeen>>,
               \A d \in Callbacks : cb'[d].session \in {0, cb[d].session, subscription}
        PROVE  SeenCurrent'
    <2>1. Delivering(mqttSession)' => Delivering(mqttSession) BY <1>1 DEF Delivering
    <2> QED BY <1>1, <2>1, SeenQuiet
  <1>2. CASE Bind(c)
    <2>1. \A d \in Callbacks : cb'[d].session \in {0, cb[d].session, subscription}
      BY <1>2 DEF Bind, Return, NoCallback, TypeOK, CallbackType
    <2> QED BY <1>1, <1>2, <2>1 DEF Bind
  <1>3. CASE Fence(c)
    <2>1. \A d \in Callbacks : cb'[d].session \in {0, cb[d].session, subscription}
      BY <1>3 DEF Fence, Return, Goto, NoCallback, TypeOK, CallbackType
    <2> QED BY <1>1, <1>3, <2>1 DEF Fence
  <1>4. CASE Commit(c)
    <2>1. Return(c) \/ Goto(c, "observe") BY <1>4 DEF Commit, ApplyController, ApplyNotification, ApplyBanner, ApplyDevice
    <2>2. \A d \in Callbacks : cb'[d].session \in {0, cb[d].session, subscription}
      BY <2>1 DEF Return, Goto, NoCallback, TypeOK, CallbackType
    <2> QED BY <1>1, <1>4, <2>2 DEF Commit
  <1>5. CASE \E kind \in Kinds : Route(c, kind)
    <2>1. \A d \in Callbacks : cb'[d].session \in {0, cb[d].session, subscription}
      BY <1>5 DEF Route, TypeOK, CallbackType
    <2> QED BY <1>1, <1>5, <2>1 DEF Route
  <1>6. CASE Observe(c)
    <2>1. ~gatewayMode /\ cb[c].session = mqttSession
      BY <1>6 DEF Observe, SourceFence, HoldsSource, SourceCurrent
    <2>2. mqttSession # 0 BY <1>6, <2>1 DEF Observe, SessionOrder
    <2>3. Delivering(mqttSession) BY <2>1, <2>2 DEF Delivering
    <2>4. pushSeen \subseteq {mqttSession} BY <2>1, <2>3 DEF SeenCurrent
    <2>5. pushSeen' \subseteq {mqttSession} BY <1>6, <2>1, <2>4 DEF Observe, observePush
    <2>6. UNCHANGED <<gatewayMode, mqttSession>> BY <1>6 DEF Observe
    <2> QED BY <2>1, <2>5, <2>6 DEF SeenCurrent
  <1> QED BY <1>2, <1>3, <1>4, <1>5, <1>6 DEF CallbackStep

\* In gateway mode only the gateway is observed.
LEMMA SeenGateway ==
  ASSUME TypeOK, Life, SeenCurrent, GatewayStep
  PROVE  SeenCurrent'
  <1> USE DEF seenVars, sessionVars, modeVars, pushVars, pahoVars
  <1>1. CASE PollBegin \/ AckBegin BY <1>1, SeenFrame DEF PollBegin, AckBegin
  <1>2. CASE \E ok \in BOOLEAN : PollResult(ok) BY <1>2, SeenFrame DEF PollResult
  <1>3. CASE SetGatewayConnected BY <1>3, SeenFrame DEF SetGatewayConnected
  <1>4. CASE StatusReset BY <1>4, SeenFresh DEF StatusReset, resetPush
  <1>5. CASE StatusClear BY <1>5, SeenFrame DEF StatusClear
  <1>6. CASE PollCheck \/ PollExit BY <1>6, SeenFrame DEF PollCheck, PollExit
  <1>7. ASSUME NEW a \in Appliers, ApplyStep(a) PROVE SeenCurrent'
    <2>1. CASE ApplyCapture(a) BY <2>1, SeenFrame DEF ApplyCapture
    <2>2. CASE ApplyObserve(a)
      <3>1. gatewayMode BY GatewayFrame, WorkingMode
      <3>2. pushSeen' \subseteq {GatewayTag}
        BY <2>2, <3>1 DEF ApplyObserve, observePush, SeenCurrent
      <3>3. gatewayMode' = gatewayMode BY <2>2 DEF ApplyObserve
      <3> QED BY <3>1, <3>2, <3>3 DEF SeenCurrent
    <2>3. CASE ApplyState(a) BY <2>3, SeenFrame DEF ApplyState
    <2> QED BY <1>7, <2>1, <2>2, <2>3 DEF ApplyStep
  <1> QED BY <1>1, <1>2, <1>3, <1>4, <1>5, <1>6, <1>7 DEF GatewayStep, PollStep

LEMMA SeenMain ==
  ASSUME TypeOK, SeenCurrent, MainStep
  PROVE  SeenCurrent'
  <1> USE DEF seenVars, sessionVars, modeVars, pushVars, pahoVars
  <1>1. CASE EnableGatewayMode \/ DisableGatewayMode
    BY <1>1, SeenFresh DEF EnableGatewayMode, DisableGatewayMode, resetPush
  <1>2. ASSUME UNCHANGED <<gatewayMode, mqttSession, pushSeen, subscription, subscribeSession, cb>>,
               subscribePc' = [subscribePc EXCEPT !["starter"] = "lock"]
                 \/ subscribePc' = [subscribePc EXCEPT !["starter"] = "idle"]
        PROVE  SeenCurrent'
    <2>1. Delivering(mqttSession)' => Delivering(mqttSession)
      BY <1>2 DEF Delivering, TypeOK, SessionType
    <2> QED BY <1>2, <2>1, SeenQuiet
  <1>3. CASE StartMQTT("connect", "subscribe") \/ StartMQTT("probe", "probing")
    BY <1>2, <1>3 DEF StartMQTT, CallSubscribe
  <1>4. CASE MQTTStarted("subscribe", "serving", "connect") \/ MQTTStarted("probing", "stop", "probe")
    BY <1>2, <1>4 DEF MQTTStarted
  <1>5. CASE ClearForSwitch("enabled", "start") \/ ClearForSwitch("disabled", "serving")
    BY <1>5, SeenFrame DEF ClearForSwitch
  <1>6. CASE StartGateway BY <1>6, SeenFrame DEF StartGateway
  <1>7. CASE StopGateway \/ JoinGateway \/ ClearPublisher
    BY <1>7, SeenFrame DEF StopGateway, JoinGateway, ClearPublisher
  <1> QED BY <1>1, <1>3, <1>4, <1>5, <1>6, <1>7 DEF MainStep, StarterStep

-----------------------------------------------------------------------------
(* Whose controller frame can authorise a command. *)

ControllerOwner ==
  /\ gatewayMode /\ starter # "enabled" /\ ControllerReady => controller.via = GatewayTag
  /\ ~gatewayMode /\ starter # "disabled" /\ lostPc = "idle" /\ ControllerReady
       => controller.via # GatewayTag /\ controller.via >= lostSession

ownerVars == <<gatewayMode, starter, lostPc, lostSession, controller>>

LEMMA OwnerFrame == ASSUME ControllerOwner, UNCHANGED ownerVars PROVE ControllerOwner'
  BY DEF ControllerOwner, ControllerReady, ownerVars

LEMMA OwnerOff == ASSUME ~ControllerReady' PROVE ControllerOwner'
  BY DEF ControllerOwner

\* While the lost handler runs, nothing is claimed of an MQTT frame.
LEMMA OwnerLost ==
  ASSUME ControllerOwner, UNCHANGED <<gatewayMode, starter, controller>>, lostPc' # "idle"
  PROVE  ControllerOwner'
  BY DEF ControllerOwner, ControllerReady

LEMMA Revoked ==
  ASSUME TypeOK, RevokeController \/ clearOptionalTelemetry
  PROVE  ~ControllerReady'
  BY DEF RevokeController, clearOptionalTelemetry, ControllerReady, TypeOK, ViewType

LEMMA OwnerPaho ==
  ASSUME TypeOK, ControllerOwner, PahoStep \/ SubscriberStep
  PROVE  ControllerOwner'
  <1> USE DEF ownerVars, modeVars, pahoVars, viewVars
  <1>1. CASE BrokerUp BY <1>1, OwnerFrame DEF BrokerUp
  <1>2. CASE BrokerDown BY <1>2, OwnerLost DEF BrokerDown
  <1>3. CASE LostAdvance BY <1>3, OwnerLost DEF LostAdvance
  <1>4. CASE LostStopKeepalive BY <1>4, OwnerLost DEF LostStopKeepalive
  <1>5. CASE LostReset BY <1>5, OwnerLost DEF LostReset
  <1>6. CASE LostInvalidate BY <1>6, Revoked, OwnerOff DEF LostInvalidate
  <1>7. CASE OnConnect BY <1>7, OwnerFrame DEF OnConnect
  <1>8. ASSUME NEW w \in Subscribers, SubscribeStep(w) PROVE ControllerOwner'
    <2>1. CASE SubscribeLock(w) BY <2>1, OwnerFrame DEF SubscribeLock
    <2>2. CASE SubscribeAdvance(w) BY <2>2, OwnerFrame DEF SubscribeAdvance
    <2>3. CASE SubscribeReset(w) BY <2>3, OwnerFrame DEF SubscribeReset
    <2>4. CASE SubscribeClear(w) BY <2>4, OwnerFrame DEF SubscribeClear
    <2>5. CASE SubscribeBind(w) BY <2>5, OwnerFrame DEF SubscribeBind
    <2>6. CASE SubscribeKeepalive(w) BY <2>6, OwnerFrame DEF SubscribeKeepalive
    <2> QED BY <1>8, <2>1, <2>2, <2>3, <2>4, <2>5, <2>6 DEF SubscribeStep
  <1> QED BY <1>1, <1>2, <1>3, <1>4, <1>5, <1>6, <1>7, <1>8 DEF PahoStep, LostHandler, SubscriberStep

\* A frame that passed the fence is of the current session, which is not older
\* than the one that retired the last lost connection.
LEMMA OwnerMessage ==
  ASSUME TypeOK, SessionOrder, SourceFence, ControllerOwner, NEW c \in Callbacks,
         CallbackStep(c) \/ (\E kind \in Kinds : Route(c, kind))
  PROVE  ControllerOwner'
  <1> USE DEF ownerVars, modeVars, pahoVars, viewVars
  <1>1. CASE Bind(c) \/ Fence(c) BY <1>1, OwnerFrame DEF Bind, Fence
  <1>2. CASE Observe(c) BY <1>2, OwnerFrame DEF Observe
  <1>3. CASE \E kind \in Kinds : Route(c, kind) BY <1>3, OwnerFrame DEF Route
  <1>4. CASE Commit(c)
    <2>1. UNCHANGED <<gatewayMode, starter, lostPc, lostSession>> BY <1>4 DEF Commit
    <2>2. ~gatewayMode /\ cb[c].session = mqttSession
      BY <1>4 DEF Commit, SourceFence, HoldsSource, SourceCurrent
    <2>3. mqttSession # GatewayTag /\ mqttSession >= lostSession
      BY <1>4, <2>2 DEF Commit, SessionOrder, GatewayTag, TypeOK, SessionType, PahoType
    <2>4. controller' = controller \/ controller'.via = mqttSession
      <3>1. CASE \E retained, empty \in BOOLEAN : ApplyController(c, retained, empty)
        BY <2>2, <3>1 DEF ApplyController
      <3>2. CASE \E native_ \in BOOLEAN : ApplyNotification(c, native_) BY <3>2 DEF ApplyNotification
      <3>3. CASE \E rawAlarm \in BOOLEAN : ApplyBanner(c, rawAlarm) BY <3>3 DEF ApplyBanner
      <3>4. CASE ApplyDevice(c) BY <3>4 DEF ApplyDevice
      <3> QED BY <1>4, <3>1, <3>2, <3>3, <3>4 DEF Commit
    <2> QED BY <2>1, <2>2, <2>3, <2>4 DEF ControllerOwner, ControllerReady
  <1> QED BY <1>1, <1>2, <1>3, <1>4 DEF CallbackStep

LEMMA OwnerGateway ==
  ASSUME TypeOK, Life, ControllerOwner, GatewayStep
  PROVE  ControllerOwner'
  <1> USE DEF ownerVars, modeVars, pahoVars, viewVars
  <1>0. gatewayMode BY GatewayFrame, WorkingMode
  <1>1. CASE PollBegin \/ AckBegin BY <1>1, OwnerFrame DEF PollBegin, AckBegin
  <1>2. CASE \E ok \in BOOLEAN : PollResult(ok) BY <1>2, OwnerFrame DEF PollResult
  <1>3. CASE SetGatewayConnected BY <1>3, OwnerFrame DEF SetGatewayConnected
  <1>4. CASE StatusReset BY <1>4, OwnerFrame DEF StatusReset
  <1>5. CASE StatusClear
    <2>1. CASE pollOk BY <1>5, <2>1, OwnerFrame DEF StatusClear
    <2>2. CASE ~pollOk BY <1>5, <2>2, Revoked, OwnerOff DEF StatusClear
    <2> QED BY <2>1, <2>2
  <1>6. CASE PollCheck \/ PollExit BY <1>6, OwnerFrame DEF PollCheck, PollExit
  <1>7. ASSUME NEW a \in Appliers, ApplyStep(a) PROVE ControllerOwner'
    <2>1. CASE ApplyCapture(a) BY <2>1, OwnerFrame DEF ApplyCapture
    <2>2. CASE ApplyObserve(a) BY <2>2, OwnerFrame DEF ApplyObserve
    <2>3. CASE ApplyState(a)
      <3>1. UNCHANGED <<gatewayMode, starter>> BY <2>3 DEF ApplyState
      <3>2. controller' \in {controller, [available |-> TRUE, live |-> TRUE, via |-> GatewayTag], NoController,
                             [controller EXCEPT !.available = FALSE]}
        BY <2>3 DEF ApplyState, Follow
      <3>3. controller' = controller \/ controller'.via = GatewayTag \/ ~ControllerReady'
        BY <3>2 DEF NoController, ControllerReady, TypeOK, ViewType
      <3> QED BY <1>0, <3>1, <3>3 DEF ControllerOwner, ControllerReady
    <2> QED BY <1>7, <2>1, <2>2, <2>3 DEF ApplyStep
  <1> QED BY <1>1, <1>2, <1>3, <1>4, <1>5, <1>6, <1>7 DEF GatewayStep, PollStep

\* The switches: in their two halves nothing is claimed, then it is cleared.
LEMMA OwnerMain ==
  ASSUME TypeOK, ControllerOwner, MainStep
  PROVE  ControllerOwner'
  <1> USE DEF modeVars, pahoVars, viewVars
  <1>1. CASE EnableGatewayMode \/ DisableGatewayMode
    BY <1>1 DEF EnableGatewayMode, DisableGatewayMode, ControllerOwner
  <1>2. ASSUME UNCHANGED <<gatewayMode, lostPc, lostSession, controller>>, starter \notin {"enabled", "disabled"}
        PROVE  ControllerOwner'
    BY <1>2 DEF ControllerOwner, ControllerReady
  <1>3. CASE StartMQTT("connect", "subscribe") \/ StartMQTT("probe", "probing")
    BY <1>2, <1>3 DEF StartMQTT
  <1>4. CASE MQTTStarted("subscribe", "serving", "connect") \/ MQTTStarted("probing", "stop", "probe")
    BY <1>2, <1>4 DEF MQTTStarted
  <1>5. CASE ClearForSwitch("enabled", "start") \/ ClearForSwitch("disabled", "serving")
    BY <1>5, Revoked, OwnerOff DEF ClearForSwitch
  <1>6. CASE StartGateway BY <1>2, <1>6 DEF StartGateway
  <1>7. CASE StopGateway \/ JoinGateway \/ ClearPublisher
    BY <1>2, <1>7 DEF StopGateway, JoinGateway, ClearPublisher
  <1> QED BY <1>1, <1>3, <1>4, <1>5, <1>6, <1>7 DEF MainStep, StarterStep

LEMMA OwnerFreshness ==
  ASSUME TypeOK, ControllerOwner, FreshnessStep
  PROVE  ControllerOwner'
  <1>1. ~ControllerReady'
    BY DEF FreshnessStep, ControllerAges, ControllerExpires, clearOptionalTelemetry, ControllerReady, TypeOK, ViewType
  <1> QED BY <1>1, OwnerOff

-----------------------------------------------------------------------------
(* The whole invariant. *)

History == SessionOrder /\ SeenCurrent /\ ControllerOwner

\* Sessions are ordered, a push generation sees one source and a controller
\* frame belongs to the owner, in every reachable state.
THEOREM HistoryInvariant == Spec => [](TypeOK /\ Life /\ Core /\ History)
  <1>1. Init => History
    <2> SUFFICES ASSUME Init PROVE History OBVIOUS
    <2>1. SessionOrder BY DEF Init, SessionOrder, NoCallback
    <2>2. SeenCurrent BY DEF Init, SeenCurrent
    <2>3. ControllerOwner BY DEF Init, ControllerOwner, ControllerReady, NoController
    <2> QED BY <2>1, <2>2, <2>3 DEF History
  <1>2. TypeOK /\ Life /\ Core /\ History /\ [Next]_vars => History'
    <2> SUFFICES ASSUME TypeOK, Life, SourceFence, SessionOrder, SeenCurrent, ControllerOwner, [Next]_vars
                 PROVE  History'
      BY DEF Core, History
    <2>1. SessionOrder' BY OrderStep
    <2>2. SeenCurrent'
      <3>1. CASE FreshnessStep
        BY <3>1, SeenFrame DEF FreshnessStep, ControllerAges, ControllerExpires, seenVars, modeVars, pushVars,
                               sessionVars, pahoVars
      <3>2. CASE UNCHANGED vars BY <3>2, SeenFrame DEF vars, seenVars, modeVars, pushVars, sessionVars, pahoVars
      <3> QED BY <3>1, <3>2, NextSplit, SeenPaho, SeenSubscribe, SeenMessage, SeenGateway, SeenMain
              DEF SubscriberStep, MessageStep
    <2>3. ControllerOwner'
      <3>1. CASE UNCHANGED vars BY <3>1, OwnerFrame DEF vars, ownerVars, modeVars, pahoVars, viewVars
      <3> QED BY <3>1, NextSplit, OwnerPaho, OwnerMessage, OwnerGateway, OwnerMain, OwnerFreshness DEF MessageStep
    <2> QED BY <2>1, <2>2, <2>3 DEF History
  <1> QED BY <1>1, <1>2, CoreInvariant, PTL DEF Spec

\* No push generation mixes two sessions or two sources, however many
\* callbacks and polls are under way.
THEOREM PushEpochHolds == Spec => []PushEpochPure
  <1>1. TypeOK /\ History => PushEpochPure
    <2> SUFFICES ASSUME \A x, y \in pushSeen : x = y PROVE Cardinality(pushSeen) <= 1
      BY DEF History, SeenCurrent, PushEpochPure
    <2>1. CASE pushSeen = {} BY <2>1, FS_EmptySet
    <2>2. CASE pushSeen # {}
      <3>1. PICK x \in pushSeen : TRUE BY <2>2
      <3>2. pushSeen = {x} BY <3>1, Zenon
      <3>3. Cardinality({x}) = 1 BY FS_Singleton, Zenon
      <3> QED BY <3>2, <3>3
    <2> QED BY <2>1, <2>2
  <1> QED BY <1>1, HistoryInvariant, PTL

\* No controller frame from before a loss or from the other source authorises
\* a command once the loss or the switch was handled.
THEOREM ControllerHolds == Spec => []ControllerAuthority
  <1>1. History => ControllerAuthority
    BY DEF History, ControllerOwner, ControllerAuthority
  <1> QED BY <1>1, HistoryInvariant, PTL

-----------------------------------------------------------------------------
(* A connection at rest is bound to the current session.                   *)

\* A call of Subscribe is on its way to a new session.
Pending(w) == subscribePc[w] \in {"onconnect", "lock", "advance", "reset", "clear", "bind"}

\* Subscribe calls exclude each other, and none precedes main.go's first.
CallsOrdered ==
  /\ \A v, w \in Subscribers : HoldsSubscribeMu(v) /\ HoldsSubscribeMu(w) => v = w
  /\ (\E w \in Subscribers : subscribePc[w] \notin {"idle", "onconnect"}) => subscriptionsEnabled
  /\ subscribePc["starter"] # "onconnect"

\* A call of Subscribe that passed its reset may have been overtaken: by a loss,
\* by a late lost handler, and, as main.go's, by a reconnect whose handler is
\* still to subscribe.
Overtaken(w) ==
  \/ ~broker \/ mishaps # {}
  \/ w = "starter" /\ subscribePc["handler"] \in {"onconnect", "lock"}

\* A subscription lasts as long as its connection.  If it is not the current
\* session's, lacks its keepalive loop or is not connected for push, a call of
\* Subscribe is still to make it so, unless a mishap has befallen the session.
Bound ==
  /\ subscription # 0 => broker /\ subscriptionsEnabled
  /\ \A w \in Subscribers : subscribePc[w] \in {"reset", "clear", "bind"} =>
       subscribeSession[w] = mqttSession \/ Overtaken(w)
  /\ \A w \in Subscribers : subscribePc[w] \in {"clear", "bind"} =>
       gatewayMode \/ pushConnected \/ Overtaken(w)
  /\ subscription # 0 /\ mishaps = {} =>
       /\ subscription = mqttSession \/ \E w \in Subscribers : Pending(w)
       /\ keepalive \/ \E w \in Subscribers : Pending(w) \/ subscribePc[w] = "keepalive"
       /\ gatewayMode \/ pushConnected
            \/ \E w \in Subscribers : subscribePc[w] \in {"onconnect", "lock", "advance", "reset"}

Sessions == CallsOrdered /\ Bound

sessVars == <<broker, subscription, mishaps, subscriptionsEnabled, mqttSession, keepalive, subscribePc,
              subscribeSession, gatewayMode, pushConnected>>

LEMMA SessFrame == ASSUME Sessions, UNCHANGED sessVars PROVE Sessions'
  BY DEF Sessions, CallsOrdered, Bound, Overtaken, Pending, HoldsSubscribeMu, sessVars

\* A loss ends the subscription; the handler of the next connection follows any
\* call of Subscribe that the loss has overtaken.
LEMMA SessPaho ==
  ASSUME TypeOK, Sessions, PahoStep
  PROVE  Sessions'
  <1> USE DEF Sessions, CallsOrdered, Bound, Overtaken, Pending, HoldsSubscribeMu, Subscribers, modeVars, pushVars,
              sessionVars
  <1>0. subscribePc \in [Subscribers -> SubscribePcs] BY DEF TypeOK, SessionType
  <1>1. CASE BrokerUp
    <2>1. /\ ~broker /\ broker' = TRUE /\ subscribePc["handler"] = "idle"
          /\ subscribePc'["handler"] = "onconnect" /\ subscribePc'["starter"] = subscribePc["starter"]
          /\ UNCHANGED <<subscription, mishaps, subscriptionsEnabled, mqttSession, keepalive, subscribeSession,
                         gatewayMode, pushConnected>>
      BY <1>0, <1>1 DEF BrokerUp
    <2>2. CallsOrdered' BY <2>1
    <2>3. Bound' BY <2>1
    <2> QED BY <2>2, <2>3
  <1>2. CASE BrokerDown
    <2>1. broker' = FALSE /\ subscription' = 0
          /\ UNCHANGED <<subscriptionsEnabled, mqttSession, keepalive, subscribePc, subscribeSession>>
      BY <1>2 DEF BrokerDown
    <2> QED BY <2>1
  <1>3. CASE LostHandler
    <2>1. UNCHANGED <<broker, subscription, subscriptionsEnabled, subscribePc, subscribeSession>> /\ MaybeOvertaken
      <3>1. CASE LostAdvance BY <3>1 DEF LostAdvance
      <3>2. CASE LostStopKeepalive BY <3>2 DEF LostStopKeepalive
      <3>3. CASE LostReset BY <3>3 DEF LostReset
      <3>4. CASE LostInvalidate BY <3>4 DEF LostInvalidate
      <3> QED BY <1>3, <3>1, <3>2, <3>3, <3>4 DEF LostHandler
    <2>2. ~broker' \/ mishaps' # {} BY <2>1 DEF MaybeOvertaken
    <2>3. CallsOrdered' BY <2>1
    <2>4. Bound' BY <2>1, <2>2
    <2> QED BY <2>3, <2>4
  <1>4. CASE OnConnect
    <2>1. subscribePc["handler"] = "onconnect"
          /\ UNCHANGED <<broker, subscription, mishaps, mqttSession, keepalive, subscribeSession, gatewayMode,
                         pushConnected>>
      BY <1>4 DEF OnConnect, pahoVars
    <2>2. CASE subscriptionsEnabled
      <3>1. subscribePc'["handler"] = "lock" /\ subscribePc'["starter"] = subscribePc["starter"] /\ subscriptionsEnabled'
        BY <1>0, <1>4, <2>2 DEF OnConnect, CallSubscribe
      <3> QED BY <2>1, <3>1
    <2>3. CASE ~subscriptionsEnabled
      <3>1. subscribePc'["handler"] = "idle" /\ subscribePc'["starter"] = subscribePc["starter"]
            /\ subscriptionsEnabled' = subscriptionsEnabled
        BY <1>0, <1>4, <2>3 DEF OnConnect
      <3>2. subscribePc["starter"] = "idle" BY <1>0, <2>3 DEF SubscribePcs
      <3>3. subscription = 0 BY <2>3
      <3> QED BY <2>1, <2>3, <3>1, <3>2, <3>3
    <2> QED BY <2>2, <2>3
  <1> QED BY <1>1, <1>2, <1>3, <1>4 DEF PahoStep

\* A call of Subscribe moves on to its session, connects push, binds to the
\* session and starts the loop.
LEMMA SessSubscribe ==
  ASSUME TypeOK, Sessions, NEW w \in Subscribers, SubscribeStep(w)
  PROVE  Sessions'
  <1> USE DEF Sessions, CallsOrdered, Bound, Overtaken, Pending, HoldsSubscribeMu, Subscribers, pahoVars, modeVars,
              pushVars
  <1>0. /\ subscribePc \in [Subscribers -> SubscribePcs] /\ subscribeSession \in [Subscribers -> Nat]
        /\ mqttSession \in Nat /\ gatewayMode \in BOOLEAN
    BY DEF TypeOK, SessionType, ModeType
  <1>1. CASE SubscribeLock(w)
    <2>1. /\ subscribePc[w] = "lock" /\ \A v \in Subscribers : ~HoldsSubscribeMu(v)
          /\ UNCHANGED <<broker, subscription, mishaps, subscriptionsEnabled, mqttSession, keepalive, gatewayMode,
                         pushConnected>>
      BY <1>1 DEF SubscribeLock
    <2>2. /\ \A v \in Subscribers : v # w => subscribePc'[v] = subscribePc[v] /\ subscribeSession'[v] = subscribeSession[v]
          /\ broker => subscribePc'[w] = "advance"
          /\ ~broker => subscribePc'[w] \in {"idle", "error"}
      BY <1>0, <1>1 DEF SubscribeLock, ReturnSubscribe
    <2> QED BY <2>1, <2>2
  <1>2. CASE SubscribeAdvance(w)
    <2>1. /\ subscribePc[w] = "advance" /\ mqttSession' = mqttSession + 1
          /\ subscribePc'[w] = "reset" /\ subscribeSession'[w] = mqttSession'
          /\ \A v \in Subscribers : v # w => subscribePc'[v] = subscribePc[v] /\ subscribeSession'[v] = subscribeSession[v]
          /\ UNCHANGED <<broker, subscription, subscriptionsEnabled, keepalive, gatewayMode, pushConnected>>
      BY <1>0, <1>2 DEF SubscribeAdvance, advanceMQTTSession
    <2>2. \A v \in Subscribers : v # w => ~HoldsSubscribeMu(v) BY <2>1
    <2>3. CallsOrdered' BY <2>1, <2>2
    <2>4. Bound' BY <2>1, <2>2
    <2> QED BY <2>3, <2>4
  <1>3. CASE SubscribeReset(w)
    <2>1. /\ subscribePc[w] = "reset" /\ subscribePc'[w] = "clear"
          /\ \A v \in Subscribers : v # w => subscribePc'[v] = subscribePc[v]
          /\ UNCHANGED <<broker, subscription, mishaps, subscriptionsEnabled, mqttSession, keepalive, subscribeSession,
                         gatewayMode>>
      BY <1>0, <1>3 DEF SubscribeReset
    <2>2. gatewayMode' \/ pushConnected' BY <1>3 DEF SubscribeReset, resetMQTTPush, resetPush
    <2>3. CallsOrdered' BY <2>1
    <2>4. Bound' BY <2>1, <2>2
    <2> QED BY <2>3, <2>4
  <1>4. CASE SubscribeClear(w)
    <2>1. /\ subscribePc[w] = "clear" /\ subscribePc'[w] = "bind"
          /\ \A v \in Subscribers : v # w => subscribePc'[v] = subscribePc[v]
          /\ UNCHANGED <<broker, subscription, mishaps, subscriptionsEnabled, mqttSession, keepalive, subscribeSession,
                         gatewayMode, pushConnected>>
      BY <1>0, <1>4 DEF SubscribeClear
    <2> QED BY <2>1
  <1>5. CASE SubscribeBind(w)
    <2>1. /\ subscribePc[w] = "bind"
          /\ \A v \in Subscribers : v # w => subscribePc'[v] = subscribePc[v] /\ subscribeSession'[v] = subscribeSession[v]
          /\ UNCHANGED <<broker, subscriptionsEnabled, mqttSession, keepalive, gatewayMode, pushConnected>>
      BY <1>0, <1>5 DEF SubscribeBind, ReturnSubscribe
    <2>2. CASE broker /\ subscription' = subscribeSession[w] /\ subscribePc'[w] = "keepalive" /\ mishaps' = mishaps
      <3>1. CallsOrdered' BY <2>1, <2>2
      <3>2. Bound' BY <2>1, <2>2
      <3> QED BY <3>1, <3>2
    <2>3. CASE broker /\ subscribePc'[w] \in {"idle", "error"} /\ mishaps' = mishaps \cup {"refused"}
      <3>1. CallsOrdered' BY <2>1, <2>3
      <3>2. mishaps' # {} BY <2>3
      <3>3. Bound' BY <2>1, <2>3, <3>2
      <3> QED BY <3>1, <3>3
    <2>4. CASE ~broker /\ subscribePc'[w] \in {"idle", "error"} /\ UNCHANGED <<subscription, mishaps>>
      BY <2>1, <2>4
    <2> QED BY <1>0, <1>5, <2>2, <2>3, <2>4 DEF SubscribeBind, ReturnSubscribe
  <1>6. CASE SubscribeKeepalive(w)
    <2>1. /\ subscribePc[w] = "keepalive" /\ subscribePc'[w] \in {"idle", "ok"} /\ keepalive' = TRUE
          /\ \A v \in Subscribers : v # w => subscribePc'[v] = subscribePc[v] /\ subscribeSession'[v] = subscribeSession[v]
          /\ UNCHANGED <<broker, subscription, mishaps, subscriptionsEnabled, mqttSession, gatewayMode, pushConnected>>
      BY <1>0, <1>6 DEF SubscribeKeepalive, startKeepalive, ReturnSubscribe
    <2> QED BY <2>1
  <1> QED BY <1>1, <1>2, <1>3, <1>4, <1>5, <1>6 DEF SubscribeStep

\* main.go calls Subscribe and takes its result; a switch back to MQTT connects
\* push if the connection is open.
LEMMA SessMain ==
  ASSUME TypeOK, Sessions, MainStep
  PROVE  Sessions'
  <1> USE DEF sessVars, sessionVars, pahoVars, modeVars, pushVars
  <1>0. subscribePc \in [Subscribers -> SubscribePcs] BY DEF TypeOK, SessionType
  <1>1. CASE StartMQTT("connect", "subscribe") \/ StartMQTT("probe", "probing")
    <2>1. /\ subscribePc'["starter"] = "lock" /\ subscribePc'["handler"] = subscribePc["handler"]
          /\ subscriptionsEnabled' = TRUE
          /\ UNCHANGED <<broker, subscription, mishaps, mqttSession, keepalive, subscribeSession, gatewayMode,
                         pushConnected>>
      BY <1>0, <1>1 DEF StartMQTT, CallSubscribe, Subscribers
    <2> QED BY <2>1 DEF Sessions, CallsOrdered, Bound, Overtaken, Pending, HoldsSubscribeMu, Subscribers
  <1>2. CASE MQTTStarted("subscribe", "serving", "connect") \/ MQTTStarted("probing", "stop", "probe")
    <2>1. /\ subscribePc["starter"] \in {"ok", "error"}
          /\ subscribePc'["starter"] = "idle" /\ subscribePc'["handler"] = subscribePc["handler"]
          /\ UNCHANGED <<broker, subscription, mishaps, subscriptionsEnabled, mqttSession, keepalive, subscribeSession,
                         gatewayMode, pushConnected>>
      BY <1>0, <1>2 DEF MQTTStarted, Subscribers
    <2> QED BY <2>1 DEF Sessions, CallsOrdered, Bound, Overtaken, Pending, HoldsSubscribeMu, Subscribers
  <1>3. CASE EnableGatewayMode \/ DisableGatewayMode
    <2>1. /\ UNCHANGED <<broker, subscription, mishaps, subscriptionsEnabled, mqttSession, keepalive, subscribePc,
                         subscribeSession>>
          /\ gatewayMode' \/ pushConnected' = broker
      BY <1>3 DEF EnableGatewayMode, DisableGatewayMode, resetPush
    <2> QED BY <2>1 DEF Sessions, CallsOrdered, Bound, Overtaken, Pending, HoldsSubscribeMu
  <1>4. CASE ClearForSwitch("enabled", "start") \/ ClearForSwitch("disabled", "serving")
    BY <1>4, SessFrame DEF ClearForSwitch
  <1>5. CASE StartGateway BY <1>5, SessFrame DEF StartGateway
  <1>6. CASE StopGateway \/ JoinGateway \/ ClearPublisher
    BY <1>6, SessFrame DEF StopGateway, JoinGateway, ClearPublisher
  <1> QED BY <1>1, <1>2, <1>3, <1>4, <1>5, <1>6 DEF MainStep, StarterStep

LEMMA SessStep ==
  ASSUME TypeOK, Life, Sessions, [Next]_vars
  PROVE  Sessions'
  <1> USE DEF sessVars, sessionVars, pahoVars, modeVars, pushVars
  <1>1. CASE FreshnessStep BY <1>1, SessFrame DEF FreshnessStep, ControllerAges, ControllerExpires
  <1>2. CASE GatewayStep
    <2>1. CASE PollBegin \/ AckBegin BY <2>1, SessFrame DEF PollBegin, AckBegin
    <2>2. CASE \E ok \in BOOLEAN : PollResult(ok) BY <2>2, SessFrame DEF PollResult
    <2>3. CASE SetGatewayConnected BY <2>3, SessFrame DEF SetGatewayConnected
    <2>4. CASE StatusReset
      <3>1. gatewayMode BY <1>2, GatewayFrame, WorkingMode
      <3>2. UNCHANGED <<broker, subscription, mishaps, subscriptionsEnabled, mqttSession, keepalive, subscribePc,
                        subscribeSession, gatewayMode>>
        BY <2>4 DEF StatusReset
      <3> QED BY <3>1, <3>2 DEF Sessions, CallsOrdered, Bound, Overtaken, Pending, HoldsSubscribeMu
    <2>5. CASE StatusClear BY <2>5, SessFrame DEF StatusClear
    <2>6. CASE PollCheck \/ PollExit BY <2>6, SessFrame DEF PollCheck, PollExit
    <2>7. ASSUME NEW a \in Appliers, ApplyStep(a) PROVE Sessions'
      BY <2>7, SessFrame DEF ApplyStep, ApplyCapture, ApplyObserve, observePush, ApplyState
    <2> QED BY <1>2, <2>1, <2>2, <2>3, <2>4, <2>5, <2>6, <2>7 DEF GatewayStep, PollStep
  <1>3. ASSUME NEW c \in Callbacks, CallbackStep(c) \/ (\E kind \in Kinds : Route(c, kind)) PROVE Sessions'
    <2>1. CASE Bind(c) \/ Fence(c) BY <2>1, SessFrame DEF Bind, Fence
    <2>2. CASE Commit(c) BY <2>2, SessFrame DEF Commit
    <2>3. CASE Observe(c) BY <2>3, SessFrame DEF Observe, observePush
    <2>4. CASE \E kind \in Kinds : Route(c, kind) BY <2>4, SessFrame DEF Route
    <2> QED BY <1>3, <2>1, <2>2, <2>3, <2>4 DEF CallbackStep
  <1>4. CASE UNCHANGED vars BY <1>4, SessFrame DEF vars
  <1> QED BY <1>1, <1>2, <1>3, <1>4, NextSplit, SessPaho, SessSubscribe, SessMain DEF SubscriberStep, MessageStep

\* A subscribed connection at rest delivers to the current session, is kept
\* alive and connected for push, however often losses, probes, reconnects and
\* switches have overlapped, unless a lost handler ran late or a topic was
\* refused since the last call of Subscribe.
THEOREM ReconnectHolds == Spec => []ReconnectLive
  <1>1. Init => Sessions
    BY DEF Init, Sessions, CallsOrdered, Bound, HoldsSubscribeMu, Subscribers
  <1>2. TypeOK /\ Life /\ Sessions /\ [Next]_vars => Sessions' BY SessStep
  <1>3. Sessions => ReconnectLive
    BY DEF Sessions, Bound, Pending, Quiescent, Subscribed, Served, ReconnectLive
  <1> QED BY <1>1, <1>2, <1>3, CoreInvariant, PTL DEF Spec
=============================================================================
