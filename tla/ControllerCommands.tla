------------------------- MODULE ControllerCommands -------------------------
(***************************************************************************)
(* Commands to the inverter controller: mqtt.Client.PublishCommand and     *)
(* publishControllerCommand over MQTT, gateway.Client.PostCommand and      *)
(* awaitOverride over IGW, and the controller's status that comes back.    *)
(*                                                                         *)
(* A call captures the source, checks that the controller's telemetry is   *)
(* fresh, sends once over whichever source is current, and reports success *)
(* only if that source is still the one it captured.  A setpoint override  *)
(* also waits until the controller reports its request ID and its value.   *)
(* Request IDs are chosen by the browser and may be used again.            *)
(*                                                                         *)
(* How sources change is TelemetrySource's subject.  Here a change is a    *)
(* step that retires the captured source, and the loss of authority that   *)
(* goes with it is a second step, as in the code.                          *)
(***************************************************************************)
EXTENDS Naturals, Sequences, FiniteSets

CONSTANTS
  Calls,        \* calls of PublishCommand
  Kinds,        \* kinds of commands they make
  IDs,          \* request IDs
  Values,       \* values of an override
  OwnValues,    \* those of them the calls ask for
  NoStatus,     \* no override status: never seen, or not valid
  NoPayload,    \* the payload of other commands
  MaxChanges,   \* bound on source changes
  MaxReceipts,  \* bound on override statuses received
  MaxOthers,    \* bound on overrides taken when another dashboard sends one
  MaxTransit    \* bound on frames on their way from the controller

ASSUME CommandsAssumption ==
  /\ MaxChanges \in Nat /\ MaxReceipts \in Nat /\ MaxOthers \in Nat /\ MaxTransit \in Nat
  /\ Kinds \subseteq {"override", "tariff", "plain"}
  /\ OwnValues \subseteq Values /\ NoPayload \notin [id : IDs, value : Values]

VARIABLES
  \* the source, as commands see it
  source,     \* stands for the pair (pushGeneration, mqttSession)
  open,       \* IsConnectionOpen
  gatewayMode, gatewayPublish, gatewayConnected,
  cancelled,  \* gateway.Client's context is cancelled
  todo,       \* what the handlers of source changes have yet to do
  \* what is known of the controller
  view,       \* its availability, override status and fresh observations
  receipt,    \* overrideReceipt
  call,       \* the calls
  \* the controller and the ways to it (external)
  wire,       \* calls whose command was sent and has not arrived
  ctl,        \* the controller's override status
  frames,     \* its frames on their way to this client
  \* history
  taken,      \* overrides the controller took
  seen        \* calls whose readback came live after they were sent

sourceVars == <<source, open, gatewayMode, gatewayPublish, gatewayConnected, cancelled, todo>>
remoteVars == <<wire, ctl, frames, taken>>
vars == <<sourceVars, view, receipt, call, remoteVars, seen>>

Payloads == [id : IDs, value : Values]
Initial == [payload |-> NoPayload, error |-> FALSE]
NewCall == [pc |-> "new", kind |-> "plain", payload |-> NoPayload, source |-> 0, receipt |-> 0,
            late |-> FALSE, snap |-> NoStatus]

Goto(c, to) == call' = [call EXCEPT ![c].pc = to]

\* A call returns, and its locals are gone.  The snapshot that settled an
\* override is kept to tell it from one settled over MQTT.
Return(c, result, snap) ==
  call' = [call EXCEPT ![c] = [@ EXCEPT !.pc = result, !.source = 0, !.receipt = 0, !.late = FALSE, !.snap = snap]]
Fail(c) == Return(c, "error", NoStatus)
Succeed(c) == Return(c, "ok", call[c].snap)

-----------------------------------------------------------------------------
(* The state of the controller. *)

\* ApplyControllerSnapshot(st, nil)
Unavailable == [available |-> FALSE, override |-> NoStatus, fresh |-> {}]

\* ControllerCommandReady and controllerControlReady: each kind of command
\* needs an observation of its own that is at most 30 seconds old.
Ready(st, kind) == st.available /\ kind \in st.fresh

\* The topics: the controller's state, with its override status ("state") or
\* without ("bare"), its state when empty, and its override status alone.
Topics == {"state", "bare", "empty", "override"}

\* The observations a frame speaks of.
About(frame) ==
  CASE frame.topic = "state" -> Kinds \cup {"override"} [] frame.topic = "bare" -> Kinds \ {"override"} [] OTHER -> {"override"}

\* Those it renews, if it is live.
Renews(frame) == About(frame) \ (IF frame.status = NoStatus THEN {"override"} ELSE {})

\* Mutant of Observed: a retained frame leaves the freshness of the last one.
BugObserved(frame) ==
  [available |-> frame.topic # "override" \/ view.available,
   override  |-> IF frame.topic = "bare" THEN view.override ELSE frame.status,
   fresh     |-> view.fresh \cup (IF frame.retained THEN {} ELSE Renews(frame))]

\* observeControllerCommands: a retained frame is shown but takes authority
\* away, a live one gives it.
Observed(frame) ==
  IF frame.topic = "empty" THEN Unavailable
  ELSE [available |-> frame.topic # "override" \/ view.available,
        override  |-> IF frame.topic = "bare" THEN view.override ELSE frame.status,
        fresh     |-> (view.fresh \ About(frame)) \cup (IF frame.retained THEN {} ELSE Renews(frame))]

\* Mutant of Matches: the value is not compared.
BugMatches(status, p) == status # NoStatus /\ ~status.error /\ status.payload # NoPayload /\ status.payload.id = p.id

\* OverrideAcknowledged: the request ID and the value, without an error.
Matches(status, p) == status # NoStatus /\ ~status.error /\ status.payload = p

Rejects(status, p) ==
  status # NoStatus /\ status.error /\ status.payload # NoPayload /\ status.payload.id = p.id

\* Every override status that is looked at gets a serial, valid or not.
NextReceipt == receipt + 1

\* A frame arrives; applyControllerMessage drops it while IGW is the source.
Receive ==
  /\ frames # <<>> /\ receipt < MaxReceipts
  /\ frames' = Tail(frames)
  /\ IF gatewayMode
     THEN UNCHANGED <<view, receipt, seen>>
     ELSE /\ view' = Observed(Head(frames))
          /\ receipt' = IF Head(frames).topic \in {"state", "override"} THEN NextReceipt ELSE receipt
          /\ seen' = seen \cup {c \in Calls : /\ call[c].pc \in {"publish", "await"} /\ call[c].source = source
                                              /\ call[c].kind = "override" /\ ~Head(frames).retained
                                              /\ Matches(Head(frames).status, call[c].payload)}
  /\ UNCHANGED <<sourceVars, call, wire, ctl, taken>>

\* An observation becomes older than 30 seconds.
Ages(kind) ==
  /\ kind \in view.fresh
  /\ view' = [view EXCEPT !.fresh = @ \ {kind}]
  /\ UNCHANGED <<sourceVars, receipt, call, remoteVars, seen>>

\* expireOptionalTelemetry: no state of the controller for 120 seconds.  IGW
\* says itself how old its observations are.
Expires ==
  /\ view.available /\ "plain" \notin view.fresh /\ ~gatewayMode
  /\ view' = Unavailable
  /\ UNCHANGED <<sourceVars, receipt, call, remoteVars, seen>>

-----------------------------------------------------------------------------
(* PublishCommand over MQTT. *)

\* The source is captured before anything is looked at.
Begin(c, kind, p) ==
  /\ call[c].pc = "new" /\ (kind # "override") = (p = NoPayload)
  /\ call' = [call EXCEPT ![c] = [@ EXCEPT !.pc = IF kind = "plain" THEN "route" ELSE "capable",
                                           !.kind = kind, !.payload = p, !.source = source]]
  /\ UNCHANGED <<sourceVars, view, receipt, remoteVars, seen>>

\* CanControllerCommand.  IGW may lack the capability.
Capable(c) ==
  /\ call[c].pc = "capable"
  /\ LET able == Ready(view, call[c].kind) /\ (IF gatewayMode THEN gatewayConnected ELSE open)
     IN  \/ able /\ Goto(c, "route")
         \/ (gatewayMode \/ ~able) /\ Fail(c)
  /\ UNCHANGED <<sourceVars, view, receipt, remoteVars, seen>>

\* The last check, with gatewayMu and stateMu held over client.Publish.
MaySend(c) ==
  call[c].source = source /\ ~gatewayMode /\ open /\ Ready(view, call[c].kind)

Send(c) ==
  IF MaySend(c)
  THEN /\ call' = [call EXCEPT ![c] = [@ EXCEPT !.pc = "publish", !.receipt = receipt]]
       /\ wire' = wire \cup {c}
  ELSE Fail(c) /\ UNCHANGED wire

\* Under gatewayMu: is the source still the captured one, and which one is it.
\* A plain command gives the lock up and sends in a second critical section.
Route(c) ==
  /\ call[c].pc = "route"
  /\ IF call[c].source # source THEN Fail(c) /\ UNCHANGED wire
     ELSE IF gatewayPublish THEN Goto(c, "preflight") /\ UNCHANGED wire
     ELSE IF call[c].kind = "plain" THEN Goto(c, "send") /\ UNCHANGED wire
     ELSE Send(c)
  /\ UNCHANGED <<sourceVars, view, receipt, ctl, frames, taken, seen>>

SendPlain(c) ==
  /\ call[c].pc = "send" /\ Send(c)
  /\ UNCHANGED <<sourceVars, view, receipt, ctl, frames, taken, seen>>

\* Mutant of Written: only the deadline is looked at.
BugWritten(c) == ~call[c].late

\* awaitPublish: the token is done in time and the source is still the same.
Written(c) == ~call[c].late /\ call[c].source = source

\* The token is done, with an error or without.
PublishDone(c) ==
  /\ call[c].pc = "publish"
  /\ \/ Fail(c)
     \/ Written(c) /\ call[c].kind = "override" /\ Goto(c, "await")
     \/ Written(c) /\ call[c].kind # "override" /\ Succeed(c)
  /\ UNCHANGED <<sourceVars, view, receipt, remoteVars, seen>>

\* The status was received after the command was sent.
NewReceipt(c) == receipt > call[c].receipt

\* overrideAcknowledgement, every 50 ms: an error when the source or the
\* authority is gone or the controller refused, success on the exact readback.
Acknowledge(c) ==
  /\ call[c].pc = "await"
  /\ IF call[c].late \/ gatewayMode \/ call[c].source # source \/ ~open \/ ~Ready(view, "override")
     THEN Fail(c)
     ELSE /\ NewReceipt(c)
          /\ \/ Rejects(view.override, call[c].payload) /\ Fail(c)
             \/ Matches(view.override, call[c].payload) /\ Succeed(c)
  /\ UNCHANGED <<sourceVars, view, receipt, remoteVars, seen>>

-----------------------------------------------------------------------------
(* PostCommand through IGW. *)

\* validateCommandSnapshot: a snapshot of its own says whether the gateway can
\* and may forward the command; the context is looked at after it.
Preflight(c) ==
  /\ call[c].pc = "preflight"
  /\ \/ Fail(c)
     \/ ~call[c].late /\ ~cancelled /\ Goto(c, "post")
  /\ UNCHANGED <<sourceVars, view, receipt, remoteVars, seen>>

\* The request reaches the gateway or not.  Stop cancels it in a goroutine of
\* its own (context.AfterFunc), so it may still leave.
Post(c) ==
  /\ call[c].pc = "post"
  /\ \/ Fail(c) /\ UNCHANGED wire
     \/ ~call[c].late /\ wire' = wire \cup {c} /\ Goto(c, "posted")
  /\ UNCHANGED <<sourceVars, view, receipt, ctl, frames, taken, seen>>

Alive(c) == ~call[c].late /\ ~cancelled

\* The gateway's answer to the request, or none.
PostDone(c) ==
  /\ call[c].pc = "posted"
  /\ \/ Fail(c)
     \/ call[c].kind = "override" /\ Goto(c, "fetch")
     \/ call[c].kind # "override" /\ Alive(c) /\ Succeed(c)
  /\ UNCHANGED <<sourceVars, view, receipt, remoteVars, seen>>

\* awaitOverride: a snapshot, or none.
Fetch(c) ==
  /\ call[c].pc = "fetch"
  /\ \/ Fail(c)
     \/ call' = [call EXCEPT ![c] = [@ EXCEPT !.pc = "fetched", !.snap = ctl]]
  /\ UNCHANGED <<sourceVars, view, receipt, remoteVars, seen>>

\* A snapshot without support or freshness fails, another one is fetched until
\* it has the exact readback.
Compare(c, ready) ==
  /\ call[c].pc = "fetched"
  /\ LET status == call[c].snap
         p == call[c].payload
     IN  IF ~Alive(c) \/ ~ready \/ status = NoStatus \/ Rejects(status, p) THEN Fail(c)
         ELSE Goto(c, IF Matches(status, p) THEN "apply" ELSE "fetch")
  /\ UNCHANGED <<sourceVars, view, receipt, remoteVars, seen>>

\* applyOverride, under the lock that Stop takes to join it.
Apply(c) ==
  /\ call[c].pc = "apply"
  /\ IF Alive(c)
     THEN /\ view' = [available |-> TRUE, override |-> call[c].snap, fresh |-> Kinds]
          /\ Succeed(c)
     ELSE Fail(c) /\ UNCHANGED view
  /\ UNCHANGED <<sourceVars, receipt, remoteVars, seen>>

-----------------------------------------------------------------------------
(* The five-second deadline.  PostCommand and a plain command set their own, *)
(* and nothing looks at an override's before it is sent.                    *)

Timed == {"publish", "await", "preflight", "post", "posted", "fetch", "fetched", "apply"}

DeadlinePasses(c) ==
  /\ call[c].pc \in Timed /\ ~call[c].late
  /\ call' = [call EXCEPT ![c].late = TRUE]
  /\ UNCHANGED <<sourceVars, view, receipt, remoteVars, seen>>

\* Where a call waits for somebody else.
Waiting == {"publish", "preflight", "post", "posted", "fetch"}

\* A wait ends by its context, or because its source was retired.
GiveUp(c) ==
  /\ call[c].pc \in Waiting
  /\ call[c].late \/ (IF call[c].pc = "publish" THEN call[c].source # source ELSE cancelled)
  /\ Fail(c)
  /\ UNCHANGED <<sourceVars, view, receipt, remoteVars, seen>>

-----------------------------------------------------------------------------
(* Source changes.  Each is made of critical sections of its own: todo has  *)
(* those that are still to come.                                            *)

unmoved == <<gatewayPublish, cancelled, receipt, call, wire, ctl, taken, seen>>

\* The broker connection is lost, with the frames on their way.
BrokerDown ==
  /\ open /\ source < MaxChanges /\ todo \cap {"lost", "invalidate"} = {}
  /\ open' = FALSE /\ frames' = <<>>
  /\ todo' = (todo \ {"subscribe"}) \cup {"lost"}
  /\ UNCHANGED <<source, gatewayMode, gatewayConnected, view, unmoved>>

\* advanceMQTTSession
LostHandler ==
  /\ "lost" \in todo
  /\ source' = source + 1 /\ todo' = (todo \ {"lost"}) \cup {"invalidate"}
  /\ UNCHANGED <<open, gatewayMode, gatewayConnected, view, frames, unmoved>>

\* invalidateCerbo
Invalidate ==
  /\ "invalidate" \in todo
  /\ source' = IF gatewayMode THEN source ELSE source + 1
  /\ view' = Unavailable /\ todo' = todo \ {"invalidate"}
  /\ UNCHANGED <<open, gatewayMode, gatewayConnected, frames, unmoved>>

BrokerUp ==
  /\ ~open /\ todo \cap {"lost", "invalidate"} = {}
  /\ open' = TRUE /\ todo' = todo \cup {"subscribe"}
  /\ UNCHANGED <<source, gatewayMode, gatewayConnected, view, frames, unmoved>>

\* A new session, to which the broker sends what it retained.
Subscribe ==
  /\ "subscribe" \in todo
  /\ source' = source + 1 /\ todo' = todo \ {"subscribe"}
  /\ \E topic \in {"state", "override"} : frames' = <<[topic |-> topic, status |-> ctl, retained |-> TRUE]>>
  /\ UNCHANGED <<open, gatewayMode, gatewayConnected, view, unmoved>>

Polling == gatewayMode /\ ~cancelled /\ todo \cap {"reset", "clear"} = {}

\* SetGatewayConnected: the status, then a new push generation, then, if the
\* gateway is gone, the controller's state.
GatewayStatus(v) ==
  /\ Polling /\ gatewayConnected # v /\ source < MaxChanges
  /\ gatewayConnected' = v /\ todo' = todo \cup (IF v THEN {"reset"} ELSE {"reset", "clear"})
  /\ UNCHANGED <<source, open, gatewayMode, view, frames, unmoved>>

ResetPush ==
  /\ "reset" \in todo
  /\ source' = source + 1 /\ todo' = todo \ {"reset"}
  /\ UNCHANGED <<open, gatewayMode, gatewayConnected, view, frames, unmoved>>

\* clearOptionalTelemetry
Clear ==
  /\ "clear" \in todo /\ "reset" \notin todo
  /\ view' = Unavailable /\ todo' = todo \ {"clear"}
  /\ UNCHANGED <<source, open, gatewayMode, gatewayConnected, frames, unmoved>>

\* ApplyState of a poll; the snapshot says whether it has the controller's
\* state and how old its observations are.
Poll ==
  /\ Polling /\ gatewayConnected
  /\ view' \in {Unavailable} \cup {[available |-> TRUE, override |-> ctl, fresh |-> fresh] : fresh \in {{}, Kinds}}
  /\ UNCHANGED <<sourceVars, frames, receipt, call, wire, ctl, taken, seen>>

\* mqttRecoveryProbe, when the broker is back: Stop, SetGatewayPublisher(nil),
\* DisableGatewayMode.
StopGateway ==
  /\ gatewayMode /\ open /\ "subscribe" \notin todo /\ ~cancelled
  /\ cancelled' = TRUE
  /\ UNCHANGED <<source, open, gatewayMode, gatewayPublish, gatewayConnected, todo, view, receipt, call, remoteVars, seen>>

ClearPublisher ==
  /\ cancelled /\ gatewayPublish /\ todo \cap {"reset", "clear"} = {}
  /\ gatewayPublish' = FALSE
  /\ UNCHANGED <<source, open, gatewayMode, gatewayConnected, cancelled, todo, view, receipt, call, remoteVars, seen>>

DisableGateway ==
  /\ gatewayMode /\ cancelled /\ ~gatewayPublish
  /\ gatewayMode' = FALSE /\ gatewayConnected' = FALSE
  /\ source' = source + 1 /\ todo' = todo \cup {"clear"}
  /\ UNCHANGED <<open, view, frames, unmoved>>

-----------------------------------------------------------------------------
(* The controller (external). *)

\* A command may arrive at any time after it was sent, or never (QoS 0).  The
\* controller takes an override or refuses it; what it says of other commands is not
\* looked at.
Arrives(c) ==
  /\ c \in wire /\ wire' = wire \ {c}
  /\ IF call[c].kind = "override"
     THEN \/ ctl' = [payload |-> call[c].payload, error |-> FALSE] /\ taken' = taken \cup {call[c].payload}
          \/ ctl' = [payload |-> call[c].payload, error |-> TRUE] /\ UNCHANGED taken
     ELSE UNCHANGED <<ctl, taken>>
  /\ UNCHANGED <<sourceVars, view, receipt, call, frames, seen>>

\* A frame with the current status, or with one that is null or not valid.
Publishes(topic) ==
  /\ open /\ "subscribe" \notin todo /\ Len(frames) < MaxTransit /\ receipt < MaxReceipts
  /\ \E status \in (IF topic \in {"state", "override"} THEN {ctl, NoStatus} ELSE {NoStatus}) :
       frames' = Append(frames, [topic |-> topic, status |-> status, retained |-> FALSE])
  /\ UNCHANGED <<sourceVars, view, receipt, call, wire, ctl, taken, seen>>

\* Another dashboard commands the controller as well, maybe with a request ID
\* that a call here uses too.
Others(p) ==
  /\ Cardinality(taken) < MaxOthers /\ taken' = taken \cup {p}
  /\ ctl' = [payload |-> p, error |-> FALSE]
  /\ UNCHANGED <<sourceVars, view, receipt, call, wire, frames, seen>>

-----------------------------------------------------------------------------
\* main.go found the broker, or fell back to IGW before it serves commands.
Init ==
  /\ source = 0 /\ open = FALSE /\ todo = {}
  /\ gatewayMode \in BOOLEAN /\ gatewayPublish = gatewayMode /\ gatewayConnected = FALSE /\ cancelled = FALSE
  /\ view = Unavailable /\ receipt = 0 /\ call = [c \in Calls |-> NewCall]
  /\ wire = {} /\ ctl = Initial /\ frames = <<>>
  /\ taken = {} /\ seen = {}

CallStep(c) ==
  \/ Capable(c) \/ Route(c) \/ SendPlain(c) \/ Acknowledge(c)
  \/ (\E ready \in BOOLEAN : Compare(c, ready)) \/ Apply(c) \/ GiveUp(c)

AnswerStep(c) == PublishDone(c) \/ Preflight(c) \/ Post(c) \/ PostDone(c) \/ Fetch(c)

SourceStep ==
  \/ BrokerDown \/ LostHandler \/ Invalidate \/ BrokerUp \/ Subscribe
  \/ (\E v \in BOOLEAN : GatewayStatus(v)) \/ ResetPush \/ Clear \/ Poll
  \/ StopGateway \/ ClearPublisher \/ DisableGateway

ControllerStep ==
  \/ \E c \in Calls : Arrives(c)
  \/ \E p \in Payloads : Others(p)
  \/ \E topic \in Topics : Publishes(topic)

Next ==
  \/ \E c \in Calls : \/ \E kind \in Kinds, p \in [id : IDs, value : OwnValues] \cup {NoPayload} : Begin(c, kind, p)
                      \/ CallStep(c) \/ AnswerStep(c) \/ DeadlinePasses(c)
  \/ Receive \/ (\E kind \in Kinds : Ages(kind)) \/ Expires
  \/ SourceStep \/ ControllerStep

Spec == Init /\ [][Next]_vars

-----------------------------------------------------------------------------
(* Properties. *)

Statuses == [payload : Payloads \cup {NoPayload}, error : BOOLEAN] \cup {NoStatus}
Pcs == {"new", "capable", "route", "send", "publish", "await", "preflight", "post", "posted", "fetch", "fetched",
        "apply", "ok", "error"}
CallRecords ==
  [pc : Pcs, kind : {"override", "tariff", "plain"}, payload : Payloads \cup {NoPayload}, source : Nat, receipt : Nat,
   late : BOOLEAN, snap : Statuses]
Views == [available : BOOLEAN, override : Statuses, fresh : SUBSET (Kinds \cup {"override"})]
Frames == [topic : Topics, status : Statuses, retained : BOOLEAN]

SourceTypes ==
  /\ source \in Nat /\ open \in BOOLEAN /\ gatewayMode \in BOOLEAN /\ gatewayPublish \in BOOLEAN
  /\ gatewayConnected \in BOOLEAN /\ cancelled \in BOOLEAN
  /\ todo \subseteq {"lost", "invalidate", "subscribe", "reset", "clear"}
StatusTypes ==
  /\ view \in Views
  /\ ctl \in Statuses /\ frames \in Seq(Frames) /\ taken \subseteq Payloads
CallTypes == receipt \in Nat /\ call \in [Calls -> CallRecords] /\ wire \subseteq Calls /\ seen \subseteq Calls

\* Types of the source, the controller's status and the calls.
TypeOK == SourceTypes /\ StatusTypes /\ CallTypes

\* "old matching status acknowledged without a new observation" is a failure
\* (controller_commands_test.go:151), and a retained frame is no observation:
\* an override settled over MQTT was read back, live, after it was sent and
\* from the source it was sent to, also when request IDs are used again.
AckAfterDispatch ==
  \A c \in Calls : call[c].pc = "ok" /\ call[c].kind = "override" /\ call[c].snap = NoStatus => c \in seen

\* "retired source reported accepted" is a failure
\* (controller_commands_test.go:214): no call succeeds after the source it was
\* sent through has been retired.
Overtaken(c) ==
  IF call[c].pc \in {"publish", "await"} THEN call[c].source # source \/ gatewayMode ELSE cancelled
RetiredNotAccepted ==
  [][\A c \in Calls : Overtaken(c) => call'[c].pc # "ok" \/ call[c].pc = "ok"]_vars

\* The answers to commands mean what CommandOutcome says.
Outcome == INSTANCE CommandOutcome WITH
  outcome <- [c \in Calls |-> IF call[c].pc \in {"new", "ok", "error"} THEN call[c].pc ELSE "pending"],
  asked <- [c \in Calls |-> call[c].payload],
  accepted <- taken
MeansTaken == Outcome!Spec
=============================================================================
