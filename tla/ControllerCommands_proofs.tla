---------------------- MODULE ControllerCommands_proofs ----------------------
(* Proofs about ControllerCommands, for any number of calls, request IDs,  *)
(* values and source changes.                                              *)
EXTENDS ControllerCommands, TLAPS

\* A status without an error names an override that the controller took.
Honest(status) ==
  status # NoStatus /\ ~status.error /\ status.payload # NoPayload => status.payload \in taken

OverMQTT == {"publish", "await"}
OverIGW == {"preflight", "post", "posted", "fetch", "fetched", "apply"}

\* What a call's progress says of its command.
Shape(r) ==
  /\ r.kind = "override" <=> r.payload # NoPayload
  /\ r.pc \in {"await", "fetch", "fetched", "apply"} => r.kind = "override"
  /\ r.pc = "apply" => Matches(r.snap, r.payload)

\* The source a call goes through.  MQTT stays once it is the source, and IGW
\* is cancelled before that.
Routed(r) ==
  /\ r.source <= source
  /\ r.pc \in OverMQTT => ~gatewayMode
  /\ r.pc \in OverIGW => gatewayMode \/ cancelled

\* A fresh, matching status with a serial newer than the call's is its own
\* readback.
ReadBack(c, r) ==
  r.pc \in OverMQTT /\ r.kind = "override" /\ r.source = source /\ "override" \in view.fresh
    /\ receipt > r.receipt /\ Matches(view.override, r.payload) => c \in seen

Settled(c, r) == r.pc = "ok" /\ r.kind = "override" /\ r.snap = NoStatus => c \in seen

CallInv == \A c \in Calls : Shape(call[c]) /\ Routed(call[c]) /\ Honest(call[c].snap) /\ ReadBack(c, call[c]) /\ Settled(c, call[c])

ViewInv ==
  /\ Honest(ctl) /\ Honest(view.override) /\ (\A i \in 1..Len(frames) : Honest(frames[i].status))
  /\ gatewayPublish => gatewayMode

Inv == TypeOK /\ ViewInv /\ CallInv

\* Initially there is nothing but new calls.
LEMMA InitInv == Init => Inv
<1> SUFFICES ASSUME Init PROVE Inv
  OBVIOUS
<1> USE CommandsAssumption DEF Init
<1>1. call \in [Calls -> CallRecords] /\ \A c \in Calls : call[c] = NewCall
  <2>1. NoStatus \in Statuses
    BY DEF Statuses
  <2>2. NewCall \in CallRecords
    BY <2>1 DEF NewCall, CallRecords, Pcs
  <2> QED BY <2>2
<1>2. TypeOK
  <2>1. SourceTypes
    BY DEF SourceTypes
  <2>2. Initial \in Statuses /\ NoStatus \in Statuses
    BY DEF Initial, Statuses
  <2>3. StatusTypes
    BY <2>2 DEF StatusTypes, Unavailable, Views
  <2>4. CallTypes
    BY <1>1 DEF CallTypes
  <2> QED BY <2>1, <2>3, <2>4 DEF TypeOK
<1>3. ViewInv
  BY DEF ViewInv, Honest, Unavailable, Initial
<1>4. CallInv
  BY <1>1 DEF CallInv, Shape, Routed, Honest, ReadBack, Settled, NewCall, OverMQTT, OverIGW, Matches
<1> QED BY <1>2, <1>3, <1>4 DEF Inv

-----------------------------------------------------------------------------
(* Steps of a call. *)

\* A step of one call that changes nothing else keeps the invariant, if what
\* the call becomes satisfies it.
LEMMA OneCall ==
  ASSUME Inv, NEW c \in Calls, NEW r \in CallRecords, call' = [call EXCEPT ![c] = r],
         UNCHANGED <<sourceVars, view, receipt, ctl, frames, taken, seen>>, wire' \subseteq Calls,
         Shape(r), Routed(r), Honest(r.snap), ReadBack(c, r), Settled(c, r)
  PROVE  Inv'
<1>1. call' \in [Calls -> CallRecords] /\ call'[c] = r /\ \A d \in Calls : d # c => call'[d] = call[d]
  BY DEF Inv, TypeOK, CallTypes
<1>2. TypeOK'
  BY <1>1 DEF Inv, TypeOK, SourceTypes, StatusTypes, CallTypes, sourceVars
<1>3. ViewInv'
  BY DEF Inv, ViewInv, Honest, sourceVars
<1>4. CallInv'
  <2> SUFFICES ASSUME NEW d \in Calls
               PROVE (Shape(call[d]) /\ Routed(call[d]) /\ Honest(call[d].snap) /\ ReadBack(d, call[d]) /\ Settled(d, call[d]))'
    BY DEF CallInv
  <2>1. CASE d = c
    BY <1>1, <2>1 DEF Shape, Routed, Honest, ReadBack, Settled, Matches, sourceVars
  <2>2. CASE d # c
    BY <1>1, <2>2 DEF Inv, CallInv, Shape, Routed, Honest, ReadBack, Settled, Matches, sourceVars
  <2> QED BY <2>1, <2>2
<1> QED BY <1>2, <1>3, <1>4 DEF Inv

rest == <<sourceVars, view, receipt, ctl, frames, taken, seen>>

\* A call that fails.
LEMMA FailKeeps ==
  ASSUME Inv, NEW c \in Calls, call[c].pc # "new", Fail(c), UNCHANGED rest, wire' \subseteq Calls
  PROVE  Inv'
<1> DEFINE r == [call[c] EXCEPT !.pc = "error", !.source = 0, !.receipt = 0, !.late = FALSE, !.snap = NoStatus]
<1>1. call[c] \in CallRecords /\ source \in Nat
  BY DEF Inv, TypeOK, CallTypes, SourceTypes
<1>2. r \in CallRecords
  <2>1. NoStatus \in Statuses
    BY DEF Statuses
  <2> QED BY <1>1, <2>1 DEF CallRecords, Pcs
<1>3. call' = [call EXCEPT ![c] = r]
  BY DEF Fail, Return
<1>4. Shape(call[c])
  BY DEF Inv, CallInv
<1>5. r.pc = "error" /\ r.kind = call[c].kind /\ r.payload = call[c].payload /\ r.source = 0 /\ r.snap = NoStatus
  BY <1>1 DEF CallRecords
<1>6. Shape(r) /\ Routed(r) /\ Honest(r.snap) /\ ReadBack(c, r) /\ Settled(c, r)
  BY <1>1, <1>4, <1>5 DEF Shape, Routed, Honest, ReadBack, Settled, OverMQTT, OverIGW
<1> HIDE DEF r
<1> QED BY <1>2, <1>3, <1>6, OneCall DEF rest

\* A call that goes on.  It enters OverMQTT only by Send, which notes the
\* receipt.
LEMMA GotoKeeps ==
  ASSUME Inv, NEW c \in Calls, NEW to \in Pcs \ {"new", "ok", "publish"}, Goto(c, to), UNCHANGED rest, wire' \subseteq Calls,
         call[c].pc # "new",
         to \in {"await", "fetch", "fetched", "apply"} => call[c].kind = "override",
         to = "apply" => Matches(call[c].snap, call[c].payload),
         to = "await" => call[c].pc = "publish",
         to \in OverIGW => call[c].pc \in OverIGW \/ gatewayMode
  PROVE  Inv'
<1> DEFINE r == [call[c] EXCEPT !.pc = to]
<1>1. call[c] \in CallRecords
  BY DEF Inv, TypeOK, CallTypes
<1>2. r \in CallRecords
  BY <1>1 DEF CallRecords
<1>3. call' = [call EXCEPT ![c] = r]
  BY DEF Goto
<1>4. Shape(call[c]) /\ Routed(call[c]) /\ Honest(call[c].snap) /\ ReadBack(c, call[c])
  BY DEF Inv, CallInv
<1>5. /\ r.pc = to /\ r.kind = call[c].kind /\ r.payload = call[c].payload /\ r.source = call[c].source
      /\ r.snap = call[c].snap /\ r.receipt = call[c].receipt
  BY <1>1 DEF CallRecords
<1> HIDE DEF r
<1>6. Shape(r)
  BY <1>4, <1>5 DEF Shape
<1>7. Routed(r)
  BY <1>4, <1>5 DEF Routed, OverMQTT
<1>8. Honest(r.snap)
  BY <1>4, <1>5
<1>9. ReadBack(c, r)
  BY <1>4, <1>5 DEF ReadBack, OverMQTT
<1>10. Settled(c, r)
  BY <1>5 DEF Settled
<1> QED BY <1>2, <1>3, <1>6, <1>7, <1>8, <1>9, <1>10, OneCall DEF rest

\* A call that succeeds.
LEMMA SucceedKeeps ==
  ASSUME Inv, NEW c \in Calls, call[c].pc # "new", Succeed(c), UNCHANGED rest, UNCHANGED wire,
         call[c].kind = "override" => c \in seen \/ call[c].snap # NoStatus
  PROVE  Inv'
<1> DEFINE r == [call[c] EXCEPT !.pc = "ok", !.source = 0, !.receipt = 0, !.late = FALSE, !.snap = call[c].snap]
<1>1. call[c] \in CallRecords /\ source \in Nat /\ wire \subseteq Calls
  BY DEF Inv, TypeOK, CallTypes, SourceTypes
<1>2. r \in CallRecords
  BY <1>1 DEF CallRecords, Pcs
<1>3. call' = [call EXCEPT ![c] = r]
  BY DEF Succeed, Return
<1>4. Shape(call[c]) /\ Honest(call[c].snap)
  BY DEF Inv, CallInv
<1>5. r.pc = "ok" /\ r.kind = call[c].kind /\ r.payload = call[c].payload /\ r.source = 0 /\ r.snap = call[c].snap
  BY <1>1 DEF CallRecords
<1> HIDE DEF r
<1>6. Shape(r) /\ Routed(r) /\ Honest(r.snap) /\ ReadBack(c, r) /\ Settled(c, r)
  BY <1>1, <1>4, <1>5 DEF Shape, Routed, ReadBack, Settled, OverMQTT, OverIGW
<1> QED BY <1>1, <1>2, <1>3, <1>6, OneCall DEF rest

\* A new call captures the source.
LEMMA BeginKeeps ==
  ASSUME Inv, NEW c \in Calls, NEW kind \in Kinds, NEW p \in [id : IDs, value : OwnValues] \cup {NoPayload}, Begin(c, kind, p)
  PROVE  Inv'
<1> DEFINE r == [call[c] EXCEPT !.pc = IF kind = "plain" THEN "route" ELSE "capable", !.kind = kind, !.payload = p, !.source = source]
<1>1. call[c] \in CallRecords /\ source \in Nat /\ wire \subseteq Calls
  BY DEF Inv, TypeOK, CallTypes, SourceTypes
<1>2. p \in Payloads \cup {NoPayload} /\ kind \in {"override", "tariff", "plain"}
  BY CommandsAssumption DEF Payloads
<1>3. r \in CallRecords
  BY <1>1, <1>2 DEF CallRecords, Pcs
<1>4. call' = [call EXCEPT ![c] = r] /\ UNCHANGED rest /\ UNCHANGED wire
  BY DEF Begin, rest, remoteVars
<1>5. Honest(call[c].snap) /\ (kind # "override") = (p = NoPayload)
  BY DEF Inv, CallInv, Begin
<1>6. /\ r.pc \in {"route", "capable"} /\ r.kind = kind /\ r.payload = p /\ r.source = source /\ r.snap = call[c].snap
  BY <1>1 DEF CallRecords
<1> HIDE DEF r
<1>7. Shape(r) /\ Routed(r) /\ Honest(r.snap) /\ ReadBack(c, r) /\ Settled(c, r)
  BY <1>1, <1>5, <1>6 DEF Shape, Routed, ReadBack, Settled, OverMQTT, OverIGW
<1> QED BY <1>1, <1>3, <1>4, <1>7, OneCall DEF rest

\* What is sent over MQTT notes the receipt it must be read back after.
LEMMA SendKeeps ==
  ASSUME Inv, NEW c \in Calls, call[c].pc # "new", Send(c), UNCHANGED rest
  PROVE  Inv'
<1> DEFINE r == [call[c] EXCEPT !.pc = "publish", !.receipt = receipt]
<1>1. call[c] \in CallRecords /\ receipt \in Nat /\ wire \subseteq Calls
  BY DEF Inv, TypeOK, CallTypes
<1>2. CASE MaySend(c)
  <2>1. r \in CallRecords
    BY <1>1 DEF CallRecords, Pcs
  <2>2. call' = [call EXCEPT ![c] = r] /\ wire' \subseteq Calls
    BY <1>1, <1>2 DEF Send
  <2>3. Shape(call[c]) /\ Routed(call[c]) /\ Honest(call[c].snap)
    BY DEF Inv, CallInv
  <2>4. /\ r.pc = "publish" /\ r.kind = call[c].kind /\ r.payload = call[c].payload /\ r.source = call[c].source
        /\ r.snap = call[c].snap /\ r.receipt = receipt
    BY <1>1 DEF CallRecords
  <2> HIDE DEF r
  <2>5. Shape(r) /\ Routed(r) /\ Honest(r.snap) /\ Settled(c, r)
    BY <1>2, <2>3, <2>4 DEF Shape, Routed, Settled, OverMQTT, OverIGW, MaySend
  <2>6. ReadBack(c, r)
    BY <1>1, <2>4 DEF ReadBack
  <2> QED BY <2>1, <2>2, <2>5, <2>6, OneCall DEF rest
<1>3. CASE ~MaySend(c)
  BY <1>1, <1>3, FailKeeps DEF Send
<1> QED BY <1>2, <1>3

\* The steps of a call over MQTT.
LEMMA MQTTKeeps ==
  ASSUME Inv, NEW c \in Calls, Capable(c) \/ Route(c) \/ SendPlain(c) \/ PublishDone(c) \/ Acknowledge(c)
  PROVE  Inv'
<1>1. call[c] \in CallRecords /\ wire \subseteq Calls
  BY DEF Inv, TypeOK, CallTypes
<1>2. CASE Capable(c)
  <2>1. call[c].pc # "new" /\ UNCHANGED rest /\ UNCHANGED wire /\ (Goto(c, "route") \/ Fail(c))
    BY <1>2 DEF Capable, rest, remoteVars
  <2>2. CASE Goto(c, "route")
    BY <1>1, <2>1, <2>2, GotoKeeps DEF Pcs, OverIGW
  <2> QED BY <1>1, <2>1, <2>2, FailKeeps
<1>3. CASE Route(c)
  <2>1. call[c].pc # "new" /\ UNCHANGED rest
    BY <1>3 DEF Route, rest
  <2>2. CASE Fail(c) /\ UNCHANGED wire
    BY <1>1, <2>1, <2>2, FailKeeps
  <2>3. CASE gatewayPublish /\ Goto(c, "preflight") /\ UNCHANGED wire
    <3>1. gatewayMode
      BY <2>3 DEF Inv, ViewInv
    <3> QED BY <1>1, <2>1, <2>3, <3>1, GotoKeeps DEF Pcs
  <2>4. CASE Goto(c, "send") /\ UNCHANGED wire
    BY <1>1, <2>1, <2>4, GotoKeeps DEF Pcs, OverIGW
  <2>5. CASE Send(c)
    BY <2>1, <2>5, SendKeeps
  <2> QED BY <1>3, <2>2, <2>3, <2>4, <2>5 DEF Route
<1>4. CASE SendPlain(c)
  BY <1>4, SendKeeps DEF SendPlain, rest
<1>5. CASE PublishDone(c)
  <2>1. call[c].pc = "publish" /\ UNCHANGED rest /\ UNCHANGED wire
    BY <1>5 DEF PublishDone, rest, remoteVars
  <2>2. CASE Fail(c)
    BY <1>1, <2>1, <2>2, FailKeeps
  <2>3. CASE call[c].kind = "override" /\ Goto(c, "await")
    BY <1>1, <2>1, <2>3, GotoKeeps DEF Pcs, OverIGW
  <2>4. CASE call[c].kind # "override" /\ Succeed(c)
    BY <2>1, <2>4, SucceedKeeps
  <2> QED BY <1>5, <2>2, <2>3, <2>4 DEF PublishDone
<1>6. CASE Acknowledge(c)
  <2>1. call[c].pc = "await" /\ UNCHANGED rest /\ UNCHANGED wire
    BY <1>6 DEF Acknowledge, rest, remoteVars
  <2>2. CASE Fail(c)
    BY <1>1, <2>1, <2>2, FailKeeps
  <2>3. CASE /\ call[c].source = source /\ Ready(view, "override") /\ NewReceipt(c)
             /\ Matches(view.override, call[c].payload) /\ Succeed(c)
    <3>1. call[c].kind = "override" /\ ReadBack(c, call[c])
      BY <2>1 DEF Inv, CallInv, Shape
    <3>2. c \in seen
      BY <2>1, <2>3, <3>1 DEF ReadBack, Ready, NewReceipt, OverMQTT
    <3> QED BY <2>1, <2>3, <3>2, SucceedKeeps
  <2> QED BY <1>6, <2>2, <2>3 DEF Acknowledge
<1> QED BY <1>2, <1>3, <1>4, <1>5, <1>6

\* A snapshot is a status of the controller.
LEMMA FetchKeeps == ASSUME Inv, NEW c \in Calls, Fetch(c) PROVE Inv'
<1> DEFINE r == [call[c] EXCEPT !.pc = "fetched", !.snap = ctl]
<1>1. call[c] \in CallRecords /\ ctl \in Statuses /\ wire \subseteq Calls
  BY DEF Inv, TypeOK, CallTypes, StatusTypes
<1>2. call[c].pc = "fetch" /\ UNCHANGED rest /\ UNCHANGED wire
  BY DEF Fetch, rest, remoteVars
<1>3. CASE call' = [call EXCEPT ![c] = r]
  <2>1. r \in CallRecords
    BY <1>1 DEF CallRecords, Pcs
  <2>2. Shape(call[c]) /\ Routed(call[c]) /\ Honest(ctl)
    BY DEF Inv, CallInv, ViewInv
  <2>3. /\ r.pc = "fetched" /\ r.kind = call[c].kind /\ r.payload = call[c].payload /\ r.source = call[c].source
        /\ r.snap = ctl
    BY <1>1 DEF CallRecords
  <2> HIDE DEF r
  <2>4. Shape(r) /\ Routed(r) /\ Honest(r.snap) /\ ReadBack(c, r) /\ Settled(c, r)
    BY <1>2, <2>2, <2>3 DEF Shape, Routed, ReadBack, Settled, OverMQTT, OverIGW
  <2> QED BY <1>1, <1>2, <1>3, <2>1, <2>4, OneCall DEF rest
<1>4. CASE Fail(c)
  BY <1>1, <1>2, <1>4, FailKeeps
<1> QED BY <1>3, <1>4 DEF Fetch

\* A snapshot is applied only while IGW is the source, when no call waits for
\* a readback over MQTT.
LEMMA ApplyKeeps == ASSUME Inv, NEW c \in Calls, Apply(c) PROVE Inv'
<1>1. call[c] \in CallRecords /\ wire \subseteq Calls
  BY DEF Inv, TypeOK, CallTypes
<1>2. call[c].pc = "apply" /\ UNCHANGED <<sourceVars, receipt, ctl, frames, taken, seen, wire>>
  BY DEF Apply, remoteVars
<1>3. CASE ~Alive(c)
  BY <1>1, <1>2, <1>3, FailKeeps DEF Apply, rest
<1>4. CASE Alive(c)
  <2> DEFINE r == [call[c] EXCEPT !.pc = "ok", !.source = 0, !.receipt = 0, !.late = FALSE, !.snap = call[c].snap]
  <2>1. call' = [call EXCEPT ![c] = r] /\ view' = [available |-> TRUE, override |-> call[c].snap, fresh |-> Kinds]
    BY <1>4 DEF Apply, Succeed, Return
  <2>2. r \in CallRecords
    BY <1>1 DEF CallRecords, Pcs
  <2>3. r.pc = "ok" /\ r.kind = call[c].kind /\ r.payload = call[c].payload /\ r.source = 0 /\ r.snap = call[c].snap
    BY <1>1 DEF CallRecords
  <2> HIDE DEF r
  <2>4. Shape(call[c]) /\ Routed(call[c]) /\ Honest(call[c].snap)
    BY DEF Inv, CallInv
  <2>5. gatewayMode
    BY <1>2, <1>4, <2>4 DEF Routed, OverIGW, Alive
  <2>6. call' \in [Calls -> CallRecords] /\ call'[c] = r /\ \A d \in Calls : d # c => call'[d] = call[d]
    BY <2>1, <2>2 DEF Inv, TypeOK, CallTypes
  <2>7. TypeOK'
    <3>1. call[c].snap \in Statuses
      BY <1>1 DEF CallRecords
    <3>2. StatusTypes'
      BY <1>2, <2>1, <3>1 DEF Inv, TypeOK, StatusTypes, Views
    <3>3. SourceTypes' /\ CallTypes'
      BY <1>2, <2>6 DEF Inv, TypeOK, SourceTypes, CallTypes, sourceVars
    <3> QED BY <3>2, <3>3 DEF TypeOK
  <2>8. ViewInv'
    BY <1>2, <2>1, <2>4 DEF Inv, ViewInv, Honest, sourceVars
  <2>9. CallInv'
    <3> SUFFICES ASSUME NEW d \in Calls
                 PROVE (Shape(call[d]) /\ Routed(call[d]) /\ Honest(call[d].snap) /\ ReadBack(d, call[d]) /\ Settled(d, call[d]))'
      BY DEF CallInv
    <3>1. CASE d = c
      <4>1. r.snap # NoStatus /\ source \in Nat
        BY <1>2, <2>3, <2>4 DEF Shape, Matches, Inv, TypeOK, SourceTypes
      <4>2. (Shape(call[d]) /\ Routed(call[d]) /\ Honest(call[d].snap))'
        BY <1>2, <2>3, <2>4, <2>6, <3>1, <4>1 DEF Shape, Routed, Honest, OverMQTT, OverIGW, sourceVars
      <4>3. (ReadBack(d, call[d]) /\ Settled(d, call[d]))'
        BY <2>3, <2>6, <3>1, <4>1 DEF ReadBack, Settled, OverMQTT
      <4> QED BY <4>2, <4>3
    <3>2. CASE d # c
      <4>1. call'[d] = call[d] /\ Shape(call[d]) /\ Routed(call[d]) /\ Honest(call[d].snap) /\ Settled(d, call[d])
        BY <2>6, <3>2 DEF Inv, CallInv
      <4>2. call[d].pc \notin OverMQTT
        BY <2>5, <4>1 DEF Routed
      <4>3. (Shape(call[d]) /\ Routed(call[d]) /\ Honest(call[d].snap))'
        BY <1>2, <4>1 DEF Shape, Routed, Honest, Matches, sourceVars
      <4>4. (ReadBack(d, call[d]) /\ Settled(d, call[d]))'
        BY <1>2, <4>1, <4>2 DEF ReadBack, Settled, sourceVars
      <4> QED BY <4>3, <4>4
    <3> QED BY <3>1, <3>2
  <2> QED BY <2>7, <2>8, <2>9 DEF Inv
<1> QED BY <1>3, <1>4

\* The other steps of a call over IGW, and its deadline.
LEMMA IGWKeeps ==
  ASSUME Inv, NEW c \in Calls,
         Preflight(c) \/ Post(c) \/ PostDone(c) \/ (\E ready \in BOOLEAN : Compare(c, ready)) \/ GiveUp(c) \/ DeadlinePasses(c)
  PROVE  Inv'
<1>1. call[c] \in CallRecords /\ wire \subseteq Calls
  BY DEF Inv, TypeOK, CallTypes
<1>2. CASE Preflight(c)
  <2>1. call[c].pc = "preflight" /\ UNCHANGED rest /\ UNCHANGED wire /\ (Fail(c) \/ Goto(c, "post"))
    BY <1>2 DEF Preflight, rest, remoteVars
  <2>2. CASE Goto(c, "post")
    BY <1>1, <2>1, <2>2, GotoKeeps DEF Pcs, OverIGW
  <2> QED BY <1>1, <2>1, <2>2, FailKeeps
<1>3. CASE Post(c)
  <2>1. call[c].pc = "post" /\ UNCHANGED rest /\ wire' \subseteq Calls /\ (Fail(c) \/ Goto(c, "posted"))
    BY <1>1, <1>3 DEF Post, rest
  <2>2. CASE Goto(c, "posted")
    BY <2>1, <2>2, GotoKeeps DEF Pcs, OverIGW
  <2> QED BY <2>1, <2>2, FailKeeps
<1>4. CASE PostDone(c)
  <2>1. call[c].pc = "posted" /\ UNCHANGED rest /\ UNCHANGED wire
    BY <1>4 DEF PostDone, rest, remoteVars
  <2>2. CASE Fail(c)
    BY <1>1, <2>1, <2>2, FailKeeps
  <2>3. CASE call[c].kind = "override" /\ Goto(c, "fetch")
    BY <1>1, <2>1, <2>3, GotoKeeps DEF Pcs, OverIGW
  <2>4. CASE call[c].kind # "override" /\ Succeed(c)
    BY <2>1, <2>4, SucceedKeeps
  <2> QED BY <1>4, <2>2, <2>3, <2>4 DEF PostDone
<1>5. CASE \E ready \in BOOLEAN : Compare(c, ready)
  <2>1. call[c].pc = "fetched" /\ UNCHANGED rest /\ UNCHANGED wire
    BY <1>5 DEF Compare, rest, remoteVars
  <2>2. call[c].kind = "override"
    BY <2>1 DEF Inv, CallInv, Shape
  <2>3. CASE Fail(c)
    BY <1>1, <2>1, <2>3, FailKeeps
  <2>4. CASE Goto(c, "apply") /\ Matches(call[c].snap, call[c].payload)
    BY <1>1, <2>1, <2>2, <2>4, GotoKeeps DEF Pcs, OverIGW
  <2>5. CASE Goto(c, "fetch")
    BY <1>1, <2>1, <2>2, <2>5, GotoKeeps DEF Pcs, OverIGW
  <2> QED BY <1>5, <2>3, <2>4, <2>5 DEF Compare
<1>6. CASE GiveUp(c)
  <2>1. call[c].pc # "new" /\ UNCHANGED rest /\ UNCHANGED wire /\ Fail(c)
    BY <1>6 DEF GiveUp, Waiting, rest, remoteVars
  <2> QED BY <1>1, <2>1, FailKeeps
<1>7. CASE DeadlinePasses(c)
  <2> DEFINE r == [call[c] EXCEPT !.late = TRUE]
  <2>1. call' = [call EXCEPT ![c] = r] /\ UNCHANGED rest /\ UNCHANGED wire
    BY <1>7 DEF DeadlinePasses, rest, remoteVars
  <2>2. r \in CallRecords
    BY <1>1 DEF CallRecords
  <2>3. /\ r.pc = call[c].pc /\ r.kind = call[c].kind /\ r.payload = call[c].payload /\ r.source = call[c].source
        /\ r.snap = call[c].snap /\ r.receipt = call[c].receipt
    BY <1>1 DEF CallRecords
  <2> HIDE DEF r
  <2>4. Shape(call[c]) /\ Routed(call[c]) /\ Honest(call[c].snap) /\ ReadBack(c, call[c]) /\ Settled(c, call[c])
    BY DEF Inv, CallInv
  <2>5. Shape(r) /\ Routed(r) /\ Honest(r.snap) /\ ReadBack(c, r) /\ Settled(c, r)
    BY <2>3, <2>4 DEF Shape, Routed, ReadBack, Settled
  <2> QED BY <1>1, <2>1, <2>2, <2>5, OneCall DEF rest
<1> QED BY <1>2, <1>3, <1>4, <1>5, <1>6, <1>7

-----------------------------------------------------------------------------
(* Steps around the calls. *)

\* A step that leaves the calls alone and retires sources only forwards.
LEMMA Around ==
  ASSUME Inv, TypeOK', ViewInv', UNCHANGED call, seen \subseteq seen', taken \subseteq taken', source <= source',
         gatewayMode' => gatewayMode, gatewayMode \/ cancelled => gatewayMode' \/ cancelled',
         \A c \in Calls : ReadBack(c, call[c])'
  PROVE  Inv'
<1> SUFFICES ASSUME NEW c \in Calls
             PROVE (Shape(call[c]) /\ Routed(call[c]) /\ Honest(call[c].snap) /\ Settled(c, call[c]))'
  BY DEF Inv, CallInv
<1>1. Shape(call[c]) /\ Routed(call[c]) /\ Honest(call[c].snap) /\ Settled(c, call[c])
  BY DEF Inv, CallInv
<1>2. call[c] \in CallRecords /\ source \in Nat /\ source' \in Nat
  BY DEF Inv, TypeOK, CallTypes, SourceTypes
<1>3. (Shape(call[c]) /\ Honest(call[c].snap) /\ Settled(c, call[c]))'
  BY <1>1 DEF Shape, Honest, Settled, Matches
<1>4. call[c].source \in Nat
  BY <1>2 DEF CallRecords
<1>5. Routed(call[c])'
  BY <1>1, <1>2, <1>4 DEF Routed
<1> QED BY <1>3, <1>5

\* Nothing is read back by a step that retires the source, takes the authority
\* of the status away or leaves it alone, or that happens over IGW.
LEMMA NotRead ==
  ASSUME Inv, UNCHANGED <<call, receipt, seen>>, source \in Nat, source' \in Nat,
         \/ source' > source \/ view'.fresh = {} \/ gatewayMode
         \/ source' = source /\ view'.override = view.override /\ view'.fresh \subseteq view.fresh
  PROVE  \A c \in Calls : ReadBack(c, call[c])'
<1> SUFFICES ASSUME NEW c \in Calls PROVE ReadBack(c, call[c])'
  OBVIOUS
<1>1. Routed(call[c]) /\ ReadBack(c, call[c]) /\ call[c] \in CallRecords
  BY DEF Inv, CallInv, TypeOK, CallTypes
<1>2. call[c].source \in Nat
  BY <1>1 DEF CallRecords
<1>3. CASE source' > source
  BY <1>1, <1>2, <1>3 DEF Routed, ReadBack
<1>4. CASE view'.fresh = {}
  BY <1>4 DEF ReadBack
<1>5. CASE gatewayMode
  BY <1>1, <1>5 DEF Routed, ReadBack
<1>6. CASE source' = source /\ view'.override = view.override /\ view'.fresh \subseteq view.fresh
  BY <1>1, <1>6 DEF ReadBack, Matches
<1> QED BY <1>3, <1>4, <1>5, <1>6

\* The controller's frames.
LEMMA ReceiveKeeps == ASSUME Inv, Receive PROVE Inv'
<1> DEFINE f == Head(frames)
<1>1. frames \in Seq(Frames) /\ frames # <<>> /\ frames' = Tail(frames) /\ UNCHANGED <<sourceVars, call, wire, ctl, taken>>
  BY DEF Receive, Inv, TypeOK, StatusTypes
<1>2. f \in Frames /\ f = frames[1] /\ 1 \in 1..Len(frames) /\ frames' \in Seq(Frames)
  BY <1>1
<1>3. \A i \in 1..Len(frames') : frames'[i] = frames[i+1] /\ i+1 \in 1..Len(frames)
  BY <1>1
<1>4. Honest(f.status) /\ (\A i \in 1..Len(frames') : Honest(frames'[i].status))
  BY <1>2, <1>3 DEF Inv, ViewInv
<1>5. source \in Nat /\ source' = source
  BY <1>1 DEF Inv, TypeOK, SourceTypes, sourceVars
<1>6. CASE gatewayMode
  <2>1. UNCHANGED <<view, receipt, seen>>
    BY <1>6 DEF Receive
  <2>2. TypeOK'
    BY <1>1, <1>2, <2>1 DEF Inv, TypeOK, SourceTypes, StatusTypes, CallTypes, sourceVars
  <2>3. ViewInv'
    BY <1>1, <1>4, <2>1 DEF Inv, ViewInv, Honest, sourceVars
  <2>4. \A c \in Calls : ReadBack(c, call[c])'
    BY <1>1, <1>5, <1>6, <2>1, NotRead
  <2> QED BY <1>1, <1>5, <2>1, <2>2, <2>3, <2>4, Around DEF sourceVars
<1>7. CASE ~gatewayMode
  <2> DEFINE new == {c \in Calls : /\ call[c].pc \in {"publish", "await"} /\ call[c].source = source
                                   /\ call[c].kind = "override" /\ ~f.retained /\ Matches(f.status, call[c].payload)}
  <2>1. /\ view' = Observed(f) /\ seen' = seen \cup new
        /\ receipt' = IF f.topic \in {"state", "override"} THEN NextReceipt ELSE receipt
    BY <1>7 DEF Receive
  <2> HIDE DEF f
  <2>2. view \in Views
    BY DEF Inv, TypeOK, StatusTypes
  <2>3. f.status \in Statuses /\ f.topic \in Topics /\ f.retained \in BOOLEAN
    BY <1>2 DEF Frames
  <2>4. /\ view'.override \in {f.status, view.override, NoStatus}
        /\ view' \in Views
    <3>1. CASE f.topic = "empty"
      <4>1. NoStatus \in Statuses
        BY DEF Statuses
      <4> QED BY <2>1, <3>1, <4>1 DEF Observed, Unavailable, Views
    <3>2. CASE f.topic # "empty"
      <4>1. About(f) \subseteq Kinds \cup {"override"} /\ Renews(f) \subseteq Kinds \cup {"override"}
        BY <2>3, <3>2 DEF About, Renews, Topics
      <4>2. view' = [available |-> f.topic # "override" \/ view.available,
                     override |-> IF f.topic = "bare" THEN view.override ELSE f.status,
                     fresh |-> (view.fresh \ About(f)) \cup (IF f.retained THEN {} ELSE Renews(f))]
        BY <2>1, <3>2 DEF Observed
      <4>3. (view.fresh \ About(f)) \cup (IF f.retained THEN {} ELSE Renews(f)) \subseteq Kinds \cup {"override"}
        BY <2>2, <4>1 DEF Views
      <4> QED BY <2>2, <2>3, <4>2, <4>3 DEF Views
    <3> QED BY <3>1, <3>2
  <2>5. receipt \in Nat /\ receipt' \in Nat
    BY <2>1 DEF Inv, TypeOK, CallTypes, NextReceipt
  <2>6. TypeOK'
    BY <1>1, <1>2, <2>1, <2>4, <2>5 DEF Inv, TypeOK, SourceTypes, StatusTypes, CallTypes, sourceVars
  <2>7. ViewInv'
    BY <1>1, <1>4, <2>4 DEF Inv, ViewInv, Honest, sourceVars
  <2>8. ASSUME NEW c \in Calls PROVE ReadBack(c, call[c])'
    <3>1. ReadBack(c, call[c]) /\ call'[c] = call[c]
      BY <1>1 DEF Inv, CallInv
    <3> SUFFICES ASSUME call[c].pc \in OverMQTT, call[c].kind = "override", call[c].source = source, "override" \in view'.fresh,
                        receipt' > call[c].receipt, Matches(view'.override, call[c].payload)
                 PROVE  c \in seen'
      BY <1>5, <3>1 DEF ReadBack
    <3>2. f.topic # "empty"
      BY <2>1 DEF Observed, Unavailable
    <3>3. /\ view'.override = IF f.topic = "bare" THEN view.override ELSE f.status
          /\ view'.fresh = (view.fresh \ About(f)) \cup (IF f.retained THEN {} ELSE Renews(f))
      BY <2>1, <3>2 DEF Observed
    <3>4. CASE f.topic = "bare"
      <4>1. "override" \in view.fresh /\ view'.override = view.override /\ receipt' = receipt
        BY <2>1, <3>3, <3>4 DEF About, Renews
      <4> QED BY <2>1, <3>1, <4>1 DEF ReadBack
    <3>5. CASE f.topic \in {"state", "override"}
      <4>1. "override" \notin view.fresh \ About(f)
        BY <2>2, <3>5 DEF About
      <4>2. ~f.retained
        BY <3>3, <4>1
      <4> QED BY <2>1, <3>3, <3>5, <4>2 DEF OverMQTT
    <3> QED BY <2>3, <3>2, <3>4, <3>5 DEF Topics
  <2> QED BY <1>1, <1>5, <2>1, <2>6, <2>7, <2>8, Around DEF sourceVars
<1> QED BY <1>6, <1>7

\* The view of a controller that is not available.
LEMMA NoView == Unavailable \in Views /\ Unavailable.fresh = {} /\ Unavailable.override = NoStatus
<1>1. NoStatus \in Statuses
  BY DEF Statuses
<1> QED BY <1>1 DEF Unavailable, Views

\* A source change: the source moves on or stays, the view stays or is lost.
LEMMA ChangeKeeps ==
  ASSUME Inv, SourceTypes', UNCHANGED <<receipt, call, wire, ctl, taken, seen>>, frames' \in Seq(Frames),
         \A i \in 1..Len(frames') : Honest(frames'[i].status),
         source' >= source, view' \in {view, Unavailable}, gatewayMode' => gatewayMode, gatewayPublish' => gatewayMode',
         gatewayMode \/ cancelled => gatewayMode' \/ cancelled'
  PROVE  Inv'
<1>1. Unavailable \in Views /\ Unavailable.fresh = {} /\ Unavailable.override = NoStatus
  BY NoView
<1>2. view' \in Views
  BY <1>1 DEF Inv, TypeOK, StatusTypes
<1>3. TypeOK'
  BY <1>2 DEF Inv, TypeOK, StatusTypes, CallTypes
<1>4. ViewInv'
  BY <1>1 DEF Inv, ViewInv, Honest
<1>5. source \in Nat /\ source' \in Nat
  BY DEF Inv, TypeOK, SourceTypes
<1>6. view'.fresh = {} \/ view' = view
  BY <1>1
<1>7. source' > source \/ source' = source
  BY <1>5
<1>8. \A c \in Calls : ReadBack(c, call[c])'
  BY <1>5, <1>6, <1>7, NotRead
<1> QED BY <1>3, <1>4, <1>5, <1>8, Around

\* Every step of a source change keeps the invariant.
LEMMA SourceKeeps == ASSUME Inv, SourceStep PROVE Inv'
<1>1. /\ SourceTypes /\ frames \in Seq(Frames) /\ (\A i \in 1..Len(frames) : Honest(frames[i].status))
      /\ gatewayPublish => gatewayMode
  BY DEF Inv, TypeOK, StatusTypes, ViewInv
<1>2. CASE BrokerDown
  <2>1. SourceTypes' /\ view' = view /\ source' = source /\ UNCHANGED <<gatewayMode, unmoved>> /\ frames' = <<>>
    BY <1>1, <1>2 DEF BrokerDown, SourceTypes, unmoved
  <2> QED BY <1>1, <2>1, ChangeKeeps DEF unmoved, SourceTypes
<1>3. CASE LostHandler
  <2>1. SourceTypes' /\ view' = view /\ source' = source + 1 /\ UNCHANGED <<gatewayMode, frames, unmoved>>
    BY <1>1, <1>3 DEF LostHandler, SourceTypes, unmoved
  <2>2. \A i \in 1..Len(frames') : Honest(frames'[i].status)
    BY <1>1, <2>1
  <2> QED BY <1>1, <2>1, <2>2, ChangeKeeps DEF unmoved, SourceTypes
<1>4. CASE Invalidate
  <2>1. SourceTypes' /\ view' = Unavailable /\ source' >= source /\ UNCHANGED <<gatewayMode, frames, unmoved>>
    BY <1>1, <1>4 DEF Invalidate, SourceTypes, unmoved
  <2>2. \A i \in 1..Len(frames') : Honest(frames'[i].status)
    BY <1>1, <2>1
  <2> QED BY <1>1, <2>1, <2>2, ChangeKeeps DEF unmoved, SourceTypes
<1>5. CASE BrokerUp
  <2>1. SourceTypes' /\ view' = view /\ source' = source /\ UNCHANGED <<gatewayMode, frames, unmoved>>
    BY <1>1, <1>5 DEF BrokerUp, SourceTypes, unmoved
  <2>2. \A i \in 1..Len(frames') : Honest(frames'[i].status)
    BY <1>1, <2>1
  <2> QED BY <1>1, <2>1, <2>2, ChangeKeeps DEF unmoved, SourceTypes
<1>6. CASE Subscribe
  <2>1. SourceTypes' /\ view' = view /\ source' = source + 1 /\ UNCHANGED <<gatewayMode, unmoved>>
    BY <1>1, <1>6 DEF Subscribe, SourceTypes, unmoved
  <2>2. PICK topic \in {"state", "override"} : frames' = <<[topic |-> topic, status |-> ctl, retained |-> TRUE]>>
    BY <1>6 DEF Subscribe
  <2>3. ctl \in Statuses /\ Honest(ctl)
    BY DEF Inv, TypeOK, StatusTypes, ViewInv
  <2>4. [topic |-> topic, status |-> ctl, retained |-> TRUE] \in Frames
    BY <2>3 DEF Frames, Topics
  <2>5. frames' \in Seq(Frames) /\ \A i \in 1..Len(frames') : Honest(frames'[i].status)
    BY <2>2, <2>3, <2>4
  <2> QED BY <1>1, <2>1, <2>5, ChangeKeeps DEF unmoved, SourceTypes
<1>7. CASE \E v \in BOOLEAN : GatewayStatus(v)
  <2>1. SourceTypes' /\ view' = view /\ source' = source /\ UNCHANGED <<gatewayMode, frames, unmoved>>
    BY <1>1, <1>7 DEF GatewayStatus, SourceTypes, unmoved
  <2>2. \A i \in 1..Len(frames') : Honest(frames'[i].status)
    BY <1>1, <2>1
  <2> QED BY <1>1, <2>1, <2>2, ChangeKeeps DEF unmoved, SourceTypes
<1>8. CASE ResetPush
  <2>1. SourceTypes' /\ view' = view /\ source' = source + 1 /\ UNCHANGED <<gatewayMode, frames, unmoved>>
    BY <1>1, <1>8 DEF ResetPush, SourceTypes, unmoved
  <2>2. \A i \in 1..Len(frames') : Honest(frames'[i].status)
    BY <1>1, <2>1
  <2> QED BY <1>1, <2>1, <2>2, ChangeKeeps DEF unmoved, SourceTypes
<1>9. CASE Clear
  <2>1. SourceTypes' /\ view' = Unavailable /\ source' = source /\ UNCHANGED <<gatewayMode, frames, unmoved>>
    BY <1>1, <1>9 DEF Clear, SourceTypes, unmoved
  <2>2. \A i \in 1..Len(frames') : Honest(frames'[i].status)
    BY <1>1, <2>1
  <2> QED BY <1>1, <2>1, <2>2, ChangeKeeps DEF unmoved, SourceTypes
<1>10. CASE Poll
  <2>1. gatewayMode /\ UNCHANGED <<sourceVars, frames, receipt, call, wire, ctl, taken, seen>>
    BY <1>10 DEF Poll, Polling
  <2>2. /\ view' \in Views
        /\ view'.override \in {ctl, NoStatus}
    <3>1. ctl \in Statuses
      BY DEF Inv, TypeOK, StatusTypes
    <3>2. CASE view' = Unavailable
      BY <3>2, NoView
    <3>3. ASSUME NEW fresh \in {{}, Kinds}, view' = [available |-> TRUE, override |-> ctl, fresh |-> fresh]
          PROVE  view' \in Views /\ view'.override = ctl
      <4>1. fresh \subseteq Kinds \cup {"override"}
        OBVIOUS
      <4> QED BY <3>1, <3>3, <4>1 DEF Views
    <3>4. view' = Unavailable \/ \E fresh \in {{}, Kinds} : view' = [available |-> TRUE, override |-> ctl, fresh |-> fresh]
      BY <1>10 DEF Poll
    <3> QED BY <3>2, <3>3, <3>4
  <2>3. TypeOK'
    BY <2>1, <2>2 DEF Inv, TypeOK, SourceTypes, StatusTypes, CallTypes, sourceVars
  <2>4. ViewInv'
    BY <2>1, <2>2 DEF Inv, ViewInv, Honest, sourceVars
  <2>5. source \in Nat /\ source' = source
    BY <1>1, <2>1 DEF SourceTypes, sourceVars
  <2>6. \A c \in Calls : ReadBack(c, call[c])'
    BY <2>1, <2>5, NotRead
  <2> QED BY <2>1, <2>3, <2>4, <2>5, <2>6, Around DEF sourceVars
<1>11. CASE StopGateway
  <2>1. /\ SourceTypes' /\ view' = view /\ source' = source /\ cancelled'
        /\ UNCHANGED <<gatewayMode, gatewayPublish, frames, receipt, call, wire, ctl, taken, seen>>
    BY <1>1, <1>11 DEF StopGateway, SourceTypes, remoteVars
  <2>2. \A i \in 1..Len(frames') : Honest(frames'[i].status)
    BY <1>1, <2>1
  <2> QED BY <1>1, <2>1, <2>2, ChangeKeeps DEF SourceTypes
<1>12. CASE ClearPublisher
  <2>1. /\ SourceTypes' /\ view' = view /\ source' = source /\ ~gatewayPublish'
        /\ UNCHANGED <<gatewayMode, cancelled, frames, receipt, call, wire, ctl, taken, seen>>
    BY <1>1, <1>12 DEF ClearPublisher, SourceTypes, remoteVars
  <2>2. \A i \in 1..Len(frames') : Honest(frames'[i].status)
    BY <1>1, <2>1
  <2> QED BY <1>1, <2>1, <2>2, ChangeKeeps DEF SourceTypes
<1>13. CASE DisableGateway
  <2>1. /\ SourceTypes' /\ view' = view /\ source' = source + 1 /\ ~gatewayMode' /\ cancelled /\ ~gatewayPublish
        /\ UNCHANGED <<frames, unmoved>>
    <3>1. todo' \subseteq {"lost", "invalidate", "subscribe", "reset", "clear"}
      BY <1>1, <1>13 DEF DisableGateway, SourceTypes
    <3>2. /\ view' = view /\ source' = source + 1 /\ gatewayMode' = FALSE /\ gatewayConnected' = FALSE /\ cancelled /\ ~gatewayPublish
          /\ UNCHANGED <<open, frames, unmoved>>
      BY <1>13 DEF DisableGateway
    <3>3. cancelled' = cancelled /\ gatewayPublish' = gatewayPublish
      BY <3>2 DEF unmoved
    <3>4. SourceTypes'
      <4>1. source' \in Nat
        BY <1>1, <3>2 DEF SourceTypes
      <4>2. gatewayMode' \in BOOLEAN /\ gatewayConnected' \in BOOLEAN /\ open' \in BOOLEAN
        BY <1>1, <3>2, Zenon DEF SourceTypes
      <4>3. cancelled' \in BOOLEAN /\ gatewayPublish' \in BOOLEAN
        BY <1>1, <3>3, Zenon DEF SourceTypes
      <4> QED BY <3>1, <4>1, <4>2, <4>3, Zenon DEF SourceTypes
    <3> QED BY <3>2, <3>4
  <2>2. \A i \in 1..Len(frames') : Honest(frames'[i].status)
    BY <1>1, <2>1
  <2> QED BY <1>1, <2>1, <2>2, ChangeKeeps DEF unmoved, SourceTypes
<1> QED BY <1>2, <1>3, <1>4, <1>5, <1>6, <1>7, <1>8, <1>9, <1>10, <1>11, <1>12, <1>13 DEF SourceStep

\* Observations that age or expire lose authority.
LEMMA AgeKeeps == ASSUME Inv, (\E kind \in Kinds : Ages(kind)) \/ Expires PROVE Inv'
<1>1. UNCHANGED <<sourceVars, receipt, call, wire, ctl, frames, taken, seen>>
  BY DEF Ages, Expires, remoteVars
<1>2. CASE Expires
  <2>1. SourceTypes' /\ frames' \in Seq(Frames) /\ view' = Unavailable
    BY <1>1, <1>2 DEF Inv, TypeOK, SourceTypes, StatusTypes, sourceVars, Expires
  <2>2. \A i \in 1..Len(frames') : Honest(frames'[i].status)
    BY <1>1 DEF Inv, ViewInv
  <2>3. gatewayPublish => gatewayMode
    BY DEF Inv, ViewInv
  <2>4. source \in Nat /\ source' = source /\ UNCHANGED <<gatewayMode, gatewayPublish, cancelled>>
    BY <1>1 DEF Inv, TypeOK, SourceTypes, sourceVars
  <2> QED BY <1>1, <2>1, <2>2, <2>3, <2>4, ChangeKeeps
<1>3. CASE \E kind \in Kinds : Ages(kind)
  <2>1. PICK kind \in Kinds : view' = [view EXCEPT !.fresh = @ \ {kind}]
    BY <1>3 DEF Ages
  <2>2. view \in Views
    BY DEF Inv, TypeOK, StatusTypes
  <2>3. view'.override = view.override /\ view'.fresh \subseteq view.fresh /\ view' \in Views
    BY <2>1, <2>2 DEF Views
  <2>4. TypeOK'
    BY <1>1, <2>3 DEF Inv, TypeOK, SourceTypes, StatusTypes, CallTypes, sourceVars
  <2>5. ViewInv'
    BY <1>1, <2>3 DEF Inv, ViewInv, Honest, sourceVars
  <2>6. source \in Nat /\ source' = source
    BY <1>1 DEF Inv, TypeOK, SourceTypes, sourceVars
  <2>7. \A c \in Calls : ReadBack(c, call[c])'
    BY <1>1, <2>3, <2>6, NotRead
  <2> QED BY <1>1, <2>4, <2>5, <2>6, <2>7, Around DEF sourceVars
<1> QED BY <1>2, <1>3

\* The controller takes or refuses a command, reports and listens to others.
LEMMA ControllerKeeps == ASSUME Inv, ControllerStep PROVE Inv'
<1>1. UNCHANGED <<sourceVars, view, receipt, call, seen>>
  BY DEF ControllerStep, Arrives, Publishes, Others
<1>2. source \in Nat /\ source' = source
  BY <1>1 DEF Inv, TypeOK, SourceTypes, sourceVars
<1>3. \A c \in Calls : ReadBack(c, call[c])'
  BY <1>1, <1>2, NotRead
<1>4. wire' \subseteq Calls
  BY DEF ControllerStep, Arrives, Publishes, Others, Inv, TypeOK, CallTypes
<1>5. SUFFICES ASSUME taken \subseteq taken', taken' \subseteq Payloads, ctl' \in Statuses, frames' \in Seq(Frames), Honest(ctl)',
                      \A i \in 1..Len(frames') : Honest(frames'[i].status)
               PROVE  Inv'
  <2>1. ctl \in Statuses /\ Honest(ctl) /\ frames \in Seq(Frames) /\ taken \subseteq Payloads
    BY DEF Inv, TypeOK, StatusTypes, ViewInv
  <2>2. \A i \in 1..Len(frames) : Honest(frames[i].status)
    BY DEF Inv, ViewInv
  <2>3. ASSUME NEW p \in Payloads, NEW error \in BOOLEAN, ctl' = [payload |-> p, error |-> error], taken \subseteq taken',
               ~error => p \in taken'
        PROVE  ctl' \in Statuses /\ Honest(ctl)'
    <3>1. ctl' \in Statuses
      BY <2>3 DEF Statuses
    <3>2. Honest(ctl)'
      BY <2>3 DEF Honest
    <3> QED BY <3>1, <3>2
  <2>4. CASE \E c \in Calls : Arrives(c)
    <3>1. PICK c \in Calls : Arrives(c)
      BY <2>4
    <3>2. frames' = frames
      BY <3>1 DEF Arrives
    <3>3. call[c] \in CallRecords /\ Shape(call[c])
      BY DEF Inv, TypeOK, CallTypes, CallInv
    <3>4. CASE call[c].kind = "override"
      <4>1. call[c].payload \in Payloads
        BY <3>3, <3>4 DEF CallRecords, Shape
      <4>2. CASE ctl' = [payload |-> call[c].payload, error |-> FALSE] /\ taken' = taken \cup {call[c].payload}
        BY <2>1, <2>2, <2>3, <3>2, <4>1, <4>2
      <4>3. CASE ctl' = [payload |-> call[c].payload, error |-> TRUE] /\ taken' = taken
        BY <2>1, <2>2, <2>3, <3>2, <4>1, <4>3
      <4> QED BY <3>1, <3>4, <4>2, <4>3 DEF Arrives
    <3>5. CASE call[c].kind # "override"
      <4>1. UNCHANGED <<ctl, taken>>
        BY <3>1, <3>5 DEF Arrives
      <4> QED BY <2>1, <2>2, <3>2, <4>1 DEF Honest
    <3> QED BY <3>4, <3>5
  <2>5. CASE \E p \in Payloads : Others(p)
    <3>1. PICK p \in Payloads : Others(p)
      BY <2>5
    <3>2. ctl' = [payload |-> p, error |-> FALSE] /\ taken' = taken \cup {p} /\ frames' = frames
      BY <3>1 DEF Others
    <3> QED BY <2>1, <2>2, <2>3, <3>2
  <2>6. CASE \E topic \in Topics : Publishes(topic)
    <3>1. PICK topic \in Topics, status \in {ctl, NoStatus} :
            frames' = Append(frames, [topic |-> topic, status |-> status, retained |-> FALSE])
      BY <2>6 DEF Publishes
    <3>2. UNCHANGED <<ctl, taken>>
      BY <2>6 DEF Publishes
    <3>3. status \in Statuses /\ Honest(status)
      BY <2>1 DEF Statuses, Honest
    <3> DEFINE f == [topic |-> topic, status |-> status, retained |-> FALSE]
    <3>4. f \in Frames /\ f.status = status
      BY <3>3 DEF Frames
    <3> HIDE DEF f
    <3>5. frames' \in Seq(Frames) /\ Len(frames') = Len(frames) + 1 /\ frames'[Len(frames) + 1] = f
          /\ \A i \in 1..Len(frames) : frames'[i] = frames[i]
      BY <2>1, <3>1, <3>4 DEF f
    <3>6. \A i \in 1..Len(frames') : Honest(frames'[i].status)
      BY <2>1, <2>2, <3>3, <3>4, <3>5
    <3> QED BY <2>1, <3>2, <3>5, <3>6 DEF Honest
  <2> QED BY <2>4, <2>5, <2>6 DEF ControllerStep
<1>6. TypeOK'
  BY <1>1, <1>4, <1>5 DEF Inv, TypeOK, SourceTypes, StatusTypes, CallTypes, sourceVars
<1>7. ViewInv'
  BY <1>1, <1>5 DEF Inv, ViewInv, Honest, sourceVars
<1> QED BY <1>1, <1>2, <1>3, <1>5, <1>6, <1>7, Around DEF sourceVars

-----------------------------------------------------------------------------
\* Every step keeps the invariant.
LEMMA StepInv == ASSUME Inv, [Next]_vars PROVE Inv'
<1>1. ASSUME NEW c \in Calls, CallStep(c) \/ AnswerStep(c) PROVE Inv'
  BY <1>1, MQTTKeeps, IGWKeeps, FetchKeeps, ApplyKeeps DEF CallStep, AnswerStep
<1>2. ASSUME NEW c \in Calls, \/ DeadlinePasses(c)
                              \/ \E kind \in Kinds, p \in [id : IDs, value : OwnValues] \cup {NoPayload} : Begin(c, kind, p)
      PROVE  Inv'
  BY <1>2, IGWKeeps, BeginKeeps
<1>3. CASE UNCHANGED vars
  BY <1>3 DEF vars, sourceVars, remoteVars, Inv, TypeOK, SourceTypes, StatusTypes, CallTypes, ViewInv, CallInv, Honest, Shape, Routed, ReadBack, Settled, Matches
<1> QED BY <1>1, <1>2, <1>3, ReceiveKeeps, AgeKeeps, SourceKeeps, ControllerKeeps DEF Next

\* The invariant holds of every behaviour.
THEOREM CommandsInvariant == Spec => []Inv
  BY InitInv, StepInv, PTL DEF Spec

\* Type correctness, for any number of calls and source changes.
THEOREM CommandTypes == Spec => []TypeOK
<1>1. Inv => TypeOK
  BY DEF Inv
<1> QED BY <1>1, CommandsInvariant, PTL

\* An override that overrideAcknowledgement settled was read back, live, after
\* it was sent and from the source it was sent to.
THEOREM AckHolds == Spec => []AckAfterDispatch
<1>1. Inv => AckAfterDispatch
  BY DEF Inv, CallInv, Settled, AckAfterDispatch
<1> QED BY <1>1, CommandsInvariant, PTL

-----------------------------------------------------------------------------
(* The answer of a call. *)

\* A step of call c that ends in "ok" found its source current, and, for an
\* override, a status that matches.
LEMMA SuccessOf ==
  ASSUME Inv, NEW c \in Calls, CallStep(c) \/ AnswerStep(c), call'[c].pc = "ok"
  PROVE  /\ ~Overtaken(c) /\ call[c].pc \notin {"new", "ok", "error"}
         /\ call[c].payload = NoPayload \/ call[c].payload \in taken
<1>1. call[c] \in CallRecords /\ Shape(call[c]) /\ Routed(call[c]) /\ Honest(call[c].snap) /\ Honest(view.override)
  BY DEF Inv, TypeOK, CallTypes, CallInv, ViewInv
<1>2. \A to \in Pcs : Goto(c, to) => call'[c].pc = to
  BY <1>1 DEF Goto, Inv, TypeOK, CallTypes, CallRecords
<1>3. ~Fail(c)
  BY <1>1 DEF Fail, Return, Inv, TypeOK, CallTypes, CallRecords
<1>4. /\ ~Goto(c, "route") /\ ~Goto(c, "preflight") /\ ~Goto(c, "send") /\ ~Goto(c, "await") /\ ~Goto(c, "post")
      /\ ~Goto(c, "posted") /\ ~Goto(c, "fetch") /\ ~Goto(c, "apply")
  BY <1>2 DEF Pcs
<1>5. ~Send(c)
  <2>1. CASE MaySend(c)
    BY <1>1, <2>1 DEF Send, Inv, TypeOK, CallTypes, CallRecords
  <2>2. CASE ~MaySend(c)
    BY <1>3, <2>2 DEF Send
  <2> QED BY <2>1, <2>2
<1>6. ~Capable(c) /\ ~Route(c) /\ ~SendPlain(c) /\ ~GiveUp(c) /\ ~Preflight(c) /\ ~Post(c)
  BY <1>3, <1>4, <1>5 DEF Capable, Route, SendPlain, GiveUp, Preflight, Post
<1>7. ~Fetch(c)
  BY <1>1, <1>3 DEF Fetch, Inv, TypeOK, CallTypes, CallRecords
<1>8. ~(\E ready \in BOOLEAN : Compare(c, ready))
  BY <1>3, <1>4 DEF Compare
<1>9. CASE PublishDone(c)
  <2>1. call[c].pc = "publish" /\ Written(c) /\ call[c].kind # "override"
    BY <1>3, <1>4, <1>9 DEF PublishDone
  <2> QED BY <1>1, <2>1 DEF Written, Overtaken, Shape, Routed, OverMQTT
<1>10. CASE PostDone(c)
  <2>1. call[c].pc = "posted" /\ Alive(c) /\ call[c].kind # "override"
    BY <1>3, <1>4, <1>10 DEF PostDone
  <2> QED BY <1>1, <2>1 DEF Alive, Overtaken, Shape
<1>11. CASE Acknowledge(c)
  <2>1. call[c].pc = "await" /\ call[c].source = source /\ ~gatewayMode /\ Matches(view.override, call[c].payload)
    BY <1>3, <1>11 DEF Acknowledge
  <2>2. ~Overtaken(c)
    BY <2>1 DEF Overtaken
  <2> QED BY <1>1, <2>1, <2>2 DEF Matches, Honest
<1>12. CASE Apply(c)
  <2>1. call[c].pc = "apply" /\ Alive(c)
    BY <1>3, <1>12 DEF Apply
  <2>2. ~Overtaken(c)
    BY <2>1 DEF Alive, Overtaken
  <2> QED BY <1>1, <2>1, <2>2 DEF Shape, Matches, Honest
<1> QED BY <1>6, <1>7, <1>8, <1>9, <1>10, <1>11, <1>12 DEF CallStep, AnswerStep

\* A step of call c changes no other call, and only Begin its command.
LEMMA OneMoves ==
  ASSUME Inv, NEW c \in Calls, CallStep(c) \/ AnswerStep(c) \/ DeadlinePasses(c)
  PROVE  /\ \A d \in Calls : d # c => call'[d] = call[d]
         /\ DOMAIN call' = Calls /\ DOMAIN call = Calls /\ call'[c].payload = call[c].payload /\ UNCHANGED taken
         /\ call[c].pc \notin {"new", "ok", "error"} /\ call'[c].pc # "new"
         /\ DeadlinePasses(c) => call'[c].pc = call[c].pc
<1> DEFINE Moved ==
      /\ \A d \in Calls : d # c => call'[d] = call[d]
      /\ DOMAIN call' = Calls /\ call'[c].payload = call[c].payload /\ call'[c].pc # "new"
<1>1. call \in [Calls -> CallRecords] /\ call[c] \in CallRecords
  BY DEF Inv, TypeOK, CallTypes
<1>2. Fail(c) \/ Succeed(c) \/ Send(c) => Moved
  <2>1. Fail(c) => Moved
    BY <1>1 DEF Fail, Return, CallRecords
  <2>2. Succeed(c) => Moved
    BY <1>1 DEF Succeed, Return, CallRecords
  <2>3. CASE MaySend(c)
    BY <1>1, <2>1, <2>2, <2>3 DEF Send, CallRecords
  <2>4. CASE ~MaySend(c)
    <3>1. Send(c) => Fail(c)
      BY <2>4 DEF Send
    <3> QED BY <2>1, <2>2, <3>1
  <2> QED BY <2>3, <2>4
<1>3. \A to \in Pcs \ {"new"} : Goto(c, to) => Moved
  BY <1>1 DEF Goto, CallRecords
<1>4. /\ Goto(c, "route") \/ Goto(c, "preflight") \/ Goto(c, "send") \/ Goto(c, "await") => Moved
      /\ Goto(c, "post") \/ Goto(c, "posted") \/ Goto(c, "fetch") \/ Goto(c, "apply") => Moved
  BY <1>3 DEF Pcs
<1>5. Fetch(c) => Moved
  <2>1. call' = [call EXCEPT ![c] = [@ EXCEPT !.pc = "fetched", !.snap = ctl]] => Moved
    BY <1>1 DEF CallRecords
  <2> QED BY <1>2, <2>1 DEF Fetch
<1>6. DeadlinePasses(c) => Moved /\ call'[c].pc = call[c].pc
  BY <1>1 DEF DeadlinePasses, Timed, CallRecords
<1>7. Compare(c, TRUE) \/ Compare(c, FALSE) => Moved
  BY <1>2, <1>4 DEF Compare
<1> HIDE DEF Moved
<1>8. Moved
  BY <1>2, <1>4, <1>5, <1>6, <1>7 DEF CallStep, AnswerStep, Capable, Route, SendPlain, Acknowledge, Apply, GiveUp,
     PublishDone, Preflight, Post, PostDone
<1>9. UNCHANGED taken
  BY DEF CallStep, AnswerStep, DeadlinePasses, Capable, Route, SendPlain, Acknowledge, Compare, Apply, GiveUp,
     PublishDone, Preflight, Post, PostDone, Fetch, remoteVars
<1>10. call[c].pc \notin {"new", "ok", "error"}
  BY DEF CallStep, AnswerStep, DeadlinePasses, Timed, Capable, Route, SendPlain, Acknowledge, Compare, Apply, GiveUp, Waiting,
     PublishDone, Preflight, Post, PostDone, Fetch
<1> QED BY <1>1, <1>6, <1>8, <1>9, <1>10 DEF Moved

\* No other step changes the calls.
LEMMA OthersStay ==
  ASSUME Receive \/ (\E kind \in Kinds : Ages(kind)) \/ Expires \/ SourceStep \/ ControllerStep \/ UNCHANGED vars
  PROVE  UNCHANGED call
  BY DEF Receive, Ages, Expires, SourceStep, ControllerStep, vars, BrokerDown, LostHandler, Invalidate, BrokerUp, Subscribe,
     GatewayStatus, ResetPush, Clear, Poll, StopGateway, ClearPublisher, DisableGateway, Arrives, Publishes, Others, unmoved

\* A call whose source was retired does not succeed.
THEOREM RetiredHolds == Spec => RetiredNotAccepted
<1>1. ASSUME Inv, [Next]_vars
      PROVE  [\A c \in Calls : Overtaken(c) => call'[c].pc # "ok" \/ call[c].pc = "ok"]_vars
  <2> SUFFICES ASSUME NEW c \in Calls, Overtaken(c), call'[c].pc = "ok", call[c].pc # "ok" PROVE FALSE
    OBVIOUS
  <2>1. ASSUME NEW d \in Calls, CallStep(d) \/ AnswerStep(d) \/ DeadlinePasses(d) PROVE FALSE
    <3>1. d = c /\ (CallStep(d) \/ AnswerStep(d))
      BY <1>1, <2>1, OneMoves
    <3> QED BY <1>1, <3>1, SuccessOf
  <2>2. ASSUME NEW d \in Calls, NEW kind \in Kinds, NEW p, Begin(d, kind, p) PROVE FALSE
    <3>1. call'[c].pc \in {call[c].pc, "route", "capable"}
      BY <1>1, <2>2 DEF Begin, Inv, TypeOK, CallTypes, CallRecords
    <3> QED BY <3>1
  <2>3. CASE Receive \/ (\E kind \in Kinds : Ages(kind)) \/ Expires \/ SourceStep \/ ControllerStep \/ UNCHANGED vars
    BY <2>3, OthersStay
  <2> QED BY <1>1, <2>1, <2>2, <2>3 DEF Next
<1> QED BY <1>1, CommandsInvariant, PTL DEF Spec, RetiredNotAccepted

-----------------------------------------------------------------------------
(* Refinement of CommandOutcome. *)

\* What the browser sees of a call.
Answer(pc) == IF pc \in {"new", "ok", "error"} THEN pc ELSE "pending"

\* A step that leaves the calls alone is a stutter or an override taken.
LEMMA TakenMaps ==
  ASSUME UNCHANGED call, taken' = taken \/ \E p \in Payloads : taken' = taken \cup {p}
  PROVE  [Outcome!Next]_(Outcome!vars)
<1>1. CASE taken' = taken
  BY <1>1 DEF Outcome!vars
<1>2. ASSUME NEW p \in Payloads, taken' = taken \cup {p} PROVE Outcome!Next
  <2>1. Outcome!Accept(p)
    BY <1>2 DEF Outcome!Accept
  <2> QED BY <2>1 DEF Outcome!Next
<1> QED BY <1>1, <1>2

\* A step of one call maps to GiveUp or Settle of that call, or to a stutter.
LEMMA CallMaps ==
  ASSUME Inv, NEW c \in Calls, CallStep(c) \/ AnswerStep(c) \/ DeadlinePasses(c)
  PROVE  [Outcome!Next]_(Outcome!vars)
<1> DEFINE out == [d \in Calls |-> Answer(call[d].pc)]
           ask == [d \in Calls |-> call[d].payload]
<1>1. /\ \A d \in Calls : d # c => call'[d] = call[d]
      /\ call'[c].payload = call[c].payload /\ UNCHANGED taken
      /\ call[c].pc \notin {"new", "ok", "error"} /\ call'[c].pc # "new"
      /\ DeadlinePasses(c) => call'[c].pc = call[c].pc
  BY OneMoves
<1>2. ask' = ask
  BY <1>1
<1>3. Answer(call[c].pc) = "pending" /\ out[c] = "pending" /\ ask[c] = call[c].payload
  BY <1>1 DEF Answer
<1>4. out' = [out EXCEPT ![c] = Answer(call'[c].pc)]
  BY <1>1
<1>5. CASE call'[c].pc = "ok"
  <2>1. call[c].payload = NoPayload \/ call[c].payload \in taken
    BY <1>1, <1>5, SuccessOf
  <2>2. out' = [out EXCEPT ![c] = "ok"]
    BY <1>4, <1>5 DEF Answer
  <2>3. Outcome!Settle(c)
    BY <1>1, <1>2, <1>3, <2>1, <2>2 DEF Outcome!Settle, Answer
  <2> QED BY <2>3 DEF Outcome!Next
<1>6. CASE call'[c].pc = "error"
  <2>1. out' = [out EXCEPT ![c] = "error"]
    BY <1>4, <1>6 DEF Answer
  <2>2. Outcome!GiveUp(c)
    BY <1>1, <1>2, <1>3, <2>1 DEF Outcome!GiveUp, Answer
  <2> QED BY <2>2 DEF Outcome!Next
<1>7. CASE call'[c].pc \notin {"ok", "error"}
  <2>1. Answer(call'[c].pc) = "pending"
    BY <1>1, <1>7 DEF Answer
  <2>2. out' = out
    BY <1>1, <1>3, <2>1
  <2> QED BY <1>1, <1>2, <2>2 DEF Outcome!vars, Answer
<1> QED BY <1>5, <1>6, <1>7

\* Begin maps to Ask.
LEMMA BeginMaps ==
  ASSUME Inv, NEW c \in Calls, NEW kind \in Kinds, NEW p \in [id : IDs, value : OwnValues] \cup {NoPayload}, Begin(c, kind, p)
  PROVE  Outcome!Next
<1> DEFINE out == [d \in Calls |-> Answer(call[d].pc)]
           ask == [d \in Calls |-> call[d].payload]
<1>1. call \in [Calls -> CallRecords] /\ call[c].pc = "new" /\ UNCHANGED taken
  BY DEF Begin, Inv, TypeOK, CallTypes, remoteVars
<1>2. /\ \A d \in Calls : d # c => call'[d] = call[d]
      /\ call'[c].pc \in {"route", "capable"} /\ call'[c].payload = p
  BY <1>1 DEF Begin, CallRecords
<1>3. out' = [out EXCEPT ![c] = "pending"] /\ out[c] = "new"
  BY <1>1, <1>2 DEF Answer
<1>4. ask' = [ask EXCEPT ![c] = p]
  BY <1>2
<1>5. Outcome!Ask(c, p)
  BY <1>1, <1>3, <1>4 DEF Outcome!Ask, Answer
<1>6. p \in Payloads \cup {NoPayload}
  BY CommandsAssumption DEF Payloads
<1> QED BY <1>5, <1>6 DEF Outcome!Next

\* Success of a setpoint override means that the controller took one with that
\* request ID and value: ControllerCommands implements CommandOutcome.
THEOREM CommandsImplement == Spec => MeansTaken
<1>1. Init => Outcome!Init
  <2> SUFFICES ASSUME Init PROVE Outcome!Init
    OBVIOUS
  <2>1. \A c \in Calls : call[c].pc = "new" /\ call[c].payload = NoPayload
    BY DEF Init, NewCall
  <2> QED BY <2>1 DEF Init, Outcome!Init
<1>2. ASSUME Inv, [Next]_vars PROVE [Outcome!Next]_(Outcome!vars)
  <2>1. ASSUME NEW c \in Calls, CallStep(c) \/ AnswerStep(c) \/ DeadlinePasses(c) PROVE [Outcome!Next]_(Outcome!vars)
    BY <1>2, <2>1, CallMaps
  <2>2. ASSUME NEW c \in Calls, NEW kind \in Kinds, NEW p \in [id : IDs, value : OwnValues] \cup {NoPayload}, Begin(c, kind, p)
        PROVE  [Outcome!Next]_(Outcome!vars)
    BY <1>2, <2>2, BeginMaps
  <2>3. CASE Receive \/ (\E kind \in Kinds : Ages(kind)) \/ Expires \/ SourceStep \/ UNCHANGED vars
    <3>1. UNCHANGED taken
      BY <2>3 DEF Receive, Ages, Expires, SourceStep, vars, BrokerDown, LostHandler, Invalidate, BrokerUp, Subscribe,
         GatewayStatus, ResetPush, Clear, Poll, StopGateway, ClearPublisher, DisableGateway, unmoved, remoteVars
    <3> QED BY <2>3, <3>1, OthersStay, TakenMaps
  <2>4. CASE ControllerStep
    <3>1. taken' = taken \/ \E p \in Payloads : taken' = taken \cup {p}
      <4>1. ASSUME NEW c \in Calls, Arrives(c) PROVE taken' = taken \/ \E p \in Payloads : taken' = taken \cup {p}
        <5>1. call[c] \in CallRecords /\ Shape(call[c])
          BY <1>2 DEF Inv, TypeOK, CallTypes, CallInv
        <5>2. call[c].kind = "override" => call[c].payload \in Payloads
          BY <5>1 DEF CallRecords, Shape
        <5> QED BY <4>1, <5>2 DEF Arrives
      <4> QED BY <2>4, <4>1 DEF ControllerStep, Others, Publishes
    <3> QED BY <2>4, <3>1, OthersStay, TakenMaps
  <2> QED BY <1>2, <2>1, <2>2, <2>3, <2>4 DEF Next
<1> QED BY <1>1, <1>2, CommandsInvariant, PTL DEF Spec, MeansTaken, Outcome!Spec
=============================================================================
