--------------------------- MODULE Dashboard_proofs ---------------------------
(* Proofs about Dashboard, for any number of sockets, clicks and frames. *)
EXTENDS Dashboard, TLAPS

Requests == {"none", "check", "update"}

TypeOK ==
  /\ readyState \in [Sockets -> ReadyStates]
  /\ cut \subseteq Sockets
  /\ inbox \in [Sockets -> Seq(Nat)]
  /\ sent \in Nat
  /\ ws \in Sockets \cup {NoSocket}
  /\ {wsConnected, heartbeat, silent, retry, mqttConnected, latest, updating, reload,
      doubled, lateClose} \subseteq BOOLEAN
  /\ strays \in 0..MaxStrays
  /\ source \in [Fields -> Nat]
  /\ points \in 0..MaxPoints
  /\ fetches \in [Clicks -> Requests]
  /\ upsets \in 0..MaxUpsets

\* As long as connect() replaced no socket that was connecting, no orphan is
\* open or will be.
OneSpeaker ==
  ~doubled => \A s \in Sockets : s # ws => readyState[s] \notin {"CONNECTING", "OPEN"}

\* Frames arrive in the order they were sent; the page displays none that was
\* not sent yet.
InOrder ==
  /\ \A f \in Fields : source[f] <= sent
  /\ \A s \in Sockets : \A i \in 1..Len(inbox[s]) :
       /\ inbox[s][i] <= sent
       /\ \A j \in i..Len(inbox[s]) : inbox[s][i] <= inbox[s][j]

\* What an open socket still has to deliver was not sent before what is on
\* display.
NotStale ==
  ~doubled => \A s \in Sockets : readyState[s] = "OPEN" =>
                \A i \in 1..Len(inbox[s]) : \A f \in Fields : source[f] <= inbox[s][i]

Inv == TypeOK /\ LiveTruthful /\ UpdatingBounded /\ OneSpeaker /\ InOrder /\ NotStale

-----------------------------------------------------------------------------
(* connect() and close()                                                   *)

\* What connect() can do: nothing, name a socket that was closed or unused, or
\* throw.
LEMMA ConnectCases ==
  ASSUME TypeOK, Connect
  PROVE  \/ UNCHANGED <<readyState, ws, wsConnected, doubled>>
         \/ /\ ~IsOpen /\ wsConnected' = wsConnected
            /\ \E s \in Sockets : /\ readyState[s] \in {"unused", "CLOSED"}
                                  /\ NewSocket(s)
         \/ ~IsOpen /\ wsConnected' = FALSE /\ UNCHANGED <<readyState, ws, doubled>>
<1>1. ASSUME State(ws) = "CLOSED", NewSocket(ws)
      PROVE  \E s \in Sockets : readyState[s] \in {"unused", "CLOSED"} /\ NewSocket(s)
  BY <1>1 DEF TypeOK, State
<1>2. ASSUME Unused # {}, NewSocket(CHOOSE s \in Unused : TRUE)
      PROVE  \E s \in Sockets : readyState[s] \in {"unused", "CLOSED"} /\ NewSocket(s)
  <2>1. (CHOOSE s \in Unused : TRUE) \in Unused
    BY <1>2
  <2> QED BY <1>2, <2>1 DEF Unused
<1> QED BY <1>1, <1>2 DEF Connect, Connects

\* What close() leaves of the sockets: the one it is called on no longer
\* connects nor delivers, the others are as they were.
LEMMA ClosingSound ==
  ASSUME NEW st \in [Sockets -> ReadyStates], NEW s
  PROVE  /\ Closing(st, s) \in [Sockets -> ReadyStates]
         /\ \A t \in Sockets : t # s => Closing(st, s)[t] = st[t]
         /\ s \in Sockets => Closing(st, s)[s] \notin {"CONNECTING", "OPEN"} \/ s = NoSocket
         /\ \A t \in Sockets : st[t] \in {"OPEN", "CLOSING"} =>
              Closing(st, s)[t] \in {"OPEN", "CLOSING"}
         /\ \A t \in Sockets : Closing(st, s)[t] \in {"CONNECTING", "OPEN"} =>
              Closing(st, s)[t] = st[t]
<1>1. CASE s # NoSocket /\ st[s] = "CONNECTING"
  <2>1. Closing(st, s) = [st EXCEPT ![s] = "ABORTING"]
    BY <1>1 DEF Closing
  <2> QED BY <1>1, <2>1 DEF ReadyStates
<1>2. CASE s # NoSocket /\ st[s] = "OPEN"
  <2>1. Closing(st, s) = [st EXCEPT ![s] = "CLOSING"]
    BY <1>2 DEF Closing
  <2> QED BY <1>2, <2>1 DEF ReadyStates
<1>3. CASE ~(s # NoSocket /\ st[s] \in {"CONNECTING", "OPEN"})
  <2>1. Closing(st, s) = st
    BY <1>3 DEF Closing
  <2> QED BY <1>3, <2>1
<1> QED BY <1>1, <1>2, <1>3

-----------------------------------------------------------------------------
(* The invariant holds initially and every step keeps it                   *)

\* The page before onMounted.
LEMMA InitInv == Init => Inv
<1> SUFFICES ASSUME Init PROVE Inv
  OBVIOUS
<1>1. TypeOK
  <2>1. inbox \in [Sockets -> Seq(Nat)] /\ readyState \in [Sockets -> ReadyStates]
    BY DEF Init, ReadyStates
  <2>2. source \in [Fields -> Nat] /\ fetches \in [Clicks -> Requests]
    BY DEF Init, Requests
  <2>3. strays \in 0..MaxStrays /\ points \in 0..MaxPoints /\ upsets \in 0..MaxUpsets
    BY DashboardAssumption DEF Init
  <2> QED BY <2>1, <2>2, <2>3 DEF Init, TypeOK
<1>2. LiveTruthful /\ UpdatingBounded /\ OneSpeaker
  BY DEF Init, LiveTruthful, IsOpen, State, UpdatingBounded, OneSpeaker
<1>3. InOrder /\ NotStale
  BY DEF Init, InOrder, NotStale
<1> QED BY <1>1, <1>2, <1>3 DEF Inv

\* A call of connect() keeps the parts of the invariant about the sockets.
LEMMA ConnectStep ==
  ASSUME Inv, Connect, UNCHANGED <<inbox, heartbeat, lateClose, source, sent>>
  PROVE  /\ readyState' \in [Sockets -> ReadyStates] /\ ws' \in Sockets \cup {NoSocket}
         /\ {wsConnected', doubled'} \subseteq BOOLEAN
         /\ LiveTruthful' /\ OneSpeaker' /\ InOrder' /\ NotStale'
<1> USE DashboardAssumption
<1>1. CASE UNCHANGED <<readyState, ws, wsConnected, doubled>>
  BY <1>1 DEF Inv, TypeOK, LiveTruthful, IsOpen, State, OneSpeaker, InOrder, NotStale
<1>2. CASE ~IsOpen /\ wsConnected' = FALSE /\ UNCHANGED <<readyState, ws, doubled>>
  BY <1>2 DEF Inv, TypeOK, LiveTruthful, IsOpen, State, OneSpeaker, InOrder, NotStale
<1>3. ASSUME ~IsOpen, wsConnected' = wsConnected, NEW s \in Sockets,
             readyState[s] \in {"unused", "CLOSED"}, NewSocket(s)
      PROVE  /\ readyState' \in [Sockets -> ReadyStates] /\ ws' \in Sockets \cup {NoSocket}
             /\ {wsConnected', doubled'} \subseteq BOOLEAN
             /\ LiveTruthful' /\ OneSpeaker' /\ InOrder' /\ NotStale'
  <2>1. /\ readyState \in [Sockets -> ReadyStates]
        /\ readyState' = [readyState EXCEPT ![s] = "CONNECTING"]
        /\ ws' = s /\ s # NoSocket
        /\ doubled' = (doubled \/ State(ws) = "CONNECTING")
    BY <1>3 DEF NewSocket, Inv, TypeOK
  <2>2. /\ readyState' \in [Sockets -> ReadyStates] /\ ws' \in Sockets \cup {NoSocket}
        /\ {wsConnected', doubled'} \subseteq BOOLEAN
    BY <1>3, <2>1 DEF Inv, TypeOK, ReadyStates
  <2>3. LiveTruthful'
    <3>1. ~IsOpen'
      BY <2>1 DEF IsOpen, State
    <3>2. ASSUME wsConnected'
          PROVE  \E t \in Sockets : readyState'[t] \in {"OPEN", "CLOSING"}
      <4>1. PICK t \in Sockets : readyState[t] \in {"OPEN", "CLOSING"}
        BY <1>3, <3>2 DEF Inv, LiveTruthful
      <4> QED BY <1>3, <2>1, <4>1
    <3> QED BY <3>1, <3>2 DEF LiveTruthful
  <2>4. OneSpeaker'
    <3>1. SUFFICES ASSUME ~doubled', NEW t \in Sockets, t # s
                   PROVE  readyState'[t] \notin {"CONNECTING", "OPEN"}
      BY <2>1 DEF OneSpeaker
    <3>2. readyState'[t] = readyState[t]
      BY <2>1, <3>1
    <3>3. ~doubled /\ State(ws) # "CONNECTING"
      BY <2>1, <3>1
    <3>4. CASE t = ws
      BY <1>3, <3>2, <3>3, <3>4 DEF IsOpen, State
    <3>5. CASE t # ws
      BY <3>2, <3>3, <3>5 DEF Inv, OneSpeaker
    <3> QED BY <3>4, <3>5
  <2>5. InOrder'
    BY DEF Inv, InOrder
  <2>6. NotStale'
    BY <2>1 DEF Inv, NotStale
  <2> QED BY <2>2, <2>3, <2>4, <2>5, <2>6
<1> QED BY <1>1, <1>2, <1>3, ConnectCases DEF Inv

\* The timers and browser events that call connect().
LEMMA ConnectingSteps ==
  ASSUME Inv, Mounted \/ RetryFires \/ StrayFires \/ Visible PROVE Inv'
<1>1. Connect /\ UNCHANGED <<inbox, heartbeat, lateClose, source, sent>>
  BY DEF Mounted, RetryFires, StrayFires, Visible, display
<1>2. UNCHANGED <<cut, silent, mqttConnected, latest, points, fetches, updating, reload>>
  BY DEF Mounted, RetryFires, StrayFires, Visible, display, update
<1>3. strays' \in 0..MaxStrays /\ upsets' \in 0..MaxUpsets
  <2>1. strays \in 0..MaxStrays /\ upsets \in 0..MaxUpsets /\ MaxStrays \in Nat /\ MaxUpsets \in Nat
    BY DashboardAssumption DEF Inv, TypeOK
  <2>2. /\ strays' = strays \/ (strays > 0 /\ strays' = strays - 1)
        /\ upsets' = upsets \/ (upsets < MaxUpsets /\ upsets' = upsets + 1)
    BY DEF Mounted, RetryFires, StrayFires, Visible
  <2> QED BY <2>1, <2>2
<1>6. retry' \in BOOLEAN
  BY DEF Mounted, RetryFires, StrayFires, Visible, Inv, TypeOK, Threw, Connects
<1>4. UpdatingBounded'
  BY <1>2 DEF Inv, UpdatingBounded
<1>5. TypeOK'
  BY <1>1, <1>2, <1>3, <1>6, ConnectStep DEF Inv, TypeOK
<1> QED BY <1>1, <1>4, <1>5, ConnectStep DEF Inv

\* ws.close() on the current socket, by the heartbeat or when the browser comes
\* online.
LEMMA CloseCalls == ASSUME Inv, Online \/ Heartbeat PROVE Inv'
<1> DEFINE after == Closing(readyState, ws)
<1>1. /\ readyState' = after
      /\ UNCHANGED <<cut, inbox, ws, wsConnected, heartbeat, silent, retry, sent,
                     source, points, mqttConnected, latest, fetches, updating, reload,
                     doubled, lateClose>>
  BY DEF Online, Heartbeat, display, update
<1>2. /\ after \in [Sockets -> ReadyStates]
      /\ \A t \in Sockets : readyState[t] \in {"OPEN", "CLOSING"} => after[t] \in {"OPEN", "CLOSING"}
      /\ \A t \in Sockets : after[t] \in {"CONNECTING", "OPEN"} => after[t] = readyState[t]
  BY ClosingSound DEF Inv, TypeOK
<1>3. strays' \in 0..MaxStrays /\ upsets' \in 0..MaxUpsets
  <2>1. strays \in 0..MaxStrays /\ upsets \in 0..MaxUpsets /\ MaxStrays \in Nat /\ MaxUpsets \in Nat
    BY DashboardAssumption DEF Inv, TypeOK
  <2>2. /\ strays' = strays \/ (strays < MaxStrays /\ strays' = strays + 1)
        /\ upsets' = upsets \/ (upsets < MaxUpsets /\ upsets' = upsets + 1)
    BY DEF Online, Heartbeat
  <2> QED BY <2>1, <2>2
<1> HIDE DEF after
<1>4. TypeOK'
  BY <1>1, <1>2, <1>3 DEF Inv, TypeOK
<1>5. LiveTruthful'
  <2>1. IsOpen' => IsOpen
    BY <1>1, <1>2 DEF Inv, TypeOK, IsOpen, State
  <2> QED BY <1>1, <1>2, <2>1 DEF Inv, LiveTruthful
<1>6. UpdatingBounded' /\ OneSpeaker' /\ InOrder' /\ NotStale'
  BY <1>1, <1>2 DEF Inv, UpdatingBounded, OneSpeaker, InOrder, NotStale
<1> QED BY <1>4, <1>5, <1>6 DEF Inv

\* The connection is established: the initial frame is the newest there is.
LEMMA OpenedStep == ASSUME Inv, NEW s \in Sockets, Opened(s) PROVE Inv'
<1>1. /\ readyState[s] = "CONNECTING"
      /\ readyState' = [readyState EXCEPT ![s] = "OPEN"]
      /\ inbox' = [inbox EXCEPT ![s] = <<sent>>]
      /\ wsConnected' = TRUE /\ silent' = FALSE /\ heartbeat' = TRUE
      /\ lateClose' = (lateClose /\ s # ws)
      /\ UNCHANGED <<cut, ws, retry, strays, sent, source, points, mqttConnected, latest,
                     fetches, updating, reload, upsets, doubled>>
  BY DEF Opened, display, update
<1>2. TypeOK'
  <2>1. readyState' \in [Sockets -> ReadyStates] /\ lateClose' \in BOOLEAN
    BY <1>1 DEF Inv, TypeOK, ReadyStates
  <2>2. inbox' \in [Sockets -> Seq(Nat)]
    <3>1. <<sent>> \in Seq(Nat)
      BY DEF Inv, TypeOK
    <3> QED BY <1>1, <3>1 DEF Inv, TypeOK
  <2> QED BY <1>1, <2>1, <2>2 DEF Inv, TypeOK
<1>3. LiveTruthful'
  BY <1>1 DEF Inv, TypeOK, LiveTruthful
<1>4. UpdatingBounded' /\ OneSpeaker'
  BY <1>1 DEF Inv, TypeOK, UpdatingBounded, OneSpeaker
<1>5. inbox'[s] = <<sent>> /\ \A t \in Sockets : t # s => inbox'[t] = inbox[t]
  BY <1>1 DEF Inv, TypeOK
<1>6. /\ Len(inbox'[s]) = 1 /\ inbox'[s][1] = sent /\ sent \in Nat
      /\ sent' = sent /\ source' = source /\ source \in [Fields -> Nat]
  BY <1>1, <1>5 DEF Inv, TypeOK
<1>7. InOrder'
  <2>1. \A f \in Fields : source'[f] <= sent'
    BY <1>6 DEF Inv, InOrder
  <2>2. ASSUME NEW t \in Sockets, NEW i \in 1..Len(inbox'[t])
        PROVE  /\ inbox'[t][i] <= sent'
               /\ \A j \in i..Len(inbox'[t]) : inbox'[t][i] <= inbox'[t][j]
    <3>1. CASE t = s
      BY <1>6, <2>2, <3>1
    <3>2. CASE t # s
      BY <1>5, <1>6, <2>2, <3>2 DEF Inv, InOrder
    <3> QED BY <3>1, <3>2
  <2> QED BY <2>1, <2>2 DEF InOrder
<1>8. NotStale'
  <2>1. SUFFICES ASSUME ~doubled', NEW t \in Sockets, readyState'[t] = "OPEN",
                        NEW i \in 1..Len(inbox'[t]), NEW f \in Fields
                 PROVE  source'[f] <= inbox'[t][i]
    BY DEF NotStale
  <2>2. CASE t = s
    BY <1>6, <2>1, <2>2 DEF Inv, InOrder
  <2>3. CASE t # s
    BY <1>1, <1>5, <2>1, <2>3 DEF Inv, TypeOK, NotStale
  <2> QED BY <2>2, <2>3
<1> QED BY <1>2, <1>3, <1>4, <1>7, <1>8 DEF Inv

\* A close event, of whichever socket.
LEMMA ClosedStep ==
  ASSUME Inv, NEW s \in Sockets, NEW failed \in BOOLEAN, Closed(s, failed),
         upsets' \in 0..MaxUpsets
  PROVE  Inv'
<1> DEFINE down == [readyState EXCEPT ![s] = IF s = ws THEN "CLOSED" ELSE "unused"]
           after == IF failed THEN Closing(down, ws) ELSE down
<1>1. /\ readyState' = after
      /\ cut' = cut \ {s}
      /\ inbox' = [inbox EXCEPT ![s] = <<>>]
      /\ wsConnected' = FALSE /\ heartbeat' = FALSE /\ retry' = TRUE
      /\ strays' = IF retry /\ strays < MaxStrays THEN strays + 1 ELSE strays
      /\ lateClose' = (lateClose \/ (s # ws /\ readyState'[ws] = "OPEN"))
      /\ UNCHANGED <<ws, silent, sent, source, points, mqttConnected, latest, fetches,
                     updating, reload, doubled>>
  BY DEF Closed, OnClose, display, update
<1>2. /\ down \in [Sockets -> ReadyStates] /\ down[s] \in {"CLOSED", "unused"}
      /\ \A t \in Sockets : t # s => down[t] = readyState[t]
  BY DEF Inv, TypeOK, ReadyStates
<1>3. /\ after \in [Sockets -> ReadyStates]
      /\ \A t \in Sockets : after[t] \in {"CONNECTING", "OPEN"} => t # s /\ after[t] = readyState[t]
  <2> HIDE DEF down
  <2>1. /\ Closing(down, ws) \in [Sockets -> ReadyStates]
        /\ \A t \in Sockets : Closing(down, ws)[t] \in {"CONNECTING", "OPEN"} =>
             Closing(down, ws)[t] = down[t]
    BY <1>2, ClosingSound
  <2> QED BY <1>2, <2>1
<1> HIDE DEF after
<1>4. strays' \in 0..MaxStrays
  <2>1. strays \in 0..MaxStrays /\ MaxStrays \in Nat
    BY DashboardAssumption DEF Inv, TypeOK
  <2> QED BY <1>1, <2>1
<1>5. inbox'[s] = <<>> /\ \A t \in Sockets : t # s => inbox'[t] = inbox[t]
  BY <1>1 DEF Inv, TypeOK
<1>6. TypeOK'
  <2>1. inbox' \in [Sockets -> Seq(Nat)]
    BY <1>1 DEF Inv, TypeOK
  <2>2. lateClose' \in BOOLEAN /\ cut' \subseteq Sockets
    BY <1>1 DEF Inv, TypeOK
  <2> QED BY <1>1, <1>3, <1>4, <2>1, <2>2 DEF Inv, TypeOK
<1>7. LiveTruthful'
  <2>1. ASSUME IsOpen' PROVE lateClose'
    <3>1. ws' \in Sockets /\ ws' = ws /\ readyState'[ws] = "OPEN"
      BY <1>1, <2>1 DEF IsOpen, State, Inv, TypeOK
    <3> QED BY <1>1, <1>3, <3>1
  <2> QED BY <1>1, <2>1 DEF LiveTruthful
<1>8. UpdatingBounded' /\ OneSpeaker'
  BY <1>1, <1>3 DEF Inv, UpdatingBounded, OneSpeaker
<1>9. InOrder'
  <2>1. ASSUME NEW t \in Sockets, NEW i \in 1..Len(inbox'[t])
        PROVE  t # s
    BY <1>5, <2>1
  <2> QED BY <1>1, <1>5, <2>1 DEF Inv, InOrder
<1>10. NotStale'
  BY <1>1, <1>3, <1>5 DEF Inv, NotStale
<1> QED BY <1>6, <1>7, <1>8, <1>9, <1>10 DEF Inv

\* A connection is lost, or a close the page asked for completes.
LEMMA CloseEvents == ASSUME Inv, NEW s \in Sockets, Lost(s) \/ CloseCompletes(s) PROVE Inv'
<1>1. \E failed \in BOOLEAN : Closed(s, failed)
  BY DEF Lost, CloseCompletes
<1>2. upsets' \in 0..MaxUpsets
  <2>1. upsets \in 0..MaxUpsets /\ MaxUpsets \in Nat
    BY DashboardAssumption DEF Inv, TypeOK
  <2>2. upsets' = upsets \/ (upsets < MaxUpsets /\ upsets' = upsets + 1)
    BY DEF Lost, CloseCompletes
  <2> QED BY <2>1, <2>2
<1> QED BY <1>1, <1>2, ClosedStep

\* A path that breaks loses what was on its way.
LEMMA PathCutStep == ASSUME Inv, NEW s \in Sockets, PathCut(s) PROVE Inv'
<1>1. /\ cut' = cut \cup {s} /\ inbox' = [inbox EXCEPT ![s] = <<>>]
      /\ upsets < MaxUpsets /\ upsets' = upsets + 1
      /\ UNCHANGED <<readyState, ws, wsConnected, heartbeat, silent, retry, strays, sent,
                     source, points, mqttConnected, latest, fetches, updating, reload,
                     doubled, lateClose>>
  BY DEF PathCut, display, update
<1>2. inbox'[s] = <<>> /\ \A t \in Sockets : t # s => inbox'[t] = inbox[t]
  BY <1>1 DEF Inv, TypeOK
<1>3. TypeOK'
  <2>1. inbox' \in [Sockets -> Seq(Nat)]
    BY <1>1 DEF Inv, TypeOK
  <2>2. upsets' \in 0..MaxUpsets
    BY <1>1, DashboardAssumption DEF Inv, TypeOK
  <2> QED BY <1>1, <2>1, <2>2 DEF Inv, TypeOK
<1>4. LiveTruthful' /\ UpdatingBounded' /\ OneSpeaker'
  BY <1>1 DEF Inv, LiveTruthful, IsOpen, State, UpdatingBounded, OneSpeaker
<1>5. ASSUME NEW t \in Sockets, NEW i \in 1..Len(inbox'[t]) PROVE t # s
  BY <1>2, <1>5
<1>6. InOrder' /\ NotStale'
  BY <1>1, <1>2, <1>5 DEF Inv, InOrder, NotStale
<1> QED BY <1>3, <1>4, <1>6 DEF Inv

\* The next frame is appended to what is on its way.
LEMMA PublishStep == ASSUME Inv, Publish PROVE Inv'
<1>1. /\ sent' \in {sent, sent + 1}
      /\ inbox' = [s \in Sockets |-> IF readyState[s] = "OPEN" /\ s \notin cut
                                     THEN Append(inbox[s], sent') ELSE inbox[s]]
      /\ UNCHANGED <<readyState, cut, ws, wsConnected, heartbeat, silent, retry, strays,
                     source, points, mqttConnected, latest, fetches, updating, reload, upsets,
                     doubled, lateClose>>
  BY DEF Publish, display, update
<1>2. /\ sent \in Nat /\ sent' \in Nat /\ source \in [Fields -> Nat]
      /\ \A s \in Sockets : inbox[s] \in Seq(Nat)
  BY <1>1 DEF Inv, TypeOK
<1>3. ASSUME NEW s \in Sockets
      PROVE  /\ inbox'[s] \in Seq(Nat)
             /\ \A i \in 1..Len(inbox'[s]) :
                  \/ i \in 1..Len(inbox[s]) /\ inbox'[s][i] = inbox[s][i]
                  \/ i = Len(inbox'[s]) /\ inbox'[s][i] = sent'
  <2>1. inbox'[s] = inbox[s] \/ inbox'[s] = Append(inbox[s], sent')
    BY <1>1
  <2>2. inbox[s] \in Seq(Nat) /\ sent' \in Nat
    BY <1>2
  <2>3. CASE inbox'[s] = inbox[s]
    BY <2>2, <2>3
  <2>4. CASE inbox'[s] = Append(inbox[s], sent')
    <3>1. /\ Append(inbox[s], sent') \in Seq(Nat)
          /\ Len(Append(inbox[s], sent')) = Len(inbox[s]) + 1
          /\ \A i \in 1..Len(inbox[s]) : Append(inbox[s], sent')[i] = inbox[s][i]
          /\ Append(inbox[s], sent')[Len(inbox[s]) + 1] = sent'
          /\ Len(inbox[s]) \in Nat
      BY <2>2
    <3> QED BY <2>4, <3>1
  <2> QED BY <2>1, <2>3, <2>4
<1>4. TypeOK'
  <2>1. inbox' \in [Sockets -> Seq(Nat)]
    BY <1>1, <1>2, <1>3
  <2> QED BY <1>1, <1>2, <2>1 DEF Inv, TypeOK
<1>5. LiveTruthful' /\ UpdatingBounded' /\ OneSpeaker'
  BY <1>1 DEF Inv, LiveTruthful, IsOpen, State, UpdatingBounded, OneSpeaker
<1>6. InOrder'
  <2>1. \A f \in Fields : source'[f] <= sent'
    BY <1>1, <1>2 DEF Inv, InOrder
  <2>2. ASSUME NEW s \in Sockets, NEW i \in 1..Len(inbox'[s])
        PROVE  inbox'[s][i] \in Nat /\ inbox'[s][i] <= sent'
    BY <1>1, <1>2, <1>3, <2>2 DEF Inv, InOrder
  <2>3. ASSUME NEW s \in Sockets, NEW i \in 1..Len(inbox'[s]), NEW j \in i..Len(inbox'[s])
        PROVE  inbox'[s][i] <= inbox'[s][j]
    <3>1. j \in 1..Len(inbox'[s])
      BY <1>3, <2>3
    <3>2. CASE j \in 1..Len(inbox[s]) /\ inbox'[s][j] = inbox[s][j]
      <4>1. i \in 1..Len(inbox[s]) /\ j \in i..Len(inbox[s])
        BY <1>2, <2>3, <3>2
      <4>2. inbox[s][i] <= inbox[s][j]
        BY <4>1 DEF Inv, InOrder
      <4>3. inbox'[s][i] = inbox[s][i] \/ (i = j /\ inbox'[s][i] = inbox'[s][j])
        BY <1>3, <2>3, <3>1
      <4> QED BY <2>2, <3>2, <4>2, <4>3
    <3>3. CASE inbox'[s][j] = sent'
      BY <2>2, <3>3
    <3> QED BY <1>3, <3>1, <3>2, <3>3
  <2> QED BY <2>1, <2>2, <2>3 DEF InOrder
<1>7. NotStale'
  <2>1. SUFFICES ASSUME ~doubled', NEW s \in Sockets, readyState'[s] = "OPEN",
                        NEW i \in 1..Len(inbox'[s]), NEW f \in Fields
                 PROVE  source'[f] <= inbox'[s][i]
    BY DEF NotStale
  <2>2. CASE i \in 1..Len(inbox[s]) /\ inbox'[s][i] = inbox[s][i]
    BY <1>1, <2>1, <2>2 DEF Inv, NotStale
  <2>3. CASE inbox'[s][i] = sent'
    BY <1>1, <1>2, <2>3 DEF Inv, InOrder
  <2> QED BY <1>3, <2>2, <2>3
<1> QED BY <1>4, <1>5, <1>6, <1>7 DEF Inv

\* onmessage: what the frame overwrites was not sent after it, unless two
\* sockets deliver, and what is still to come was not sent before it.
LEMMA MessageStep ==
  ASSUME Inv, NEW s \in Sockets, Message(s)
  PROVE  Inv' /\ \A f \in Fields : source'[f] >= source[f] \/ doubled
<1> DEFINE frame == Head(inbox[s])
<1>1. /\ readyState[s] = "OPEN" /\ inbox[s] # <<>>
      /\ inbox' = [inbox EXCEPT ![s] = Tail(@)]
      /\ silent' = FALSE /\ mqttConnected' = TRUE /\ latest' = FALSE
      /\ source' = [f \in Fields |-> IF f \in Contents[frame] THEN frame ELSE source[f]]
      /\ points' = IF points = MaxPoints THEN points ELSE points + 1
      /\ UNCHANGED <<readyState, cut, ws, wsConnected, heartbeat, retry, strays, sent,
                     fetches, updating, reload, upsets, doubled, lateClose>>
  BY DEF Message, Assign, update
<1>2. /\ inbox \in [Sockets -> Seq(Nat)] /\ source \in [Fields -> Nat] /\ sent \in Nat
      /\ readyState \in [Sockets -> ReadyStates]
  BY DEF Inv, TypeOK
<1>3. frame = inbox[s][1] /\ 1 \in 1..Len(inbox[s]) /\ frame \in Nat
  BY <1>1, <1>2
<1>4. /\ inbox'[s] = Tail(inbox[s]) /\ inbox'[s] \in Seq(Nat)
      /\ Len(inbox'[s]) = Len(inbox[s]) - 1
      /\ \A i \in 1..Len(inbox'[s]) : inbox'[s][i] = inbox[s][i + 1]
      /\ \A t \in Sockets : t # s => inbox'[t] = inbox[t]
  BY <1>1, <1>2
<1> HIDE DEF frame
<1>5. \A f \in Fields : source'[f] \in Nat /\ source'[f] \in {frame, source[f]}
  BY <1>1, <1>2, <1>3
<1>6. TypeOK'
  <2>1. inbox' \in [Sockets -> Seq(Nat)]
    BY <1>1, <1>2, <1>4
  <2>2. source' \in [Fields -> Nat]
    BY <1>1, <1>5
  <2>3. points' \in 0..MaxPoints
    BY <1>1, DashboardAssumption DEF Inv, TypeOK
  <2> QED BY <1>1, <2>1, <2>2, <2>3 DEF Inv, TypeOK
<1>7. LiveTruthful' /\ UpdatingBounded' /\ OneSpeaker'
  BY <1>1 DEF Inv, LiveTruthful, IsOpen, State, UpdatingBounded, OneSpeaker
<1>8. InOrder'
  <2>1. \A f \in Fields : source'[f] <= sent'
    BY <1>1, <1>3, <1>5 DEF Inv, InOrder
  <2>2. ASSUME NEW t \in Sockets, NEW i \in 1..Len(inbox'[t])
        PROVE  /\ inbox'[t][i] <= sent'
               /\ \A j \in i..Len(inbox'[t]) : inbox'[t][i] <= inbox'[t][j]
    <3>1. CASE t = s
      <4>1. i + 1 \in 1..Len(inbox[s]) /\ inbox'[s][i] = inbox[s][i + 1]
        BY <1>2, <1>4, <2>2, <3>1
      <4>2. ASSUME NEW j \in i..Len(inbox'[s])
            PROVE  j + 1 \in (i + 1)..Len(inbox[s]) /\ inbox'[s][j] = inbox[s][j + 1]
        BY <1>2, <1>4, <2>2, <3>1, <4>2
      <4> QED BY <1>1, <3>1, <4>1, <4>2 DEF Inv, InOrder
    <3>2. CASE t # s
      BY <1>1, <1>4, <2>2, <3>2 DEF Inv, InOrder
    <3> QED BY <3>1, <3>2
  <2> QED BY <2>1, <2>2 DEF InOrder
<1>9. NotStale'
  <2>1. SUFFICES ASSUME ~doubled', NEW t \in Sockets, readyState'[t] = "OPEN",
                        NEW i \in 1..Len(inbox'[t]), NEW f \in Fields
                 PROVE  source'[f] <= inbox'[t][i]
    BY DEF NotStale
  <2>2. t = s
    BY <1>1, <2>1 DEF Inv, OneSpeaker
  <2>3. i + 1 \in 1..Len(inbox[s]) /\ inbox'[s][i] = inbox[s][i + 1]
    BY <1>2, <1>4, <2>1, <2>2
  <2>4. source[f] <= inbox[s][i + 1]
    BY <1>1, <2>1, <2>3 DEF Inv, NotStale
  <2>5. frame <= inbox[s][i + 1]
    <3>1. i + 1 \in 1..Len(inbox[s])
      BY <2>3
    <3> QED BY <1>3, <3>1 DEF Inv, InOrder
  <2> QED BY <1>5, <2>2, <2>3, <2>4, <2>5
<1>10. \A f \in Fields : source'[f] >= source[f] \/ doubled
  BY <1>1, <1>2, <1>3, <1>5 DEF Inv, NotStale
<1> QED BY <1>6, <1>7, <1>8, <1>9, <1>10 DEF Inv

\* Fifteen seconds without a frame.
LEMMA SilenceStep == ASSUME Inv, Silence PROVE Inv'
<1>1. /\ silent' = TRUE
      /\ UNCHANGED <<readyState, cut, inbox, ws, wsConnected, heartbeat, retry, strays, sent,
                     source, points, mqttConnected, latest, fetches, updating, reload, upsets,
                     doubled, lateClose>>
  BY DEF Silence, display, update
<1>2. TypeOK'
  BY <1>1 DEF Inv, TypeOK
<1> QED BY <1>1, <1>2 DEF Inv, LiveTruthful, IsOpen, State, UpdatingBounded, OneSpeaker, InOrder, NotStale

\* The update button: a click that waits for its update keeps "UPDATING..."
\* justified, and the answer to it clears it or schedules the reload.
LEMMA UpdateSteps ==
  ASSUME Inv, NEW c \in Clicks,
         CheckClicked(c) \/ CheckAnswered(c) \/ UpdateClicked(c) \/ UpdateAnswered(c)
  PROVE  Inv'
<1>1. UNCHANGED <<readyState, cut, inbox, ws, wsConnected, heartbeat, silent, retry, strays,
                  sent, source, points, mqttConnected, upsets, doubled, lateClose>>
  BY DEF CheckClicked, CheckAnswered, UpdateClicked, UpdateAnswered, connection, display
<1>2. {latest', updating', reload'} \subseteq BOOLEAN /\ fetches' \in [Clicks -> Requests]
  BY DEF CheckClicked, CheckAnswered, UpdateClicked, UpdateAnswered, display, Inv, TypeOK, Requests
<1>3. TypeOK'
  BY <1>1, <1>2 DEF Inv, TypeOK
<1>4. UpdatingBounded'
  <2>1. fetches \in [Clicks -> Requests]
    BY DEF Inv, TypeOK
  <2>2. CASE CheckClicked(c) \/ CheckAnswered(c)
    BY <2>1, <2>2 DEF Inv, UpdatingBounded, CheckClicked, CheckAnswered
  <2>3. CASE UpdateClicked(c)
    BY <2>1, <2>3 DEF UpdatingBounded, UpdateClicked
  <2>4. CASE UpdateAnswered(c)
    BY <2>1, <2>4 DEF UpdatingBounded, UpdateAnswered
  <2> QED BY <2>2, <2>3, <2>4
<1> QED BY <1>1, <1>3, <1>4 DEF Inv, LiveTruthful, IsOpen, State, OneSpeaker, InOrder, NotStale

\* The page is loaded anew.
LEMMA ReloadStep == ASSUME Inv, Reload PROVE Inv'
<1>1. TypeOK'
  <2>1. inbox' \in [Sockets -> Seq(Nat)] /\ readyState' \in [Sockets -> ReadyStates]
    BY DEF Reload, ReadyStates
  <2>2. source' \in [Fields -> Nat] /\ fetches' \in [Clicks -> Requests]
    BY DEF Reload, Requests
  <2>3. strays' \in 0..MaxStrays /\ points' \in 0..MaxPoints
    BY DashboardAssumption DEF Reload
  <2> QED BY <2>1, <2>2, <2>3 DEF Reload, Inv, TypeOK
<1>2. LiveTruthful' /\ UpdatingBounded' /\ OneSpeaker'
  BY DEF Reload, LiveTruthful, IsOpen, State, UpdatingBounded, OneSpeaker
<1>3. InOrder' /\ NotStale'
  BY DEF Reload, InOrder, NotStale, Inv, TypeOK
<1> QED BY <1>1, <1>2, <1>3 DEF Inv

\* A step that changes nothing.
LEMMA StutterStep == ASSUME Inv, UNCHANGED vars PROVE Inv'
<1>1. UNCHANGED <<readyState, cut, inbox, ws, wsConnected, heartbeat, silent, retry, strays,
                  sent, source, points, mqttConnected, latest, fetches, updating, reload,
                  upsets, doubled, lateClose>>
  BY DEF vars, connection, display, update
<1> QED BY <1>1 DEF Inv, TypeOK, LiveTruthful, IsOpen, State, UpdatingBounded, OneSpeaker, InOrder, NotStale

\* Every step keeps the invariant.
LEMMA NextInv == Inv /\ [Next]_vars => Inv'
<1> SUFFICES ASSUME Inv, [Next]_vars PROVE Inv'
  OBVIOUS
<1>1. CASE Mounted \/ RetryFires \/ StrayFires \/ Visible
  BY <1>1, ConnectingSteps
<1>2. CASE Online \/ Heartbeat
  BY <1>2, CloseCalls
<1>3. ASSUME NEW s \in Sockets, Opened(s) PROVE Inv'
  BY <1>3, OpenedStep
<1>4. ASSUME NEW s \in Sockets, Lost(s) \/ CloseCompletes(s) PROVE Inv'
  BY <1>4, CloseEvents
<1>5. ASSUME NEW s \in Sockets, PathCut(s) PROVE Inv'
  BY <1>5, PathCutStep
<1>6. ASSUME NEW s \in Sockets, Message(s) PROVE Inv'
  BY <1>6, MessageStep
<1>7. CASE Publish
  BY <1>7, PublishStep
<1>8. CASE Silence
  BY <1>8, SilenceStep
<1>9. ASSUME NEW c \in Clicks,
             CheckClicked(c) \/ CheckAnswered(c) \/ UpdateClicked(c) \/ UpdateAnswered(c)
      PROVE  Inv'
  BY <1>9, UpdateSteps
<1>10. CASE Reload
  BY <1>10, ReloadStep
<1>11. CASE UNCHANGED vars
  BY <1>11, StutterStep
<1> QED
  BY <1>1, <1>2, <1>3, <1>4, <1>5, <1>6, <1>7, <1>8, <1>9, <1>10, <1>11 DEF Next

-----------------------------------------------------------------------------
(* Theorems                                                                *)

\* The invariant holds in every state of the page.
THEOREM DashboardInvariant == Spec => []Inv
  BY InitInv, NextInv, PTL DEF Spec

\* "Live" and the heartbeat agree with the sockets in both directions, however
\* often the page has reconnected, unless an orphan closed after ws had opened.
THEOREM DashboardLive == Spec => []LiveTruthful
<1>1. Inv => LiveTruthful
  BY DEF Inv
<1> QED BY <1>1, DashboardInvariant, PTL

\* "UPDATING..." is justified by a request under way or a reload to come,
\* however many clicks are waiting.
THEOREM DashboardUpdating == Spec => []UpdatingBounded
<1>1. Inv => UpdatingBounded
  BY DEF Inv
<1> QED BY <1>1, DashboardInvariant, PTL

\* No field of the display goes back to a frame sent earlier, whatever sockets
\* came and went, unless connect() once replaced a socket that was connecting or
\* the page is loaded anew.
THEOREM DashboardAdvances == Spec => DisplayAdvances
<1>1. ASSUME Inv, [Next]_vars
      PROVE  [\A f \in Fields : source'[f] >= source[f] \/ doubled \/ Reload]_vars
  <2>1. ASSUME NEW s \in Sockets, Message(s)
        PROVE  \A f \in Fields : source'[f] >= source[f] \/ doubled
    BY <1>1, <2>1, MessageStep
  <2>2. CASE Reload
    BY <2>2
  <2>3. CASE source' = source
    <3>1. \A f \in Fields : source[f] \in Nat
      BY <1>1 DEF Inv, TypeOK
    <3> QED BY <2>3, <3>1
  <2>4. \/ \E s \in Sockets : Message(s)
        \/ Reload \/ source' = source
    BY <1>1 DEF Next, vars, display, Mounted, RetryFires, StrayFires, Visible, Online, Opened,
       Lost, CloseCompletes, Closed, PathCut, Publish, Silence, Heartbeat, CheckClicked,
       CheckAnswered, UpdateClicked, UpdateAnswered
  <2> QED BY <2>1, <2>2, <2>3, <2>4
<1> QED BY <1>1, DashboardInvariant, PTL DEF Spec, DisplayAdvances
=============================================================================
