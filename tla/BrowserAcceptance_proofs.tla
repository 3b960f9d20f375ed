----------------------- MODULE BrowserAcceptance_proofs -----------------------
(***************************************************************************)
(* Proofs about BrowserAcceptance and the VueTransport in it, for any      *)
(* number of sockets, of disturbances and of closing sockets replaced. The *)
(* order of the script plays no part in them: they hold for any script     *)
(* made of the same actions.                                               *)
(***************************************************************************)
EXTENDS BrowserAcceptance, TLAPS

Topics   == {"none", "camera", "rejected"}
States   == [soc : Nat, topic : Topics, loads : BOOLEAN]
Commands == [field : {"topic"}, value : Topics] \cup [field : {"loads"}, value : BOOLEAN]
Events   == [type : {"open", "close"}] \cup [type : {"state"}, state : States]
            \cup [type : {"verdict"}, verdict : {"accepted", "rejected"}]
Polls    == {NoPoll, Asked} \cup {Answer(st, live) : st \in States \cup {GatewayState}, live \in BOOLEAN}
Phases   == {"CONNECTING", "OPEN", "CLOSING", "CLOSED"}

TypeOK ==
  /\ readyState \in [Sockets -> Phases]
  /\ inbox \in [Sockets -> Seq(Events)]
  /\ outbox \in [Sockets -> Seq(Commands)]
  /\ calls \subseteq Sockets /\ hangups \subseteq Sockets /\ sockets \subseteq Sockets
  /\ r \in Sockets \cup {NoSocket}
  /\ {silent, retry, polling, window, mqttConnected, pending, paused} \subseteq BOOLEAN
  /\ mode \in {"none", "private", "public"}
  /\ poll \in Polls
  /\ state \in States
  /\ upsets \in 0..MaxUpsets /\ reveals \in 0..MaxReveals

-----------------------------------------------------------------------------
(* What is on its way to a socket                                          *)

\* The newest telemetry in q is st.
Ends(q, st) ==
  \E i \in 1..Len(q) : /\ q[i].type = "state" /\ q[i].state = st
                       /\ \A j \in (i + 1)..Len(q) : q[j].type # "state"
Quiet(q)   == \A i \in 1..Len(q) : q[i].type # "state"
Decided(q) == \E i \in 1..Len(q) : q[i].type = "verdict"
Lasting(q) == \A i \in 1..Len(q) : q[i].type # "close"

\* The two ends of a socket. The server has not seen a new socket; only the
\* current one connects or is open; a target that the page closed has its
\* callback to come, one that still connects has its open event to come first,
\* and no target is about to hear of a close.
Wiring ==
  \A s \in Sockets :
    /\ s \in calls => /\ s \notin sockets /\ inbox[s] = <<>> /\ outbox[s] = <<>>
                      /\ readyState[s] # "OPEN"
                      /\ readyState[s] \in {"CLOSING", "CLOSED"} => s \in hangups
    /\ readyState[s] \in {"CONNECTING", "OPEN"} => s = r
    /\ s \in sockets => /\ Lasting(inbox[s])
                        /\ readyState[s] \in {"CLOSING", "CLOSED"} => s \in hangups
                        /\ readyState[s] = "CONNECTING" =>
                             inbox[s] # <<>> /\ inbox[s][1].type = "open"

\* The newest telemetry on its way to the page is the server's state, or the
\* page displays that state and no older answer can replace it.
Latest ==
  \A s \in sockets : readyState[s] \in {"CONNECTING", "OPEN"} =>
    \/ Ends(inbox[s], state)
    \/ /\ readyState[s] = "OPEN" /\ Quiet(inbox[s])
       /\ shown = state
       /\ poll.phase = "answered" => poll.state = state

\* The timer runs, and the page of another mode than private is, without a
\* current socket; only a disturbance makes a socket silent.
Links ==
  /\ retry \/ ~polling \/ mode # "private" => r = NoSocket
  /\ retry => mode = "private" /\ polling
  /\ silent => upsets > 0

\* A command the page waits for is on its way, or its verdict is.
Command ==
  pending /\ upsets = 0 => IsOpen /\ (outbox[r] # <<>> \/ Decided(inbox[r]))

\* The indicator, as long as no closing socket was replaced.
Evidence == reveals = 0 => LiveHasEvidence

Inv == TypeOK /\ Wiring /\ Latest /\ Links /\ Command /\ Evidence

-----------------------------------------------------------------------------
(* Lemmas about queues of events                                           *)

\* What is left of a queue when its first event is handled.
LEMMA TailFacts ==
  ASSUME NEW q \in Seq(Events), q # <<>>
  PROVE  /\ Tail(q) \in Seq(Events) /\ Head(q) \in Events /\ Head(q) = q[1]
         /\ Lasting(q) => Lasting(Tail(q)) /\ Head(q).type # "close"
         /\ Quiet(q) => Quiet(Tail(q)) /\ Head(q).type # "state"
         /\ Decided(q) => Decided(Tail(q)) \/ Head(q).type = "verdict"
         /\ \A st : Ends(q, st) =>
              \/ Ends(Tail(q), st)
              \/ Head(q).type = "state" /\ Head(q).state = st /\ Quiet(Tail(q))
<1>1. /\ Tail(q) \in Seq(Events) /\ Head(q) \in Events /\ Head(q) = q[1]
      /\ Len(q) \in Nat /\ Len(q) > 0 /\ Len(Tail(q)) = Len(q) - 1
  OBVIOUS
<1>2. \A i \in 1..Len(Tail(q)) : Tail(q)[i] = q[i + 1] /\ i + 1 \in 1..Len(q)
  BY <1>1
<1>3. \A i \in 1..Len(q) : i # 1 => i - 1 \in 1..Len(Tail(q)) /\ Tail(q)[i - 1] = q[i]
  BY <1>1, <1>2
<1>4. 1 \in 1..Len(q)
  BY <1>1
<1>5. Lasting(q) => Lasting(Tail(q)) /\ Head(q).type # "close"
  BY <1>1, <1>2, <1>4 DEF Lasting
<1>6. Quiet(q) => Quiet(Tail(q)) /\ Head(q).type # "state"
  BY <1>1, <1>2, <1>4 DEF Quiet
<1>7. Decided(q) => Decided(Tail(q)) \/ Head(q).type = "verdict"
  BY <1>1, <1>3 DEF Decided
<1>8. ASSUME NEW st, Ends(q, st)
      PROVE  \/ Ends(Tail(q), st)
             \/ Head(q).type = "state" /\ Head(q).state = st /\ Quiet(Tail(q))
  <2>1. PICK i \in 1..Len(q) : /\ q[i].type = "state" /\ q[i].state = st
                               /\ \A j \in (i + 1)..Len(q) : q[j].type # "state"
    BY <1>8 DEF Ends
  <2>2. CASE i = 1
    <3>1. \A k \in 1..Len(Tail(q)) : k + 1 \in (i + 1)..Len(q)
      BY <1>1, <2>2
    <3> QED BY <1>1, <1>2, <2>1, <2>2, <3>1 DEF Quiet
  <2>3. CASE i # 1
    <3>1. \A j \in ((i - 1) + 1)..Len(Tail(q)) : j + 1 \in (i + 1)..Len(q) /\ j \in 1..Len(Tail(q))
      BY <1>1, <2>3
    <3>2. \A j \in ((i - 1) + 1)..Len(Tail(q)) : Tail(q)[j].type # "state"
      BY <1>2, <2>1, <3>1
    <3>3. i - 1 \in 1..Len(Tail(q)) /\ Tail(q)[i - 1] = q[i]
      BY <1>3, <2>3
    <3> QED BY <2>1, <3>2, <3>3 DEF Ends
  <2> QED BY <2>2, <2>3
<1> QED BY <1>1, <1>5, <1>6, <1>7, <1>8

\* What a queue holds after one more event was sent.
LEMMA SentFacts ==
  ASSUME NEW q \in Seq(Events), NEW e \in Events
  PROVE  /\ q \o <<e>> \in Seq(Events) /\ q \o <<e>> # <<>>
         /\ q # <<>> => (q \o <<e>>)[1] = q[1]
         /\ Lasting(q) /\ e.type # "close" => Lasting(q \o <<e>>)
         /\ Quiet(q) /\ e.type # "state" => Quiet(q \o <<e>>)
         /\ Decided(q) \/ e.type = "verdict" => Decided(q \o <<e>>)
         /\ e.type = "state" => Ends(q \o <<e>>, e.state)
         /\ \A st : e.type # "state" /\ Ends(q, st) => Ends(q \o <<e>>, st)
<1> DEFINE p == q \o <<e>>
<1>1. /\ p \in Seq(Events) /\ Len(q) \in Nat /\ Len(p) = Len(q) + 1
      /\ \A i \in 1..Len(q) : p[i] = q[i]
      /\ p[Len(q) + 1] = e
  OBVIOUS
<1>2. p # <<>> /\ (q # <<>> => p[1] = q[1])
  <2>1. Len(p) # 0
    BY <1>1
  <2>2. q # <<>> => 1 \in 1..Len(q)
    OBVIOUS
  <2> QED BY <1>1, <2>1, <2>2
<1> HIDE DEF p
<1>3. \A i \in 1..Len(p) : i \in 1..Len(q) \/ i = Len(q) + 1
  BY <1>1
<1>4. \A i \in 1..Len(q) : i \in 1..Len(p)
  BY <1>1
<1>5. Len(q) + 1 \in 1..Len(p) /\ \A j \in ((Len(q) + 1) + 1)..Len(p) : FALSE
  BY <1>1
<1>6. Lasting(q) /\ e.type # "close" => Lasting(p)
  BY <1>1, <1>3 DEF Lasting
<1>7. Quiet(q) /\ e.type # "state" => Quiet(p)
  BY <1>1, <1>3 DEF Quiet
<1>8. Decided(q) \/ e.type = "verdict" => Decided(p)
  BY <1>1, <1>4, <1>5 DEF Decided
<1>9. e.type = "state" => Ends(p, e.state)
  BY <1>1, <1>5 DEF Ends
<1>10. ASSUME NEW st, e.type # "state", Ends(q, st) PROVE Ends(p, st)
  <2>1. PICK i \in 1..Len(q) : /\ q[i].type = "state" /\ q[i].state = st
                               /\ \A j \in (i + 1)..Len(q) : q[j].type # "state"
    BY <1>10 DEF Ends
  <2>2. \A j \in (i + 1)..Len(p) : j \in (i + 1)..Len(q) \/ j = Len(q) + 1
    BY <1>1
  <2>3. \A j \in (i + 1)..Len(q) : j \in 1..Len(q)
    BY <1>1
  <2>4. \A j \in (i + 1)..Len(p) : p[j].type # "state"
    BY <1>1, <1>10, <2>1, <2>2, <2>3
  <2> QED BY <1>1, <1>4, <2>1, <2>4 DEF Ends
<1> QED BY <1>1, <1>2, <1>6, <1>7, <1>8, <1>9, <1>10 DEF p

\* The events the server sends.
LEMMA EventFacts ==
  /\ \A st \in States : /\ Frame(st) \in Events /\ Frame(st).type = "state"
                        /\ Frame(st).state = st
  /\ Close \in Events /\ Close.type = "close"
  /\ \A v \in {"accepted", "rejected"} :
       /\ [type |-> "verdict", verdict |-> v] \in Events
       /\ [type |-> "verdict", verdict |-> v].type = "verdict"
  BY DEF Events, Frame, Close

\* The requests of a poll; only an answer carries a state.
LEMMA PollFacts ==
  /\ NoPoll \in Polls /\ Asked \in Polls
  /\ NoPoll.phase # "answered" /\ Asked.phase # "answered"
  /\ \A st \in States \cup {GatewayState}, live \in BOOLEAN :
       Answer(st, live) \in Polls /\ Answer(st, live).state = st
  /\ \A p \in Polls : p.phase = "answered" => p.live \in BOOLEAN
<1>1. NoPoll \in Polls /\ Asked \in Polls
  BY DEF Polls
<1>2. NoPoll.phase # "answered" /\ Asked.phase # "answered"
  BY DEF NoPoll, Asked
<1>3. \A st \in States \cup {GatewayState}, live \in BOOLEAN :
       Answer(st, live) \in Polls /\ Answer(st, live).state = st /\ Answer(st, live).live = live
  BY DEF Polls, Answer
<1>4. ASSUME NEW p \in Polls, p.phase = "answered" PROVE p.live \in BOOLEAN
  BY <1>2, <1>3, <1>4 DEF Polls
<1> QED BY <1>1, <1>2, <1>3, <1>4

\* ws.send reaches the one socket, unless its document is gone.
LEMMA SendFacts ==
  ASSUME NEW box \in [Sockets -> Seq(Events)], NEW s \in Sockets, NEW e \in Events
  PROVE  /\ Send(box, s, <<e>>) \in [Sockets -> Seq(Events)]
         /\ readyState[s] = "CLOSED" => Send(box, s, <<e>>) = box
         /\ readyState[s] # "CLOSED" => Send(box, s, <<e>>)[s] = box[s] \o <<e>>
         /\ \A t \in Sockets : t # s => Send(box, s, <<e>>)[t] = box[t]
         /\ Decided(box[s]) => Decided(Send(box, s, <<e>>)[s])
  BY SentFacts DEF Send

\* broadcast(): every target whose document is there gets one more frame.
LEMMA BroadcastFacts ==
  ASSUME NEW box \in [Sockets -> Seq(Events)], NEW st \in States
  PROVE  /\ Broadcast(box, st) \in [Sockets -> Seq(Events)]
         /\ \A s \in Sockets :
              Broadcast(box, st)[s] = IF s \in sockets /\ readyState[s] # "CLOSED"
                                      THEN box[s] \o <<Frame(st)>> ELSE box[s]
<1>1. Frame(st) \in Events
  BY EventFacts
<1>2. \A s \in Sockets :
        Broadcast(box, st)[s] = IF s \in sockets /\ readyState[s] # "CLOSED"
                                THEN box[s] \o <<Frame(st)>> ELSE box[s]
  BY <1>1, SendFacts DEF Broadcast
<1>3. \A s \in Sockets : box[s] \in Seq(Events) /\ box[s] \o <<Frame(st)>> \in Seq(Events)
  BY <1>1, SentFacts
<1> QED BY <1>2, <1>3 DEF Broadcast

-----------------------------------------------------------------------------
(* Initial state, and the page's socket                                    *)

\* Before the page is loaded.
LEMMA InitInv == Init => Inv
<1> SUFFICES ASSUME Init PROVE Inv
  OBVIOUS
<1>1. TypeOK
  <2>1. inbox \in [Sockets -> Seq(Events)] /\ outbox \in [Sockets -> Seq(Commands)]
    BY DEF Init, ClientInit
  <2>2. readyState \in [Sockets -> Phases] /\ poll \in Polls
    BY PollFacts DEF Init, ClientInit, Phases
  <2>4. state \in States
    <3>1. 73 \in Nat /\ "none" \in Topics /\ TRUE \in BOOLEAN
      BY DEF Topics
    <3>2. state = [soc |-> 73, topic |-> "none", loads |-> TRUE]
      BY DEF Init
    <3> QED BY <3>1, <3>2, Zenon DEF States
  <2>3. upsets \in 0..MaxUpsets /\ reveals \in 0..MaxReveals
    BY VueTransportAssumption DEF Init, ClientInit
  <2> QED BY <2>1, <2>2, <2>3, <2>4 DEF Init, ClientInit, TypeOK
<1>2. Wiring /\ Latest /\ Links /\ Command /\ Evidence
  BY DEF Init, ClientInit, Wiring, Latest, Links, Command, Evidence, LiveHasEvidence
<1> QED BY <1>1, <1>2 DEF Inv

\* The current socket is one of the sockets as soon as there is one.
LEMMA CurrentFacts ==
  ASSUME Inv
  PROVE  /\ r # NoSocket <=> r \in Sockets
         /\ IsOpen => r \in Sockets /\ readyState[r] = "OPEN" /\ r \notin calls
         /\ \A s \in Sockets : readyState[s] \in {"CONNECTING", "OPEN"} => s = r /\ InUse
  BY VueTransportAssumption DEF Inv, TypeOK, Wiring, IsOpen, InUse

\* A new socket becomes the current one, of which the server knows nothing.
LEMMA ConnectKeeps ==
  ASSUME Inv, Connect, mode = "private", polling' = TRUE,
         UNCHANGED <<mode, inbox, outbox, hangups, silent, window, shown, pending, upsets,
                     sockets, state>>,
         reveals' = 0 => reveals = 0 /\ r = NoSocket
  PROVE  /\ Wiring' /\ Latest' /\ Links' /\ Command' /\ Evidence'
         /\ readyState' \in [Sockets -> Phases] /\ calls' \subseteq Sockets
         /\ r' \in Sockets /\ retry' = FALSE /\ mqttConnected' = mqttConnected
<1>1. PICK s \in Sockets :
        /\ Free(s) /\ ~InUse
        /\ readyState' = [readyState EXCEPT ![s] = "CONNECTING"]
        /\ calls' = calls \cup {s} /\ r' = s
        /\ retry' = FALSE /\ mqttConnected' = mqttConnected
  <2>1. \E s \in Sockets : Free(s)
    BY DEF Connect
  <2>2. (CHOOSE s \in Sockets : Free(s)) \in Sockets /\ Free(CHOOSE s \in Sockets : Free(s))
    BY <2>1
  <2> QED BY <2>2 DEF Connect
<1>2. /\ readyState \in [Sockets -> Phases] /\ readyState'[s] = "CONNECTING"
      /\ \A t \in Sockets : t # s => readyState'[t] = readyState[t]
  BY <1>1 DEF Inv, TypeOK
<1>3. readyState' \in [Sockets -> Phases]
  BY <1>1, <1>2 DEF Phases
<1>4. readyState[s] = "CLOSED" /\ s \notin calls \cup hangups /\ inbox[s] = <<>> /\ outbox[s] = <<>>
  BY <1>1 DEF Free
<1>5. s \notin sockets
  BY <1>4 DEF Inv, Wiring
<1>6. \A t \in Sockets : t # s => readyState'[t] \notin {"CONNECTING", "OPEN"}
  BY <1>1, <1>2, CurrentFacts
<1>7. Wiring'
  BY <1>1, <1>2, <1>4, <1>5, <1>6 DEF Inv, Wiring
<1>8. Latest'
  BY <1>5, <1>6 DEF Latest, Inv, TypeOK
<1>9. Links'
  BY <1>1 DEF Inv, Links
<1>10. Command'
  BY <1>1 DEF Inv, Command, IsOpen, InUse
<1>11. Evidence'
  BY <1>1 DEF Inv, Evidence, LiveHasEvidence
<1> QED BY <1>1, <1>3, <1>7, <1>8, <1>9, <1>10, <1>11 DEF Inv, TypeOK

\* Mount, the connect timer and the page becoming visible.
LEMMA ConnectingSteps ==
  ASSUME Inv, Mount \/ RetryFires \/ Visible, UNCHANGED fixture
  PROVE  Inv'
<1> USE DEF doc, fixture, command
<1>1. CASE Mount /\ mode = "public"
  <2>1. /\ polling' = TRUE /\ poll' = Asked
        /\ UNCHANGED <<mode, reveals, readyState, calls, r, retry, mqttConnected, inbox, outbox,
                       hangups, silent, window, shown, pending, upsets, sockets, state, paused>>
    BY <1>1 DEF Mount
  <2>2. TypeOK'
    BY <2>1, PollFacts DEF Inv, TypeOK
  <2>3. Wiring' /\ Links' /\ Command' /\ Evidence'
    BY <1>1, <2>1 DEF Inv, Wiring, Links, Command, Evidence, LiveHasEvidence, IsOpen
  <2>4. Latest'
    BY <2>1, PollFacts DEF Inv, Latest
  <2> QED BY <2>2, <2>3, <2>4 DEF Inv
<1>2. CASE (Mount /\ mode = "private") \/ RetryFires \/ Visible
  <2>1. /\ Connect /\ mode = "private" /\ polling' = TRUE
        /\ UNCHANGED <<mode, inbox, outbox, hangups, silent, window, shown, pending, upsets,
                       sockets, state, paused>>
        /\ poll' \in {poll, Asked}
    <3>1. CASE Mount /\ mode = "private"
      BY <3>1 DEF Mount
    <3>2. CASE RetryFires
      <4>1. mode = "private" /\ r = NoSocket
        BY <3>2 DEF RetryFires, Inv, Links
      <4>2. polling
        BY <3>2 DEF RetryFires, Inv, Links
      <4> QED BY <3>2, <4>1, <4>2 DEF RetryFires, Inv, TypeOK
    <3>3. CASE Visible
      BY <3>3 DEF Visible, Inv, TypeOK
    <3> QED BY <1>2, <3>1, <3>2, <3>3
  <2>2. /\ reveals' \in 0..MaxReveals
        /\ reveals' = 0 => reveals = 0 /\ r = NoSocket
    <3>1. reveals \in 0..MaxReveals /\ MaxReveals \in Nat
      BY VueTransportAssumption DEF Inv, TypeOK
    <3>2. CASE Mount \/ RetryFires
      BY <3>1, <3>2 DEF Mount, RetryFires, Inv, Links
    <3>3. CASE Visible
      BY <3>1, <3>3 DEF Visible
    <3> QED BY <1>2, <3>2, <3>3
  <2>3. TypeOK'
    BY <2>1, <2>2, PollFacts, ConnectKeeps DEF Inv, TypeOK
  <2> QED BY <2>1, <2>2, <2>3, ConnectKeeps DEF Inv
<1>3. Mount => mode = "public" \/ mode = "private"
  BY DEF Mount
<1> QED BY <1>1, <1>2, <1>3

\* The page gives up its socket after a silence or a slow attempt.
LEMMA HangUpSteps ==
  ASSUME Inv, Heartbeat \/ ConnectTimesOut, UNCHANGED fixture
  PROVE  Inv'
<1> USE DEF doc, fixture, link, telemetry, command
<1>1. /\ r \in Sockets
      /\ readyState' = [readyState EXCEPT ![r] = "CLOSING"]
      /\ hangups' = hangups \cup {r}
      /\ UNCHANGED <<mode, reveals, inbox, outbox, calls, r, silent, retry, polling, poll, window,
                     mqttConnected, shown, pending, sockets, state, paused>>
  BY CurrentFacts DEF Heartbeat, ConnectTimesOut, HangUp, InUse
<1>2. upsets' \in 0..MaxUpsets /\ upsets' > 0
  <2>1. upsets \in 0..MaxUpsets /\ MaxUpsets \in Nat
    BY VueTransportAssumption DEF Inv, TypeOK
  <2>2. CASE Heartbeat
    BY <2>1, <2>2 DEF Heartbeat, Inv, Links
  <2>3. CASE ConnectTimesOut
    BY <2>1, <2>3 DEF ConnectTimesOut, Upset
  <2> QED BY <2>2, <2>3
<1>3. /\ readyState' \in [Sockets -> Phases] /\ readyState'[r] = "CLOSING"
      /\ \A t \in Sockets : t # r => readyState'[t] = readyState[t]
  BY <1>1 DEF Inv, TypeOK, Phases
<1>4. TypeOK'
  BY <1>1, <1>2, <1>3 DEF Inv, TypeOK
<1>5. Wiring'
  BY <1>1, <1>3 DEF Inv, Wiring
<1>6. Latest'
  BY <1>1, <1>3 DEF Inv, TypeOK, Latest
<1>7. Links' /\ Command' /\ Evidence'
  <2>1. upsets' # 0
    BY <1>2
  <2> QED BY <1>1, <1>2, <1>3, <2>1 DEF Inv, Links, Command, Evidence, LiveHasEvidence
<1> QED BY <1>4, <1>5, <1>6, <1>7 DEF Inv

\* The browser comes online: no socket is current until the timer fires.
LEMMA ComesOnlineStep == ASSUME Inv, ComesOnline PROVE Inv'
<1>1. /\ mode = "private" /\ polling
      /\ readyState' = IF r # NoSocket THEN [readyState EXCEPT ![r] = "CLOSING"] ELSE readyState
      /\ hangups' = IF r # NoSocket THEN hangups \cup {r} ELSE hangups
      /\ r' = NoSocket /\ pending' = FALSE /\ poll' = NoPoll /\ window' = FALSE
      /\ mqttConnected' = FALSE /\ silent' = FALSE /\ retry' = TRUE
      /\ UNCHANGED <<mode, reveals, inbox, outbox, calls, polling, shown, upsets, state, paused,
                     sockets>>
  BY DEF ComesOnline, Online, CommandLost, doc, fixture
<1>2. /\ readyState' \in [Sockets -> Phases]
      /\ \A t \in Sockets : IF t = r THEN readyState'[t] = "CLOSING" /\ t \in hangups'
                            ELSE readyState'[t] = readyState[t]
  BY <1>1, CurrentFacts DEF Inv, TypeOK, Phases
<1>3. \A t \in Sockets : readyState'[t] \notin {"CONNECTING", "OPEN"}
  BY <1>2, CurrentFacts
<1>4. TypeOK'
  BY <1>1, <1>2, PollFacts, CurrentFacts DEF Inv, TypeOK
<1>5. Wiring'
  BY <1>1, <1>2, <1>3 DEF Inv, Wiring
<1>6. Latest'
  BY <1>1, <1>3 DEF Inv, TypeOK, Latest
<1>7. Links' /\ Command' /\ Evidence'
  BY <1>1 DEF Links, Command, Evidence, LiveHasEvidence
<1> QED BY <1>4, <1>5, <1>6, <1>7 DEF Inv

\* A new document: the sockets of the old one are closed, the server has not
\* heard of it.
LEMMA VisitStep ==
  ASSUME Inv, NEW a, NEW m \in {"private", "public"}, Visit(a, m)
  PROVE  Inv'
<1>1. /\ mode' = m
      /\ readyState' = [s \in Sockets |-> "CLOSED"]
      /\ hangups' = hangups \cup {s \in Sockets : readyState[s] # "CLOSED"}
      /\ inbox' = [s \in Sockets |-> <<>>]
      /\ r' = NoSocket /\ silent' = FALSE /\ retry' = FALSE /\ polling' = FALSE
      /\ poll' = NoPoll /\ window' = FALSE /\ mqttConnected' = FALSE /\ pending' = FALSE
      /\ UNCHANGED <<outbox, calls, upsets, reveals, state, paused, sockets>>
  BY DEF Visit, Load, fixture
<1>2. TypeOK'
  <2>1. inbox' \in [Sockets -> Seq(Events)] /\ readyState' \in [Sockets -> Phases]
    BY <1>1 DEF Phases
  <2> QED BY <1>1, <2>1, PollFacts DEF Inv, TypeOK
<1>3. Wiring'
  <2>1. SUFFICES ASSUME NEW s \in Sockets, s \in calls \cup sockets
                 PROVE  s \in hangups' /\ (s \in calls => s \notin sockets /\ outbox[s] = <<>>)
    BY <1>1 DEF Wiring, Lasting
  <2> QED BY <1>1, <2>1 DEF Inv, TypeOK, Phases, Wiring
<1>4. Latest' /\ Links' /\ Command' /\ Evidence'
  BY <1>1 DEF Inv, TypeOK, Latest, Links, Command, Evidence, LiveHasEvidence
<1> QED BY <1>2, <1>3, <1>4 DEF Inv

-----------------------------------------------------------------------------
(* Events of a socket                                                      *)

\* onopen, onclose, onmessage, and the events that change nothing of the page.
LEMMA EventStep ==
  ASSUME Inv, NEW s \in Sockets, Event(s), UNCHANGED fixture
  PROVE  Inv'
<1> DEFINE e == Head(inbox[s])
<1>1. /\ inbox[s] # <<>> /\ inbox[s] \in Seq(Events)
      /\ inbox' = [inbox EXCEPT ![s] = Tail(@)]
      /\ UNCHANGED <<mode, reveals, outbox, calls, hangups, polling, upsets, sockets, state, paused>>
  BY DEF Event, doc, fixture, Inv, TypeOK
<1>2. /\ inbox' \in [Sockets -> Seq(Events)] /\ inbox'[s] = Tail(inbox[s])
      /\ \A t \in Sockets : t # s => inbox'[t] = inbox[t]
      /\ e \in Events /\ e = inbox[s][1]
  <2>1. Tail(inbox[s]) \in Seq(Events) /\ e \in Events /\ e = inbox[s][1]
    BY <1>1, TailFacts
  <2> QED BY <1>1, <2>1 DEF Inv, TypeOK
<1>3. s \notin calls
  BY <1>1 DEF Inv, Wiring
<1>4. \A t \in Sockets : Lasting(inbox[t]) => Lasting(inbox'[t])
  BY <1>1, <1>2, TailFacts
<1>5. e.type = "close" => s \notin sockets
  BY <1>1, TailFacts DEF Inv, Wiring
<1>6. r \in Sockets /\ (r # s \/ e.type # "verdict") /\ Decided(inbox[r]) => Decided(inbox'[r])
  BY <1>1, <1>2, TailFacts
<1>7. Quiet(inbox[s]) => Quiet(inbox'[s]) /\ e.type # "state"
  BY <1>1, <1>2, TailFacts
<1>8. \A st : Ends(inbox[s], st) =>
        Ends(inbox'[s], st) \/ (e.type = "state" /\ e.state = st /\ Quiet(inbox'[s]))
  BY <1>1, <1>2, TailFacts
<1>9. CASE e.type = "open" /\ s = r /\ readyState[s] = "CONNECTING" /\ Opens(s)
  <2>1. /\ readyState' = [readyState EXCEPT ![s] = "OPEN"] /\ silent' = FALSE
        /\ UNCHANGED <<r, retry, poll, window, mqttConnected, shown, pending>>
    BY <1>9 DEF Opens, telemetry, command
  <2>2. /\ readyState' \in [Sockets -> Phases] /\ readyState'[s] = "OPEN"
        /\ \A t \in Sockets : t # s => readyState'[t] = readyState[t]
    BY <2>1 DEF Inv, TypeOK, Phases
  <2>3. TypeOK'
    BY <1>1, <1>2, <2>1, <2>2 DEF Inv, TypeOK
  <2>4. Wiring'
    BY <1>1, <1>2, <1>3, <1>4, <1>9, <2>1, <2>2 DEF Inv, Wiring
  <2>5. Latest'
    <3>1. SUFFICES ASSUME NEW t \in sockets, readyState'[t] \in {"CONNECTING", "OPEN"}
                   PROVE  Ends(inbox'[t], state)
      BY <1>1 DEF Latest
    <3>2. t = s
      BY <1>9, <2>2, <3>1 DEF Inv, TypeOK, Wiring
    <3>3. Ends(inbox[s], state)
      BY <1>9, <3>1, <3>2 DEF Inv, Latest
    <3> QED BY <1>8, <1>9, <3>2, <3>3
  <2>6. Links' /\ Command' /\ Evidence'
    BY <1>1, <1>9, <2>1, <2>2 DEF Inv, Links, Command, Evidence, LiveHasEvidence, IsOpen
  <2> QED BY <2>3, <2>4, <2>5, <2>6 DEF Inv
<1>10. CASE e.type = "close" /\ s = r /\ Closes(s)
  <2>1. /\ readyState' = [readyState EXCEPT ![s] = "CLOSED"] /\ r' = NoSocket
        /\ pending' = FALSE /\ poll' = NoPoll /\ mqttConnected' = (mqttConnected /\ window)
        /\ silent' = FALSE /\ retry' = TRUE
        /\ UNCHANGED <<window, shown>>
    BY <1>10 DEF Closes, CommandLost, FallBack
  <2>2. /\ readyState' \in [Sockets -> Phases] /\ readyState'[s] = "CLOSED"
        /\ \A t \in Sockets : t # s => readyState'[t] = readyState[t]
    BY <2>1 DEF Inv, TypeOK, Phases
  <2>3. TypeOK'
    BY <1>1, <1>2, <2>1, <2>2, PollFacts DEF Inv, TypeOK
  <2>4. Wiring'
    BY <1>1, <1>2, <1>3, <1>4, <1>5, <1>10, <2>1, <2>2 DEF Inv, Wiring
  <2>5. Latest'
    BY <1>1, <1>10, <2>2 DEF Inv, TypeOK, Wiring, Latest
  <2>6. Links'
    <3>1. mode = "private" /\ polling
      BY <1>10, VueTransportAssumption DEF Inv, Links, TypeOK
    <3> QED BY <1>1, <2>1, <3>1 DEF Links
  <2>7. Command' /\ Evidence'
    BY <2>1 DEF Command, Evidence, LiveHasEvidence
  <2> QED BY <2>3, <2>4, <2>5, <2>6, <2>7 DEF Inv
<1>11. CASE e.type = "state" /\ s = r /\ readyState[s] = "OPEN" /\ Receives(e.state)
  <2>1. /\ silent' = FALSE /\ poll' = NoPoll /\ window' = FALSE /\ shown' = e.state
        /\ mqttConnected' = TRUE /\ UNCHANGED <<readyState, r, retry, pending>>
    BY <1>11 DEF Receives, command
  <2>2. TypeOK'
    BY <1>1, <1>2, <2>1, PollFacts DEF Inv, TypeOK
  <2>3. Wiring'
    BY <1>1, <1>2, <1>3, <1>4, <1>11, <2>1 DEF Inv, Wiring
  <2>4. Latest'
    <3>1. SUFFICES ASSUME NEW t \in sockets, readyState[t] \in {"CONNECTING", "OPEN"}
                   PROVE  \/ Ends(inbox'[t], state)
                          \/ readyState[t] = "OPEN" /\ Quiet(inbox'[t]) /\ shown' = state
      BY <1>1, <2>1, PollFacts DEF Latest
    <3>2. t = s
      BY <1>11, <3>1 DEF Inv, TypeOK, Wiring
    <3>3. Ends(inbox[s], state)
      BY <1>7, <1>11, <3>1, <3>2 DEF Inv, Latest
    <3> QED BY <1>8, <1>11, <2>1, <3>2, <3>3
  <2>5. Links' /\ Evidence'
    BY <1>1, <1>11, <2>1, CurrentFacts DEF Inv, Links, Evidence, LiveHasEvidence
  <2>6. Command'
    BY <1>1, <1>6, <1>11, <2>1 DEF Inv, Command, IsOpen
  <2> QED BY <2>2, <2>3, <2>4, <2>5, <2>6 DEF Inv
<1>12. CASE e.type = "verdict" /\ s = r /\ readyState[s] = "OPEN" /\ Verdict(e.verdict)
  <2>1. pending' = FALSE /\ UNCHANGED <<readyState, r, silent, retry, poll, window, mqttConnected, shown>>
    BY <1>12 DEF Verdict, telemetry
  <2>2. TypeOK'
    BY <1>1, <1>2, <2>1 DEF Inv, TypeOK
  <2>3. Wiring'
    BY <1>1, <1>2, <1>3, <1>4, <1>12, <2>1 DEF Inv, Wiring
  <2>4. Latest'
    <3>1. SUFFICES ASSUME NEW t \in sockets, readyState[t] \in {"CONNECTING", "OPEN"}
                   PROVE  \/ Ends(inbox'[t], state)
                          \/ /\ readyState[t] = "OPEN" /\ Quiet(inbox'[t])
                             /\ shown = state /\ (poll.phase = "answered" => poll.state = state)
      BY <1>1, <2>1 DEF Latest
    <3>2. t = s
      BY <1>12, <3>1 DEF Inv, TypeOK, Wiring
    <3> QED BY <1>7, <1>8, <1>12, <3>1, <3>2 DEF Inv, Latest
  <2>5. Links' /\ Command' /\ Evidence'
    BY <1>1, <2>1 DEF Inv, Links, Command, Evidence, LiveHasEvidence
  <2> QED BY <2>2, <2>3, <2>4, <2>5 DEF Inv
<1>13. CASE /\ s # r \/ (e.type # "close" /\ readyState[s] = "CLOSING")
            /\ readyState' = IF e.type = "close" THEN [readyState EXCEPT ![s] = "CLOSED"]
                             ELSE readyState
            /\ UNCHANGED <<r, commandConnected, beating, silent, retry, telemetry, command>>
  <2>1. UNCHANGED <<r, silent, retry, poll, window, mqttConnected, shown, pending>>
    BY <1>13 DEF telemetry, command
  <2>2. /\ readyState' \in [Sockets -> Phases]
        /\ \A t \in Sockets : readyState'[t] = readyState[t] \/ (t = s /\ s # r /\ readyState'[t] = "CLOSED" /\ e.type = "close")
    BY <1>13 DEF Inv, TypeOK, Phases
  <2>3. readyState[s] \notin {"CONNECTING", "OPEN"}
    BY <1>13 DEF Inv, Wiring
  <2>4. TypeOK'
    BY <1>1, <1>2, <2>1, <2>2 DEF Inv, TypeOK
  <2>5. Wiring'
    BY <1>1, <1>2, <1>3, <1>4, <1>5, <2>1, <2>2, <2>3 DEF Inv, Wiring
  <2>6. Latest'
    <3>1. SUFFICES ASSUME NEW t \in sockets, readyState'[t] \in {"CONNECTING", "OPEN"}
                   PROVE  \/ Ends(inbox'[t], state)
                          \/ /\ readyState'[t] = "OPEN" /\ Quiet(inbox'[t])
                             /\ shown = state /\ (poll.phase = "answered" => poll.state = state)
      BY <1>1, <2>1 DEF Latest
    <3>2. t \in Sockets /\ t # s /\ readyState'[t] = readyState[t]
      BY <2>2, <2>3, <3>1 DEF Inv, TypeOK
    <3> QED BY <1>2, <3>1, <3>2 DEF Inv, Latest
  <2>7. Links'
    BY <1>1, <2>1 DEF Inv, Links
  <2>8. Command'
    <3>1. SUFFICES ASSUME pending, upsets = 0
                   PROVE  IsOpen' /\ (outbox[r] # <<>> \/ Decided(inbox'[r]))
      BY <1>1, <2>1 DEF Command
    <3>2. IsOpen /\ (outbox[r] # <<>> \/ Decided(inbox[r]))
      BY <3>1 DEF Inv, Command
    <3>3. r \in Sockets /\ r # s /\ readyState'[r] = readyState[r]
      BY <2>2, <2>3, <3>2, CurrentFacts
    <3> QED BY <1>2, <2>1, <3>2, <3>3 DEF IsOpen
  <2>9. Evidence'
    BY <1>1, <2>1, <2>2, CurrentFacts DEF Inv, Evidence, LiveHasEvidence
  <2> QED BY <2>4, <2>5, <2>6, <2>7, <2>8, <2>9 DEF Inv
<1> QED BY <1>9, <1>10, <1>11, <1>12, <1>13 DEF Event

-----------------------------------------------------------------------------
(* Time, polls and commands of the page                                    *)

\* A silence, a failed poll and the end of the poll's 15 s are disturbances.
LEMMA UpsetFacts == ASSUME Inv, Upset PROVE upsets' \in 0..MaxUpsets /\ upsets' > 0
<1>1. upsets \in 0..MaxUpsets /\ MaxUpsets \in Nat
  BY VueTransportAssumption DEF Inv, TypeOK
<1> QED BY <1>1 DEF Upset

\* Steps that leave the sockets and what is on its way alone.
LEMMA PageSteps ==
  ASSUME Inv, UNCHANGED fixture,
         Silence \/ PollTick \/ PollAnswered \/ PollFails \/ WindowEnds \/ CommandTimesOut
  PROVE  Inv'
<1> USE DEF doc, wire, link, telemetry, command, fixture
<1>1. UNCHANGED <<mode, reveals, readyState, inbox, outbox, calls, hangups, r, retry, polling,
                  sockets, state, paused>>
  BY DEF Silence, PollTick, PollAnswered, PollFails, WindowEnds, CommandTimesOut
<1>2. /\ upsets' \in 0..MaxUpsets /\ (upsets' = upsets \/ upsets' > 0)
      /\ silent' = silent \/ (silent' = TRUE /\ upsets' > 0)
      /\ pending' = pending \/ pending' = FALSE
  BY UpsetFacts DEF Silence, PollTick, PollAnswered, PollFails, WindowEnds, CommandTimesOut, Inv, TypeOK
<1>3. \/ UNCHANGED <<poll, shown, window, mqttConnected>>
      \/ poll' \in {NoPoll, Asked} /\ UNCHANGED <<shown, window, mqttConnected>>
      \/ /\ poll.phase = "answered" /\ poll' = NoPoll /\ shown' = poll.state
         /\ mqttConnected' = poll.live /\ window' = poll.live
      \/ mqttConnected' = FALSE /\ window' = FALSE /\ UNCHANGED <<poll, shown>>
  BY DEF Silence, PollTick, PollAnswered, PollFails, WindowEnds, CommandTimesOut
<1>4. poll' \in Polls /\ {window', mqttConnected'} \subseteq BOOLEAN
  BY <1>3, PollFacts DEF Inv, TypeOK
<1>5. TypeOK'
  BY <1>1, <1>2, <1>4 DEF Inv, TypeOK
<1>6. Wiring'
  BY <1>1 DEF Inv, Wiring
<1>7. Latest'
  BY <1>1, <1>3, PollFacts DEF Inv, Latest
<1>8. Links'
  BY <1>1, <1>2 DEF Inv, Links
<1>9. Command'
  <2>1. upsets' = 0 => upsets = 0
    BY <1>2
  <2> QED BY <1>1, <1>2, <2>1 DEF Inv, Command, IsOpen
<1>10. Evidence'
  BY <1>1, <1>3 DEF Inv, Evidence, LiveHasEvidence
<1> QED BY <1>5, <1>6, <1>7, <1>8, <1>9, <1>10 DEF Inv

\* A command goes out on the open socket, or not at all.
LEMMA UseStep ==
  ASSUME Inv, NEW a, NEW field, NEW value, NEW rejecting, Use(a, field, value, rejecting),
         [field |-> field, value |-> value] \in Commands
  PROVE  Inv'
<1> DEFINE c == [field |-> field, value |-> value]
<1>1. /\ pending' = Sends
      /\ outbox' = IF Sends THEN [outbox EXCEPT ![r] = Append(@, c)] ELSE outbox
      /\ UNCHANGED <<mode, reveals, readyState, inbox, calls, hangups, r, silent, retry, polling,
                     poll, window, mqttConnected, shown, upsets, sockets, state, paused>>
  BY DEF Use, Submit, doc, link, telemetry
<1>2. c \in Commands
  OBVIOUS
<1> HIDE DEF c
<1>3. Sends => IsOpen /\ r \in Sockets /\ r \notin calls
  BY CurrentFacts DEF Sends
<1>4. /\ outbox' \in [Sockets -> Seq(Commands)]
      /\ \A s \in Sockets : outbox'[s] = outbox[s] \/ (s = r /\ r \notin calls)
      /\ Sends => outbox'[r] # <<>>
  <2>1. outbox \in [Sockets -> Seq(Commands)]
    BY DEF Inv, TypeOK
  <2>2. CASE Sends
    <3>1. Append(outbox[r], c) \in Seq(Commands) /\ Append(outbox[r], c) # <<>>
      BY <1>2, <1>3, <2>1, <2>2
    <3> QED BY <1>1, <1>3, <2>1, <2>2, <3>1
  <2>3. CASE ~Sends
    BY <1>1, <2>1, <2>3
  <2> QED BY <2>2, <2>3
<1>5. TypeOK'
  <2>1. pending' \in BOOLEAN
    BY <1>1 DEF Sends, IsOpen
  <2> QED BY <1>1, <1>4, <2>1 DEF Inv, TypeOK
<1>6. Wiring'
  BY <1>1, <1>4 DEF Inv, Wiring
<1>7. Latest' /\ Links' /\ Evidence'
  BY <1>1 DEF Inv, Latest, Links, Evidence, LiveHasEvidence
<1>8. Command'
  BY <1>1, <1>3, <1>4 DEF Command, IsOpen
<1> QED BY <1>5, <1>6, <1>7, <1>8 DEF Inv

-----------------------------------------------------------------------------
(* The mocked server                                                       *)

\* What more events on their way to the sockets keep of the invariant, when
\* nothing else changes but what the server knows of them.
LEMMA Untouched ==
  ASSUME Inv, UNCHANGED <<mode, readyState, r, silent, retry, polling, window, mqttConnected,
                          reveals, upsets>>
  PROVE  Links' /\ Evidence'
  BY DEF Inv, Links, Evidence, LiveHasEvidence

\* A paused server closes the new connection, another one tracks it and sends
\* the state.
LEMMA RouteStep == ASSUME Inv, NEW s \in Sockets, Route(s) PROVE Inv'
<1>1. /\ s \in calls /\ calls' = calls \ {s}
      /\ UNCHANGED <<mode, reveals, readyState, outbox, hangups, r, silent, retry, polling, poll,
                     window, mqttConnected, shown, pending, upsets, state, paused>>
  BY DEF Route, doc, link, telemetry, command
<1>2. /\ s \notin sockets /\ inbox[s] = <<>> /\ readyState[s] # "OPEN"
      /\ readyState[s] \in {"CLOSING", "CLOSED"} => s \in hangups
  BY <1>1 DEF Inv, Wiring
<1>3. inbox \in [Sockets -> Seq(Events)] /\ state \in States
  BY DEF Inv, TypeOK
<1>4. CASE paused
  <2>1. inbox' = Send(inbox, s, <<Close>>) /\ sockets' = sockets
    BY <1>4 DEF Route
  <2>2. inbox' \in [Sockets -> Seq(Events)] /\ \A t \in Sockets : t # s => inbox'[t] = inbox[t]
    <3>1. Close \in Events
      BY EventFacts
    <3> QED BY <1>3, <2>1, <3>1, SendFacts
  <2>3. TypeOK'
    BY <1>1, <2>1, <2>2 DEF Inv, TypeOK
  <2>4. Wiring'
    BY <1>1, <1>2, <2>1, <2>2 DEF Inv, Wiring
  <2>5. Latest'
    BY <1>1, <1>2, <2>1, <2>2 DEF Inv, TypeOK, Latest
  <2>6. Command'
    BY <1>1, <1>2, <2>2, CurrentFacts DEF Inv, Command, IsOpen
  <2> QED BY <1>1, <2>3, <2>4, <2>5, <2>6, Untouched DEF Inv
<1>5. CASE ~paused
  <2> DEFINE q == <<[type |-> "open"], Frame(state)>>
  <2>1. inbox' = Send(inbox, s, q) /\ sockets' = sockets \cup {s}
    BY <1>5 DEF Route
  <2>2. /\ q \in Seq(Events) /\ Lasting(q) /\ Ends(q, state) /\ q # <<>> /\ q[1].type = "open"
        /\ <<>> \o q = q
    <3>1. [type |-> "open"] \in Events /\ Frame(state) \in Events
      BY <1>3, EventFacts DEF Events
    <3>2. /\ q \in Seq(Events) /\ q # <<>> /\ Len(q) = 2
          /\ q[1].type = "open" /\ q[2].type = "state" /\ q[2].state = state
      BY <1>3, <3>1, EventFacts
    <3>3. <<>> \o q = q
      BY <3>2
    <3> HIDE DEF q
    <3> QED BY <3>2, <3>3 DEF Lasting, Ends
  <2> HIDE DEF q
  <2>3. /\ inbox' \in [Sockets -> Seq(Events)] /\ \A t \in Sockets : t # s => inbox'[t] = inbox[t]
        /\ inbox'[s] = IF readyState[s] = "CLOSED" THEN <<>> ELSE q
    BY <1>2, <1>3, <2>1, <2>2 DEF Send
  <2>4. TypeOK'
    BY <1>1, <2>1, <2>3 DEF Inv, TypeOK
  <2>5. Lasting(inbox'[s])
    BY <2>2, <2>3 DEF Lasting
  <2>6. Wiring'
    BY <1>1, <1>2, <2>1, <2>2, <2>3, <2>5 DEF Inv, Wiring
  <2>7. Latest'
    BY <1>1, <2>1, <2>2, <2>3 DEF Inv, TypeOK, Latest
  <2>8. Command'
    BY <1>1, <1>2, <2>3, CurrentFacts DEF Inv, Command, IsOpen
  <2> QED BY <1>1, <2>4, <2>6, <2>7, <2>8, Untouched DEF Inv
<1> QED BY <1>4, <1>5

\* The callback removes the socket before it acknowledges the close.
LEMMA OnCloseStep == ASSUME Inv, NEW s \in Sockets, OnClose(s) PROVE Inv'
<1>1. /\ s \notin calls /\ sockets' = sockets \ {s}
      /\ hangups' \subseteq hangups /\ hangups \subseteq hangups' \cup {s}
      /\ UNCHANGED <<mode, reveals, readyState, outbox, calls, r, silent, retry, polling, poll,
                     window, mqttConnected, shown, pending, upsets, state, paused>>
  BY DEF OnClose, Untrack, doc, link, telemetry, command
<1>2. inbox' = inbox \/ inbox' = Send(inbox, s, <<Close>>)
  BY DEF OnClose
<1>3. inbox \in [Sockets -> Seq(Events)]
  BY DEF Inv, TypeOK
<1>4. /\ inbox' \in [Sockets -> Seq(Events)]
      /\ \A t \in Sockets : t # s => inbox'[t] = inbox[t]
      /\ Decided(inbox[s]) => Decided(inbox'[s])
  <2>1. CASE inbox' = inbox
    BY <1>3, <2>1
  <2>2. CASE inbox' = Send(inbox, s, <<Close>>)
    <3>1. Close \in Events
      BY EventFacts
    <3> QED BY <1>3, <2>2, <3>1, SendFacts
  <2> QED BY <1>2, <2>1, <2>2
<1>5. TypeOK'
  BY <1>1, <1>4 DEF Inv, TypeOK
<1>6. Wiring'
  BY <1>1, <1>4 DEF Inv, Wiring
<1>7. Latest'
  BY <1>1, <1>4 DEF Inv, TypeOK, Latest
<1>8. Command'
  BY <1>1, <1>4, CurrentFacts DEF Inv, Command, IsOpen
<1> QED BY <1>1, <1>5, <1>6, <1>7, <1>8, Untouched DEF Inv

\* The state changes and every target is sent the new one, after whatever else
\* was appended for it.
LEMMA BroadcastKeeps ==
  ASSUME Inv, NEW box \in [Sockets -> Seq(Events)], NEW st \in States,
         state' = st, inbox' = Broadcast(box, st),
         \A s \in Sockets : \/ box[s] = inbox[s]
                            \/ \E e \in Events : e.type = "verdict" /\ box[s] = inbox[s] \o <<e>>,
         \A s \in calls : box[s] = inbox[s] /\ outbox'[s] = outbox[s],
         UNCHANGED <<readyState, calls, hangups, r, sockets>>
  PROVE  /\ inbox' \in [Sockets -> Seq(Events)] /\ Wiring' /\ Latest'
         /\ \A s \in Sockets : Decided(box[s]) => Decided(inbox'[s])
<1>1. /\ Frame(st) \in Events /\ Frame(st).type = "state" /\ Frame(st).state = st
  BY EventFacts
<1>2. /\ inbox' \in [Sockets -> Seq(Events)]
      /\ \A s \in Sockets : inbox'[s] = IF s \in sockets /\ readyState[s] # "CLOSED"
                                        THEN box[s] \o <<Frame(st)>> ELSE box[s]
  BY BroadcastFacts
<1>3. ASSUME NEW s \in Sockets
      PROVE  /\ Lasting(inbox[s]) => Lasting(box[s])
             /\ inbox[s] # <<>> => box[s] # <<>> /\ box[s][1] = inbox[s][1]
  <2>1. inbox[s] \in Seq(Events)
    BY DEF Inv, TypeOK
  <2> QED BY <2>1, SentFacts
<1>4. ASSUME NEW s \in Sockets
      PROVE  /\ Lasting(box[s]) => Lasting(inbox'[s])
             /\ box[s] # <<>> => inbox'[s] # <<>> /\ inbox'[s][1] = box[s][1]
             /\ Decided(box[s]) => Decided(inbox'[s])
             /\ s \in sockets /\ readyState[s] # "CLOSED" => Ends(inbox'[s], st)
  <2>1. box[s] \in Seq(Events)
    OBVIOUS
  <2>2. /\ Lasting(box[s]) => Lasting(box[s] \o <<Frame(st)>>)
        /\ box[s] # <<>> => (box[s] \o <<Frame(st)>>)[1] = box[s][1]
        /\ box[s] \o <<Frame(st)>> # <<>>
        /\ Decided(box[s]) => Decided(box[s] \o <<Frame(st)>>)
        /\ Ends(box[s] \o <<Frame(st)>>, st)
    BY <1>1, <2>1, SentFacts
  <2> QED BY <1>2, <2>2
<1>5. Wiring'
  <2>1. ASSUME NEW s \in calls
        PROVE  inbox'[s] = <<>> /\ outbox'[s] = <<>> /\ s \notin sockets
    <3>1. s \in Sockets /\ s \notin sockets /\ inbox[s] = <<>> /\ outbox[s] = <<>>
      BY <2>1 DEF Inv, TypeOK, Wiring
    <3> QED BY <1>2, <2>1, <3>1
  <2>2. ASSUME NEW s \in sockets
        PROVE  /\ Lasting(inbox'[s])
               /\ readyState[s] = "CONNECTING" => inbox'[s] # <<>> /\ inbox'[s][1].type = "open"
    <3>1. s \in Sockets
      BY <2>2 DEF Inv, TypeOK
    <3>2. /\ Lasting(inbox[s])
          /\ readyState[s] = "CONNECTING" => inbox[s] # <<>> /\ inbox[s][1].type = "open"
      BY <2>2, <3>1 DEF Inv, Wiring
    <3> QED BY <1>3, <1>4, <3>1, <3>2
  <2> QED BY <2>1, <2>2 DEF Inv, Wiring
<1>6. Latest'
  BY <1>4 DEF Latest, Inv, TypeOK
<1> QED BY <1>2, <1>4, <1>5, <1>6

\* A command of the page keeps the state one.
LEMMA PatchedType == ASSUME Inv, NEW c \in Commands PROVE Patched(c) \in States
<1>1. state \in [soc : Nat, topic : Topics, loads : BOOLEAN]
  BY DEF Inv, TypeOK, States
<1>2. CASE c.field = "topic" /\ c.value \in Topics
  BY <1>1, <1>2 DEF Patched, States
<1>3. CASE c.field = "loads" /\ c.value \in BOOLEAN
  BY <1>1, <1>3 DEF Patched, States
<1> QED BY <1>2, <1>3 DEF Commands

\* A command is rejected, or accepted and applied: the verdict follows on the
\* same socket.
LEMMA OnMessageStep == ASSUME Inv, NEW s \in Sockets, OnMessage(s) PROVE Inv'
<1> DEFINE c == Head(outbox[s])
           answer(v) == Send(inbox, s, <<[type |-> "verdict", verdict |-> v]>>)
<1>1. /\ outbox[s] # <<>>
      /\ outbox' = [outbox EXCEPT ![s] = Tail(@)]
      /\ UNCHANGED <<mode, reveals, readyState, calls, hangups, r, silent, retry, polling, poll,
                     window, mqttConnected, shown, pending, upsets, paused, sockets>>
      /\ \/ inbox' = answer("rejected") /\ UNCHANGED state
         \/ state' = Patched(c) /\ inbox' = Broadcast(answer("accepted"), Patched(c))
  BY DEF OnMessage, doc, link, telemetry, command
<1>2. /\ c \in Commands /\ outbox' \in [Sockets -> Seq(Commands)]
      /\ \A t \in Sockets : t # s => outbox'[t] = outbox[t]
  BY <1>1 DEF Inv, TypeOK
<1>3. s \notin calls /\ inbox \in [Sockets -> Seq(Events)] /\ inbox[s] \in Seq(Events)
  BY <1>1 DEF Inv, TypeOK, Wiring
<1>4. ASSUME NEW v \in {"accepted", "rejected"}
      PROVE  \E e \in Events :
               /\ e.type = "verdict"
               /\ answer(v) = Send(inbox, s, <<e>>)
               /\ answer(v) \in [Sockets -> Seq(Events)]
               /\ answer(v)[s] = IF readyState[s] = "CLOSED" THEN inbox[s] ELSE inbox[s] \o <<e>>
               /\ \A t \in Sockets : t # s => answer(v)[t] = inbox[t]
               /\ Decided(inbox[s]) \/ readyState[s] # "CLOSED" => Decided(answer(v)[s])
  <2> DEFINE e == [type |-> "verdict", verdict |-> v]
  <2>1. e \in Events /\ e.type = "verdict"
    BY EventFacts
  <2> HIDE DEF e
  <2>2. /\ Send(inbox, s, <<e>>) \in [Sockets -> Seq(Events)]
        /\ Send(inbox, s, <<e>>)[s] = IF readyState[s] = "CLOSED" THEN inbox[s] ELSE inbox[s] \o <<e>>
        /\ \A t \in Sockets : t # s => Send(inbox, s, <<e>>)[t] = inbox[t]
    BY <1>3, <2>1, SendFacts
  <2>3. Decided(inbox[s] \o <<e>>)
    BY <1>3, <2>1, SentFacts
  <2>4. answer(v) = Send(inbox, s, <<e>>)
    BY DEF e
  <2> HIDE DEF answer
  <2> QED BY <2>1, <2>2, <2>3, <2>4
<1> HIDE DEF answer, c
<1>5. ASSUME inbox' \in [Sockets -> Seq(Events)], state' \in States PROVE TypeOK'
  BY <1>1, <1>2, <1>5 DEF Inv, TypeOK
<1>6. ASSUME NEW v \in {"accepted", "rejected"},
             \A t \in Sockets : Decided(answer(v)[t]) => Decided(inbox'[t])
      PROVE  Command'
  <2>1. SUFFICES ASSUME pending, upsets = 0
                 PROVE  IsOpen /\ (outbox'[r] # <<>> \/ Decided(inbox'[r]))
    BY <1>1 DEF Command, IsOpen
  <2>2. /\ IsOpen /\ (outbox[r] # <<>> \/ Decided(inbox[r]))
        /\ r \in Sockets /\ readyState[r] = "OPEN"
    BY <2>1, CurrentFacts DEF Inv, Command
  <2>3. CASE r = s
    <3>1. Decided(answer(v)[s])
      BY <1>4, <2>2, <2>3
    <3> QED BY <1>6, <2>2, <2>3, <3>1
  <2>4. CASE r # s
    <3>1. answer(v)[r] = inbox[r] /\ outbox'[r] = outbox[r]
      BY <1>2, <1>4, <2>2, <2>4
    <3> QED BY <1>6, <2>2, <3>1
  <2> QED BY <2>3, <2>4
<1>7. CASE inbox' = answer("rejected") /\ UNCHANGED state
  <2>1. PICK e \in Events :
          /\ e.type = "verdict" /\ inbox' \in [Sockets -> Seq(Events)]
          /\ inbox'[s] = IF readyState[s] = "CLOSED" THEN inbox[s] ELSE inbox[s] \o <<e>>
          /\ \A t \in Sockets : t # s => inbox'[t] = inbox[t]
    BY <1>4, <1>7
  <2>2. ASSUME NEW t \in Sockets
        PROVE  /\ Lasting(inbox[t]) => Lasting(inbox'[t])
               /\ inbox[t] # <<>> => inbox'[t] # <<>> /\ inbox'[t][1] = inbox[t][1]
               /\ Quiet(inbox[t]) => Quiet(inbox'[t])
               /\ Ends(inbox[t], state) => Ends(inbox'[t], state)
    BY <1>3, <2>1, SentFacts
  <2>3. TypeOK'
    BY <1>5, <1>7, <2>1 DEF Inv, TypeOK
  <2>4. Wiring'
    BY <1>1, <1>2, <1>3, <2>1, <2>2 DEF Inv, Wiring
  <2>5. Latest'
    BY <1>1, <1>7, <2>2 DEF Inv, TypeOK, Latest
  <2>6. Command'
    BY <1>6, <1>7
  <2> QED BY <1>1, <2>3, <2>4, <2>5, <2>6, Untouched DEF Inv
<1>8. CASE state' = Patched(c) /\ inbox' = Broadcast(answer("accepted"), Patched(c))
  <2>1. Patched(c) \in States
    BY <1>2, PatchedType
  <2>2. /\ answer("accepted") \in [Sockets -> Seq(Events)]
        /\ \A t \in Sockets :
             \/ answer("accepted")[t] = inbox[t]
             \/ \E e \in Events : e.type = "verdict" /\ answer("accepted")[t] = inbox[t] \o <<e>>
        /\ \A t \in Sockets : t # s => answer("accepted")[t] = inbox[t]
    BY <1>4
  <2>3. \A t \in calls : answer("accepted")[t] = inbox[t] /\ outbox'[t] = outbox[t]
    BY <1>2, <1>3, <2>2 DEF Inv, TypeOK
  <2>4. /\ inbox' \in [Sockets -> Seq(Events)] /\ Wiring' /\ Latest'
        /\ \A t \in Sockets : Decided(answer("accepted")[t]) => Decided(inbox'[t])
    BY <1>1, <1>8, <2>1, <2>2, <2>3, BroadcastKeeps
  <2>5. TypeOK'
    BY <1>5, <1>8, <2>1, <2>4
  <2>6. Command'
    BY <1>6, <2>4
  <2> QED BY <1>1, <2>4, <2>5, <2>6, Untouched DEF Inv
<1> QED BY <1>1, <1>7, <1>8

\* GET /api/state. The page of a socket is private: it gets the mock's state.
LEMMA ServePollStep == ASSUME Inv, ServePoll PROVE Inv'
<1>1. /\ poll' = IF mode = "public" THEN Answer(GatewayState, TRUE) ELSE Answer(state, ~paused)
      /\ UNCHANGED <<mode, reveals, readyState, inbox, outbox, calls, hangups, r, silent, retry,
                     polling, window, mqttConnected, shown, pending, upsets, sockets, state, paused>>
  BY DEF ServePoll, doc, wire, link, command, fixture
<1>2. state \in States /\ paused \in BOOLEAN
  BY DEF Inv, TypeOK
<1>3. poll' \in Polls /\ (mode # "public" => poll'.state = state)
  BY <1>1, <1>2, PollFacts
<1>4. TypeOK'
  BY <1>1, <1>3 DEF Inv, TypeOK
<1>5. Wiring' /\ Command'
  BY <1>1 DEF Inv, Wiring, Command, IsOpen
<1>6. Latest'
  <2>1. ASSUME NEW s \in sockets, readyState[s] \in {"CONNECTING", "OPEN"}
        PROVE  mode # "public"
    BY <2>1, CurrentFacts DEF Inv, TypeOK, Links
  <2> QED BY <1>1, <1>3, <2>1 DEF Inv, Latest
<1> QED BY <1>1, <1>4, <1>5, <1>6, Untouched DEF Inv

-----------------------------------------------------------------------------
(* The script, and every step                                              *)

\* The script changes the state and broadcasts it.
LEMMA ChangeStep ==
  ASSUME Inv, NEW a, NEW field, NEW value, Change(a, field, value),
         [state EXCEPT ![field] = value] \in States
  PROVE  Inv'
<1> DEFINE st == [state EXCEPT ![field] = value]
<1>1. /\ state' = st /\ inbox' = Broadcast(inbox, st)
      /\ UNCHANGED <<mode, reveals, readyState, outbox, calls, hangups, r, silent, retry, polling,
                     poll, window, mqttConnected, shown, pending, upsets, paused, sockets>>
  BY DEF Change, doc, link, telemetry, command
<1>2. st \in States /\ inbox \in [Sockets -> Seq(Events)]
  BY DEF Inv, TypeOK
<1> HIDE DEF st
<1>3. /\ inbox' \in [Sockets -> Seq(Events)] /\ Wiring' /\ Latest'
      /\ \A t \in Sockets : Decided(inbox[t]) => Decided(inbox'[t])
  BY <1>1, <1>2, BroadcastKeeps
<1>4. TypeOK'
  BY <1>1, <1>2, <1>3 DEF Inv, TypeOK
<1>5. Command'
  BY <1>1, <1>3, CurrentFacts DEF Inv, Command, IsOpen
<1> QED BY <1>1, <1>3, <1>4, <1>5, Untouched DEF Inv

\* The server goes away: every target hears of the close and is forgotten.
LEMMA PauseStep == ASSUME Inv, Pause PROVE Inv'
<1>1. /\ paused' = TRUE /\ sockets' = {}
      /\ inbox' = [s \in Sockets |-> IF s \in sockets THEN Send(inbox, s, <<Close>>)[s] ELSE inbox[s]]
      /\ UNCHANGED <<mode, reveals, readyState, outbox, calls, hangups, r, silent, retry, polling,
                     poll, window, mqttConnected, shown, pending, upsets, state>>
  BY DEF Pause, doc, link, telemetry, command
<1>2. inbox \in [Sockets -> Seq(Events)] /\ Close \in Events
  BY EventFacts DEF Inv, TypeOK
<1>3. ASSUME NEW s \in Sockets
      PROVE  /\ inbox'[s] \in Seq(Events) /\ (Decided(inbox[s]) => Decided(inbox'[s]))
             /\ s \notin sockets => inbox'[s] = inbox[s]
  BY <1>1, <1>2, SendFacts
<1>4. inbox' \in [Sockets -> Seq(Events)]
  BY <1>1, <1>3
<1>5. TypeOK'
  BY <1>1, <1>4 DEF Inv, TypeOK
<1>6. Wiring' /\ Latest'
  BY <1>1, <1>3 DEF Inv, Wiring, Latest
<1>7. Command'
  BY <1>1, <1>3, CurrentFacts DEF Inv, Command, IsOpen
<1> QED BY <1>1, <1>5, <1>6, <1>7, Untouched DEF Inv

\* Steps that change only the script or how the mock will answer.
LEMMA ScriptStep ==
  ASSUME Inv, paused' \in BOOLEAN, UNCHANGED <<clientVars, state, sockets>>
  PROVE  Inv'
<1>1. UNCHANGED <<mode, reveals, readyState, inbox, outbox, calls, hangups, r, silent, retry, polling,
                  poll, window, mqttConnected, shown, pending, upsets, state, sockets>>
  BY DEF clientVars, doc, wire, link, telemetry, command
<1>2. TypeOK'
  BY <1>1 DEF Inv, TypeOK
<1>3. Wiring' /\ Latest' /\ Command'
  BY <1>1 DEF Inv, Wiring, Latest, Command, IsOpen
<1> QED BY <1>1, <1>2, <1>3, Untouched DEF Inv

\* The commands and changes of the script are of the right kind.
LEMMA ScriptTypes ==
  ASSUME Inv
  PROVE  /\ [field |-> "topic", value |-> "camera"] \in Commands
         /\ [field |-> "topic", value |-> "rejected"] \in Commands
         /\ [field |-> "loads", value |-> FALSE] \in Commands
         /\ [state EXCEPT !["soc"] = 42] \in States
         /\ [state EXCEPT !["loads"] = TRUE] \in States
<1>1. state \in [soc : Nat, topic : Topics, loads : BOOLEAN]
  BY DEF Inv, TypeOK, States
<1>2. /\ [field |-> "topic", value |-> "camera"] \in Commands
      /\ [field |-> "topic", value |-> "rejected"] \in Commands
  BY DEF Commands, Topics
<1>3. [field |-> "loads", value |-> FALSE] \in Commands
  <2>1. FALSE \in BOOLEAN /\ "loads" \in {"loads"}
    OBVIOUS
  <2> QED BY <2>1, Zenon DEF Commands
<1>4. [state EXCEPT !["soc"] = 42] \in States
  BY <1>1 DEF States
<1>5. [state EXCEPT !["loads"] = TRUE] \in States
  BY <1>1 DEF States
<1> QED BY <1>2, <1>3, <1>4, <1>5

\* Every step keeps the invariant.
LEMMA NextInv == Inv /\ [Next]_vars => Inv'
<1> SUFFICES ASSUME Inv, [Next]_vars PROVE Inv'
  OBVIOUS
<1>1. CASE ClientNext /\ UNCHANGED <<fixture, script>>
  <2>1. CASE Mount \/ RetryFires \/ Visible
    BY <1>1, <2>1, ConnectingSteps
  <2>2. CASE Heartbeat \/ ConnectTimesOut
    BY <1>1, <2>2, HangUpSteps
  <2>3. ASSUME NEW s \in Sockets, Event(s) PROVE Inv'
    BY <1>1, <2>3, EventStep
  <2>4. CASE Silence \/ PollTick \/ PollAnswered \/ PollFails \/ WindowEnds \/ CommandTimesOut
    BY <1>1, <2>4, PageSteps
  <2> QED BY <1>1, <2>1, <2>2, <2>3, <2>4 DEF ClientNext
<1>2. CASE ServerNext
  BY <1>2, RouteStep, OnCloseStep, OnMessageStep, ServePollStep DEF ServerNext
<1>p. paused \in BOOLEAN
  BY DEF Inv, TypeOK
<1>3. CASE ScriptNext
  <2>1. ASSUME NEW c \in Conditions, Observe(c) \/ Check(c) PROVE Inv'
    BY <1>p, <2>1, ScriptStep DEF Observe, Check, fixture
  <2>2. CASE Visit("load", "private") \/ Visit("reload", "private") \/ Visit("public", "public")
    BY <2>2, VisitStep
  <2>3. CASE Change("update", "soc", 42) \/ Change("show", "loads", TRUE)
    BY <2>3, ChangeStep, ScriptTypes
  <2>4. CASE \/ Use("save", "topic", "camera", FALSE) \/ Use("hide", "loads", FALSE, FALSE)
             \/ Use("misuse", "topic", "rejected", TRUE)
    BY <2>4, UseStep, ScriptTypes
  <2>5. CASE Accept \/ Resume
    BY <1>p, <2>5, ScriptStep DEF Accept, Resume
  <2>6. CASE Pause \/ ComesOnline
    BY <2>6, PauseStep, ComesOnlineStep
  <2> QED BY <1>3, <2>1, <2>2, <2>3, <2>4, <2>5, <2>6 DEF ScriptNext
<1>4. CASE UNCHANGED vars
  BY <1>p, <1>4, ScriptStep DEF vars, fixture
<1> QED BY <1>1, <1>2, <1>3, <1>4 DEF Next

-----------------------------------------------------------------------------
(* Theorems                                                                *)

\* The invariant holds in every state of the page, the mock and the script.
THEOREM AcceptanceInvariant == Spec => []Inv
  BY InitInv, NextInv, PTL DEF Spec

\* An open page that has handled what was sent to it displays the server's
\* present state, whatever polls, reloads and reconnections went before.
THEOREM AcceptanceLatest == Spec => []ShowsLatest
<1>1. Inv => ShowsLatest
  <2>1. SUFFICES ASSUME Inv, IsOpen, r \in sockets, inbox[r] = <<>> PROVE shown = state
    BY DEF ShowsLatest
  <2>2. ~Ends(inbox[r], state)
    BY <2>1 DEF Ends
  <2> QED BY <2>1, <2>2 DEF Inv, Latest, IsOpen
<1> QED BY <1>1, AcceptanceInvariant, PTL

\* A target of a broadcast whose page is closed or gone has the callback that
\* removes it still to come.
THEOREM AcceptanceTargets == Spec => []TargetsLive
<1>1. Inv => TargetsLive
  BY DEF Inv, TypeOK, Phases, Wiring, TargetsLive
<1> QED BY <1>1, AcceptanceInvariant, PTL

\* A command the undisturbed page waits for is never left to its timer.
THEOREM AcceptanceCommand == Spec => []CommandUnderway
<1>1. Inv => CommandUnderway
  <2>1. ~Decided(<<>>)
    BY DEF Decided
  <2> QED BY <2>1 DEF Inv, Command, CommandUnderway, Underway
<1> QED BY <1>1, AcceptanceInvariant, PTL

\* The page says "connected" only with evidence, as long as it has replaced no
\* closing socket when it became visible.
THEOREM AcceptanceEvidence == Spec => [](reveals = 0 => LiveHasEvidence)
<1>1. Inv => (reveals = 0 => LiveHasEvidence)
  BY DEF Inv, Evidence
<1> QED BY <1>1, AcceptanceInvariant, PTL
=============================================================================
