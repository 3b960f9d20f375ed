------------------------------ MODULE Dashboard ------------------------------
(***************************************************************************)
(* The server-rendered dashboard page (internal/html/static/js/            *)
(* dashboard.js): its WebSocket with the timers and browser events that    *)
(* reopen it, the telemetry frames it merges into its state and its chart, *)
(* and the update button.                                                  *)
(*                                                                         *)
(* The page keeps one variable ws but never waits for an old WebSocket to  *)
(* close, and the handlers do not ask which socket they run for. So the    *)
(* model has several sockets: ws names the current one, the others are     *)
(* orphans that still fire their events. A browser event handler or timer  *)
(* callback runs to its end: it is one step.                               *)
(***************************************************************************)
EXTENDS Naturals, Sequences

CONSTANTS
  Sockets,      \* WebSocket objects, reused once closed and unreferenced
  NoSocket,     \* ws before the first connect()
  Clicks,       \* clicks on the update button that can be under way at once
  Fields,       \* fields of the page's reactive state
  Contents,     \* the fields each of the server's frames carries; those that
                \* follow are like the last one
  MaxPoints,    \* points the chart keeps (1800)
  MaxInbox,     \* bound: broadcast frames on their way to one socket
  MaxStrays,    \* bound: pending connect() timers besides reconnectTimer
  MaxUpsets     \* bound: connections lost or refused, browser events

\* A frame carries some of the fields the page knows.
ASSUME DashboardAssumption ==
  /\ NoSocket \notin Sockets
  /\ Contents \in Seq(SUBSET Fields)
  /\ {MaxPoints, MaxInbox, MaxStrays, MaxUpsets} \subseteq Nat

VARIABLES
  readyState,   \* of each WebSocket; "unused" before it is made
  cut,          \* open sockets over which nothing arrives any more
  inbox,        \* frames on their way to each socket
  sent,         \* number of the frame the server sent last
  ws, wsConnected,
  heartbeat,    \* the heartbeat interval is running
  silent,       \* lastMessageTime is more than 15 s ago
  retry,        \* the timer in reconnectTimer is pending
  strays,       \* pending connect() timers no variable refers to
  source,       \* for each field of state, the frame it came from (0: none)
  points,       \* length of each series of historyData
  mqttConnected,
  latest,       \* state.latest_version names a version newer than the server's
  fetches,      \* the request each click on the update button waits for
  updating,
  reload,       \* location.reload() is scheduled
  upsets,       \* connections lost or refused and browser events so far
  doubled,      \* history: connect() replaced a socket that was connecting
  lateClose     \* history: an orphan closed after ws had opened

connection == <<readyState, cut, inbox, ws, wsConnected, heartbeat, silent, retry, strays>>
display    == <<source, points, mqttConnected, latest>>
update     == <<fetches, updating, reload>>
vars == <<connection, sent, display, update, upsets, doubled, lateClose>>

\* "ABORTING" is CLOSING for a connection that was never open: the attempt fails,
\* where the close of an open one merely completes.
ReadyStates == {"unused", "CONNECTING", "OPEN", "ABORTING", "CLOSING", "CLOSED"}
Frames      == 1..Len(Contents)

\* The page has been set up; onMounted follows.
Init ==
  /\ readyState = [s \in Sockets |-> "unused"]
  /\ cut = {}
  /\ inbox = [s \in Sockets |-> <<>>]
  /\ sent = 1
  /\ ws = NoSocket
  /\ wsConnected = FALSE
  /\ heartbeat = FALSE /\ silent = FALSE
  /\ retry = FALSE /\ strays = 0
  /\ source = [f \in Fields |-> 0]
  /\ points = 0 /\ mqttConnected = FALSE /\ latest = FALSE
  /\ fetches = [c \in Clicks |-> "none"]
  /\ updating = FALSE /\ reload = FALSE
  /\ upsets = 0
  /\ doubled = FALSE /\ lateClose = FALSE

-----------------------------------------------------------------------------
(* connect() and the events that call it                                   *)

State(s)  == IF s = NoSocket THEN "unused" ELSE readyState[s]
IsOpen    == State(ws) = "OPEN"

\* Mutant of Connects: connect() does not look at readyState.
BugConnects == TRUE

\* connect(): nothing if ws is open. Otherwise the pending reconnectTimer is
\* cleared and ws names a new WebSocket, whatever the old one was doing (one
\* that has closed is used again as the new one). The constructor may throw.
Connects == ~IsOpen
Unused == {s \in Sockets : readyState[s] = "unused"}
NewSocket(s) ==
  /\ readyState' = [readyState EXCEPT ![s] = "CONNECTING"]
  /\ ws' = s
  /\ doubled' = (doubled \/ State(ws) = "CONNECTING")

Connect ==
  \/ ~Connects /\ UNCHANGED <<readyState, ws, wsConnected, doubled>>
  \/ /\ Connects
     /\ \/ State(ws) = "CLOSED" /\ NewSocket(ws)
        \/ State(ws) # "CLOSED" /\ Unused # {} /\ NewSocket(CHOOSE s \in Unused : TRUE)
     /\ UNCHANGED wsConnected
  \/ /\ Connects
     /\ wsConnected' = FALSE
     /\ UNCHANGED <<readyState, ws, doubled>>

\* What connect() leaves of reconnectTimer: the constructor that threw set it.
Threw == Connects /\ ws' = ws /\ readyState' = readyState

Mounted ==
  /\ ws = NoSocket /\ ~retry
  /\ Connect
  /\ retry' = Threw
  /\ UNCHANGED <<cut, inbox, heartbeat, silent, strays, sent, display, update, upsets, lateClose>>

\* The browser reports an aborted attempt at once, before the next timer.
TimersRun == \A s \in Sockets : readyState[s] # "ABORTING"

\* The timer in reconnectTimer fires.
RetryFires ==
  /\ retry /\ TimersRun
  /\ Connect
  /\ retry' = Threw
  /\ UNCHANGED <<cut, inbox, heartbeat, silent, strays, sent, display, update, upsets, lateClose>>

\* A connect() timer fires that reconnectTimer does not (any more) refer to.
StrayFires ==
  /\ strays > 0 /\ TimersRun
  /\ strays' = strays - 1
  /\ Connect
  /\ retry' = IF Connects THEN Threw ELSE retry
  /\ UNCHANGED <<cut, inbox, heartbeat, silent, sent, display, update, upsets, lateClose>>

\* visibilitychange: the page becomes visible and ws is not open.
Visible ==
  /\ upsets < MaxUpsets /\ upsets' = upsets + 1
  /\ ws # NoSocket /\ Connects
  /\ Connect
  /\ retry' = Threw
  /\ UNCHANGED <<cut, inbox, heartbeat, silent, strays, sent, display, update, lateClose>>

\* ws.close(): the close event follows later.
Closing(state, s) ==
  CASE s # NoSocket /\ state[s] = "CONNECTING" -> [state EXCEPT ![s] = "ABORTING"]
    [] s # NoSocket /\ state[s] = "OPEN"       -> [state EXCEPT ![s] = "CLOSING"]
    [] OTHER                                   -> state

\* 'online': close ws and call connect() half a second later.
Online ==
  /\ upsets < MaxUpsets /\ strays < MaxStrays
  /\ ws # NoSocket
  /\ readyState' = Closing(readyState, ws)
  /\ strays' = strays + 1
  /\ upsets' = upsets + 1
  /\ UNCHANGED <<cut, inbox, ws, wsConnected, heartbeat, silent, retry,
                 sent, display, update, doubled, lateClose>>

-----------------------------------------------------------------------------
(* Events of the sockets                                                   *)

\* Mutant of Opened: the heartbeat is not started.
BugOpened(s) ==
  /\ readyState[s] = "CONNECTING"
  /\ readyState' = [readyState EXCEPT ![s] = "OPEN"]
  /\ inbox' = [inbox EXCEPT ![s] = <<sent>>]
  /\ wsConnected' = TRUE
  /\ silent' = FALSE
  /\ lateClose' = (lateClose /\ s # ws)
  /\ UNCHANGED <<cut, ws, heartbeat, retry, strays, sent, display, update, upsets, doubled>>

\* The server upgrades the connection and sends its initial frame: onopen.
Opened(s) ==
  /\ readyState[s] = "CONNECTING"
  /\ readyState' = [readyState EXCEPT ![s] = "OPEN"]
  /\ inbox' = [inbox EXCEPT ![s] = <<sent>>]
  /\ wsConnected' = TRUE
  /\ silent' = FALSE
  /\ heartbeat' = TRUE
  /\ lateClose' = (lateClose /\ s # ws)
  /\ UNCHANGED <<cut, ws, retry, strays, sent, display, update, upsets, doubled>>

\* Mutant of OnClose: no reconnect is scheduled.
BugOnClose(s) ==
  /\ wsConnected' = FALSE
  /\ heartbeat' = FALSE
  /\ UNCHANGED <<retry, strays>>

\* onclose, of whichever socket: reconnectTimer is overwritten, not cleared.
OnClose(s) ==
  /\ wsConnected' = FALSE
  /\ heartbeat' = FALSE
  /\ retry' = TRUE
  /\ strays' = IF retry /\ strays < MaxStrays THEN strays + 1 ELSE strays

\* A connection that failed fires 'error' and then 'close' in one task:
\* onerror closes ws, which need not be the socket that failed.
Closed(s, failed) ==
  LET down == [readyState EXCEPT ![s] = IF s = ws THEN "CLOSED" ELSE "unused"]
  IN  /\ readyState' = IF failed THEN Closing(down, ws) ELSE down
      /\ cut' = cut \ {s}
      /\ inbox' = [inbox EXCEPT ![s] = <<>>]
      /\ OnClose(s)
      /\ lateClose' = (lateClose \/ (s # ws /\ readyState'[ws] = "OPEN"))
      /\ UNCHANGED <<ws, silent, sent, display, update, doubled>>

\* The server or the network refuses or ends a connection.
Lost(s) ==
  /\ upsets < MaxUpsets /\ upsets' = upsets + 1
  /\ \/ readyState[s] = "CONNECTING" /\ Closed(s, TRUE)
     \/ readyState[s] = "OPEN" /\ \E failed \in BOOLEAN : Closed(s, failed)

\* The close the page asked for is complete, or given up by the browser.
CloseCompletes(s) ==
  /\ readyState[s] \in {"CLOSING", "ABORTING"}
  /\ Closed(s, readyState[s] = "ABORTING")
  /\ UNCHANGED upsets

\* The path to the server breaks without an event in the browser.
PathCut(s) ==
  /\ readyState[s] = "OPEN" /\ s \notin cut
  /\ upsets < MaxUpsets /\ upsets' = upsets + 1
  /\ cut' = cut \cup {s}
  /\ inbox' = [inbox EXCEPT ![s] = <<>>]
  /\ UNCHANGED <<readyState, ws, wsConnected, heartbeat, silent, retry, strays,
                 sent, display, update, doubled, lateClose>>

\* BroadcastState, under writesMu: the next frame goes to every connection.
\* Frames are numbered in the order they are sent; a frame built before another
\* may be sent after it (Broadcast), and then has the higher number.
Publish ==
  /\ \A s \in Sockets : Len(inbox[s]) < MaxInbox
  /\ sent' = IF sent < Len(Contents) THEN sent + 1 ELSE sent
  /\ inbox' = [s \in Sockets |-> IF readyState[s] = "OPEN" /\ s \notin cut
                                 THEN Append(inbox[s], sent') ELSE inbox[s]]
  /\ UNCHANGED <<readyState, cut, ws, wsConnected, heartbeat, silent, retry, strays,
                 display, update, upsets, doubled, lateClose>>

\* Object.assign overwrites the fields the frame carries and keeps the others,
\* so that none becomes undefined.
Assign(frame) ==
  [f \in Fields |-> IF f \in Contents[frame] THEN frame ELSE source[f]]

\* onmessage. Every frame carries latest_version, and the server's is empty:
\* nothing calls SetLatestVersion. Each series of the chart gets a point; the
\* oldest is dropped when there are too many.
Message(s) ==
  LET frame == Head(inbox[s])
  IN  /\ readyState[s] = "OPEN" /\ inbox[s] # <<>>
      /\ inbox' = [inbox EXCEPT ![s] = Tail(@)]
      /\ silent' = FALSE
      /\ source' = Assign(frame)
      /\ mqttConnected' = TRUE
      /\ points' = IF points = MaxPoints THEN points ELSE points + 1
      /\ latest' = FALSE
      /\ UNCHANGED <<readyState, cut, ws, wsConnected, heartbeat, retry, strays,
                     sent, update, upsets, doubled, lateClose>>

\* 15 s pass without a frame.
Silence ==
  /\ ~silent /\ heartbeat
  /\ \A s \in Sockets : inbox[s] = <<>>
  /\ silent' = TRUE
  /\ UNCHANGED <<readyState, cut, inbox, ws, wsConnected, heartbeat, retry, strays,
                 sent, display, update, upsets, doubled, lateClose>>

\* Mutant of Watches: the heartbeat looks for a socket that is still connecting.
BugWatches == State(ws) = "CONNECTING"

\* The heartbeat interval: after 15 s without a frame it closes ws.
Watches == State(ws) \in {"CONNECTING", "OPEN"}
Heartbeat ==
  /\ heartbeat /\ silent /\ Watches
  /\ readyState' = Closing(readyState, ws)
  /\ UNCHANGED <<cut, inbox, ws, wsConnected, heartbeat, silent, retry, strays,
                 sent, display, update, upsets, doubled, lateClose>>

-----------------------------------------------------------------------------
(* The update button                                                       *)

\* hasUpdate: both versions are known; the server's own comes with a frame.
HasUpdate == latest /\ \E f \in Fields : source[f] # 0

\* checkOrUpdate without a newer version on display: ask the server.
CheckClicked(c) ==
  /\ ws # NoSocket
  /\ fetches[c] = "none" /\ ~HasUpdate
  /\ fetches' = [fetches EXCEPT ![c] = "check"]
  /\ UNCHANGED <<connection, sent, display, updating, reload, upsets, doubled, lateClose>>

\* The answer names a newer version, or not, or the request failed.
CheckAnswered(c) ==
  /\ fetches[c] = "check"
  /\ fetches' = [fetches EXCEPT ![c] = "none"]
  /\ latest' \in {latest, TRUE}
  /\ UNCHANGED <<connection, sent, source, points, mqttConnected, updating, reload,
                 upsets, doubled, lateClose>>

\* checkOrUpdate with a newer version on display, confirmed by the user; the
\* button stays active while an update runs.
UpdateClicked(c) ==
  /\ fetches[c] = "none" /\ HasUpdate
  /\ fetches' = [fetches EXCEPT ![c] = "update"]
  /\ updating' = TRUE
  /\ UNCHANGED <<connection, sent, display, reload, upsets, doubled, lateClose>>

\* Mutant of UpdateAnswered: a failed update leaves the button as it is.
BugUpdateAnswered(c) ==
  /\ fetches[c] = "update"
  /\ fetches' = [fetches EXCEPT ![c] = "none"]
  /\ \/ reload' = TRUE /\ UNCHANGED updating
     \/ UNCHANGED <<updating, reload>>
  /\ UNCHANGED <<connection, sent, display, upsets, doubled, lateClose>>

\* The server installed the update, or refused it, or the request failed.
UpdateAnswered(c) ==
  /\ fetches[c] = "update"
  /\ fetches' = [fetches EXCEPT ![c] = "none"]
  /\ \/ reload' = TRUE /\ UNCHANGED updating
     \/ updating' = FALSE /\ UNCHANGED reload
  /\ UNCHANGED <<connection, sent, display, upsets, doubled, lateClose>>

\* Three seconds after an update: the browser loads the page anew.
Reload ==
  /\ reload
  /\ readyState' = [s \in Sockets |-> "unused"]
  /\ cut' = {}
  /\ inbox' = [s \in Sockets |-> <<>>]
  /\ ws' = NoSocket
  /\ wsConnected' = FALSE
  /\ heartbeat' = FALSE /\ silent' = FALSE
  /\ retry' = FALSE /\ strays' = 0
  /\ source' = [f \in Fields |-> 0]
  /\ points' = 0 /\ mqttConnected' = FALSE /\ latest' = FALSE
  /\ fetches' = [c \in Clicks |-> "none"]
  /\ updating' = FALSE /\ reload' = FALSE
  /\ doubled' = FALSE /\ lateClose' = FALSE
  /\ UNCHANGED <<sent, upsets>>

Next ==
  \/ Mounted \/ RetryFires \/ StrayFires \/ Visible \/ Online
  \/ \E s \in Sockets : \/ Opened(s) \/ Lost(s) \/ CloseCompletes(s)
                        \/ PathCut(s) \/ Message(s)
  \/ Publish \/ Silence \/ Heartbeat
  \/ \E c \in Clicks : \/ CheckClicked(c) \/ CheckAnswered(c)
                       \/ UpdateClicked(c) \/ UpdateAnswered(c)
  \/ Reload

\* Timers fire, an event the browser has queued is handled, a connection
\* attempt ends, and the server answers a request. Nothing obliges the server
\* to publish, the network to fail, or the user to act.
Fairness ==
  /\ WF_vars(Mounted) /\ WF_vars(RetryFires) /\ WF_vars(StrayFires)
  /\ WF_vars(Silence) /\ WF_vars(Heartbeat) /\ WF_vars(Reload)
  /\ \A s \in Sockets : /\ WF_vars(Opened(s)) /\ WF_vars(CloseCompletes(s))
                        /\ WF_vars(Message(s))
  /\ \A c \in Clicks : WF_vars(UpdateAnswered(c))

Spec == Init /\ [][Next]_vars /\ Fairness

-----------------------------------------------------------------------------
(* Properties                                                              *)

\* The indicator tells the truth in both directions: an open ws is shown as
\* live and watched by the heartbeat, unless an orphan closed after it opened
\* (onclose does not ask whose close it is), and "Live" is shown only while a
\* socket of the page is up or its close event is still to come.
LiveTruthful ==
  /\ IsOpen => (wsConnected /\ heartbeat) \/ lateClose
  /\ wsConnected => \E s \in Sockets : readyState[s] \in {"OPEN", "CLOSING"}

\* The page applies the server's frames in the order they were sent, across
\* every reconnect: what an old socket still had to deliver never overwrites
\* what came over its successor, unless connect() once replaced a socket that was
\* still connecting, which leaves two of them delivering frames.
DisplayAdvances ==
  [][\A f \in Fields : source'[f] >= source[f] \/ doubled \/ Reload]_vars

\* "UPDATING..." is shown only while a request is under way or the page is
\* about to be reloaded.
UpdatingBounded == updating => reload \/ \E c \in Clicks : fetches[c] = "update"

\* The page keeps coming back to an open socket.
Reconnects == []<>IsOpen

\* An orphan that connect() left behind still delivers: onmessage takes its
\* frames for a sign of life of ws.
OrphanDelivers == \E s \in Sockets : s # ws /\ readyState[s] = "OPEN" /\ inbox[s] # <<>>

\* A connection over which nothing arrives any more is given up as long as the
\* heartbeat runs, unless an orphan goes on delivering for ever.
CutNoticed ==
  \/ []<>OrphanDelivers
  \/ \A s \in Sockets :
       (ws = s /\ s \in cut /\ heartbeat) ~> (ws # s \/ s \notin cut \/ ~heartbeat)
=============================================================================
