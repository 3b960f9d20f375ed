---------------------------- MODULE VueTransport ----------------------------
(***************************************************************************)
(* The telemetry transport of the Vue page (the bundle in internal/html/   *)
(* vue-ui/assets): a WebSocket that is reopened when it closes, goes       *)
(* silent or the browser comes online, the REST poll that stands in for it *)
(* while it delivers nothing, and the command the page waits to have       *)
(* confirmed. In public mode there is no socket and the poll reads the     *)
(* gateway's snapshot.                                                     *)
(*                                                                         *)
(* Unlike the server-rendered page (Dashboard), every handler first asks   *)
(* whether its socket is still the current one. The server's end of the    *)
(* sockets is not here: calls, inbox, outbox and hangups are what travels  *)
(* between the two ends.                                                   *)
(***************************************************************************)
EXTENDS Naturals, Sequences

CONSTANTS
  Sockets,      \* WebSocket objects, reused once both ends are done with them
  NoSocket,     \* r when there is no current socket
  NoState,      \* what a page shows before its first telemetry
  GatewayState, \* what the gateway's snapshot shows
  MaxUpsets,    \* bound: silences, time-outs and failed polls
  MaxReveals    \* bound: closing sockets replaced when the page becomes visible

ASSUME VueTransportAssumption == NoSocket \notin Sockets /\ {MaxUpsets, MaxReveals} \subseteq Nat

VARIABLES
  mode,             \* "none" before the page is loaded, "private" or "public"
  readyState, inbox,\* of each socket; the events on their way to it
  outbox,           \* commands on their way to the server
  calls,            \* new sockets the server has not seen yet
  hangups,          \* sockets whose close the server has not seen yet
  r,                \* the current socket
  commandConnected, \* r is open
  beating,          \* the heartbeat interval is running
  silent,           \* r's last frame is long ago
  retry,            \* a connect timer is pending
  polling,          \* the poll interval is running
  poll,             \* the request under way: none, asked, or its answer
  window,           \* a poll showed the source to be connected less than 15 s ago
  mqttConnected,    \* the page says "connected"
  shown,            \* the telemetry on display
  pending,          \* a command waits for its confirmation
  message,          \* what the page says about the last command
  upsets,           \* silences, time-outs and failed polls so far
  reveals           \* closing sockets replaced so far

doc       == <<mode, reveals>>
link      == <<r, commandConnected, beating, silent, retry, polling>>
wire      == <<inbox, outbox, calls, hangups>>
telemetry == <<poll, window, mqttConnected, shown>>
command   == <<pending, message>>
clientVars == <<doc, readyState, wire, link, telemetry, command, upsets>>

NoPoll   == [phase |-> "none"]
Asked    == [phase |-> "asked"]
Answer(state, live) == [phase |-> "answered", state |-> state, live |-> live]

ClientInit ==
  /\ mode = "none"
  /\ readyState = [s \in Sockets |-> "CLOSED"]
  /\ inbox = [s \in Sockets |-> <<>>] /\ outbox = [s \in Sockets |-> <<>>]
  /\ calls = {} /\ hangups = {}
  /\ r = NoSocket /\ commandConnected = FALSE
  /\ beating = FALSE /\ silent = FALSE /\ retry = FALSE
  /\ polling = FALSE /\ poll = NoPoll /\ window = FALSE
  /\ mqttConnected = FALSE /\ shown = NoState
  /\ pending = FALSE /\ message = "none"
  /\ upsets = 0 /\ reveals = 0

\* The browser loads the page in a mode: the old document's sockets close.
Load(m) ==
  /\ mode' = m
  /\ readyState' = [s \in Sockets |-> "CLOSED"]
  /\ hangups' = hangups \cup {s \in Sockets : readyState[s] # "CLOSED"}
  /\ inbox' = [s \in Sockets |-> <<>>]
  /\ r' = NoSocket /\ commandConnected' = FALSE
  /\ beating' = FALSE /\ silent' = FALSE /\ retry' = FALSE
  /\ polling' = FALSE /\ poll' = NoPoll /\ window' = FALSE
  /\ mqttConnected' = FALSE /\ shown' = NoState
  /\ pending' = FALSE /\ message' = "none"
  /\ UNCHANGED <<outbox, calls, upsets, reveals>>

Upset == upsets < MaxUpsets /\ upsets' = upsets + 1

-----------------------------------------------------------------------------
(* Opening and closing the socket                                          *)

IsOpen == r # NoSocket /\ readyState[r] = "OPEN"
InUse  == r # NoSocket /\ readyState[r] \in {"CONNECTING", "OPEN"}

\* Mutant of FallBack: a close leaves the indicator as it is.
BugFallBack == mqttConnected

\* The connection is down: what the page says rests on the last poll alone.
FallBack == mqttConnected /\ window

\* Nothing of an earlier connection is left of a socket that is used anew.
Free(s) ==
  /\ readyState[s] = "CLOSED" /\ s \notin calls \cup hangups
  /\ inbox[s] = <<>> /\ outbox[s] = <<>>

\* Open a new socket, unless the current one is open or opening; one that is
\* closing is replaced. (The constructor throws only for a bad URL.)
Connect ==
  /\ ~InUse
  /\ \E s \in Sockets : Free(s)
  /\ LET s == CHOOSE s \in Sockets : Free(s)
     IN  /\ readyState' = [readyState EXCEPT ![s] = "CONNECTING"]
         /\ calls' = calls \cup {s}
         /\ r' = s
  /\ retry' = FALSE
  /\ UNCHANGED mqttConnected

\* The page starts: the first poll goes out and, unless public, it connects.
Mount ==
  /\ mode # "none" /\ ~polling
  /\ polling' = TRUE
  /\ poll' = Asked
  /\ \/ mode = "private" /\ Connect
     \/ mode = "public" /\ UNCHANGED <<readyState, calls, r, retry, mqttConnected>>
  /\ UNCHANGED <<doc, inbox, outbox, hangups, commandConnected, beating, silent, window,
                 shown, command, upsets>>

RetryFires ==
  /\ retry
  /\ Connect
  /\ UNCHANGED <<doc, inbox, outbox, hangups, commandConnected, beating, silent, polling,
                 poll, window, shown, command, upsets>>

\* The page becomes visible: it does not wait for the timer, nor for a closing
\* socket, which then closes unheard.
Visible ==
  /\ mode = "private" /\ polling
  /\ reveals' = IF r = NoSocket THEN reveals ELSE reveals + 1
  /\ reveals' <= MaxReveals
  /\ Connect
  /\ UNCHANGED <<mode, inbox, outbox, hangups, commandConnected, beating, silent, polling,
                 poll, window, shown, command, upsets>>

\* The current socket is asked to close; its close event follows.
HangUp ==
  /\ readyState' = [readyState EXCEPT ![r] = "CLOSING"]
  /\ hangups' = hangups \cup {r}

\* commandConnected drops: a command under way has an unknown outcome.
CommandLost ==
  /\ pending' = FALSE
  /\ message' = IF pending THEN "unknown" ELSE message

\* 'online': drop the current socket, handlers and all, and reconnect in 500 ms.
Online ==
  /\ mode = "private" /\ polling
  /\ readyState' = IF r # NoSocket THEN [readyState EXCEPT ![r] = "CLOSING"] ELSE readyState
  /\ hangups' = IF r # NoSocket THEN hangups \cup {r} ELSE hangups
  /\ r' = NoSocket
  /\ commandConnected' = FALSE /\ CommandLost
  /\ poll' = NoPoll /\ window' = FALSE /\ mqttConnected' = FALSE
  /\ beating' = FALSE /\ silent' = FALSE
  /\ retry' = TRUE
  /\ UNCHANGED <<doc, inbox, outbox, calls, polling, shown, upsets>>

\* The heartbeat finds the last frame more than 15 s old.
Heartbeat ==
  /\ beating /\ silent /\ InUse
  /\ HangUp
  /\ UNCHANGED <<doc, inbox, outbox, calls, link, telemetry, command, upsets>>

\* The attempt to connect takes more than 10 s.
ConnectTimesOut ==
  /\ r # NoSocket /\ readyState[r] = "CONNECTING" /\ Upset
  /\ HangUp
  /\ UNCHANGED <<doc, inbox, outbox, calls, link, telemetry, command>>

-----------------------------------------------------------------------------
(* Events of a socket                                                      *)

\* onopen
Opens(s) ==
  /\ readyState' = [readyState EXCEPT ![s] = "OPEN"]
  /\ commandConnected' = TRUE
  /\ beating' = TRUE /\ silent' = FALSE
  /\ UNCHANGED <<r, retry, telemetry, command>>

\* onclose
Closes(s) ==
  /\ readyState' = [readyState EXCEPT ![s] = "CLOSED"]
  /\ r' = NoSocket
  /\ commandConnected' = FALSE /\ CommandLost
  /\ poll' = NoPoll
  /\ mqttConnected' = FallBack
  /\ beating' = FALSE /\ silent' = FALSE
  /\ retry' = TRUE
  /\ UNCHANGED <<window, shown>>

\* Mutant of Receives: a frame leaves the poll running.
BugReceives(state) ==
  /\ silent' = FALSE
  /\ window' = FALSE
  /\ shown' = state
  /\ mqttConnected' = TRUE
  /\ UNCHANGED <<readyState, r, commandConnected, beating, retry, poll, command>>

\* onmessage with telemetry: it overrides the poll, which is aborted.
Receives(state) ==
  /\ silent' = FALSE
  /\ poll' = NoPoll
  /\ window' = FALSE
  /\ shown' = state
  /\ mqttConnected' = TRUE
  /\ UNCHANGED <<readyState, r, commandConnected, beating, retry, command>>

\* Mutant of Verdict: a rejected command is still waited for.
BugVerdict(m) ==
  /\ pending' = (pending /\ m = "rejected")
  /\ message' = IF pending THEN m ELSE message
  /\ UNCHANGED <<readyState, r, commandConnected, beating, silent, retry, telemetry>>

\* onmessage with the verdict on the pending command.
Verdict(m) ==
  /\ pending' = FALSE
  /\ message' = IF pending THEN m ELSE message
  /\ UNCHANGED <<readyState, r, commandConnected, beating, silent, retry, telemetry>>

\* The next event of a socket. One that is not the current socket's, or that a
\* closing socket can no longer deliver, changes nothing of the page.
Event(s) ==
  LET e == Head(inbox[s])
  IN  /\ inbox[s] # <<>>
      /\ inbox' = [inbox EXCEPT ![s] = Tail(@)]
      /\ \/ e.type = "open" /\ s = r /\ readyState[s] = "CONNECTING" /\ Opens(s)
         \/ e.type = "close" /\ s = r /\ Closes(s)
         \/ e.type = "state" /\ s = r /\ readyState[s] = "OPEN" /\ Receives(e.state)
         \/ e.type = "verdict" /\ s = r /\ readyState[s] = "OPEN" /\ Verdict(e.verdict)
         \/ /\ s # r \/ (e.type # "close" /\ readyState[s] = "CLOSING")
            /\ readyState' = IF e.type = "close" THEN [readyState EXCEPT ![s] = "CLOSED"]
                             ELSE readyState
            /\ UNCHANGED <<r, commandConnected, beating, silent, retry, telemetry, command>>
      /\ UNCHANGED <<doc, outbox, calls, hangups, polling, upsets>>

-----------------------------------------------------------------------------
(* Time and polls                                                          *)

\* Fifteen seconds pass without a frame. (Polls resume after eight: the model
\* lets the heartbeat take any time to notice, which covers what is between.)
Silence ==
  /\ IsOpen /\ inbox[r] = <<>> /\ ~silent /\ Upset
  /\ silent' = TRUE
  /\ UNCHANGED <<doc, readyState, wire, r, commandConnected, beating, retry, polling,
                 telemetry, command>>

\* Every 3 s: nothing if a poll is under way or the socket delivered recently.
PollTick ==
  /\ polling /\ poll = NoPoll
  /\ ~(IsOpen /\ ~silent)
  /\ poll' = Asked
  /\ UNCHANGED <<doc, readyState, wire, link, window, mqttConnected, shown, command,
                 upsets>>

\* The answer replaces what is on display and what the page says of its source.
PollAnswered ==
  /\ poll.phase = "answered"
  /\ poll' = NoPoll
  /\ shown' = poll.state
  /\ mqttConnected' = poll.live
  /\ window' = poll.live
  /\ UNCHANGED <<doc, readyState, wire, link, command, upsets>>

\* The request fails or is aborted after 10 s.
PollFails ==
  /\ poll # NoPoll /\ Upset
  /\ poll' = NoPoll
  /\ UNCHANGED <<doc, readyState, wire, link, window, mqttConnected, shown, command>>

\* Fifteen seconds after the last successful poll.
WindowEnds ==
  /\ window /\ Upset
  /\ window' = FALSE
  /\ mqttConnected' = FALSE
  /\ UNCHANGED <<doc, readyState, wire, link, poll, shown, command>>

\* submit: a command needs an open socket; only one waits at a time.
Sends == commandConnected /\ IsOpen
Submit(c) ==
  /\ ~pending
  /\ pending' = Sends
  /\ message' = IF Sends THEN "sending" ELSE "unavailable"
  /\ outbox' = IF Sends THEN [outbox EXCEPT ![r] = Append(@, c)] ELSE outbox
  /\ UNCHANGED <<doc, readyState, inbox, calls, hangups, link, telemetry, upsets>>

\* No verdict within 10 s: a slow server, or a command or verdict that was lost
\* with its socket.
Underway == IsOpen /\ (outbox[r] # <<>> \/ inbox[r] # <<>>)

CommandTimesOut ==
  /\ pending
  /\ \/ Underway /\ Upset
     \/ ~Underway /\ UNCHANGED upsets
  /\ pending' = FALSE
  /\ message' = "unknown"
  /\ UNCHANGED <<doc, readyState, wire, link, telemetry>>

ClientNext ==
  \/ Mount \/ RetryFires \/ Visible \/ Heartbeat \/ ConnectTimesOut
  \/ \E s \in Sockets : Event(s)
  \/ Silence \/ PollTick \/ PollAnswered \/ PollFails \/ WindowEnds \/ CommandTimesOut
=============================================================================
