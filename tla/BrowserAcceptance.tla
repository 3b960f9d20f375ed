-------------------------- MODULE BrowserAcceptance --------------------------
(***************************************************************************)
(* The browser acceptance suite (scripts/browser-acceptance.cjs): the real *)
(* page (VueTransport) against a mocked server, driven by a script of      *)
(* scenarios that runs concurrently with both. The mock routes WebSockets, *)
(* tracks the open ones (scripts/browser-socket-fixture.cjs), answers      *)
(* commands and serves the state to polls; the script changes the mock's   *)
(* state, acts on the page and waits for what the page displays            *)
(* (scripts/browser-readiness.cjs).                                        *)
(***************************************************************************)
EXTENDS VueTransport

VARIABLES
  state,        \* fixture.state: state of charge, camera topic, loads section
  reject, paused,
  commands,     \* fixture.commands
  sockets,      \* fixture.sockets: the targets of a broadcast
  reconnected,  \* fixture.connections grew since the script last read it
  step,         \* the script's next step; Failed or Refused when it gave up
  seen,         \* the conditions of this wait that were already observed
  before        \* the number of commands when the public page was opened

fixture == <<state, reject, paused, commands, sockets, reconnected>>
script  == <<step, seen, before>>
vars == <<clientVars, fixture, script>>

-----------------------------------------------------------------------------
(* The script                                                              *)

Do(a)    == [op |-> "do", arg |-> {a}]
Await(c) == [op |-> "await", arg |-> c]
Assert(c) == [op |-> "assert", arg |-> {c}]

\* What the page of this document must show before a scenario goes on: two
\* waits, each satisfied when it was once observed.
Hydrated == {"soc", "connected"}

Script == <<
  Do("load"), Await(Hydrated), Assert("connected"),
  Do("update"), Await({"soc"}),
  Do("reload"), Await(Hydrated),
  Do("save"), Await({"topic sent"}), Await({"accepted"}),
  Do("hide"), Await({"loads off"}), Await({"loads hidden"}),
  Do("reload"), Await(Hydrated), Assert("loads hidden"),
  Do("show"), Await({"loads visible"}),
  Do("misuse"), Await({"rejected"}), Assert("topic kept"), Do("accept"),
  Do("pause"), Await({"disconnected"}),
  Do("resume"), Do("online"), Await({"reconnected"}), Await({"connected"}),
  Do("public"), Await({"gateway soc"}), Assert("no command") >>

\* What the script waits for and asserts.
Conditions == UNION {Script[i].arg : i \in {j \in 1..Len(Script) : Script[j].op # "do"}}

Done    == Len(Script) + 1
Failed  == Len(Script) + 2   \* an assertion did not hold
Refused == Len(Script) + 3   \* a control did nothing, and its outcome will not come
Running == step \in 1..Len(Script)
At(op, a) == Running /\ Script[step].op = op /\ a \in Script[step].arg

Holds(c) ==
  CASE c = "connected"     -> mqttConnected
    [] c = "disconnected"  -> ~mqttConnected
    [] c = "soc"           -> shown # NoState /\ shown.soc = state.soc
    [] c = "gateway soc"   -> shown = GatewayState
    [] c = "loads hidden"  -> shown # NoState /\ ~shown.loads
    [] c = "loads visible" -> shown # NoState /\ shown.loads
    [] c = "topic sent"    -> commands # <<>> /\ commands[Len(commands)].field = "topic"
    [] c = "loads off"     -> ~state.loads
    [] c = "accepted"      -> message = "accepted"
    [] c = "rejected"      -> message = "rejected"
    [] c = "topic kept"    -> state.topic = "camera"
    [] c = "reconnected"   -> reconnected
    [] c = "no command"    -> Len(commands) = before

Init ==
  /\ ClientInit
  /\ state = [soc |-> 73, topic |-> "none", loads |-> TRUE]
  /\ reject = FALSE /\ paused = FALSE
  /\ commands = <<>> /\ sockets = {} /\ reconnected = FALSE
  /\ step = 1 /\ seen = {} /\ before = 0

\* eventually and waitFor: a condition of the wait is observed; the script goes
\* on when all have been. (A wait that runs into its 10 s limit stays here.)
Observe(c) ==
  /\ At("await", c) /\ c \notin seen /\ Holds(c)
  /\ LET all == seen \cup {c}
     IN  IF all = Script[step].arg THEN step' = step + 1 /\ seen' = {}
                                   ELSE step' = step /\ seen' = all
  /\ UNCHANGED <<clientVars, fixture, before>>

\* assert looks once; a failure ends the suite.
Check(c) ==
  /\ At("assert", c)
  /\ step' = IF Holds(c) THEN step + 1 ELSE Failed
  /\ UNCHANGED <<clientVars, fixture, seen, before>>

NextStep == step' = step + 1 /\ UNCHANGED seen

-----------------------------------------------------------------------------
(* The mocked server                                                       *)

\* ws.send, and ws.close(): nothing reaches a socket whose document is gone.
Send(box, s, events) ==
  IF readyState[s] = "CLOSED" THEN box ELSE [box EXCEPT ![s] = @ \o events]
Frame(st) == [type |-> "state", state |-> st]
Close     == [type |-> "close"]

\* broadcast()
Broadcast(box, st) ==
  [s \in Sockets |-> IF s \in sockets THEN Send(box, s, <<Frame(st)>>)[s] ELSE box[s]]

\* routeWebSocket: a paused server closes the new connection; otherwise it is
\* tracked and gets the current state.
Route(s) ==
  /\ s \in calls
  /\ calls' = calls \ {s}
  /\ \/ /\ paused
        /\ inbox' = Send(inbox, s, <<Close>>)
        /\ UNCHANGED <<sockets, reconnected>>
     \/ /\ ~paused
        /\ reconnected' = TRUE
        /\ sockets' = sockets \cup {s}
        /\ inbox' = Send(inbox, s, <<[type |-> "open"], Frame(state)>>)
  /\ UNCHANGED <<doc, readyState, outbox, hangups, link, telemetry, command, upsets,
                 state, reject, paused, commands, script>>

\* Mutant of Untrack: a closed socket stays a target.
BugUntrack(s) == UNCHANGED sockets

\* trackMockSocket's onClose: remove the socket, then acknowledge the close,
\* which may run this callback once more.
Untrack(s) == sockets' = sockets \ {s}
OnClose(s) ==
  /\ s \in hangups \ calls
  /\ Untrack(s)
  /\ IF s \in sockets
     THEN /\ inbox' = Send(inbox, s, <<Close>>)
          /\ hangups' \in {hangups, hangups \ {s}}
     ELSE /\ hangups' = hangups \ {s}
          /\ UNCHANGED inbox
  /\ UNCHANGED <<doc, readyState, outbox, calls, link, telemetry, command, upsets,
                 state, reject, paused, commands, reconnected, script>>

\* Mutant of Patched: an accepted command is not applied.
BugPatched(c) == state

\* onMessage: a command is recorded and rejected, or accepted and applied;
\* every command of the script is a set_settings.
Patched(c) == [state EXCEPT ![c.field] = c.value]
OnMessage(s) ==
  LET c == Head(outbox[s])
      answer(v) == Send(inbox, s, <<[type |-> "verdict", verdict |-> v]>>)
  IN  /\ outbox[s] # <<>>
      /\ outbox' = [outbox EXCEPT ![s] = Tail(@)]
      /\ commands' = Append(commands, c)
      /\ \/ reject /\ inbox' = answer("rejected") /\ UNCHANGED state
         \/ /\ ~reject
            /\ state' = Patched(c)
            /\ inbox' = Broadcast(answer("accepted"), Patched(c))
      /\ UNCHANGED <<doc, readyState, calls, hangups, link, telemetry, command, upsets,
                     reject, paused, sockets, reconnected, script>>

\* GET /api/state, or the gateway's snapshot in public mode.
ServePoll ==
  /\ poll = Asked
  /\ poll' = IF mode = "public" THEN Answer(GatewayState, TRUE) ELSE Answer(state, ~paused)
  /\ UNCHANGED <<doc, readyState, wire, link, window, mqttConnected, shown, command,
                 upsets, fixture, script>>

-----------------------------------------------------------------------------
(* What the scenarios do                                                   *)

\* page.goto and page.reload; the last scenario reloads in public mode.
Visit(a, m) ==
  /\ At("do", a) /\ NextStep
  /\ Load(m)
  /\ before' = IF m = "public" THEN Len(commands) ELSE before
  /\ UNCHANGED fixture

\* The script changes the state and broadcasts it.
Change(a, field, value) ==
  LET st == [state EXCEPT ![field] = value]
  IN  /\ At("do", a) /\ NextStep
      /\ state' = st
      /\ inbox' = Broadcast(inbox, st)
      /\ UNCHANGED <<doc, readyState, outbox, calls, hangups, link, telemetry, command,
                     upsets, reject, paused, commands, sockets, reconnected, before>>

\* The script saves a setting in the page; once with the server rejecting it.
Use(a, field, value, rejecting) ==
  /\ At("do", a)
  /\ step' = IF Sends THEN step + 1 ELSE Refused
  /\ reject' = rejecting
  /\ Submit([field |-> field, value |-> value])
  /\ UNCHANGED <<state, paused, commands, sockets, reconnected, seen, before>>

Accept ==
  /\ At("do", "accept") /\ NextStep
  /\ reject' = FALSE
  /\ UNCHANGED <<clientVars, state, paused, commands, sockets, reconnected, before>>

\* The server goes away: it closes and forgets every connection.
Pause ==
  /\ At("do", "pause") /\ NextStep
  /\ paused' = TRUE
  /\ inbox' = [s \in Sockets |-> IF s \in sockets THEN Send(inbox, s, <<Close>>)[s]
                                 ELSE inbox[s]]
  /\ sockets' = {}
  /\ UNCHANGED <<doc, readyState, outbox, calls, hangups, link, telemetry, command,
                 upsets, state, reject, commands, reconnected, before>>

\* The server is back; the script notes how many connections there were.
Resume ==
  /\ At("do", "resume") /\ NextStep
  /\ paused' = FALSE
  /\ reconnected' = FALSE
  /\ UNCHANGED <<clientVars, state, reject, commands, sockets, before>>

\* page.evaluate: the page hears that it is online. It may have reconnected by
\* itself since the server is back.
ComesOnline ==
  /\ At("do", "online") /\ NextStep
  /\ Online
  /\ UNCHANGED <<fixture, before>>

ScriptNext ==
  \/ \E c \in Conditions : Observe(c) \/ Check(c)
  \/ Visit("load", "private") \/ Visit("reload", "private") \/ Visit("public", "public")
  \/ Change("update", "soc", 42) \/ Change("show", "loads", TRUE)
  \/ Use("save", "topic", "camera", FALSE) \/ Use("hide", "loads", FALSE, FALSE)
  \/ Use("misuse", "topic", "rejected", TRUE) \/ Accept
  \/ Pause \/ Resume \/ ComesOnline

ServerNext ==
  \/ \E s \in Sockets : Route(s) \/ OnClose(s) \/ OnMessage(s)
  \/ ServePoll

\* The end of the script, passed or not, closes the browser and the server.
Next ==
  /\ Running
  /\ \/ ClientNext /\ UNCHANGED <<fixture, script>>
     \/ ServerNext
     \/ ScriptNext

\* As long as the script runs, the page's timers fire and its queued events are
\* handled, the mock handles what reaches it, and the script goes on when it
\* can. No upset has to happen. A poll is answered in less than the 2 s between
\* two attempts to connect, whose failure aborts it: not every poll is aborted.
Fairness ==
  /\ WF_clientVars(Running /\ Mount) /\ WF_clientVars(Running /\ RetryFires)
  /\ WF_clientVars(Running /\ Heartbeat) /\ WF_clientVars(Running /\ CommandTimesOut)
  /\ WF_clientVars(Running /\ PollTick) /\ SF_clientVars(Running /\ PollAnswered)
  /\ \A s \in Sockets : /\ WF_clientVars(Running /\ Event(s))
                        /\ WF_vars(Running /\ Route(s))
                        /\ WF_vars(Running /\ OnClose(s))
                        /\ WF_vars(Running /\ OnMessage(s))
  /\ SF_vars(Running /\ ServePoll)
  /\ WF_vars(ScriptNext)

Spec == Init /\ [][Next]_vars /\ Fairness

-----------------------------------------------------------------------------
(* Properties                                                              *)

\* Once the current socket has delivered what was sent, the page displays the
\* server's present state: no answer to an earlier poll replaces it, across
\* reloads, silences and reconnections.
ShowsLatest ==
  IsOpen /\ r \in sockets /\ inbox[r] = <<>> => shown = state

\* The page says "connected" only while its socket is up (or its close event
\* is still to come), or a poll of the last 15 s showed the source connected.
\* (A page made visible while its socket closes lets the new socket take over
\* the indicator of the old one: not for MaxReveals > 0.)
LiveHasEvidence ==
  mqttConnected => window \/ (r # NoSocket /\ readyState[r] \in {"OPEN", "CLOSING"})

\* Until something disturbs it, a command the page waits for, or its verdict, is
\* on its way on the current socket: whatever reloads, closes and reconnections
\* the script causes, no command is left to its timer.
CommandUnderway == pending /\ upsets = 0 => Underway

\* "Closed sockets must be removed from broadcast targets": a target whose page
\* is closed or gone has the callback that removes it still to come.
TargetsLive ==
  \A s \in sockets : readyState[s] = "OPEN" \/ s \in calls \cup hangups \/ inbox[s] # <<>>

\* The suite passes: no wait lasts for ever and no assertion fails, unless 15 s
\* of silence or a time-out disturbed it, or it used a control before the
\* page's socket was open (a poll is enough for waitForHydratedDashboard).
SuitePasses == <>(step \in {Done, Refused} \/ upsets > 0)
=============================================================================
