----------------------------- MODULE Broadcast -----------------------------
(***************************************************************************)
(* How a change of the MQTT client's state reaches the browsers.           *)
(*                                                                         *)
(* A goroutine that changed the state calls triggerHandler                 *)
(* (internal/mqtt/client.go:404), which coalesces bursts: the first caller *)
(* starts a goroutine that runs the broadcast, a caller that finds it      *)
(* running asks for one more round.  BroadcastState                        *)
(* (internal/websocket/handler.go:565) builds a frame, waits for writesMu  *)
(* and writes it to every registered connection.  Each connection has a    *)
(* goroutine of its own (HandleWebSocket), which sends the first frame,    *)
(* then reads requests, answers them and broadcasts as well.               *)
(*                                                                         *)
(* The state is reduced to the number of changes made to it; a frame is    *)
(* the number it was built from.                                           *)
(***************************************************************************)
EXTENDS Integers, FiniteSets

CONSTANTS
  Writers,      \* goroutines that change the state
  Conns,        \* WebSocket connections
  Runner,       \* the goroutine started by triggerHandler
  Nobody,       \* writesMu is free
  MaxChanges,   \* bound on state changes
  MaxMessages   \* bound on requests read from all connections

ASSUME BroadcastAssumption ==
  /\ Runner \notin Conns /\ Nobody \notin Conns \cup {Runner}

VARIABLES
  version,   \* changes made to the state
  trigger,   \* writers: progress through triggerHandler, value of the flag read
  pending,   \* Client.broadcastPending: 0 idle, 1 running, 2 run again
  pc,        \* progress of the runner and of the connections' goroutines
  resume,    \* where a connection's goroutine goes on after its broadcast
  frame,     \* the frame each of them has built
  peers,     \* what is left of the peers a broadcast is writing to
  holder,    \* owner of writesMu
  clients,   \* the registry of connections
  closed,    \* connections whose socket is closed
  messages,  \* requests read so far
  \* history
  built,     \* the runner's last frame
  shown,     \* the last frame written to each connection
  best       \* the newest frame written to each connection

changeVars == <<version, trigger, pending>>
wireVars == <<clients, closed, shown, best>>
vars == <<changeVars, pc, resume, frame, peers, holder, wireVars, messages, built>>

Broadcasters == Conns \cup {Runner}

-----------------------------------------------------------------------------
(* Client.triggerHandler and the goroutine it starts. *)

\* A reducer changes the state under stateMu and then triggers.
Change(w) ==
  /\ trigger[w].pc = "idle" /\ version < MaxChanges
  /\ version' = version + 1
  /\ trigger' = [trigger EXCEPT ![w].pc = "load"]
  /\ UNCHANGED <<pending, pc, frame, peers, holder, wireVars, messages, built, resume>>

\* Somebody has already asked for another round: nothing to do.
TriggerLoad(w) ==
  /\ trigger[w].pc = "load"
  /\ trigger' = [trigger EXCEPT ![w] = [pc |-> IF pending = 2 THEN "idle" ELSE "cas", seen |-> pending]]
  /\ UNCHANGED <<version, pending, pc, frame, peers, holder, wireVars, messages, built, resume>>

\* Mutant of Raised: a trigger that finds the broadcast running is dropped.
BugRaised(seen) == 1

\* 0 -> 1 starts the runner, 1 -> 2 asks it for another round.
Raised(seen) == seen + 1

TriggerSwap(w) ==
  /\ trigger[w].pc = "cas"
  /\ IF pending = trigger[w].seen
     THEN /\ pending' = Raised(pending)
          /\ trigger' = [trigger EXCEPT ![w].pc = "idle"]
          /\ pc' = IF pending = 0 THEN [pc EXCEPT ![Runner] = "build"] ELSE pc
     ELSE /\ trigger' = [trigger EXCEPT ![w].pc = "load"]
          /\ UNCHANGED <<pending, pc>>
  /\ UNCHANGED <<version, frame, peers, holder, wireVars, messages, built, resume>>

\* Mutant of RunnerSwap: the runner ends without looking at the flag.
BugRunnerSwap ==
  /\ pc[Runner] = "returned"
  /\ pending' = 0 /\ pc' = [pc EXCEPT ![Runner] = "idle"]
  /\ UNCHANGED <<version, trigger, frame, peers, holder, wireVars, messages, built, resume>>

\* The handler returned: 1 -> 0 ends the runner, otherwise it goes round again.
RunnerSwap ==
  /\ pc[Runner] = "returned"
  /\ IF pending = 1
     THEN pending' = 0 /\ pc' = [pc EXCEPT ![Runner] = "idle"]
     ELSE pc' = [pc EXCEPT ![Runner] = "again"] /\ UNCHANGED pending
  /\ UNCHANGED <<version, trigger, frame, peers, holder, wireVars, messages, built, resume>>

RunnerAgain ==
  /\ pc[Runner] = "again"
  /\ pending' = 1 /\ pc' = [pc EXCEPT ![Runner] = "build"]
  /\ UNCHANGED <<version, trigger, frame, peers, holder, wireVars, messages, built, resume>>

-----------------------------------------------------------------------------
(* BroadcastState, called by the runner and by the connections. *)

\* buildPayload, before the lock is taken.
Build(b) ==
  /\ pc[b] = "build"
  /\ frame' = [frame EXCEPT ![b] = version]
  /\ built' = IF b = Runner THEN version ELSE built
  /\ pc' = [pc EXCEPT ![b] = "lock"]
  /\ UNCHANGED <<changeVars, peers, holder, wireVars, messages, resume>>

\* writesMu.Lock and the copy of the registry.
Lock(b) ==
  /\ pc[b] = "lock" /\ holder = Nobody
  /\ holder' = b
  /\ peers' = [peers EXCEPT ![b] = clients]
  /\ pc' = [pc EXCEPT ![b] = "write"]
  /\ UNCHANGED <<changeVars, frame, wireVars, messages, built, resume>>

Written(c, f) ==
  /\ shown' = [shown EXCEPT ![c] = f]
  /\ best' = [best EXCEPT ![c] = IF f > @ THEN f ELSE @]
  /\ UNCHANGED <<clients, closed>>

\* removeClient: out of the registry, then the socket is closed.
removeClient(c) ==
  /\ clients' = clients \ {c} /\ closed' = closed \cup {c}
  /\ UNCHANGED <<shown, best>>

\* One peer: the frame is written, or the write fails or times out and the
\* peer is removed.
Write(b, c) ==
  /\ pc[b] = "write" /\ c \in peers[b]
  /\ peers' = [peers EXCEPT ![b] = @ \ {c}]
  /\ \/ c \notin closed /\ Written(c, frame[b])
     \/ removeClient(c)
  /\ UNCHANGED <<changeVars, pc, frame, holder, messages, built, resume>>

\* Mutant of Unlock: the lock stays taken.
BugUnlock(b) ==
  /\ pc[b] = "write" /\ peers[b] = {}
  /\ pc' = [pc EXCEPT ![b] = resume[b]]
  /\ resume' = [resume EXCEPT ![b] = IF b = Runner THEN "returned" ELSE "reading"]
  /\ UNCHANGED <<changeVars, frame, peers, holder, wireVars, messages, built>>

Unlock(b) ==
  /\ pc[b] = "write" /\ peers[b] = {}
  /\ holder' = Nobody
  /\ pc' = [pc EXCEPT ![b] = resume[b]]
  /\ resume' = [resume EXCEPT ![b] = IF b = Runner THEN "returned" ELSE "reading"]
  /\ UNCHANGED <<changeVars, frame, peers, wireVars, messages, built>>

-----------------------------------------------------------------------------
(* HandleWebSocket *)

\* The connection is registered and initialised under writesMu.
Accept(c) ==
  /\ pc[c] = "new" /\ holder = Nobody
  /\ holder' = c /\ clients' = clients \cup {c}
  /\ pc' = [pc EXCEPT ![c] = "init"]
  /\ UNCHANGED <<changeVars, frame, peers, closed, shown, best, messages, built, resume>>

InitialBuild(c) ==
  /\ pc[c] = "init"
  /\ frame' = [frame EXCEPT ![c] = version]
  /\ pc' = [pc EXCEPT ![c] = "initial"]
  /\ UNCHANGED <<changeVars, peers, holder, wireVars, messages, built, resume>>

\* Mutant of AfterInitial: a connection that fails at once stays registered.
BugAfterInitial(ok) == IF ok THEN "reading" ELSE "gone"

AfterInitial(ok) == IF ok THEN "reading" ELSE "removing"

InitialWrite(c) ==
  /\ pc[c] = "initial"
  /\ holder' = Nobody
  /\ \/ /\ c \notin closed /\ Written(c, frame[c])
        /\ pc' = [pc EXCEPT ![c] = AfterInitial(TRUE)]
     \/ /\ UNCHANGED wireVars
        /\ pc' = [pc EXCEPT ![c] = AfterInitial(FALSE)]
  /\ UNCHANGED <<changeVars, frame, peers, messages, built, resume>>

\* A request is read and handled, which may broadcast on its way (set_settings,
\* toggle); if it carries an ID it is answered; then there is a broadcast.
Message(c) ==
  /\ pc[c] = "reading" /\ c \notin closed /\ messages < MaxMessages
  /\ messages' = messages + 1
  /\ \E reply \in {"answer", "build"} :
       \/ pc' = [pc EXCEPT ![c] = reply] /\ UNCHANGED resume
       \/ pc' = [pc EXCEPT ![c] = "build"] /\ resume' = [resume EXCEPT ![c] = reply]
  /\ UNCHANGED <<changeVars, frame, peers, holder, wireVars, built>>

\* Mutant of AnswerLock: the answer is written without waiting for the lock.
BugAnswerLock(c) == holder' = holder

AnswerLock(c) == holder = Nobody /\ holder' = c

Answer(c) ==
  /\ pc[c] = "answer" /\ AnswerLock(c)
  /\ pc' = [pc EXCEPT ![c] = "answering"]
  /\ UNCHANGED <<changeVars, frame, peers, wireVars, messages, built, resume>>

AnswerWrite(c) ==
  /\ pc[c] = "answering"
  /\ holder' = Nobody
  /\ \E next \in IF c \in closed THEN {"removing"} ELSE {"build", "removing"} : pc' = [pc EXCEPT ![c] = next]
  /\ UNCHANGED <<changeVars, frame, peers, wireVars, messages, built, resume>>

\* The peer went away, or its socket was closed here.
ReadFails(c) ==
  /\ pc[c] = "reading"
  /\ pc' = [pc EXCEPT ![c] = "removing"]
  /\ UNCHANGED <<changeVars, frame, peers, holder, wireVars, messages, built, resume>>

Remove(c) ==
  /\ pc[c] = "removing" /\ removeClient(c)
  /\ pc' = [pc EXCEPT ![c] = "gone"]
  /\ UNCHANGED <<changeVars, frame, peers, holder, messages, built, resume>>

\* Shutdown closes and forgets every registered connection.
CloseAll ==
  /\ clients # {}
  /\ clients' = {} /\ closed' = closed \cup clients
  /\ UNCHANGED <<changeVars, pc, frame, peers, holder, shown, best, messages, built, resume>>

-----------------------------------------------------------------------------
Init ==
  /\ version = 0 /\ trigger = [w \in Writers |-> [pc |-> "idle", seen |-> 0]]
  /\ pending = 0
  /\ pc = [b \in Broadcasters |-> IF b = Runner THEN "idle" ELSE "new"]
  /\ resume = [b \in Broadcasters |-> IF b = Runner THEN "returned" ELSE "reading"]
  /\ frame = [b \in Broadcasters |-> 0] /\ peers = [b \in Broadcasters |-> {}]
  /\ holder = Nobody /\ clients = {} /\ closed = {} /\ messages = 0
  /\ built = 0 /\ shown = [c \in Conns |-> 0] /\ best = [c \in Conns |-> 0]

Trigger(w) == TriggerLoad(w) \/ TriggerSwap(w)

Broadcast(b) == Build(b) \/ Lock(b) \/ (\E c \in peers[b] : Write(b, c)) \/ Unlock(b)

\* What a connection's goroutine does without waiting for its peer.
Serve(c) ==
  \/ Accept(c) \/ InitialBuild(c) \/ InitialWrite(c)
  \/ Answer(c) \/ AnswerWrite(c) \/ Remove(c)

Next ==
  \/ \E w \in Writers : Change(w) \/ Trigger(w)
  \/ RunnerSwap \/ RunnerAgain
  \/ \E b \in Broadcasters : Broadcast(b)
  \/ \E c \in Conns : Serve(c) \/ Message(c) \/ ReadFails(c)
  \/ CloseAll

Spec == Init /\ [][Next]_vars

\* Goroutines run on; a write ends by its deadline of two seconds; sync.Mutex
\* hands the lock to a waiter that has starved.  Nothing forces a change, a
\* request, a peer's departure or the shutdown.
Fairness ==
  /\ \A w \in Writers : WF_vars(Trigger(w))
  /\ WF_vars(RunnerSwap \/ RunnerAgain)
  /\ \A b \in Broadcasters : SF_vars(Lock(b)) /\ WF_vars(Broadcast(b))
  /\ \A c \in Conns : SF_vars(Accept(c) \/ Answer(c)) /\ WF_vars(Serve(c))

LiveSpec == Spec /\ Fairness

-----------------------------------------------------------------------------
(* Properties. *)

\* Types of the trigger, the goroutines and the registry.
TypeOK ==
  /\ version \in Nat /\ pending \in 0..2 /\ messages \in Nat /\ built \in Nat
  /\ trigger \in [Writers -> [pc : {"idle", "load", "cas"}, seen : 0..2]]
  /\ pc \in [Broadcasters -> {"idle", "new", "init", "initial", "reading", "answer", "answering", "build",
                              "lock", "write", "returned", "again", "removing", "gone"}]
  /\ resume \in [Broadcasters -> {"returned", "reading", "answer", "build"}]
  /\ frame \in [Broadcasters -> Nat] /\ peers \in [Broadcasters -> SUBSET Conns]
  /\ holder \in Broadcasters \cup {Nobody}
  /\ clients \subseteq Conns /\ closed \subseteq Conns
  /\ shown \in [Conns -> Nat] /\ best \in [Conns -> Nat]

\* "run again when data changed during the callback" (client.go:412): a change
\* the runner's last frame does not have is still to be triggered, or another
\* round is due.  Coalescing never loses the last change of a burst.
NoLostChange ==
  built # version =>
    \/ \E w \in Writers : trigger[w].pc # "idle"
    \/ pending = 2
    \/ pc[Runner] = "build"

\* "Gorilla allows one concurrent writer per connection" (handler.go:568): no
\* two goroutines write to a socket at the same time.
Writing(b) == IF pc[b] = "write" THEN peers[b] ELSE IF pc[b] \in {"initial", "answering"} THEN {b} ELSE {}
OneWriter == \A a, b \in Broadcasters : a # b => Writing(a) \cap Writing(b) = {}

\* The registry, which feeds the broadcasts and the client count, holds no
\* connection whose goroutine has ended, on whatever path it ended.
NoGhostClient == \A c \in clients : pc[c] \notin {"new", "gone"}

\* A change reaches every connection that is registered at the time, or that
\* connection is removed.
ChangesReachClients ==
  \A c \in Conns, v \in 1..MaxChanges :
    (c \in clients /\ version >= v) ~> (c \notin clients \/ best[c] >= v)

\* Nobody waits for writesMu forever: a request that was read is finished.
RequestsFinish == \A c \in Conns : pc[c] = "answer" ~> pc[c] \in {"reading", "gone"}

Quiet ==
  /\ \A w \in Writers : trigger[w].pc = "idle"
  /\ pending = 0 /\ \A b \in Broadcasters : pc[b] \in {"idle", "new", "reading", "gone"}

\* "BroadcastState sends the current state to all connected clients"
\* (handler.go:564): once everything has been sent, every client has it.
CurrentStateShown == Quiet => \A c \in clients : shown[c] = version
=============================================================================
