-------------------------- MODULE Broadcast_proofs --------------------------
(* Proofs about Broadcast, for any number of goroutines and connections. *)
EXTENDS Broadcast, TLAPS

\* A goroutine that is about to swap read 0 or 1.
SwapSeen == \A w \in Writers : trigger[w].pc = "cas" => trigger[w].seen # 2

\* The flag is zero exactly when there is no runner, and a runner goes round
\* again because the flag is 2.
RunnerFlag ==
  /\ pc[Runner] \in {"idle", "build", "lock", "write", "returned", "again"}
  /\ resume[Runner] = "returned"
  /\ pending = 0 <=> pc[Runner] = "idle"
  /\ pc[Runner] = "again" => pending = 2

\* writesMu is held by exactly the goroutine that is between Lock and Unlock.
LockHeld ==
  \A b \in Broadcasters : holder = b <=> pc[b] \in {"init", "initial", "answering", "write"}

\* What a goroutine of a connection can be doing.
ConnStates ==
  \A c \in Conns :
    /\ pc[c] \notin {"idle", "returned", "again"}
    /\ resume[c] \in {"reading", "answer", "build"}

Inv == TypeOK /\ SwapSeen /\ RunnerFlag /\ NoLostChange /\ LockHeld /\ ConnStates /\ NoGhostClient

\* The initial state: nothing changed, nobody is registered, the lock is free.
LEMMA InitInv == Init => Inv
  BY BroadcastAssumption, SMT DEF Init, Inv, TypeOK, SwapSeen, RunnerFlag, NoLostChange, LockHeld, ConnStates, NoGhostClient, Broadcasters

\* A step of a writer in triggerHandler keeps the invariant.
LEMMA WriterStep == ASSUME Inv, NEW w \in Writers, Change(w) \/ Trigger(w) PROVE Inv'
<1> USE BroadcastAssumption DEF Inv, TypeOK, SwapSeen, RunnerFlag, NoLostChange, LockHeld, ConnStates, NoGhostClient, Broadcasters, wireVars
<1>1. CASE Change(w)
  BY <1>1 DEF Change
<1>2. CASE TriggerLoad(w)
  BY <1>2 DEF TriggerLoad
<1>3. CASE TriggerSwap(w)
  <2>1. CASE pending # trigger[w].seen
    BY <1>3, <2>1 DEF TriggerSwap
  <2>2. CASE pending = trigger[w].seen /\ pending = 0
    BY <1>3, <2>2 DEF TriggerSwap, Raised
  <2>3. CASE pending = trigger[w].seen /\ pending # 0
    <3>1. pending = 1 /\ pending' = 2
      BY <1>3, <2>3 DEF TriggerSwap, Raised
    <3>2. pc' = pc /\ UNCHANGED <<version, frame, peers, holder, wireVars, messages, built, resume>>
      BY <1>3, <2>3 DEF TriggerSwap
    <3>3. trigger' = [trigger EXCEPT ![w].pc = "idle"]
      BY <1>3, <2>3 DEF TriggerSwap
    <3>4. TypeOK'
      BY <3>1, <3>2, <3>3
    <3>5. SwapSeen'
      BY <3>3
    <3>6. RunnerFlag' /\ NoLostChange'
      BY <3>1, <3>2
    <3>7. LockHeld' /\ ConnStates' /\ NoGhostClient'
      BY <3>2
    <3> QED BY <3>4, <3>5, <3>6, <3>7
  <2> QED BY <2>1, <2>2, <2>3
<1> QED BY <1>1, <1>2, <1>3 DEF Trigger

\* The end of a round keeps the invariant: the runner ends only if the flag
\* is still 1.
LEMMA RoundStep == ASSUME Inv, RunnerSwap \/ RunnerAgain PROVE Inv'
<1> USE BroadcastAssumption DEF Inv, TypeOK, SwapSeen, RunnerFlag, NoLostChange, LockHeld, ConnStates, NoGhostClient, Broadcasters, wireVars
<1>1. CASE RunnerSwap
  BY <1>1 DEF RunnerSwap
<1>2. CASE RunnerAgain
  BY <1>2 DEF RunnerAgain
<1> QED BY <1>1, <1>2

\* A step of BroadcastState keeps the invariant.
LEMMA BroadcastStep == ASSUME Inv, NEW b \in Broadcasters, Broadcast(b) PROVE Inv'
<1> USE BroadcastAssumption DEF Inv, TypeOK, SwapSeen, RunnerFlag, NoLostChange, LockHeld, ConnStates, NoGhostClient, Broadcasters, wireVars, changeVars
<1>1. CASE Build(b)
  BY <1>1 DEF Build
<1>2. CASE Lock(b)
  BY <1>2 DEF Lock
<1>3. ASSUME NEW c \in peers[b], Write(b, c) PROVE Inv'
  BY <1>3 DEF Write, Written, removeClient
<1>4. CASE Unlock(b)
  BY <1>4 DEF Unlock
<1> QED BY <1>1, <1>2, <1>3, <1>4 DEF Broadcast

\* A step of HandleWebSocket, or the shutdown, keeps the invariant.
LEMMA ConnStep == ASSUME Inv, NEW c \in Conns, Serve(c) \/ Message(c) \/ ReadFails(c) PROVE Inv'
<1> USE BroadcastAssumption DEF Inv, TypeOK, SwapSeen, RunnerFlag, NoLostChange, LockHeld, ConnStates, NoGhostClient, Broadcasters, wireVars, changeVars
<1>1. CASE Accept(c)
  BY <1>1 DEF Accept
<1>2. CASE InitialBuild(c)
  BY <1>2 DEF InitialBuild
<1>3. CASE InitialWrite(c)
  BY <1>3 DEF InitialWrite, AfterInitial, Written
<1>4. CASE Answer(c)
  BY <1>4 DEF Answer, AnswerLock
<1>5. CASE AnswerWrite(c)
  BY <1>5 DEF AnswerWrite
<1>6. CASE Remove(c)
  BY <1>6 DEF Remove, removeClient
<1>7. CASE Message(c)
  BY <1>7 DEF Message
<1>8. CASE ReadFails(c)
  BY <1>8 DEF ReadFails
<1> QED BY <1>1, <1>2, <1>3, <1>4, <1>5, <1>6, <1>7, <1>8 DEF Serve

\* Every step keeps the invariant.
LEMMA NextInv == Inv /\ [Next]_vars => Inv'
<1> SUFFICES ASSUME Inv, [Next]_vars PROVE Inv'
  OBVIOUS
<1>1. CASE CloseAll
  BY <1>1 DEF CloseAll, Inv, TypeOK, SwapSeen, RunnerFlag, NoLostChange, LockHeld, ConnStates, NoGhostClient, changeVars
<1>2. CASE UNCHANGED vars
  BY <1>2 DEF vars, Inv, TypeOK, SwapSeen, RunnerFlag, NoLostChange, LockHeld, ConnStates, NoGhostClient, changeVars, wireVars
<1> QED BY <1>1, <1>2, WriterStep, RoundStep, BroadcastStep, ConnStep DEF Next
\* The inductive invariant holds in every reachable state.
THEOREM BroadcastInvariant == Spec => []Inv
  BY InitInv, NextInv, PTL DEF Spec

\* Type correctness for any number of goroutines, connections and changes.
THEOREM BroadcastTypes == Spec => []TypeOK
<1>1. Inv => TypeOK
  BY DEF Inv
<1> QED BY <1>1, BroadcastInvariant, PTL

\* triggerHandler never loses the last change of a burst, however many
\* goroutines trigger at once.
THEOREM ChangesKept == Spec => []NoLostChange
<1>1. Inv => NoLostChange
  BY DEF Inv
<1> QED BY <1>1, BroadcastInvariant, PTL

\* writesMu keeps the frames of any two goroutines on one socket apart.
THEOREM WritersApart == Spec => []OneWriter
<1>1. Inv => OneWriter
  <2> SUFFICES ASSUME Inv, NEW a \in Broadcasters, NEW b \in Broadcasters, a # b
               PROVE  Writing(a) \cap Writing(b) = {}
    BY DEF OneWriter
  <2>1. Writing(a) = {} \/ holder = a
    BY DEF Inv, LockHeld, Writing
  <2>2. Writing(b) = {} \/ holder = b
    BY DEF Inv, LockHeld, Writing
  <2> QED BY <2>1, <2>2
<1> QED BY <1>1, BroadcastInvariant, PTL

\* A connection leaves the registry before its goroutine ends, on every path.
THEOREM NoGhosts == Spec => []NoGhostClient
<1>1. Inv => NoGhostClient
  BY DEF Inv
<1> QED BY <1>1, BroadcastInvariant, PTL
=============================================================================
