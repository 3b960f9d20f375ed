---------------------------- MODULE PushDelivery ----------------------------
(***************************************************************************)
(* Web Push delivery (internal/push): the durable store, the dispatcher    *)
(* that sends from it, and the service that opens and closes both.         *)
(*                                                                         *)
(* Every change of the store is one mutate: under Store.mu it computes the *)
(* next diskState, saves it by write, fsync and rename, and only then      *)
(* adopts it and cancels the requests whose delivery it removed.  A save   *)
(* that fails leaves the store unavailable until the process restarts.     *)
(* Workers read the store in critical sections of their own before and     *)
(* after a request, so every step of a worker is an action.                *)
(***************************************************************************)
EXTENDS Naturals, FiniteSets, Sequences, Functions

CONSTANTS
  Events,      \* event keys of notifications
  Tests,       \* event keys of test notifications (random, used once)
  Subs,        \* subscription IDs (endpoints)
  Workers,     \* slots for concurrent requests (the code allows two)
  NoItem,      \* no delivery
  MaxSubscriptions, MaxPending, MaxDedupe, MaxTests,  \* limits of the code
  MaxEpochs,   \* bound: epochs started
  MaxStops,    \* bound: times the process crashes or closes
  MaxRegs,     \* bound: registrations of one endpoint
  MaxAdmits    \* bound: admissions of one event

ASSUME PushAssumption ==
  /\ MaxSubscriptions \in Nat /\ MaxPending \in Nat /\ MaxDedupe \in Nat /\ MaxTests \in Nat
  /\ MaxEpochs \in Nat /\ MaxStops \in Nat /\ MaxRegs \in Nat /\ MaxAdmits \in Nat
  /\ Events \cap Tests = {}

VARIABLES
  data,      \* Store.data: the diskState in memory
  disk,      \* what state.json holds, or is to hold first
  files,     \* "none": a new data directory; "locked": writer.lock without
             \* state.json; "saved": both
  failed,    \* Store.failed
  up,        \* the service is running (its store is open)
  stopping,  \* Dispatcher.ctx is cancelled
  batch,     \* what is left of the snapshot Dispatcher.run is working through
  wk,        \* workers: progress, delivery, cancellation, answer
  expired,   \* keys whose event is too old to be current
  epochs, stops,
  \* history
  regs,      \* registrations of each endpoint so far
  admitted,  \* times an event was admitted by a change that was saved
  forgotten, \* event keys pushed out of the full list of keys seen
  sends,     \* requests sent for each delivery ID
  used       \* random test keys drawn

admissions == <<admitted, forgotten>>
storeVars == <<data, disk, failed, admissions>>
historyVars == <<regs, sends, used>>
vars == <<storeVars, up, stopping, batch, wk, expired, epochs, stops, files, historyVars>>

Keys == Events \cup Tests
IDs == Keys \X Subs
ID(d) == <<d.key, d.sub>>
IsTest(d) == d.key \in Tests

\* diskState: registered endpoints and their preferences, the epoch, the keys
\* seen, the queue, and the endpoints and the number of recent tests.  A
\* delivery also carries, as history, the registration it was queued for and
\* the admission it came from.
EmptyState ==
  [subs |-> {}, wants |-> [s \in Subs |-> FALSE], epoch |-> 0, dedupe |-> <<>>,
   queue |-> {}, recent |-> {}, tests |-> 0]

IdleWorker == [pc |-> "idle", item |-> NoItem, cancelled |-> FALSE, answer |-> "none"]
Idle(w) == wk[w].pc = "idle"
Available == up /\ ~failed

-----------------------------------------------------------------------------
(* Store.mutate *)

QueuedIDs(st) == {ID(q) : q \in st.queue}

\* A worker's cancel function is in Store.active from Register to its return.
Active(w) == wk[w].pc \in {"registered", "sending", "answered"}

\* The workers after a successful mutate: requests whose delivery left the
\* queue are cancelled.
Retire(next) ==
  [w \in Workers |-> IF Active(w) /\ ID(wk[w].item) \notin QueuedIDs(next)
                     THEN [wk[w] EXCEPT !.cancelled = TRUE] ELSE wk[w]]

CancelAll == [w \in Workers |-> IF Active(w) THEN [wk[w] EXCEPT !.cancelled = TRUE] ELSE wk[w]]

\* Store.save: write, fsync and close a temporary file, rename it, fsync the
\* directory.  A failure after the rename leaves the new state on disk.
SaveOk(next) == data' = next /\ disk' = next /\ UNCHANGED failed
SaveFails(next) == failed' = TRUE /\ disk' \in {disk, next} /\ UNCHANGED data

\* mutate of a change that touches no event's admission; back are the workers
\* whose goroutine returns after it.
mutate(next, back) ==
  LET Returned(ws) == [w \in Workers |-> IF w \in back THEN IdleWorker ELSE ws[w]]
  IN  \/ SaveOk(next) /\ wk' = Returned(Retire(next)) /\ UNCHANGED admissions
      \/ SaveFails(next) /\ wk' = Returned(CancelAll) /\ UNCHANGED admissions

-----------------------------------------------------------------------------
(* The API: Register, Delete, QueueTest. *)

Drop(st, gone) == [st EXCEPT !.queue = @ \ gone]

\* Mutant of Registered: a narrower preference leaves the queue alone.
BugRegistered(s, want) == [data EXCEPT !.subs = @ \cup {s}, !.wants[s] = want]

\* Register keeps the test time of an endpoint it knows; a narrower preference
\* removes the deliveries it no longer allows.
Registered(s, want) ==
  LET unwanted == {q \in data.queue : q.sub = s /\ ~IsTest(q) /\ ~want}
  IN  Drop([data EXCEPT !.subs = @ \cup {s}, !.wants[s] = want], unwanted)

Register(s, want) ==
  /\ Available
  /\ s \in data.subs \/ (Cardinality(data.subs) < MaxSubscriptions /\ regs[s] < MaxRegs)
  /\ regs' = IF s \in data.subs THEN regs ELSE [regs EXCEPT ![s] = @ + 1]
  /\ mutate(Registered(s, want), {})
  /\ UNCHANGED <<up, stopping, batch, expired, epochs, stops, files, sends, used>>

\* Mutant of Unregistered: the queue keeps the deliveries of the endpoint.
BugUnregistered(st, s) == [st EXCEPT !.subs = @ \ {s}, !.wants[s] = FALSE, !.recent = @ \ {s}]

\* The subscription goes with its preferences, test time and deliveries.
Unregistered(st, s) ==
  LET own == {q \in st.queue : q.sub = s}
  IN  Drop([st EXCEPT !.subs = @ \ {s}, !.wants[s] = FALSE, !.recent = @ \ {s}], own)

Delete(s) ==
  /\ Available /\ s \in data.subs
  /\ mutate(Unregistered(data, s), {})
  /\ UNCHANGED <<up, stopping, batch, expired, epochs, stops, files, historyVars>>

\* One test per endpoint and MaxTests altogether within a minute.
TestAllowed(s) ==
  /\ Cardinality(data.queue) < MaxPending
  /\ data.tests < MaxTests /\ s \notin data.recent

QueueTest(s, t) ==
  /\ Available /\ s \in data.subs /\ TestAllowed(s)
  /\ t \notin used /\ used' = used \cup {t}
  /\ mutate([data EXCEPT !.tests = @ + 1, !.recent = @ \cup {s},
                         !.queue = @ \cup {[key |-> t, sub |-> s, epoch |-> 0, attempts |-> 0, due |-> TRUE,
                                            reg |-> regs[s], admission |-> 1]}], {})
  /\ UNCHANGED <<up, stopping, batch, expired, epochs, stops, files, regs, sends>>

-----------------------------------------------------------------------------
(* The processor's calls: ResetEpoch and Enqueue. *)

\* Deliveries of the old epoch go; tests stay.
InEpoch(st, epoch) ==
  LET old == {q \in st.queue : ~IsTest(q)}
  IN  Drop([st EXCEPT !.epoch = epoch], old)

Reset ==
  /\ Available /\ epochs < MaxEpochs
  /\ epochs' = epochs + 1
  /\ mutate(InEpoch(data, epochs'), {})
  /\ UNCHANGED <<up, stopping, batch, expired, stops, files, historyVars>>

\* Mutant of remember: the key is not kept.
BugRemember(st, e) == st

\* remember: the newest MaxDedupe keys.
remember(st, e) ==
  LET seen == Append(st.dedupe, e)
  IN  [st EXCEPT !.dedupe = IF Len(seen) > MaxDedupe THEN Tail(seen) ELSE seen]

\* The history of a change that admits e and is saved: the oldest key of a full
\* list is forgotten.
Admit(e) ==
  /\ admitted' = [admitted EXCEPT ![e] = @ + 1]
  /\ forgotten' = IF Len(data.dedupe) < MaxDedupe THEN forgotten
                  ELSE forgotten \cup {Head(Append(data.dedupe, e))}

Targets == {s \in data.subs : data.wants[s]}

\* A new key is remembered; unless the processor primes, one delivery per
\* subscription that wants it is queued.  A queue that has no room for all of
\* them refuses the event and forgets its key: nothing changes.
Enqueue(e, silent) ==
  /\ Available /\ e \notin Range(data.dedupe) /\ admitted[e] < MaxAdmits
  /\ e \in expired => silent
  /\ silent \/ Targets = {} \/ Cardinality(data.queue) + Cardinality(Targets) <= MaxPending
  /\ LET new == {[key |-> e, sub |-> s, epoch |-> data.epoch, attempts |-> 0, due |-> TRUE,
                  reg |-> regs[s], admission |-> admitted[e] + 1] : s \in IF silent THEN {} ELSE Targets}
         next == [remember(data, e) EXCEPT !.queue = @ \cup new]
     IN  \/ SaveOk(next) /\ wk' = Retire(next) /\ Admit(e)
         \/ /\ SaveFails(next) /\ wk' = CancelAll
            /\ IF disk' = next THEN Admit(e) ELSE UNCHANGED admissions
  /\ UNCHANGED <<up, stopping, batch, expired, epochs, stops, files, historyVars>>

-----------------------------------------------------------------------------
(* Dispatcher.run: a snapshot of what is due, then one request per item.   *)

Stale(st, q) == q.key \in expired \/ q.attempts >= 3 \/ (~IsTest(q) /\ q.epoch # st.epoch)

\* pending prunes what can no longer be sent and returns what is due.
Tick ==
  /\ Available /\ ~stopping /\ batch = {}
  /\ LET stale == {q \in data.queue : Stale(data, q)}
         next == Drop(data, stale)
         due == {q \in next.queue : q.due}
     IN  IF next = data
         THEN /\ due # {} /\ batch' = due
              /\ UNCHANGED <<storeVars, wk>>
         ELSE \/ SaveOk(next) /\ wk' = Retire(next) /\ batch' = due /\ UNCHANGED admissions
              \/ SaveFails(next) /\ wk' = CancelAll /\ UNCHANGED <<batch, admissions>>
  /\ UNCHANGED <<up, stopping, expired, epochs, stops, files, historyVars>>

\* Mutant of Inflight: an ID is not removed when its request is finished.
BugInflight == {i \in IDs : sends[i] > 0} \cup {ID(wk[w].item) : w \in {v \in Workers : ~Idle(v)}}

Inflight == {ID(wk[w].item) : w \in {v \in Workers : ~Idle(v)}}

\* The next item of the snapshot: skipped if in flight, started if a slot is
\* free; a full house ends the round.
RunNext(item) ==
  /\ up /\ item \in batch
  /\ \/ /\ \A w \in Workers : ~Idle(w)
        /\ batch' = {} /\ UNCHANGED wk
     \/ /\ \E w \in Workers : Idle(w)
        /\ ID(item) \in Inflight
        /\ batch' = batch \ {item} /\ UNCHANGED wk
     \/ /\ ID(item) \notin Inflight
        /\ \E w \in Workers :
             Idle(w) /\ wk' = [wk EXCEPT ![w] = [IdleWorker EXCEPT !.pc = "launched", !.item = item]]
        /\ batch' = batch \ {item}
  /\ UNCHANGED <<storeVars, up, stopping, expired, epochs, stops, files, historyVars>>

-----------------------------------------------------------------------------
(* Dispatcher.deliver *)

\* The very attempt that was in the snapshot is still queued.
QueuedAs(item) == \E q \in data.queue : ID(q) = ID(item) /\ q.attempts = item.attempts

\* Dispatcher.current
Current(item) ==
  /\ ~failed /\ item.key \notin expired
  /\ item.sub \in data.subs
  /\ IsTest(item) \/ (data.wants[item.sub] /\ item.epoch = data.epoch)
  /\ QueuedAs(item)

Move(w, to) == wk' = [wk EXCEPT ![w].pc = to]
Leave(w) == wk' = [wk EXCEPT ![w] = IdleWorker]
dispatcherFrame == <<storeVars, up, stopping, batch, expired, epochs, stops, files, regs, used>>

DeliverCheck(w) ==
  /\ wk[w].pc = "launched"
  /\ IF Current(wk[w].item) /\ ~stopping THEN Move(w, "checked") ELSE Leave(w)
  /\ UNCHANGED <<dispatcherFrame, sends>>

\* The cancel function is registered under a lock of its own; a delivery about
\* to expire (ttl < 1) is left to pending.
DeliverRegister(w) ==
  /\ wk[w].pc = "checked"
  /\ IF wk[w].item.key \in expired THEN Leave(w) ELSE Move(w, "registered")
  /\ UNCHANGED <<dispatcherFrame, sends>>

\* Mutant of Guarded: no check after the cancel function is registered.
BugGuarded(w) == ~wk[w].cancelled /\ ~stopping

\* guardedClient.Do: after encryption and before the network, once more.
Guarded(w) == Current(wk[w].item) /\ ~wk[w].cancelled /\ ~stopping

DeliverSend(w) ==
  /\ wk[w].pc = "registered"
  /\ IF Guarded(w)
     THEN /\ Move(w, "sending")
          /\ sends' = [sends EXCEPT ![ID(wk[w].item)] = @ + 1]
     ELSE /\ wk' = [wk EXCEPT ![w].pc = "answered", ![w].answer = "transient"]
          /\ UNCHANGED sends
  /\ UNCHANGED dispatcherFrame

\* The provider answers, or the request fails, times out or is cancelled:
\* "transient" is an error, 429 or 5xx; "gone" is 404 or 410.
Answers == {"accepted", "refused", "gone", "transient"}
DeliverAnswer(w, answer) ==
  /\ wk[w].pc = "sending"
  /\ wk' = [wk EXCEPT ![w].pc = "answered", ![w].answer = answer]
  /\ UNCHANGED <<dispatcherFrame, sends>>

\* A transient failure is tried again, three times altogether.
Retries(st, q, answer) == answer = "transient" /\ q.attempts < 2 /\ ~Stale(st, q)

\* Mutant of Finished: a retry does not count.
BugFinished(item, answer) ==
  LET st == IF answer = "gone" THEN Unregistered(data, item.sub) ELSE data
      own == {q \in st.queue : ID(q) = ID(item)}
  IN  [st EXCEPT !.queue = (@ \ own) \cup {[q EXCEPT !.due = FALSE] : q \in {q \in own : Retries(st, q, answer)}}]

\* finish: an answer to a delivery that is no longer queued changes nothing.
Finished(item, answer) ==
  LET st == IF answer = "gone" THEN Unregistered(data, item.sub) ELSE data
      own == {q \in st.queue : ID(q) = ID(item)}
  IN  [st EXCEPT !.queue = (@ \ own) \cup
         {[q EXCEPT !.attempts = @ + 1, !.due = FALSE] : q \in {q \in own : Retries(st, q, answer)}}]

Finish(w) ==
  /\ wk[w].pc = "answered"
  /\ LET item == wk[w].item
     IN  IF up /\ ~failed /\ QueuedAs(item)
         THEN mutate(Finished(item, wk[w].answer), {w})
         ELSE Leave(w) /\ UNCHANGED storeVars
  /\ UNCHANGED <<up, stopping, batch, expired, epochs, stops, files, historyVars>>

-----------------------------------------------------------------------------
(* Time, shutdown, crash and restart. *)

\* An event becomes too old to send (five minutes).
Expire(k) ==
  /\ k \notin expired /\ k \in {q.key : q \in data.queue}
  /\ expired' = expired \cup {k}
  /\ UNCHANGED <<storeVars, up, stopping, batch, wk, epochs, stops, files, historyVars>>

AllDue(st) == [st EXCEPT !.queue = {[q EXCEPT !.due = TRUE] : q \in @}]

\* The retry delays run out.
BackoffElapses ==
  /\ \E q \in data.queue \cup disk.queue : ~q.due
  /\ data' = AllDue(data) /\ disk' = AllDue(disk)
  /\ UNCHANGED <<failed, admissions, up, stopping, batch, wk, expired, epochs, stops, files,
                 historyVars>>

NoneRecent(st) == [st EXCEPT !.recent = {}, !.tests = 0]

\* A minute passes: the tests before it no longer count.
MinutePasses ==
  /\ data.tests + disk.tests > 0
  /\ data' = NoneRecent(data) /\ disk' = NoneRecent(disk)
  /\ UNCHANGED <<failed, admissions, up, stopping, batch, wk, expired, epochs, stops, files,
                 historyVars>>

\* Service.Close: the dispatcher is cancelled and waited for, then the store
\* is closed.
CloseDispatcher ==
  /\ up /\ ~stopping /\ stops < MaxStops
  /\ stopping' = TRUE
  /\ UNCHANGED <<storeVars, up, batch, wk, expired, epochs, stops, files, historyVars>>

Down ==
  /\ up' = FALSE /\ stopping' = FALSE /\ batch' = {}
  /\ wk' = [w \in Workers |-> IdleWorker]
  /\ data' = disk   \* memory is gone
  /\ failed' = FALSE
  /\ stops' = stops + 1

CloseStore ==
  /\ up /\ stopping /\ batch = {} /\ \A w \in Workers : Idle(w)
  /\ Down
  /\ UNCHANGED <<disk, admissions, expired, epochs, files, historyVars>>

Crash ==
  /\ up /\ stops < MaxStops
  /\ Down
  /\ UNCHANGED <<disk, admissions, expired, epochs, files, historyVars>>

\* The very first start: OpenStore creates writer.lock, then load saves an empty
\* state with a new application key.  A failure or a crash before the rename
\* leaves the lock alone in the directory.
FirstSave ==
  /\ ~up /\ files = "none"
  /\ files' \in {"locked", "saved"}
  /\ UNCHANGED <<storeVars, up, stopping, batch, wk, expired, epochs, stops, historyVars>>

\* validDiskState, but for the deliveries' IDs, which it wants to be distinct.
Bounded(st) ==
  /\ Cardinality(st.subs) <= MaxSubscriptions /\ Len(st.dedupe) <= MaxDedupe
  /\ Cardinality(st.queue) <= MaxPending /\ st.tests <= MaxTests
  /\ \A q \in st.queue : q.sub \in st.subs /\ q.attempts <= 3
  /\ IsInjective(st.dedupe)
Loadable(st) == Bounded(st) /\ \A q, r \in st.queue : ID(q) = ID(r) => q = r

\* NewService: OpenStore, which refuses a lock without a state, load, then the
\* startup epoch.  If that cannot be saved the process runs without push.
Open ==
  /\ ~up /\ files = "saved" /\ Loadable(disk) /\ epochs < MaxEpochs
  /\ epochs' = epochs + 1
  /\ \/ /\ SaveOk(InEpoch(disk, epochs')) /\ up' = TRUE
     \/ /\ disk' \in {disk, InEpoch(disk, epochs')} /\ data' = disk'
        /\ UNCHANGED <<failed, up>>
  /\ UNCHANGED <<admissions, stopping, batch, wk, expired, stops, files, historyVars>>

Init ==
  /\ data = EmptyState /\ disk = EmptyState /\ files = "none" /\ failed = FALSE
  /\ up = FALSE /\ stopping = FALSE /\ batch = {}
  /\ wk = [w \in Workers |-> IdleWorker]
  /\ expired = {} /\ epochs = 0 /\ stops = 0
  /\ regs = [s \in Subs |-> 0] /\ admitted = [e \in Events |-> 0] /\ forgotten = {}
  /\ sends = [i \in IDs |-> 0] /\ used = {}

Deliver(w) ==
  \/ DeliverCheck(w) \/ DeliverRegister(w) \/ DeliverSend(w)
  \/ \E answer \in Answers : DeliverAnswer(w, answer)
  \/ Finish(w)

Next ==
  \/ \E s \in Subs : (\E want \in BOOLEAN : Register(s, want)) \/ Delete(s) \/ (\E t \in Tests : QueueTest(s, t))
  \/ Reset \/ (\E e \in Events, silent \in BOOLEAN : Enqueue(e, silent))
  \/ Tick \/ (\E item \in batch : RunNext(item))
  \/ \E w \in Workers : Deliver(w)
  \/ (\E k \in Keys : Expire(k)) \/ BackoffElapses \/ MinutePasses
  \/ CloseDispatcher \/ CloseStore \/ Crash \/ FirstSave \/ Open

Spec == Init /\ [][Next]_vars

\* The dispatcher's goroutines run on, every request ends within ten seconds
\* and retry delays run out.  Nothing forces the API, the processor or a stop.
Fairness ==
  /\ WF_vars(Tick) /\ WF_vars(\E item \in batch : RunNext(item))
  /\ \A w \in Workers : WF_vars(Deliver(w))
  /\ WF_vars(BackoffElapses)

LiveSpec == Spec /\ Fairness

-----------------------------------------------------------------------------
(* Properties. *)

Deliveries ==
  [key : Keys, sub : Subs, epoch : Nat, attempts : 0..3, due : BOOLEAN, reg : Nat, admission : Nat]

DiskStates ==
  [subs : SUBSET Subs, wants : [Subs -> BOOLEAN], epoch : Nat, dedupe : Seq(Events),
   queue : SUBSET Deliveries, recent : SUBSET Subs, tests : Nat]

StateType ==
  /\ data \in DiskStates /\ disk \in DiskStates
  /\ failed \in BOOLEAN /\ up \in BOOLEAN /\ stopping \in BOOLEAN
  /\ batch \subseteq Deliveries
  /\ wk \in [Workers -> [pc : {"idle", "launched", "checked", "registered", "sending", "answered"},
                         item : Deliveries \cup {NoItem}, cancelled : BOOLEAN, answer : Answers \cup {"none"}]]
  /\ expired \subseteq Keys /\ epochs \in Nat /\ stops \in Nat
  /\ regs \in [Subs -> Nat] /\ admitted \in [Events -> Nat] /\ forgotten \subseteq Events
  /\ sends \in [IDs -> Nat] /\ used \subseteq Tests

\* Types of the store, the dispatcher and its workers.
TypeOK == StateType /\ files \in {"none", "locked", "saved"}

\* A request that has not been cancelled is for an attempt the store still
\* holds: unsubscribing, a narrower preference, a source change or a failed
\* save retires it, even if it came between the two checks of deliver.
RetiredCancelled ==
  \A w \in Workers :
    wk[w].pc = "sending" /\ ~wk[w].cancelled => ~failed /\ QueuedAs(wk[w].item)

\* What is queued may be sent: its subscription exists and wants it, and its
\* epoch is the current one.
QueueAllowed ==
  \A q \in data.queue :
    q.sub \in data.subs /\ (IsTest(q) \/ (data.wants[q.sub] /\ q.epoch = data.epoch))

\* Events admitted more than once.
Repeated == {e \in Events : admitted[e] > 1}

\* An event is admitted once, across failed saves and restarts, unless MaxDedupe
\* newer keys pushed its key out of the list of keys seen.
AdmittedOnce == Repeated \subseteq forgotten

\* Once the first save was made, whatever a crash or a failed save leaves on disk
\* can be opened again, with one exception: an event that came back after its
\* key was forgotten may be queued twice for one subscription, and validDiskState
\* refuses the two equal IDs.  Without that first save OpenStore refuses the
\* directory for ever, but nobody has registered in it.
SavedStateLoads ==
  IF files = "saved"
  THEN Bounded(disk) /\ \A q, r \in disk.queue : ID(q) = ID(r) => q = r \/ q.key \in Repeated
  ELSE disk = EmptyState

\* An answer is only applied to the registration its request was made for: a
\* late 404 or 410 never removes an endpoint that registered again.
AnswersOwnRegistration ==
  \A w \in Workers :
    ~Idle(w) /\ wk[w].item.key \notin Repeated /\ ~failed /\ QueuedAs(wk[w].item)
      => wk[w].item.reg = regs[wk[w].item.sub]

\* A notification is sent at most three times, whatever fails and however often
\* the process restarts; a test can be repeated once more per restart.
SendBound ==
  \A i \in IDs : i[1] \notin Repeated => sends[i] <= IF i[1] \in Tests THEN 3 + stops ELSE 3

\* Every delivery leaves the queue (sent, refused, given up or expired) unless
\* the process stops or its disk fails.
QueueDrains ==
  \A i \in IDs : i \in QueuedIDs(data) ~> (i \notin QueuedIDs(data) \/ ~Available \/ stopping)
=============================================================================
