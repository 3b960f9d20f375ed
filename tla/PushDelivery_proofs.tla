------------------------ MODULE PushDelivery_proofs ------------------------
(***************************************************************************)
(* Proofs about Web Push delivery, for any events, tests, endpoints and    *)
(* number of concurrent requests, and any limits.                          *)
(***************************************************************************)
EXTENDS PushDelivery, FiniteSetTheorems, SequenceTheorems, TLAPS

(***************************************************************************)
(* What a state of the store satisfies, in memory and on disk.  rg, ad and *)
(* us are the registrations, admissions and test keys so far.              *)
(***************************************************************************)

\* The limits of validDiskState.
Limited(st) ==
  /\ IsFiniteSet(st.subs) /\ Cardinality(st.subs) <= MaxSubscriptions
  /\ IsFiniteSet(st.queue) /\ Cardinality(st.queue) <= MaxPending
  /\ st.tests <= MaxTests

Distinct(st) == Len(st.dedupe) <= MaxDedupe /\ IsInjective(st.dedupe)

\* What is queued may be sent, and is given up before a fourth attempt.
Allowed(st) ==
  \A q \in st.queue :
    /\ q.sub \in st.subs /\ q.attempts <= 2
    /\ IsTest(q) \/ (st.wants[q.sub] /\ q.epoch = st.epoch)

\* A delivery is for the latest registration of its endpoint.
Owned(st, rg) == \A q \in st.queue : q.reg = rg[q.sub]

\* A test key that was drawn, an event that was admitted.
Known(k, ad, us) == (k \in Tests /\ k \in us) \/ (k \in Events /\ ad[k] >= 1)

KnownQueue(st, ad, us) == \A q \in st.queue : Known(q.key, ad, us)

\* A delivery ID is queued once, unless its event was admitted again.
Once(k, ad) == k \in Events => ad[k] <= 1

UniqueQueue(st, ad) ==
  \A q, r \in st.queue : ID(q) = ID(r) /\ Once(q.key, ad) => q = r

Sound(st, rg, ad, us) ==
  /\ st \in DiskStates
  /\ Limited(st) /\ Distinct(st) /\ Allowed(st)
  /\ Owned(st, rg) /\ KnownQueue(st, ad, us) /\ UniqueQueue(st, ad)

-----------------------------------------------------------------------------
(* Sets and sequences. *)

\* The image of a finite set is no larger.
LEMMA ImageFinite ==
  ASSUME NEW S, IsFiniteSet(S), NEW f, DOMAIN f = S, NEW T, T \subseteq {f[x] : x \in S}
  PROVE  IsFiniteSet(T) /\ Cardinality(T) <= Cardinality(S) /\ Cardinality(T) \in Nat
<1> DEFINE U == {x \in S : f[x] \in T}
           g == [x \in U |-> f[x]]
<1>1. IsFiniteSet(U) /\ Cardinality(U) <= Cardinality(S)
  BY FS_Subset
<1>2. g \in Surjection(U, T)
  BY DEF Surjection
<1>3. IsFiniteSet(T) /\ Cardinality(T) <= Cardinality(U)
  BY <1>1, <1>2, FS_Surjection
<1> QED BY <1>1, <1>3, FS_CardinalityType

LEMMA SubsetFinite ==
  ASSUME NEW S, IsFiniteSet(S), NEW T, T \subseteq S
  PROVE  IsFiniteSet(T) /\ Cardinality(T) <= Cardinality(S) /\ Cardinality(T) \in Nat /\ Cardinality(S) \in Nat
BY FS_Subset, FS_CardinalityType

\* remember keeps the newest MaxDedupe keys, each once; it drops at most the
\* oldest.
LEMMA RememberKeeps ==
  ASSUME NEW st \in DiskStates, Distinct(st), NEW e \in Events, e \notin Range(st.dedupe)
  PROVE  LET next == remember(st, e)
         IN  /\ next = [st EXCEPT !.dedupe = next.dedupe]
             /\ next.dedupe \in Seq(Events)
             /\ Distinct(next)
             /\ Range(st.dedupe) \cup {e}
                  \subseteq Range(next.dedupe) \cup
                     (IF Len(st.dedupe) < MaxDedupe THEN {} ELSE {Head(Append(st.dedupe, e))})
             /\ Head(Append(st.dedupe, e)) \in Events
<1> DEFINE d == st.dedupe
           seen == Append(d, e)
           next == remember(st, e)
<1>1. d \in Seq(Events) /\ Len(d) \in Nat /\ Len(d) <= MaxDedupe /\ MaxDedupe \in Nat
  BY PushAssumption DEF DiskStates, Distinct
<1>2. /\ seen \in Seq(Events) /\ Len(seen) = Len(d) + 1 /\ seen # <<>>
      /\ \A i \in 1..Len(d) : seen[i] = d[i]
      /\ seen[Len(d) + 1] = e
  BY <1>1, AppendProperties
<1>3. DOMAIN d = 1..Len(d) /\ DOMAIN seen = 1..(Len(d) + 1)
  BY <1>1, <1>2, LenProperties
<1>4. IsInjective(seen)
  BY <1>1, <1>2, <1>3 DEF IsInjective, Distinct, Range
<1>5. Range(seen) = Range(d) \cup {e}
  BY <1>1, <1>2, <1>3 DEF Range
<1>6. Head(seen) = seen[1] /\ Head(seen) \in Events
  BY <1>1, <1>2
<1>0. next = [st EXCEPT !.dedupe = IF Len(seen) > MaxDedupe THEN Tail(seen) ELSE seen]
  BY Zenon DEF remember
<1>a. \A x : [st EXCEPT !.dedupe = x].dedupe = x
  BY DEF DiskStates
<1>7. CASE Len(d) < MaxDedupe
  <2>0. ~(Len(seen) > MaxDedupe)
    BY <1>1, <1>2, <1>7
  <2>1. next = [st EXCEPT !.dedupe = seen] /\ next.dedupe = seen
    BY <1>0, <1>a, <2>0, Zenon
  <2> QED BY <1>1, <1>2, <1>4, <1>5, <1>6, <1>7, <2>1 DEF Distinct
<1>8. CASE ~(Len(d) < MaxDedupe)
  <2>0. Len(seen) > MaxDedupe
    BY <1>1, <1>2, <1>8
  <2>1. next = [st EXCEPT !.dedupe = Tail(seen)] /\ next.dedupe = Tail(seen)
    BY <1>0, <1>a, <2>0, Zenon
  <2>2. /\ Tail(seen) \in Seq(Events) /\ Len(Tail(seen)) = Len(d)
        /\ \A i \in 1..Len(d) : Tail(seen)[i] = seen[i + 1]
    BY <1>1, <1>2, HeadTailProperties
  <2>3. DOMAIN Tail(seen) = 1..Len(d)
    BY <2>2, LenProperties
  <2>4. IsInjective(Tail(seen))
    <3> SUFFICES ASSUME NEW a \in 1..Len(d), NEW b \in 1..Len(d), Tail(seen)[a] = Tail(seen)[b]
                 PROVE  a = b
      BY <2>3 DEF IsInjective
    <3>1. seen[a + 1] = seen[b + 1] /\ a + 1 \in DOMAIN seen /\ b + 1 \in DOMAIN seen
      BY <1>1, <1>3, <2>2
    <3> QED BY <1>1, <1>4, <3>1 DEF IsInjective
  <2>5. Range(seen) \subseteq Range(Tail(seen)) \cup {Head(seen)}
    <3>1. ASSUME NEW i \in 1..(Len(d) + 1), i # 1
          PROVE  \E j \in 1..Len(d) : seen[i] = Tail(seen)[j]
      <4>1. i - 1 \in 1..Len(d) /\ seen[i] = Tail(seen)[i - 1]
        BY <1>1, <2>2, <3>1
      <4> QED BY <4>1
    <3> SUFFICES ASSUME NEW x \in Range(seen), x # Head(seen)
                 PROVE  x \in Range(Tail(seen))
      OBVIOUS
    <3>2. PICK i \in 1..(Len(d) + 1) : x = seen[i]
      BY <1>3, Zenon DEF Range
    <3>3. PICK j \in 1..Len(d) : x = Tail(seen)[j]
      BY <1>6, <3>1, <3>2
    <3> QED BY <2>3, <3>3, Zenon DEF Range
  <2> QED BY <1>1, <1>5, <1>6, <1>8, <2>1, <2>2, <2>4, <2>5 DEF Distinct
<1> QED BY <1>7, <1>8

-----------------------------------------------------------------------------
(* What the store's operations make of a sound state. *)

\* next keeps the keys seen and, of each delivery ID, all or nothing.
Pruned(st, next) ==
  /\ next.dedupe = st.dedupe
  /\ next.queue \subseteq st.queue
  /\ \A q \in st.queue, r \in next.queue : ID(q) = ID(r) => q \in next.queue

LEMMA SoundMonotone ==
  ASSUME NEW st, NEW rg, NEW ad \in [Events -> Nat], NEW us, Sound(st, rg, ad, us),
         NEW bd \in [Events -> Nat], \A e \in Events : ad[e] <= bd[e],
         NEW vs, us \subseteq vs
  PROVE  Sound(st, rg, bd, vs)
<1>1. \A k : Known(k, ad, us) => Known(k, bd, vs)
  BY DEF Known
<1>2. \A k : Once(k, bd) => Once(k, ad)
  BY DEF Once
<1> QED BY <1>1, <1>2 DEF Sound, KnownQueue, UniqueQueue

LEMMA PrunedSound ==
  ASSUME NEW st, NEW rg, NEW ad, NEW us, Sound(st, rg, ad, us),
         NEW next \in DiskStates, Pruned(st, next), Allowed(next),
         IsFiniteSet(next.subs), Cardinality(next.subs) <= MaxSubscriptions,
         next.tests <= MaxTests,
         NEW rh, \A q \in next.queue : rh[q.sub] = rg[q.sub]
  PROVE  Sound(next, rh, ad, us)
<1>1. Limited(next)
  <2>1. IsFiniteSet(st.queue) /\ Cardinality(st.queue) <= MaxPending
    BY DEF Sound, Limited
  <2>2. IsFiniteSet(next.queue) /\ Cardinality(next.queue) <= Cardinality(st.queue)
        /\ Cardinality(next.queue) \in Nat /\ Cardinality(st.queue) \in Nat
    BY <2>1, SubsetFinite DEF Pruned
  <2> QED BY <2>1, <2>2, PushAssumption DEF Limited
<1>2. Distinct(next)
  BY DEF Sound, Pruned, Distinct
<1>3. Owned(next, rh) /\ KnownQueue(next, ad, us) /\ UniqueQueue(next, ad)
  BY DEF Sound, Pruned, Owned, KnownQueue, UniqueQueue
<1> QED BY <1>1, <1>2, <1>3 DEF Sound

\* Drop is a change of the queue alone.
LEMMA DropFields ==
  ASSUME NEW st \in DiskStates, NEW gone
  PROVE  /\ Drop(st, gone) \in DiskStates
         /\ Drop(st, gone).queue = st.queue \ gone
         /\ Drop(st, gone).subs = st.subs /\ Drop(st, gone).wants = st.wants
         /\ Drop(st, gone).epoch = st.epoch /\ Drop(st, gone).dedupe = st.dedupe
         /\ Drop(st, gone).tests = st.tests
BY DEF Drop, DiskStates

\* Register removes what the new preference does not allow, and a new
\* registration finds no delivery of an earlier one.
LEMMA RegisteredSound ==
  ASSUME NEW s \in Subs, NEW want \in BOOLEAN,
         Sound(data, regs, admitted, used), regs \in [Subs -> Nat],
         s \in data.subs \/ Cardinality(data.subs) < MaxSubscriptions
  PROVE  LET next == Registered(s, want)
             rh == IF s \in data.subs THEN regs ELSE [regs EXCEPT ![s] = @ + 1]
         IN  /\ Sound(next, rh, admitted, used) /\ Sound(data, rh, admitted, used)
             /\ Pruned(data, next)
<1> DEFINE base == [data EXCEPT !.subs = @ \cup {s}, !.wants[s] = want]
           gone == {q \in data.queue : q.sub = s /\ ~IsTest(q) /\ ~want}
           next == Registered(s, want)
           rh == IF s \in data.subs THEN regs ELSE [regs EXCEPT ![s] = @ + 1]
<1>0. data \in DiskStates /\ Limited(data) /\ Allowed(data) /\ Owned(data, regs)
  BY DEF Sound
<1>1. /\ base \in DiskStates /\ base.queue = data.queue /\ base.subs = data.subs \cup {s}
      /\ base.wants = [data.wants EXCEPT ![s] = want] /\ base.epoch = data.epoch
      /\ base.dedupe = data.dedupe /\ base.tests = data.tests
  BY <1>0 DEF DiskStates
<1>2. /\ next \in DiskStates /\ next.queue = data.queue \ gone /\ next.subs = data.subs \cup {s}
      /\ next.wants = [data.wants EXCEPT ![s] = want] /\ next.epoch = data.epoch
      /\ next.dedupe = data.dedupe /\ next.tests = data.tests
  <2>1. next = Drop(base, gone)
    BY Zenon DEF Registered
  <2> HIDE DEF base, gone, next
  <2> QED BY <1>1, <2>1, DropFields
<1>3. \A q \in data.queue : rh[q.sub] = regs[q.sub]
  BY <1>0 DEF Allowed, DiskStates, Deliveries
<1>4. Pruned(data, next)
  BY <1>0, <1>2 DEF Pruned, ID, IsTest
<1>5. Allowed(next)
  BY <1>0, <1>2 DEF Allowed, DiskStates, Deliveries, IsTest
<1>6. IsFiniteSet(next.subs) /\ Cardinality(next.subs) <= MaxSubscriptions
  <2>1. IsFiniteSet(data.subs) /\ Cardinality(data.subs) <= MaxSubscriptions /\ Cardinality(data.subs) \in Nat
    BY <1>0, FS_CardinalityType DEF Limited
  <2>2. /\ IsFiniteSet(data.subs \cup {s})
        /\ Cardinality(data.subs \cup {s}) = IF s \in data.subs THEN Cardinality(data.subs) ELSE Cardinality(data.subs) + 1
    BY <2>1, FS_AddElement
  <2> QED BY <1>2, <2>1, <2>2, PushAssumption
<1>7. next.tests <= MaxTests
  BY <1>0, <1>2 DEF Limited
<1>8. Sound(data, rh, admitted, used)
  BY <1>3, <1>0 DEF Sound, Owned
<1>9. \A q \in next.queue : rh[q.sub] = regs[q.sub]
  BY <1>2, <1>3
<1> HIDE DEF next, rh
<1>10. Sound(next, rh, admitted, used)
  BY <1>2, <1>4, <1>5, <1>6, <1>7, <1>9, PrunedSound
<1> QED BY <1>4, <1>8, <1>10 DEF next, rh

\* The deliveries of a subscription go with it.
LEMMA UnregisteredSound ==
  ASSUME NEW st, NEW s \in Subs, Sound(st, regs, admitted, used)
  PROVE  /\ Sound(Unregistered(st, s), regs, admitted, used)
         /\ Pruned(st, Unregistered(st, s))
         /\ Unregistered(st, s).queue = {q \in st.queue : q.sub # s}
<1> DEFINE base == [st EXCEPT !.subs = @ \ {s}, !.wants[s] = FALSE, !.recent = @ \ {s}]
           own == {q \in st.queue : q.sub = s}
           next == Unregistered(st, s)
<1>0. st \in DiskStates /\ Limited(st) /\ Allowed(st)
  BY DEF Sound
<1>1. /\ base \in DiskStates /\ base.queue = st.queue /\ base.subs = st.subs \ {s}
      /\ base.wants = [st.wants EXCEPT ![s] = FALSE] /\ base.epoch = st.epoch
      /\ base.dedupe = st.dedupe /\ base.tests = st.tests
  BY <1>0 DEF DiskStates
<1>2. /\ next \in DiskStates /\ next.queue = st.queue \ own /\ next.subs = st.subs \ {s}
      /\ next.wants = [st.wants EXCEPT ![s] = FALSE] /\ next.epoch = st.epoch
      /\ next.dedupe = st.dedupe /\ next.tests = st.tests
  <2>1. next = Drop(base, own)
    BY Zenon DEF Unregistered
  <2> HIDE DEF base, own, next
  <2> QED BY <1>1, <2>1, DropFields
<1>3. Pruned(st, next)
  BY <1>0, <1>2 DEF Pruned, ID
<1>4. Allowed(next)
  BY <1>0, <1>2 DEF Allowed, DiskStates, Deliveries
<1>5. IsFiniteSet(next.subs) /\ Cardinality(next.subs) <= MaxSubscriptions
  <2>1. IsFiniteSet(st.subs) /\ Cardinality(st.subs) <= MaxSubscriptions
    BY <1>0 DEF Limited
  <2>2. /\ IsFiniteSet(next.subs) /\ Cardinality(next.subs) <= Cardinality(st.subs)
        /\ Cardinality(next.subs) \in Nat /\ Cardinality(st.subs) \in Nat
    BY <1>2, <2>1, SubsetFinite
  <2> QED BY <2>1, <2>2, PushAssumption
<1>6. next.tests <= MaxTests
  BY <1>0, <1>2 DEF Limited
<1>7. next.queue = {q \in st.queue : q.sub # s}
  BY <1>2
<1> HIDE DEF next
<1>8. Sound(next, regs, admitted, used)
  BY <1>2, <1>3, <1>4, <1>5, <1>6, PrunedSound
<1> QED BY <1>3, <1>7, <1>8 DEF next

\* A new epoch leaves only tests.
LEMMA InEpochSound ==
  ASSUME NEW st, NEW epoch \in Nat, Sound(st, regs, admitted, used)
  PROVE  /\ Sound(InEpoch(st, epoch), regs, admitted, used)
         /\ Pruned(st, InEpoch(st, epoch))
         /\ \A q \in InEpoch(st, epoch).queue : IsTest(q)
<1> DEFINE base == [st EXCEPT !.epoch = epoch]
           old == {q \in st.queue : ~IsTest(q)}
           next == InEpoch(st, epoch)
<1>0. st \in DiskStates /\ Limited(st) /\ Allowed(st)
  BY DEF Sound
<1>1. /\ base \in DiskStates /\ base.queue = st.queue /\ base.subs = st.subs
      /\ base.wants = st.wants /\ base.epoch = epoch
      /\ base.dedupe = st.dedupe /\ base.tests = st.tests
  BY <1>0 DEF DiskStates
<1>2. /\ next \in DiskStates /\ next.queue = st.queue \ old /\ next.subs = st.subs
      /\ next.dedupe = st.dedupe /\ next.tests = st.tests
  <2>1. next = Drop(base, old)
    BY Zenon DEF InEpoch
  <2> HIDE DEF base, old, next
  <2> QED BY <1>1, <2>1, DropFields
<1>3. Pruned(st, next) /\ \A q \in next.queue : IsTest(q)
  BY <1>2 DEF Pruned, ID, IsTest
<1>4. Allowed(next)
  BY <1>0, <1>2, <1>3 DEF Allowed
<1>5. IsFiniteSet(next.subs) /\ Cardinality(next.subs) <= MaxSubscriptions /\ next.tests <= MaxTests
  BY <1>0, <1>2 DEF Limited
<1> HIDE DEF next
<1>8. Sound(next, regs, admitted, used)
  BY <1>2, <1>3, <1>4, <1>5, PrunedSound
<1> QED BY <1>3, <1>8 DEF next

\* pending drops a delivery with everything else under its ID.
LEMMA PendingSound ==
  ASSUME NEW st, Sound(st, regs, admitted, used)
  PROVE  LET next == Drop(st, {q \in st.queue : Stale(st, q)})
         IN  Sound(next, regs, admitted, used) /\ Pruned(st, next)
<1> DEFINE stale == {q \in st.queue : Stale(st, q)}
           next == Drop(st, stale)
<1>0. st \in DiskStates /\ Limited(st) /\ Allowed(st)
  BY DEF Sound
<1>2. /\ next \in DiskStates /\ next.queue = st.queue \ stale /\ next.subs = st.subs
      /\ next.wants = st.wants /\ next.epoch = st.epoch
      /\ next.dedupe = st.dedupe /\ next.tests = st.tests
  BY <1>0, DropFields
<1>3. \A q \in st.queue : Stale(st, q) <=> q.key \in expired
  BY <1>0 DEF Allowed, Stale, DiskStates, Deliveries
<1>4. Pruned(st, next)
  BY <1>2, <1>3 DEF Pruned, ID
<1>5. Allowed(next)
  BY <1>0, <1>2 DEF Allowed
<1>6. IsFiniteSet(next.subs) /\ Cardinality(next.subs) <= MaxSubscriptions /\ next.tests <= MaxTests
  BY <1>0, <1>2 DEF Limited
<1> HIDE DEF next
<1>8. Sound(next, regs, admitted, used)
  BY <1>2, <1>4, <1>5, <1>6, PrunedSound
<1> QED BY <1>4, <1>8 DEF next

Test(s, t) ==
  [key |-> t, sub |-> s, epoch |-> 0, attempts |-> 0, due |-> TRUE, reg |-> regs[s], admission |-> 1]

WithTest(s, t) ==
  [data EXCEPT !.tests = @ + 1, !.recent = @ \cup {s}, !.queue = @ \cup {Test(s, t)}]

\* QueueTest adds a delivery whose key was never used.
LEMMA WithTestSound ==
  ASSUME NEW s \in Subs, NEW t \in Tests, t \notin used, s \in data.subs, TestAllowed(s),
         regs \in [Subs -> Nat], admitted \in [Events -> Nat], Sound(data, regs, admitted, used)
  PROVE  /\ Sound(WithTest(s, t), regs, admitted, used \cup {t})
         /\ WithTest(s, t).queue = data.queue \cup {Test(s, t)}
         /\ WithTest(s, t).dedupe = data.dedupe
<1> DEFINE d == Test(s, t)
           next == WithTest(s, t)
<1>0. /\ data \in DiskStates /\ Limited(data) /\ Distinct(data) /\ Allowed(data) /\ Owned(data, regs)
      /\ KnownQueue(data, admitted, used) /\ UniqueQueue(data, admitted)
  BY DEF Sound
<1>1. d \in Deliveries /\ d.key = t /\ d.sub = s /\ d.attempts = 0 /\ d.reg = regs[s]
  BY DEF Test, Deliveries, Keys
<1>2. /\ next \in DiskStates /\ next.queue = data.queue \cup {d} /\ next.subs = data.subs
      /\ next.wants = data.wants /\ next.epoch = data.epoch
      /\ next.dedupe = data.dedupe /\ next.tests = data.tests + 1
  <2> HIDE DEF d
  <2>1. next = [data EXCEPT !.tests = @ + 1, !.recent = @ \cup {s}, !.queue = @ \cup {d}]
    BY Zenon DEF WithTest, d
  <2> HIDE DEF next
  <2>2. /\ data.tests + 1 \in Nat /\ data.recent \cup {s} \in SUBSET Subs
        /\ data.queue \cup {d} \in SUBSET Deliveries
    BY <1>0, <1>1 DEF DiskStates
  <2> QED BY <1>0, <2>1, <2>2 DEF DiskStates
<1>3. \A q \in data.queue : q.key # t
  BY <1>0, PushAssumption DEF KnownQueue, Known
<1>4. Limited(next)
  <2>1. IsFiniteSet(data.queue) /\ Cardinality(data.queue) < MaxPending /\ Cardinality(data.queue) \in Nat
    BY <1>0, FS_CardinalityType DEF Limited, TestAllowed
  <2>2. /\ IsFiniteSet(next.queue) /\ Cardinality(next.queue) \in Nat
        /\ Cardinality(next.queue) = IF d \in data.queue THEN Cardinality(data.queue) ELSE Cardinality(data.queue) + 1
    <3> HIDE DEF d, next
    <3>1. /\ IsFiniteSet(data.queue \cup {d})
          /\ Cardinality(data.queue \cup {d}) = IF d \in data.queue THEN Cardinality(data.queue) ELSE Cardinality(data.queue) + 1
      BY <2>1, FS_AddElement
    <3> QED BY <1>2, <2>1, <3>1, FS_CardinalityType
  <2>3. next.tests <= MaxTests
    BY <1>0, <1>2, PushAssumption DEF TestAllowed, DiskStates
  <2> QED BY <1>0, <1>2, <2>1, <2>2, <2>3, PushAssumption DEF Limited
<1> HIDE DEF next, d
<1>5. Distinct(next)
  BY <1>0, <1>2 DEF Distinct
<1>6. Allowed(next)
  BY <1>0, <1>1, <1>2 DEF Allowed, IsTest
<1>7. Owned(next, regs)
  BY <1>0, <1>1, <1>2 DEF Owned
<1>8. KnownQueue(next, admitted, used \cup {t})
  BY <1>0, <1>1, <1>2 DEF KnownQueue, Known
<1>9. UniqueQueue(next, admitted)
  BY <1>0, <1>1, <1>2, <1>3 DEF UniqueQueue, ID
<1>10. Sound(next, regs, admitted, used \cup {t})
  BY <1>2, <1>4, <1>5, <1>6, <1>7, <1>8, <1>9 DEF Sound
<1> QED BY <1>10, <1>2 DEF next, d

Fresh(e, s) ==
  [key |-> e, sub |-> s, epoch |-> data.epoch, attempts |-> 0, due |-> TRUE,
   reg |-> regs[s], admission |-> admitted[e] + 1]

WithEvent(e, targets) == [remember(data, e) EXCEPT !.queue = @ \cup {Fresh(e, s) : s \in targets}]

\* Enqueue adds deliveries of an event that was not admitted before, unless its
\* key was forgotten.
LEMMA WithEventSound ==
  ASSUME NEW e \in Events, e \notin Range(data.dedupe),
         NEW targets, targets \subseteq Targets,
         targets = {} \/ Cardinality(data.queue) + Cardinality(targets) <= MaxPending,
         regs \in [Subs -> Nat], admitted \in [Events -> Nat], Sound(data, regs, admitted, used)
  PROVE  LET next == WithEvent(e, targets)
         IN  /\ Sound(next, regs, [admitted EXCEPT ![e] = @ + 1], used)
             /\ next.queue = data.queue \cup {Fresh(e, s) : s \in targets}
             /\ next.dedupe = remember(data, e).dedupe
<1> DEFINE new == {Fresh(e, s) : s \in targets}
           next == WithEvent(e, targets)
           ad == [admitted EXCEPT ![e] = @ + 1]
           dd == remember(data, e).dedupe
<1>0. /\ data \in DiskStates /\ Limited(data) /\ Distinct(data) /\ Allowed(data) /\ Owned(data, regs)
      /\ KnownQueue(data, admitted, used) /\ UniqueQueue(data, admitted)
  BY DEF Sound
<1>1. targets \subseteq data.subs /\ targets \subseteq Subs /\ \A s \in targets : data.wants[s]
  BY <1>0 DEF Targets, DiskStates
<1>2. \A s \in targets : /\ Fresh(e, s) \in Deliveries /\ Fresh(e, s).key = e /\ Fresh(e, s).sub = s
                         /\ Fresh(e, s).attempts = 0 /\ Fresh(e, s).reg = regs[s]
                         /\ Fresh(e, s).epoch = data.epoch
  BY <1>0, <1>1 DEF Fresh, Deliveries, Keys, DiskStates
<1>3. new \subseteq Deliveries
  BY <1>2
<1>4. /\ remember(data, e) = [data EXCEPT !.dedupe = dd] /\ dd \in Seq(Events)
      /\ Distinct(remember(data, e))
  BY <1>0, RememberKeeps
<1> HIDE DEF dd
<1>5. /\ next \in DiskStates /\ next.queue = data.queue \cup new /\ next.subs = data.subs
      /\ next.wants = data.wants /\ next.epoch = data.epoch
      /\ next.dedupe = dd /\ next.tests = data.tests
  <2> HIDE DEF new
  <2>1. next = [remember(data, e) EXCEPT !.queue = @ \cup new]
    BY Zenon DEF WithEvent, new
  <2>2. /\ remember(data, e) \in DiskStates /\ remember(data, e).queue = data.queue
        /\ remember(data, e).subs = data.subs /\ remember(data, e).wants = data.wants
        /\ remember(data, e).epoch = data.epoch /\ remember(data, e).dedupe = dd
        /\ remember(data, e).tests = data.tests
    BY <1>0, <1>4 DEF DiskStates
  <2> HIDE DEF next
  <2> QED BY <1>3, <2>1, <2>2 DEF DiskStates
<1>6. Limited(next)
  <2>1. /\ IsFiniteSet(data.queue) /\ Cardinality(data.queue) <= MaxPending /\ Cardinality(data.queue) \in Nat
        /\ IsFiniteSet(data.subs)
    BY <1>0, FS_CardinalityType DEF Limited
  <2>2. IsFiniteSet(targets) /\ Cardinality(targets) \in Nat
    BY <1>1, <2>1, SubsetFinite
  <2>3. IsFiniteSet(new) /\ Cardinality(new) <= Cardinality(targets) /\ Cardinality(new) \in Nat
    <3> DEFINE f == [s \in targets |-> Fresh(e, s)]
    <3>1. DOMAIN f = targets /\ new \subseteq {f[s] : s \in targets}
      OBVIOUS
    <3> HIDE DEF f, new
    <3> QED BY <2>2, <3>1, ImageFinite
  <2>4. /\ IsFiniteSet(data.queue \cup new)
        /\ Cardinality(data.queue \cup new) = Cardinality(data.queue) + Cardinality(new) - Cardinality(data.queue \cap new)
        /\ Cardinality(data.queue \cap new) \in Nat
    <3> HIDE DEF new
    <3> QED BY <2>1, <2>3, FS_Union, FS_Intersection, FS_CardinalityType
  <2>5. Cardinality(data.queue \cup new) <= MaxPending
    <3>1. CASE targets = {}
      <4>1. data.queue \cup new = data.queue
        BY <3>1
      <4> QED BY <2>1, <4>1
    <3>2. CASE Cardinality(data.queue) + Cardinality(targets) <= MaxPending
      <4> HIDE DEF new
      <4> QED BY <2>1, <2>2, <2>3, <2>4, <3>2, PushAssumption
    <3> QED BY <3>1, <3>2
  <2> HIDE DEF next, new
  <2> QED BY <1>0, <1>5, <2>4, <2>5 DEF Limited
<1>7. Distinct(next)
  BY <1>4, <1>5 DEF Distinct, dd
<1>8. \A k \in Events : ad[k] = IF k = e THEN admitted[e] + 1 ELSE admitted[k]
  OBVIOUS
<1> HIDE DEF next, ad
<1>9. Allowed(next)
  BY <1>0, <1>1, <1>2, <1>5 DEF Allowed, IsTest
<1>10. Owned(next, regs)
  BY <1>0, <1>2, <1>5 DEF Owned
<1>11. KnownQueue(next, ad, used)
  BY <1>0, <1>2, <1>5, <1>8 DEF KnownQueue, Known
<1>12. UniqueQueue(next, ad)
  <2> SUFFICES ASSUME NEW q \in next.queue, NEW r \in next.queue, ID(q) = ID(r), Once(q.key, ad)
               PROVE  q = r
    BY DEF UniqueQueue
  <2>1. q.key = r.key /\ q.sub = r.sub
    BY DEF ID
  <2>2. CASE q.key = e
    <3>1. admitted[e] = 0
      BY <1>8, <2>2 DEF Once
    <3>2. \A x \in data.queue : x.key # e
      BY <1>0, <3>1, PushAssumption DEF KnownQueue, Known
    <3>3. q \in new /\ r \in new
      BY <1>5, <2>1, <2>2, <3>2
    <3> QED BY <1>2, <2>1, <3>3
  <2>3. CASE q.key # e
    <3>1. q \in data.queue /\ r \in data.queue
      BY <1>2, <1>5, <2>1, <2>3
    <3>2. Once(q.key, admitted)
      BY <1>8, <2>3 DEF Once
    <3> QED BY <1>0, <3>1, <3>2 DEF UniqueQueue
  <2> QED BY <2>2, <2>3
<1>13. Sound(next, regs, ad, used)
  BY <1>5, <1>6, <1>7, <1>9, <1>10, <1>11, <1>12 DEF Sound
<1> QED BY <1>5, <1>13 DEF next, ad, dd

\* What finish leaves of the store it starts from (after a 404 or 410, without
\* the endpoint).
Answered(item, answer) == IF answer = "gone" THEN Unregistered(data, item.sub) ELSE data

Retried(q) == [q EXCEPT !.attempts = @ + 1, !.due = FALSE]

\* finish touches the deliveries under the item's ID alone: they leave the queue
\* or stay for one more attempt.  A 404 or 410 also removes its endpoint's.
LEMMA FinishedSound ==
  ASSUME NEW item \in Deliveries, NEW answer, Sound(data, regs, admitted, used)
  PROVE  LET next == Finished(item, answer)
         IN  /\ Sound(next, regs, admitted, used)
             /\ next.dedupe = data.dedupe
             /\ \A r \in next.queue :
                  \/ r \in data.queue /\ ID(r) # ID(item)
                  \/ /\ ID(r) = ID(item)
                     /\ \E q \in data.queue : ID(q) = ID(r) /\ r.reg = q.reg /\ r.attempts = q.attempts + 1
             /\ \A q \in data.queue, r \in next.queue :
                  ID(q) = ID(r) /\ ID(q) # ID(item) => q \in next.queue
<1> DEFINE st == Answered(item, answer)
           own == {q \in st.queue : ID(q) = ID(item)}
           again == {q \in own : Retries(st, q, answer)}
           kept == (st.queue \ own) \cup {Retried(q) : q \in again}
           next == Finished(item, answer)
<1>1. item.sub \in Subs
  BY DEF Deliveries
<1>2. Sound(st, regs, admitted, used) /\ Pruned(data, st)
  <2>1. CASE answer = "gone"
    BY <1>1, <2>1, UnregisteredSound DEF Answered
  <2>2. CASE answer # "gone"
    BY <2>2 DEF Answered, Pruned
  <2> QED BY <2>1, <2>2
<1>3. next = [st EXCEPT !.queue = kept]
  BY Zenon DEF Finished, Answered, Retried
<1> HIDE DEF st, next
<1>4. /\ st \in DiskStates /\ Limited(st) /\ Distinct(st) /\ Allowed(st) /\ Owned(st, regs)
      /\ KnownQueue(st, admitted, used) /\ UniqueQueue(st, admitted)
  BY <1>2 DEF Sound
<1>5. \A q \in again : /\ Retried(q) \in Deliveries /\ Retried(q).key = q.key /\ Retried(q).sub = q.sub
                       /\ Retried(q).reg = q.reg /\ Retried(q).epoch = q.epoch
                       /\ Retried(q).attempts = q.attempts + 1 /\ Retried(q).attempts <= 2
                       /\ ID(Retried(q)) = ID(q)
  <2> SUFFICES ASSUME NEW q \in again
               PROVE  /\ Retried(q) \in Deliveries /\ Retried(q).key = q.key /\ Retried(q).sub = q.sub
                      /\ Retried(q).reg = q.reg /\ Retried(q).epoch = q.epoch
                      /\ Retried(q).attempts = q.attempts + 1 /\ Retried(q).attempts <= 2
                      /\ ID(Retried(q)) = ID(q)
    BY Zenon
  <2>1. q \in Deliveries /\ q.attempts < 2
    BY <1>4 DEF DiskStates, Retries
  <2>2. q.attempts \in 0..1
    BY <2>1 DEF Deliveries
  <2>3. q.attempts + 1 \in 0..3 /\ q.attempts + 1 <= 2
    BY <2>2
  <2> DEFINE n == q.attempts + 1
  <2>4. Retried(q) = [q EXCEPT !.attempts = n, !.due = FALSE] /\ n \in 0..3 /\ n <= 2
    BY <2>3 DEF Retried
  <2> HIDE DEF n
  <2>5. /\ Retried(q) \in Deliveries /\ Retried(q).key = q.key /\ Retried(q).sub = q.sub
        /\ Retried(q).reg = q.reg /\ Retried(q).epoch = q.epoch /\ Retried(q).attempts = n
    BY <2>1, <2>4 DEF Deliveries
  <2> QED BY <2>4, <2>5 DEF ID, n
<1>6. kept \subseteq Deliveries
  BY <1>4, <1>5 DEF DiskStates
<1>7. /\ next \in DiskStates /\ next.queue = kept /\ next.subs = st.subs /\ next.wants = st.wants
      /\ next.epoch = st.epoch /\ next.dedupe = st.dedupe /\ next.tests = st.tests
  <2> HIDE DEF kept
  <2> QED BY <1>3, <1>4, <1>6 DEF DiskStates
<1>8. Limited(next)
  <2> DEFINE f == [q \in st.queue |-> IF q \in own THEN Retried(q) ELSE q]
  <2>1. DOMAIN f = st.queue /\ kept \subseteq {f[q] : q \in st.queue}
    OBVIOUS
  <2>2. IsFiniteSet(st.queue) /\ Cardinality(st.queue) <= MaxPending /\ Cardinality(st.queue) \in Nat
    BY <1>4, FS_CardinalityType DEF Limited
  <2> HIDE DEF f, kept
  <2>3. IsFiniteSet(kept) /\ Cardinality(kept) <= Cardinality(st.queue) /\ Cardinality(kept) \in Nat
    BY <2>1, <2>2, ImageFinite
  <2> QED BY <1>4, <1>7, <2>2, <2>3, PushAssumption DEF Limited
<1>9. Distinct(next)
  BY <1>4, <1>7 DEF Distinct
<1>10. \A r \in kept : \/ r \in st.queue /\ ID(r) # ID(item)
                       \/ \E q \in again : r = Retried(q)
  OBVIOUS
<1>11. \A q \in again : q \in st.queue /\ ID(q) = ID(item)
  OBVIOUS
<1>12. \A q \in st.queue : ID(q) # ID(item) => q \in kept
  OBVIOUS
<1> HIDE DEF kept, again, own
<1>13. Allowed(next)
  BY <1>4, <1>5, <1>7, <1>10, <1>11 DEF Allowed, IsTest
<1>14. Owned(next, regs)
  BY <1>4, <1>5, <1>7, <1>10, <1>11 DEF Owned
<1>15. KnownQueue(next, admitted, used)
  BY <1>4, <1>5, <1>7, <1>10, <1>11 DEF KnownQueue
<1>16. UniqueQueue(next, admitted)
  <2> SUFFICES ASSUME NEW q \in kept, NEW r \in kept, ID(q) = ID(r), Once(q.key, admitted)
               PROVE  q = r
    BY <1>7 DEF UniqueQueue
  <2>1. CASE ID(q) = ID(item)
    <3>1. PICK a \in again : q = Retried(a)
      BY <1>10, <2>1
    <3>2. PICK b \in again : r = Retried(b)
      BY <1>10, <2>1
    <3>3. ID(a) = ID(b) /\ a.key = q.key
      BY <1>5, <3>1, <3>2
    <3>4. a = b
      BY <1>4, <1>11, <3>3 DEF UniqueQueue
    <3> QED BY <3>1, <3>2, <3>4
  <2>2. CASE ID(q) # ID(item)
    BY <1>4, <1>5, <1>10, <1>11, <2>2 DEF UniqueQueue
  <2> QED BY <2>1, <2>2
<1>17. Sound(next, regs, admitted, used)
  BY <1>7, <1>8, <1>9, <1>13, <1>14, <1>15, <1>16 DEF Sound
<1>18. \A r \in next.queue :
         \/ r \in data.queue /\ ID(r) # ID(item)
         \/ /\ ID(r) = ID(item)
            /\ \E q \in data.queue : ID(q) = ID(r) /\ r.reg = q.reg /\ r.attempts = q.attempts + 1
  BY <1>2, <1>5, <1>7, <1>10, <1>11 DEF Pruned
<1>19. \A q \in data.queue, r \in next.queue : ID(q) = ID(r) /\ ID(q) # ID(item) => q \in next.queue
  <2> SUFFICES ASSUME NEW q \in data.queue, NEW r \in next.queue, ID(q) = ID(r), ID(q) # ID(item)
               PROVE  q \in kept
    BY <1>7
  <2>1. r \in st.queue
    BY <1>5, <1>7, <1>10, <1>11
  <2>2. q \in st.queue
    BY <1>2, <2>1 DEF Pruned
  <2> QED BY <1>12, <2>2
<1>20. next.dedupe = data.dedupe
  BY <1>2, <1>7 DEF Pruned
<1> QED BY <1>17, <1>18, <1>19, <1>20 DEF next

\* Both states hold the same deliveries, whatever their due times.
SameQueue(st, next) ==
  /\ next.dedupe = st.dedupe
  /\ \A r \in next.queue : \E q \in st.queue : ID(q) = ID(r) /\ q.reg = r.reg /\ q.attempts = r.attempts
  /\ \A q \in st.queue : \E r \in next.queue : ID(q) = ID(r) /\ q.attempts = r.attempts

Due(q) == [q EXCEPT !.due = TRUE]

LEMMA AllDueSound ==
  ASSUME NEW st, Sound(st, regs, admitted, used)
  PROVE  Sound(AllDue(st), regs, admitted, used) /\ SameQueue(st, AllDue(st))
<1> DEFINE next == AllDue(st)
           now == {Due(q) : q \in st.queue}
<1>1. /\ st \in DiskStates /\ Limited(st) /\ Distinct(st) /\ Allowed(st) /\ Owned(st, regs)
      /\ KnownQueue(st, admitted, used) /\ UniqueQueue(st, admitted)
  BY DEF Sound
<1>2. \A q \in st.queue : /\ Due(q) \in Deliveries /\ Due(q).key = q.key /\ Due(q).sub = q.sub
                          /\ Due(q).reg = q.reg /\ Due(q).epoch = q.epoch
                          /\ Due(q).attempts = q.attempts /\ ID(Due(q)) = ID(q)
  BY <1>1 DEF Due, DiskStates, Deliveries, ID
<1>3. next = [st EXCEPT !.queue = now]
  BY Zenon DEF AllDue, Due
<1>4. /\ next \in DiskStates /\ next.queue = now /\ next.subs = st.subs /\ next.wants = st.wants
      /\ next.epoch = st.epoch /\ next.dedupe = st.dedupe /\ next.tests = st.tests
  <2>1. now \in SUBSET Deliveries
    BY <1>2
  <2> HIDE DEF now, next
  <2> QED BY <1>1, <1>3, <2>1 DEF DiskStates
<1>5. Limited(next)
  <2> DEFINE f == [q \in st.queue |-> Due(q)]
  <2>1. DOMAIN f = st.queue /\ now \subseteq {f[q] : q \in st.queue}
    OBVIOUS
  <2>2. IsFiniteSet(st.queue) /\ Cardinality(st.queue) <= MaxPending /\ Cardinality(st.queue) \in Nat
    BY <1>1, FS_CardinalityType DEF Limited
  <2> HIDE DEF f, now, next
  <2>3. IsFiniteSet(now) /\ Cardinality(now) <= Cardinality(st.queue) /\ Cardinality(now) \in Nat
    BY <2>1, <2>2, ImageFinite
  <2> QED BY <1>1, <1>4, <2>2, <2>3, PushAssumption DEF Limited
<1>6. /\ \A r \in now : \E q \in st.queue : r = Due(q)
      /\ \A q \in st.queue : Due(q) \in now
  OBVIOUS
<1> HIDE DEF now, next
<1>7. Distinct(next)
  BY <1>1, <1>4 DEF Distinct
<1>8. Allowed(next)
  BY <1>1, <1>2, <1>4, <1>6 DEF Allowed, IsTest
<1>9. Owned(next, regs) /\ KnownQueue(next, admitted, used)
  BY <1>1, <1>2, <1>4, <1>6 DEF Owned, KnownQueue
<1>10. UniqueQueue(next, admitted)
  <2> SUFFICES ASSUME NEW q \in now, NEW r \in now, ID(q) = ID(r), Once(q.key, admitted)
               PROVE  q = r
    BY <1>4 DEF UniqueQueue
  <2>1. PICK a \in st.queue : q = Due(a)
    BY <1>6
  <2>2. PICK b \in st.queue : r = Due(b)
    BY <1>6
  <2>3. ID(a) = ID(b) /\ a.key = q.key
    BY <1>2, <2>1, <2>2
  <2> QED BY <1>1, <2>1, <2>2, <2>3 DEF UniqueQueue
<1>11. SameQueue(st, next)
  BY <1>2, <1>4, <1>6 DEF SameQueue
<1>12. Sound(next, regs, admitted, used)
  BY <1>4, <1>5, <1>7, <1>8, <1>9, <1>10 DEF Sound
<1> QED BY <1>11, <1>12 DEF next

LEMMA NoneRecentSound ==
  ASSUME NEW st, Sound(st, regs, admitted, used)
  PROVE  Sound(NoneRecent(st), regs, admitted, used) /\ NoneRecent(st).queue = st.queue
         /\ NoneRecent(st).dedupe = st.dedupe
<1> DEFINE next == NoneRecent(st)
<1>1. /\ st \in DiskStates /\ Limited(st) /\ Distinct(st) /\ Allowed(st) /\ Owned(st, regs)
      /\ KnownQueue(st, admitted, used) /\ UniqueQueue(st, admitted)
  BY DEF Sound
<1>2. /\ next \in DiskStates /\ next.queue = st.queue /\ next.subs = st.subs /\ next.wants = st.wants
      /\ next.epoch = st.epoch /\ next.dedupe = st.dedupe /\ next.tests = 0
  BY <1>1 DEF NoneRecent, DiskStates
<1> HIDE DEF next
<1>3. Limited(next) /\ Distinct(next) /\ Allowed(next)
  BY <1>1, <1>2, PushAssumption DEF Limited, Distinct, Allowed
<1>4. Owned(next, regs) /\ KnownQueue(next, admitted, used) /\ UniqueQueue(next, admitted)
  BY <1>1, <1>2 DEF Owned, KnownQueue, UniqueQueue
<1> QED BY <1>2, <1>3, <1>4 DEF Sound, next

-----------------------------------------------------------------------------
(* The inductive invariant. *)

\* What the dispatcher has read from the store and still works on.
Taken(d) == d \in batch \/ \E w \in Workers : ~Idle(w) /\ d = wk[w].item

BusyTyped == \A w \in Workers : ~Idle(w) => wk[w].item \in Deliveries

Stored == Sound(data, regs, admitted, used) /\ Sound(disk, regs, admitted, used)

\* Memory and disk differ only after a failed save.
InSync == ~failed => data = disk

Quiet == ~up => batch = {} /\ \A w \in Workers : Idle(w)

\* One goroutine at a time works on a delivery ID.
OneRequest ==
  \A v, w \in Workers : ~Idle(v) /\ ~Idle(w) /\ ID(wk[v].item) = ID(wk[w].item) => v = w

TakenKnown == \A d : Taken(d) => Known(d.key, admitted, used)

\* A delivery taken and the one queued under its ID are for one registration.
TakenOwned ==
  \A d : \A q \in data.queue \cup disk.queue :
    Taken(d) /\ ID(d) = ID(q) /\ Once(d.key, admitted) => d.reg = q.reg

\* The key of an admitted event is on disk, unless it was pushed out.
Remembered == \A e \in Events : admitted[e] >= 1 => e \in Range(disk.dedupe) \cup forgotten

Unsent == \A i \in IDs : ~Known(i[1], admitted, used) => sends[i] = 0

\* A request for this attempt of q was sent and is not counted yet.
Requesting(w) == wk[w].pc \in {"sending", "answered"}

RequestFor(q) ==
  \E w \in Workers : Requesting(w) /\ ID(wk[w].item) = ID(q) /\ wk[w].item.attempts = q.attempts

Uncounted(q) == failed \/ RequestFor(q)

\* Requests sent for a queued delivery: its attempts, one that is not counted
\* yet, and for a test one more for every stop.  Events of a stopped process or
\* of a failed store are not sent again.
Budget ==
  \A q \in disk.queue :
    Once(q.key, admitted) /\ (IsTest(q) \/ (up /\ ~failed)) =>
      sends[ID(q)] <= q.attempts + (IF IsTest(q) THEN stops ELSE 0) + (IF Uncounted(q) THEN 1 ELSE 0)

DispatcherInv == BusyTyped /\ Quiet /\ OneRequest /\ TakenKnown /\ TakenOwned /\ RetiredCancelled
SendInv == Unsent /\ Budget /\ SendBound
StoreInv == Stored /\ InSync /\ Remembered /\ AdmittedOnce
Inv == StateType /\ StoreInv /\ DispatcherInv /\ SendInv

Slots == [pc : {"idle", "launched", "checked", "registered", "sending", "answered"},
          item : Deliveries \cup {NoItem}, cancelled : BOOLEAN, answer : Answers \cup {"none"}]

LEMMA IdleSlot == IdleWorker \in Slots /\ IdleWorker.pc = "idle"
BY DEF IdleWorker, Slots

LEMMA InitInv == Init => Inv
<1> SUFFICES ASSUME Init PROVE Inv
  OBVIOUS
<1>1. EmptyState \in DiskStates /\ EmptyState.queue = {} /\ EmptyState.subs = {}
      /\ EmptyState.dedupe = <<>> /\ EmptyState.tests = 0
  BY DEF EmptyState, DiskStates
<1>2. data \in DiskStates /\ data.queue = {} /\ data.subs = {} /\ data.dedupe = <<>> /\ data.tests = 0
      /\ disk = data
  BY <1>1, Zenon DEF Init
<1>3. StateType
  <2>1. wk \in [Workers -> Slots]
    BY IdleSlot DEF Init
  <2>2. sends \in [IDs -> Nat] /\ used \subseteq Tests /\ regs \in [Subs -> Nat]
        /\ admitted \in [Events -> Nat] /\ forgotten \subseteq Events
    BY DEF Init
  <2>3. /\ failed \in BOOLEAN /\ up \in BOOLEAN /\ stopping \in BOOLEAN /\ batch \subseteq Deliveries
        /\ expired \subseteq Keys /\ epochs \in Nat /\ stops \in Nat
    BY DEF Init
  <2> QED BY <1>2, <2>1, <2>2, <2>3 DEF StateType, Slots
<1>4. Sound(data, regs, admitted, used)
  <2>1. Limited(data)
    BY <1>2, FS_EmptySet, PushAssumption DEF Limited
  <2>2. Distinct(data)
    BY <1>2, PushAssumption DEF Distinct, IsInjective
  <2> QED BY <1>2, <2>1, <2>2 DEF Sound, Allowed, Owned, KnownQueue, UniqueQueue
<1>5. StoreInv
  BY <1>2, <1>4 DEF StoreInv, Stored, InSync, Remembered, AdmittedOnce, Repeated, Init
<1>6. \A w \in Workers : Idle(w) /\ wk[w].pc # "sending"
  BY IdleSlot DEF Idle, Init
<1>7. DispatcherInv
  BY <1>2, <1>6 DEF DispatcherInv, BusyTyped, Quiet, OneRequest, TakenKnown, TakenOwned, RetiredCancelled,
       Taken, Init
<1>8. SendInv
  BY <1>2 DEF SendInv, Unsent, Budget, SendBound, Init
<1> QED BY <1>3, <1>5, <1>7, <1>8 DEF Inv

-----------------------------------------------------------------------------
(* Facts every step rests on. *)

\* History only grows.
Grows == used \subseteq used' /\ \A e \in Events : admitted[e] <= admitted'[e]

LEMMA KnownOnce ==
  ASSUME StateType, StateType', Grows, NEW k
  PROVE  /\ Known(k, admitted, used) => Known(k, admitted', used')
         /\ Once(k, admitted') => Once(k, admitted)
BY DEF StateType, Grows, Known, Once

\* A key is repeated when it was admitted more than once.
LEMMA OnceRepeated ==
  ASSUME StateType, NEW k
  PROVE  k \notin Repeated <=> Once(k, admitted)
BY DEF StateType, Repeated, Once

LEMMA QueuedFields ==
  ASSUME NEW st \in DiskStates, NEW q \in st.queue
  PROVE  q \in Deliveries /\ q.attempts \in Nat /\ ID(q) \in IDs /\ ID(q)[1] = q.key
<1>1. q \in Deliveries
  BY DEF DiskStates
<1> QED BY <1>1 DEF Deliveries, IDs, ID

\* What the dispatcher takes it reads from the store, and the store never queues
\* a taken ID for a new registration.
LEMMA TakenStep ==
  ASSUME Inv, StateType', Stored', Grows,
         \A d : Taken(d)' => Taken(d) \/ d \in data'.queue,
         \A r \in data'.queue \cup disk'.queue :
           \/ \E q \in data.queue \cup disk.queue : ID(q) = ID(r) /\ q.reg = r.reg
           \/ ~Known(r.key, admitted, used)
           \/ ~Once(r.key, admitted')
  PROVE  TakenKnown' /\ TakenOwned'
<1>0. StateType /\ TakenKnown /\ TakenOwned
  BY DEF Inv, DispatcherInv
<1>1. TakenKnown'
  <2> SUFFICES ASSUME NEW d, Taken(d)' PROVE Known(d.key, admitted', used')
    BY DEF TakenKnown
  <2>1. CASE Taken(d)
    BY <1>0, <2>1, KnownOnce DEF TakenKnown
  <2>2. CASE d \in data'.queue
    BY <2>2 DEF Stored, Sound, KnownQueue
  <2> QED BY <2>1, <2>2
<1>2. TakenOwned'
  <2> SUFFICES ASSUME NEW d, NEW r \in data'.queue \cup disk'.queue, Taken(d)', ID(d) = ID(r), Once(d.key, admitted')
               PROVE  d.reg = r.reg
    BY DEF TakenOwned
  <2>0. d.key = r.key /\ d.sub = r.sub
    BY DEF ID
  <2>1. CASE Taken(d)
    <3>1. Known(r.key, admitted, used) /\ Once(r.key, admitted') /\ Once(d.key, admitted)
      BY <1>0, <2>0, <2>1, KnownOnce DEF TakenKnown
    <3>2. PICK q \in data.queue \cup disk.queue : ID(q) = ID(r) /\ q.reg = r.reg
      BY <3>1
    <3> QED BY <1>0, <2>1, <3>1, <3>2 DEF TakenOwned
  <2>2. CASE d \in data'.queue
    <3>1. d.reg = regs'[d.sub] /\ r.reg = regs'[r.sub]
      BY <2>2 DEF Stored, Sound, Owned
    <3> QED BY <2>0, <3>1
  <2> QED BY <2>1, <2>2
<1> QED BY <1>1, <1>2

LEMMA SendStep ==
  ASSUME Inv, StateType', Grows, sends' = sends, stops' \in {stops, stops + 1}
  PROVE  Unsent' /\ SendBound'
<1>0. StateType /\ Unsent /\ SendBound
  BY DEF Inv, SendInv
<1>1. Unsent'
  BY <1>0, KnownOnce DEF Unsent
<1>2. SendBound'
  <2> SUFFICES ASSUME NEW i \in IDs, i[1] \notin Repeated'
               PROVE  sends[i] <= IF i[1] \in Tests THEN 3 + stops' ELSE 3
    BY DEF SendBound
  <2>1. i[1] \notin Repeated
    BY <1>0, OnceRepeated, KnownOnce DEF StateType, Repeated, Grows
  <2>2. sends[i] \in Nat /\ stops \in Nat
    BY <1>0 DEF StateType
  <2>3. sends[i] <= IF i[1] \in Tests THEN 3 + stops ELSE 3
    BY <1>0, <2>1 DEF SendBound
  <2> QED BY <2>2, <2>3
<1> QED BY <1>1, <1>2

\* Goroutines keep their delivery until they return.
WorkersKeep == \A w \in Workers : ~Idle(w)' => ~Idle(w) /\ wk'[w].item = wk[w].item

LEMMA WorkersStep ==
  ASSUME Inv, WorkersKeep
  PROVE  BusyTyped' /\ OneRequest' /\ (up' /\ up => Quiet')
BY DEF Inv, DispatcherInv, WorkersKeep, BusyTyped, OneRequest, Quiet

-----------------------------------------------------------------------------
(* A change of the store. *)

\* A save that succeeds or fails; the goroutines in back return after it.
Outcome(next, back) ==
  LET Returned(ws) == [w \in Workers |-> IF w \in back THEN IdleWorker ELSE ws[w]]
  IN  \/ SaveOk(next) /\ wk' = Returned(Retire(next))
      \/ SaveFails(next) /\ wk' = Returned(CancelAll)

\* The goroutines after it: the requests whose delivery is gone are cancelled.
LEMMA OutcomeWorkers ==
  ASSUME StateType, ~failed, NEW next, NEW back, Outcome(next, back)
  PROVE  /\ wk' \in [Workers -> Slots]
         /\ \A w \in Workers :
              IF w \in back THEN wk'[w] = IdleWorker
              ELSE /\ wk'[w].pc = wk[w].pc /\ wk'[w].item = wk[w].item
                   /\ wk[w].cancelled => wk'[w].cancelled
                   /\ Active(w) /\ failed' => wk'[w].cancelled
                   /\ Active(w) /\ ID(wk[w].item) \notin QueuedIDs(next) => wk'[w].cancelled
<1>1. wk \in [Workers -> Slots]
  BY DEF StateType, Slots
<1>2. CASE SaveOk(next) /\ wk' = [w \in Workers |-> IF w \in back THEN IdleWorker ELSE Retire(next)[w]]
  <2>1. ~failed'
    BY <1>2 DEF SaveOk
  <2>2. \A w \in Workers :
          wk'[w] = IF w \in back THEN IdleWorker
                   ELSE IF Active(w) /\ ID(wk[w].item) \notin QueuedIDs(next)
                        THEN [wk[w] EXCEPT !.cancelled = TRUE] ELSE wk[w]
    BY <1>2, Zenon DEF Retire
  <2>3. \A w \in Workers : wk[w] \in Slots
    BY <1>1
  <2>4. \A w \in Workers : wk'[w] \in Slots
    <3>1. \A x \in Slots : [x EXCEPT !.cancelled = TRUE] \in Slots
      BY DEF Slots
    <3> QED BY <2>2, <2>3, <3>1, IdleSlot, Zenon
  <2>5. wk' = [w \in Workers |-> wk'[w]]
    BY <1>2, Zenon
  <2> QED BY <2>1, <2>2, <2>3, <2>4, <2>5 DEF Slots
<1>3. CASE SaveFails(next) /\ wk' = [w \in Workers |-> IF w \in back THEN IdleWorker ELSE CancelAll[w]]
  <2>2. \A w \in Workers :
          wk'[w] = IF w \in back THEN IdleWorker
                   ELSE IF Active(w) THEN [wk[w] EXCEPT !.cancelled = TRUE] ELSE wk[w]
    BY <1>3, Zenon DEF CancelAll
  <2>3. \A w \in Workers : wk[w] \in Slots
    BY <1>1
  <2>4. \A w \in Workers : wk'[w] \in Slots
    <3>1. \A x \in Slots : [x EXCEPT !.cancelled = TRUE] \in Slots
      BY DEF Slots
    <3> QED BY <2>2, <2>3, <3>1, IdleSlot, Zenon
  <2>5. wk' = [w \in Workers |-> wk'[w]]
    BY <1>3, Zenon
  <2> QED BY <2>2, <2>3, <2>4, <2>5 DEF Slots
<1> QED BY <1>2, <1>3, Zenon DEF Outcome

\* What a change queues: a delivery as it was, one attempt later, or new.
\* Only the deliveries that goroutines in back worked on may be raised.
Carries(next, back) ==
  /\ \A r \in next.queue :
       \/ \E q \in data.queue : /\ ID(q) = ID(r) /\ q.reg = r.reg /\ q.attempts = r.attempts
                                /\ \A w \in back : ID(wk[w].item) # ID(r)
       \/ \E q \in data.queue : ID(q) = ID(r) /\ q.reg = r.reg /\ r.attempts = q.attempts + 1
       \/ ~Known(r.key, admitted, used)
       \/ ~Once(r.key, admitted')
  /\ \A q \in data.queue, r \in next.queue :
       ID(q) = ID(r) /\ (\A w \in back : ID(wk[w].item) # ID(q)) => q \in next.queue

HistoryTypes ==
  /\ regs \in [Subs -> Nat] /\ admitted \in [Events -> Nat] /\ forgotten \subseteq Events
  /\ used \subseteq Tests /\ epochs \in Nat

LEMMA StoreStep ==
  ASSUME Inv, Available, NEW next, NEW back, back \subseteq {w \in Workers : ~Idle(w)},
         Outcome(next, back), Carries(next, back), Grows, HistoryTypes',
         Sound(next, regs', admitted', used'), Sound(data, regs', admitted', used'),
         Remembered', AdmittedOnce',
         up' = up, stopping' = stopping, stops' = stops, sends' = sends, expired' = expired,
         batch' = batch \/ (batch' \subseteq next.queue /\ data' = next)
  PROVE  Inv'
<1>0. /\ StateType /\ Stored /\ InSync /\ DispatcherInv /\ SendInv /\ ~failed /\ up /\ data = disk
  BY DEF Inv, StoreInv, InSync, Available
<1>1. /\ wk' \in [Workers -> Slots]
      /\ \A w \in Workers :
           IF w \in back THEN wk'[w] = IdleWorker
           ELSE /\ wk'[w].pc = wk[w].pc /\ wk'[w].item = wk[w].item
                /\ wk[w].cancelled => wk'[w].cancelled
                /\ Active(w) /\ failed' => wk'[w].cancelled
                /\ Active(w) /\ ID(wk[w].item) \notin QueuedIDs(next) => wk'[w].cancelled
  BY <1>0, OutcomeWorkers
<1>2. \/ data' = next /\ disk' = next /\ ~failed'
      \/ data' = data /\ disk' = data /\ failed'
      \/ data' = data /\ disk' = next /\ failed'
  BY <1>0 DEF Outcome, SaveOk, SaveFails
<1>3. Stored'
  BY <1>2 DEF Stored
<1>4. StateType'
  <2>1. data' \in DiskStates /\ disk' \in DiskStates
    BY <1>3 DEF Stored, Sound
  <2>2. failed' \in BOOLEAN
    BY <1>2, <1>0 DEF StateType, Outcome, SaveOk, SaveFails
  <2>3. batch' \subseteq Deliveries
    BY <1>0, <2>1 DEF StateType, DiskStates
  <2> QED BY <1>0, <1>1, <2>1, <2>2, <2>3 DEF StateType, HistoryTypes, Slots
<1>5. WorkersKeep
  BY <1>1, IdleSlot DEF WorkersKeep, Idle
<1>6. BusyTyped' /\ OneRequest' /\ Quiet'
  BY <1>0, <1>5, WorkersStep
<1>7. TakenKnown' /\ TakenOwned'
  <2>1. \A d : Taken(d)' => Taken(d) \/ d \in data'.queue
    BY <1>5 DEF Taken, WorkersKeep
  <2>2. \A r \in data'.queue \cup disk'.queue :
          \/ \E q \in data.queue \cup disk.queue : ID(q) = ID(r) /\ q.reg = r.reg
          \/ ~Known(r.key, admitted, used)
          \/ ~Once(r.key, admitted')
    <3> SUFFICES ASSUME NEW r \in data'.queue \cup disk'.queue
                 PROVE  \/ \E q \in data.queue : ID(q) = ID(r) /\ q.reg = r.reg
                        \/ ~Known(r.key, admitted, used)
                        \/ ~Once(r.key, admitted')
      BY Zenon
    <3>1. CASE r \in data.queue
      BY <3>1
    <3>2. CASE r \in next.queue
      BY <3>2, Zenon DEF Carries
    <3> QED BY <1>2, <3>1, <3>2
  <2> QED BY <1>3, <1>4, <2>1, <2>2, TakenStep
<1>8. RetiredCancelled'
  <2> SUFFICES ASSUME NEW w \in Workers, wk'[w].pc = "sending", ~wk'[w].cancelled
               PROVE  ~failed' /\ QueuedAs(wk[w].item)' /\ wk'[w].item = wk[w].item
    BY DEF RetiredCancelled, QueuedAs
  <2>1. /\ w \notin back /\ wk[w].pc = "sending" /\ wk'[w].item = wk[w].item /\ ~wk[w].cancelled
        /\ Active(w) /\ ~failed' /\ ID(wk[w].item) \in QueuedIDs(next)
    BY <1>1, IdleSlot DEF Active
  <2>2. data' = next
    BY <1>2, <2>1
  <2>3. PICK q \in data.queue : ID(q) = ID(wk[w].item) /\ q.attempts = wk[w].item.attempts
    BY <1>0, <2>1 DEF DispatcherInv, RetiredCancelled, QueuedAs
  <2>4. PICK r \in next.queue : ID(r) = ID(wk[w].item)
    BY <2>1 DEF QueuedIDs
  <2>5. \A v \in back : ID(wk[v].item) # ID(q)
    BY <1>0, <2>1, <2>3 DEF DispatcherInv, OneRequest, Idle
  <2>6. q \in next.queue
    BY <2>3, <2>4, <2>5 DEF Carries
  <2>7. \E x \in data'.queue : ID(x) = ID(wk'[w].item) /\ x.attempts = wk'[w].item.attempts
    BY <2>1, <2>2, <2>3, <2>6
  <2> QED BY <2>1, <2>7 DEF QueuedAs
<1>9. Unsent' /\ SendBound'
  BY <1>0, <1>4, SendStep
<1>10. Budget'
  <2> SUFFICES ASSUME NEW r \in disk'.queue, Once(r.key, admitted'), IsTest(r) \/ (up' /\ ~failed')
               PROVE  sends[ID(r)] <= r.attempts + (IF IsTest(r) THEN stops ELSE 0) + (IF Uncounted(r)' THEN 1 ELSE 0)
    BY DEF Budget, IsTest
  <2> DEFINE more == IF IsTest(r) THEN stops ELSE 0
  <2>0. /\ r \in Deliveries /\ ID(r) \in IDs /\ ID(r)[1] = r.key /\ sends[ID(r)] \in Nat
        /\ r.attempts \in Nat /\ more \in Nat
    BY <1>0, <1>4 DEF StateType, DiskStates, Deliveries, IDs, ID
  <2>1. Uncounted(r)' <=> failed' \/ RequestFor(r)'
    BY DEF Uncounted
  <2>2. ASSUME NEW q \in data.queue, ID(q) = ID(r)
        PROVE  /\ sends[ID(r)] <= q.attempts + more + (IF RequestFor(q) THEN 1 ELSE 0)
               /\ q.attempts \in Nat
    <3>1. q.key = r.key /\ (IsTest(q) <=> IsTest(r))
      BY <2>2 DEF ID, IsTest
    <3>2. Once(q.key, admitted)
      BY <1>0, <1>4, <3>1, KnownOnce
    <3>3. sends[ID(q)] <= q.attempts + (IF IsTest(q) THEN stops ELSE 0) + (IF Uncounted(q) THEN 1 ELSE 0)
      BY <1>0, <2>2, <3>2 DEF SendInv, Budget
    <3>4. Uncounted(q) <=> RequestFor(q)
      BY <1>0 DEF Uncounted
    <3>5. q.attempts \in Nat
      BY <1>0, <2>2, QueuedFields DEF StateType
    <3> QED BY <2>2, <3>1, <3>3, <3>4, <3>5
  <2>3. CASE \E q \in data.queue : /\ ID(q) = ID(r) /\ q.attempts = r.attempts
                                   /\ failed' \/ \A w \in back : ID(wk[w].item) # ID(r)
    <3>1. PICK q \in data.queue : /\ ID(q) = ID(r) /\ q.attempts = r.attempts
                                  /\ failed' \/ \A w \in back : ID(wk[w].item) # ID(r)
      BY <2>3
    <3>2. RequestFor(q) => failed' \/ RequestFor(r)'
      BY <1>1, <3>1 DEF RequestFor, Requesting
    <3>3. sends[ID(r)] <= q.attempts + more + (IF RequestFor(q) THEN 1 ELSE 0)
      BY <2>2, <3>1
    <3> HIDE DEF more
    <3>4. sends[ID(r)] <= r.attempts + more + (IF Uncounted(r)' THEN 1 ELSE 0)
      BY <2>0, <2>1, <3>1, <3>2, <3>3
    <3> QED BY <3>4 DEF more
  <2>4. CASE \E q \in data.queue : ID(q) = ID(r) /\ r.attempts = q.attempts + 1
    <3>1. PICK q \in data.queue : ID(q) = ID(r) /\ r.attempts = q.attempts + 1
      BY <2>4
    <3>2. sends[ID(r)] <= q.attempts + more + (IF RequestFor(q) THEN 1 ELSE 0) /\ q.attempts \in Nat
      BY <2>2, <3>1
    <3> HIDE DEF more
    <3>3. sends[ID(r)] <= r.attempts + more + (IF Uncounted(r)' THEN 1 ELSE 0)
      BY <2>0, <3>1, <3>2
    <3> QED BY <3>3 DEF more
  <2>5. CASE ~Known(r.key, admitted, used)
    <3>1. sends[ID(r)] = 0
      BY <1>0, <2>0, <2>5 DEF SendInv, Unsent
    <3> HIDE DEF more
    <3>2. sends[ID(r)] <= r.attempts + more + (IF Uncounted(r)' THEN 1 ELSE 0)
      BY <2>0, <3>1
    <3> QED BY <3>2 DEF more
  <2>6. CASE r \in next.queue
    <3>1. \/ \E q \in data.queue : /\ ID(q) = ID(r) /\ q.attempts = r.attempts
                                   /\ \A w \in back : ID(wk[w].item) # ID(r)
          \/ \E q \in data.queue : ID(q) = ID(r) /\ r.attempts = q.attempts + 1
          \/ ~Known(r.key, admitted, used)
      BY <2>6, Zenon DEF Carries
    <3> HIDE DEF more
    <3> QED BY <2>3, <2>4, <2>5, <3>1, Zenon
  <2>7. CASE r \in data.queue /\ failed'
    BY <2>3, <2>7
  <2> QED BY <1>2, <2>6, <2>7
<1>11. InSync'
  BY <1>2 DEF InSync
<1> QED BY <1>3, <1>4, <1>6, <1>7, <1>8, <1>9, <1>10, <1>11 DEF Inv, StoreInv, DispatcherInv, SendInv

-----------------------------------------------------------------------------
(* The operations of the store. *)

LEMMA PrunedCarries ==
  ASSUME NEW next, Pruned(data, next)
  PROVE  Carries(next, {})
BY DEF Pruned, Carries

LEMMA MutateOutcome ==
  ASSUME NEW next, NEW back, mutate(next, back)
  PROVE  Outcome(next, back) /\ admitted' = admitted /\ forgotten' = forgotten
BY Zenon DEF mutate, Outcome, admissions

\* A change that admits nothing.
LEMMA NothingAdmitted ==
  ASSUME Inv, Available, NEW next, NEW back, Outcome(next, back), next.dedupe = data.dedupe,
         admitted' = admitted, forgotten' = forgotten, used \subseteq used'
  PROVE  Remembered' /\ AdmittedOnce' /\ Grows
<1>1. StateType /\ data = disk /\ Remembered /\ AdmittedOnce
  BY DEF Inv, StoreInv, InSync, Available
<1>2. disk'.dedupe = disk.dedupe
  BY <1>1 DEF Outcome, SaveOk, SaveFails
<1>3. \A e \in Events : admitted[e] \in Nat
  BY <1>1 DEF StateType
<1> QED BY <1>1, <1>2, <1>3 DEF Remembered, AdmittedOnce, Repeated, Grows

LEMMA StoreFacts ==
  ASSUME Inv, Available
  PROVE  /\ Sound(data, regs, admitted, used) /\ HistoryTypes
         /\ regs \in [Subs -> Nat] /\ admitted \in [Events -> Nat] /\ data \in DiskStates
BY DEF Inv, StoreInv, Stored, StateType, HistoryTypes

LEMMA RegisterInv ==
  ASSUME Inv, NEW s \in Subs, NEW want \in BOOLEAN, Register(s, want)
  PROVE  Inv'
<1> DEFINE next == Registered(s, want)
<1>0. /\ Available /\ mutate(next, {})
      /\ regs' = (IF s \in data.subs THEN regs ELSE [regs EXCEPT ![s] = @ + 1])
      /\ s \in data.subs \/ Cardinality(data.subs) < MaxSubscriptions
  BY DEF Register
<1>1. UNCHANGED <<up, stopping, batch, expired, epochs, stops, sends, used>>
  BY DEF Register
<1>2. Outcome(next, {}) /\ admitted' = admitted /\ forgotten' = forgotten
  BY <1>0, MutateOutcome
<1>3. Sound(next, regs', admitted, used) /\ Sound(data, regs', admitted, used) /\ Pruned(data, next)
  BY <1>0, StoreFacts, RegisteredSound
<1>4. HistoryTypes'
  BY <1>0, <1>1, <1>2, StoreFacts DEF HistoryTypes
<1> HIDE DEF next
<1>5. next.dedupe = data.dedupe /\ Carries(next, {})
  BY <1>3, PrunedCarries DEF Pruned
<1>6. Remembered' /\ AdmittedOnce' /\ Grows
  BY <1>0, <1>1, <1>2, <1>5, NothingAdmitted
<1> QED BY <1>0, <1>1, <1>2, <1>3, <1>4, <1>5, <1>6, StoreStep

LEMMA DeleteInv ==
  ASSUME Inv, NEW s \in Subs, Delete(s)
  PROVE  Inv'
<1> DEFINE next == Unregistered(data, s)
<1>0. Available /\ mutate(next, {})
  BY DEF Delete
<1>1. UNCHANGED <<up, stopping, batch, expired, epochs, stops, regs, sends, used>>
  BY DEF Delete, historyVars
<1>2. Outcome(next, {}) /\ admitted' = admitted /\ forgotten' = forgotten
  BY <1>0, MutateOutcome
<1>3. Sound(next, regs', admitted, used) /\ Sound(data, regs', admitted, used) /\ Pruned(data, next)
  BY <1>0, <1>1, StoreFacts, UnregisteredSound
<1>4. HistoryTypes'
  BY <1>0, <1>1, <1>2, StoreFacts DEF HistoryTypes
<1> HIDE DEF next
<1>5. next.dedupe = data.dedupe /\ Carries(next, {})
  BY <1>3, PrunedCarries DEF Pruned
<1>6. Remembered' /\ AdmittedOnce' /\ Grows
  BY <1>0, <1>1, <1>2, <1>5, NothingAdmitted
<1> QED BY <1>0, <1>1, <1>2, <1>3, <1>4, <1>5, <1>6, StoreStep

LEMMA ResetInv ==
  ASSUME Inv, Reset
  PROVE  Inv'
<1> DEFINE next == InEpoch(data, epochs')
<1>0. Available /\ mutate(next, {}) /\ epochs' = epochs + 1
  BY DEF Reset
<1>1. UNCHANGED <<up, stopping, batch, expired, stops, regs, sends, used>>
  BY DEF Reset, historyVars
<1>2. Outcome(next, {}) /\ admitted' = admitted /\ forgotten' = forgotten
  BY <1>0, MutateOutcome
<1>3. HistoryTypes' /\ epochs' \in Nat
  BY <1>0, <1>1, <1>2, StoreFacts DEF HistoryTypes
<1>4. Sound(next, regs', admitted, used) /\ Sound(data, regs', admitted, used) /\ Pruned(data, next)
  BY <1>0, <1>1, <1>3, StoreFacts, InEpochSound
<1> HIDE DEF next
<1>5. next.dedupe = data.dedupe /\ Carries(next, {})
  BY <1>4, PrunedCarries DEF Pruned
<1>6. Remembered' /\ AdmittedOnce' /\ Grows
  BY <1>0, <1>1, <1>2, <1>5, NothingAdmitted
<1> QED BY <1>0, <1>1, <1>2, <1>3, <1>4, <1>5, <1>6, StoreStep

LEMMA QueueTestInv ==
  ASSUME Inv, NEW s \in Subs, NEW t \in Tests, QueueTest(s, t)
  PROVE  Inv'
<1> DEFINE next == WithTest(s, t)
<1>0. Available /\ s \in data.subs /\ TestAllowed(s) /\ t \notin used /\ used' = used \cup {t} /\ mutate(next, {})
  BY DEF QueueTest, WithTest, Test
<1>1. UNCHANGED <<up, stopping, batch, expired, epochs, stops, regs, sends>>
  BY DEF QueueTest
<1>2. Outcome(next, {}) /\ admitted' = admitted /\ forgotten' = forgotten
  BY <1>0, MutateOutcome
<1>3. HistoryTypes'
  BY <1>0, <1>1, <1>2, StoreFacts DEF HistoryTypes
<1>4. /\ Sound(next, regs, admitted, used \cup {t}) /\ next.queue = data.queue \cup {Test(s, t)}
      /\ next.dedupe = data.dedupe
  BY <1>0, StoreFacts, WithTestSound
<1>5. Sound(data, regs, admitted, used \cup {t})
  <2>1. \A e \in Events : admitted[e] <= admitted[e]
    BY <1>0, StoreFacts
  <2> QED BY <1>0, <2>1, StoreFacts, SoundMonotone
<1> HIDE DEF next
<1>6. Carries(next, {})
  <2>1. ~Known(Test(s, t).key, admitted, used)
    BY <1>0, PushAssumption DEF Known, Test
  <2> QED BY <1>4, <2>1 DEF Carries
<1>7. Remembered' /\ AdmittedOnce' /\ Grows
  BY <1>0, <1>1, <1>2, <1>4, NothingAdmitted
<1> QED BY <1>0, <1>1, <1>2, <1>3, <1>4, <1>5, <1>6, <1>7, StoreStep

\* A save without a goroutine that waits for it.
LEMMA PlainOutcome ==
  ASSUME NEW next, \/ SaveOk(next) /\ wk' = Retire(next)
                   \/ SaveFails(next) /\ wk' = CancelAll
  PROVE  Outcome(next, {})
<1>1. Retire(next) = [w \in Workers |-> IF w \in {} THEN IdleWorker ELSE Retire(next)[w]]
  BY DEF Retire
<1>2. CancelAll = [w \in Workers |-> IF w \in {} THEN IdleWorker ELSE CancelAll[w]]
  BY DEF CancelAll
<1> QED BY <1>1, <1>2, Zenon DEF Outcome

\* A save that fails and leaves the old file.
LEMMA LostSave ==
  ASSUME Inv, Available, failed' = TRUE, disk' = disk, data' = data, wk' = CancelAll,
         UNCHANGED <<admissions, up, stopping, batch, expired, epochs, stops, historyVars>>
  PROVE  Inv'
<1>0. UNCHANGED <<admitted, forgotten, regs, sends, used>>
  BY DEF admissions, historyVars
<1>1. SaveFails(data)
  BY DEF SaveFails
<1>2. Outcome(data, {})
  BY <1>1, PlainOutcome
<1>3. Carries(data, {})
  BY PrunedCarries DEF Pruned
<1>4. Remembered' /\ AdmittedOnce' /\ Grows
  BY <1>0, <1>2, NothingAdmitted
<1>5. HistoryTypes' /\ Sound(data, regs', admitted', used')
  BY <1>0, StoreFacts DEF HistoryTypes
<1> QED BY <1>0, <1>2, <1>3, <1>4, <1>5, StoreStep

LEMMA EnqueueInv ==
  ASSUME Inv, NEW e \in Events, NEW silent \in BOOLEAN, Enqueue(e, silent)
  PROVE  Inv'
<1> DEFINE targets == IF silent THEN {} ELSE Targets
           next == WithEvent(e, targets)
           ad == [admitted EXCEPT ![e] = @ + 1]
<1>0. /\ Available /\ e \notin Range(data.dedupe)
      /\ silent \/ Targets = {} \/ Cardinality(data.queue) + Cardinality(Targets) <= MaxPending
      /\ UNCHANGED <<up, stopping, batch, expired, epochs, stops, historyVars>>
  BY DEF Enqueue
<1>1. \/ SaveOk(next) /\ wk' = Retire(next) /\ Admit(e)
      \/ /\ SaveFails(next) /\ wk' = CancelAll
         /\ IF disk' = next THEN Admit(e) ELSE UNCHANGED admissions
  BY Zenon DEF Enqueue, WithEvent, Fresh
<1>2. targets \subseteq Targets /\ (targets = {} \/ Cardinality(data.queue) + Cardinality(targets) <= MaxPending)
  BY <1>0
<1> HIDE DEF targets
<1>3. UNCHANGED <<regs, sends, used>>
  BY <1>0 DEF historyVars
<1>4. /\ Sound(next, regs, ad, used) /\ next.queue = data.queue \cup {Fresh(e, s) : s \in targets}
      /\ next.dedupe = remember(data, e).dedupe
  BY <1>0, <1>2, StoreFacts, WithEventSound
<1> HIDE DEF next
<1>5. CASE disk' = next /\ Admit(e) /\ (\/ SaveOk(next) /\ wk' = Retire(next)
                                        \/ SaveFails(next) /\ wk' = CancelAll)
  <2>0. StateType /\ data = disk /\ Remembered /\ AdmittedOnce /\ Distinct(data) /\ data \in DiskStates
    BY <1>0 DEF Inv, StoreInv, InSync, Available, Stored, Sound
  <2>1. Outcome(next, {})
    BY <1>5, PlainOutcome
  <2>2. /\ admitted' = ad
        /\ forgotten' = IF Len(data.dedupe) < MaxDedupe THEN forgotten
                        ELSE forgotten \cup {Head(Append(data.dedupe, e))}
    BY <1>5 DEF Admit
  <2>3. ad \in [Events -> Nat] /\ \A k \in Events : ad[k] = IF k = e THEN admitted[e] + 1 ELSE admitted[k]
    BY <2>0 DEF StateType
  <2>4. Grows
    BY <1>3, <2>0, <2>2, <2>3 DEF Grows, StateType
  <2>5. Sound(data, regs, ad, used)
    BY <1>0, <2>2, <2>3, <2>4, StoreFacts, SoundMonotone DEF Grows
  <2>6. /\ Range(data.dedupe) \cup {e}
             \subseteq Range(next.dedupe) \cup
                (IF Len(data.dedupe) < MaxDedupe THEN {} ELSE {Head(Append(data.dedupe, e))})
        /\ Head(Append(data.dedupe, e)) \in Events
    BY <1>0, <1>4, <2>0, RememberKeeps
  <2> HIDE DEF ad
  <2>7. Remembered'
    <3> SUFFICES ASSUME NEW k \in Events, admitted'[k] >= 1
                 PROVE  k \in Range(next.dedupe) \cup forgotten'
      BY <1>5 DEF Remembered
    <3>1. k \in Range(data.dedupe) \cup {e} \cup forgotten
      BY <2>0, <2>2, <2>3 DEF Remembered
    <3> QED BY <2>2, <2>6, <3>1
  <2>8. AdmittedOnce'
    <3> SUFFICES ASSUME NEW k \in Events, admitted'[k] > 1
                 PROVE  k \in forgotten'
      BY DEF AdmittedOnce, Repeated
    <3>1. forgotten \subseteq forgotten'
      BY <2>2
    <3>2. CASE k = e
      <4>1. admitted[e] >= 1
        BY <2>0, <2>2, <2>3, <3>2 DEF StateType
      <4> QED BY <1>0, <2>0, <3>1, <3>2, <4>1 DEF Remembered
    <3>3. CASE k # e
      BY <2>0, <2>2, <2>3, <3>1, <3>3 DEF AdmittedOnce, Repeated
    <3> QED BY <3>2, <3>3
  <2>9. HistoryTypes'
    BY <1>0, <1>3, <2>0, <2>2, <2>3, <2>6 DEF HistoryTypes, StateType
  <2>10. Carries(next, {})
    <3>1. \A s \in targets : Fresh(e, s).key = e
      BY DEF Fresh
    <3>2. Known(e, admitted, used) => ~Once(e, admitted')
      BY <2>0, <2>2, <2>3, PushAssumption DEF Known, Once, StateType
    <3>3. \A r \in next.queue : r \in data.queue \/ r.key = e
      BY <1>4, <3>1
    <3>4. data.queue \subseteq next.queue
      BY <1>4
    <3> QED BY <3>2, <3>3, <3>4 DEF Carries
  <2> QED BY <1>0, <1>3, <1>4, <2>1, <2>2, <2>4, <2>5, <2>7, <2>8, <2>9, <2>10, StoreStep
<1>6. CASE SaveFails(next) /\ wk' = CancelAll /\ disk' # next /\ UNCHANGED admissions
  <2>1. failed' = TRUE /\ disk' = disk /\ data' = data
    BY <1>6 DEF SaveFails
  <2> QED BY <1>0, <1>6, <2>1, LostSave
<1> QED BY <1>1, <1>5, <1>6 DEF SaveOk

LEMMA FinishedCarries ==
  ASSUME Inv, Available, NEW w \in Workers, ~Idle(w), NEW answer
  PROVE  LET next == Finished(wk[w].item, answer)
         IN  Carries(next, {w}) /\ next.dedupe = data.dedupe /\ Sound(next, regs, admitted, used)
<1> DEFINE item == wk[w].item
           next == Finished(item, answer)
<1>1. item \in Deliveries
  BY DEF Inv, DispatcherInv, BusyTyped
<1>2. /\ Sound(next, regs, admitted, used)
      /\ next.dedupe = data.dedupe
      /\ \A r \in next.queue :
           \/ r \in data.queue /\ ID(r) # ID(item)
           \/ /\ ID(r) = ID(item)
              /\ \E q \in data.queue : ID(q) = ID(r) /\ r.reg = q.reg /\ r.attempts = q.attempts + 1
      /\ \A q \in data.queue, r \in next.queue :
           ID(q) = ID(r) /\ ID(q) # ID(item) => q \in next.queue
  <2> HIDE DEF item
  <2> QED BY <1>1, StoreFacts, FinishedSound
<1> HIDE DEF next
<1>3. Carries(next, {w})
  BY <1>2 DEF Carries
<1> QED BY <1>2, <1>3 DEF next

LEMMA FinishMutates ==
  ASSUME Inv, NEW w \in Workers, wk[w].pc = "answered", Available,
         mutate(Finished(wk[w].item, wk[w].answer), {w}),
         UNCHANGED <<up, stopping, batch, expired, epochs, stops, historyVars>>
  PROVE  Inv'
<1> DEFINE next == Finished(wk[w].item, wk[w].answer)
<1>1. UNCHANGED <<regs, sends, used>>
  BY DEF historyVars
<1>2. Outcome(next, {w}) /\ admitted' = admitted /\ forgotten' = forgotten
  BY MutateOutcome
<1>3. ~Idle(w)
  BY DEF Idle
<1>4. Carries(next, {w}) /\ next.dedupe = data.dedupe /\ Sound(next, regs, admitted, used)
  BY <1>3, FinishedCarries
<1> HIDE DEF next
<1>5. Remembered' /\ AdmittedOnce' /\ Grows
  BY <1>1, <1>2, <1>4, NothingAdmitted
<1>6. HistoryTypes' /\ Sound(data, regs', admitted', used')
  BY <1>1, <1>2, StoreFacts DEF HistoryTypes
<1> QED BY <1>1, <1>2, <1>3, <1>4, <1>5, <1>6, StoreStep

-----------------------------------------------------------------------------
(* The dispatcher: the store stays as it is. *)

StoreSame ==
  /\ data' = data /\ disk' = disk /\ failed' = failed
  /\ admitted' = admitted /\ forgotten' = forgotten
  /\ regs' = regs /\ used' = used /\ up' = up /\ stops' = stops

LEMMA DispatchStep ==
  ASSUME Inv, StateType', StoreSame, \A d : Taken(d)' => Taken(d) \/ d \in data.queue
  PROVE  StoreInv' /\ TakenKnown' /\ TakenOwned' /\ Grows
<1>1. StoreInv'
  BY DEF Inv, StoreInv, Stored, InSync, Remembered, AdmittedOnce, Repeated, StoreSame
<1>2. Grows
  BY DEF Inv, StateType, Grows, StoreSame
<1>3. \A r \in data'.queue \cup disk'.queue :
        \E q \in data.queue \cup disk.queue : ID(q) = ID(r) /\ q.reg = r.reg
  BY DEF StoreSame
<1>4. TakenKnown' /\ TakenOwned'
  BY <1>1, <1>2, <1>3, TakenStep DEF StoreInv, StoreSame
<1> QED BY <1>1, <1>2, <1>4

\* No request is sent, and none that is not counted yet is dropped.
LEMMA BudgetStep ==
  ASSUME Inv, StateType', StoreSame, sends' = sends,
         \A q \in disk.queue : RequestFor(q) => failed \/ RequestFor(q)'
  PROVE  SendInv'
<1>1. Grows
  BY DEF Inv, StateType, Grows, StoreSame
<1>2. Unsent' /\ SendBound'
  BY <1>1, SendStep DEF StoreSame
<1>3. Budget'
  <2> SUFFICES ASSUME NEW q \in disk.queue, Once(q.key, admitted), IsTest(q) \/ (up /\ ~failed)
               PROVE  sends[ID(q)] <= q.attempts + (IF IsTest(q) THEN stops ELSE 0) + (IF Uncounted(q)' THEN 1 ELSE 0)
    BY DEF Budget, StoreSame, IsTest
  <2>1. sends[ID(q)] <= q.attempts + (IF IsTest(q) THEN stops ELSE 0) + (IF Uncounted(q) THEN 1 ELSE 0)
    BY DEF Inv, SendInv, Budget
  <2>2. Uncounted(q) => Uncounted(q)'
    BY DEF Uncounted, StoreSame
  <2>3. q.attempts \in Nat /\ sends[ID(q)] \in Nat /\ stops \in Nat
    BY QueuedFields DEF Inv, StateType
  <2> QED BY <2>1, <2>2, <2>3
<1> QED BY <1>2, <1>3 DEF SendInv

\* A goroutine moves on or returns before it has sent its request.
LEMMA MoveInv ==
  ASSUME Inv, NEW w \in Workers, wk[w].pc \in {"launched", "checked"}, NEW to \in {"checked", "registered"},
         Move(w, to) \/ Leave(w), UNCHANGED <<dispatcherFrame, sends>>
  PROVE  Inv'
<1>1. /\ StoreSame /\ sends' = sends
      /\ UNCHANGED <<stopping, batch, expired, epochs>>
  BY DEF dispatcherFrame, storeVars, admissions, StoreSame
<1>2. StateType /\ wk \in [Workers -> Slots]
  BY DEF Inv, StateType, Slots
<1>3. /\ wk' \in [Workers -> Slots]
      /\ \A v \in Workers \ {w} : wk'[v] = wk[v]
      /\ wk'[w].pc \in {to, "idle"} /\ (wk'[w].pc # "idle" => wk'[w].item = wk[w].item)
  BY <1>2, IdleSlot DEF Move, Leave, Slots
<1>4. StateType'
  BY <1>1, <1>2, <1>3 DEF StateType, StoreSame, Slots
<1>5. WorkersKeep
  BY <1>3 DEF WorkersKeep, Idle
<1>6. \A d : Taken(d)' => Taken(d) \/ d \in data.queue
  BY <1>1, <1>5 DEF Taken, WorkersKeep
<1>7. StoreInv' /\ TakenKnown' /\ TakenOwned'
  BY <1>1, <1>4, <1>6, DispatchStep
<1>8. RetiredCancelled'
  BY <1>1, <1>3 DEF Inv, DispatcherInv, RetiredCancelled, QueuedAs, StoreSame
<1>9. BusyTyped' /\ OneRequest' /\ Quiet'
  BY <1>1, <1>5, WorkersStep DEF Inv, DispatcherInv, Quiet, StoreSame, WorkersKeep
<1>10. \A q : RequestFor(q) => RequestFor(q)'
  BY <1>3 DEF RequestFor, Requesting
<1>11. SendInv'
  BY <1>1, <1>4, <1>10, BudgetStep
<1> QED BY <1>4, <1>7, <1>8, <1>9, <1>11 DEF Inv, DispatcherInv

LEMMA DeliverCheckInv ==
  ASSUME Inv, NEW w \in Workers, DeliverCheck(w)
  PROVE  Inv'
BY MoveInv DEF DeliverCheck

LEMMA DeliverRegisterInv ==
  ASSUME Inv, NEW w \in Workers, DeliverRegister(w)
  PROVE  Inv'
BY MoveInv DEF DeliverRegister

\* An answer arrives, or the guard refuses the request: it is not counted yet.
LEMMA AnsweredInv ==
  ASSUME Inv, NEW w \in Workers, wk[w].pc \in {"registered", "sending"}, NEW answer \in Answers,
         wk' = [wk EXCEPT ![w].pc = "answered", ![w].answer = answer],
         UNCHANGED <<dispatcherFrame, sends>>
  PROVE  Inv'
<1>1. /\ StoreSame /\ sends' = sends
      /\ UNCHANGED <<stopping, batch, expired, epochs>>
  BY DEF dispatcherFrame, storeVars, admissions, StoreSame
<1>2. StateType /\ wk \in [Workers -> Slots]
  BY DEF Inv, StateType, Slots
<1>3. /\ wk' \in [Workers -> Slots]
      /\ \A v \in Workers \ {w} : wk'[v] = wk[v]
      /\ wk'[w].pc = "answered" /\ wk'[w].item = wk[w].item
  BY <1>2 DEF Slots
<1>4. StateType'
  BY <1>1, <1>2, <1>3 DEF StateType, StoreSame, Slots
<1>5. WorkersKeep
  BY <1>3 DEF WorkersKeep, Idle
<1>6. \A d : Taken(d)' => Taken(d) \/ d \in data.queue
  BY <1>1, <1>5 DEF Taken, WorkersKeep
<1>7. StoreInv' /\ TakenKnown' /\ TakenOwned'
  BY <1>1, <1>4, <1>6, DispatchStep
<1>8. RetiredCancelled'
  BY <1>1, <1>3 DEF Inv, DispatcherInv, RetiredCancelled, QueuedAs, StoreSame
<1>9. BusyTyped' /\ OneRequest' /\ Quiet'
  BY <1>1, <1>5, WorkersStep DEF Inv, DispatcherInv, Quiet, StoreSame, WorkersKeep
<1>10. \A q : RequestFor(q) => RequestFor(q)'
  BY <1>3 DEF RequestFor, Requesting
<1>11. SendInv'
  BY <1>1, <1>4, <1>10, BudgetStep
<1> QED BY <1>4, <1>7, <1>8, <1>9, <1>11 DEF Inv, DispatcherInv

LEMMA DeliverAnswerInv ==
  ASSUME Inv, NEW w \in Workers, NEW answer \in Answers, DeliverAnswer(w, answer)
  PROVE  Inv'
BY AnsweredInv DEF DeliverAnswer

\* The guard passes: the attempt is still queued, and no other goroutine has
\* sent a request for it.
LEMMA SendingInv ==
  ASSUME Inv, NEW w \in Workers, wk[w].pc = "registered", Guarded(w), Move(w, "sending"),
         sends' = [sends EXCEPT ![ID(wk[w].item)] = @ + 1], UNCHANGED dispatcherFrame
  PROVE  Inv'
<1> DEFINE item == wk[w].item
<1>1. StoreSame /\ UNCHANGED <<stopping, batch, expired, epochs>>
  BY DEF dispatcherFrame, storeVars, admissions, StoreSame
<1>2. StateType /\ wk \in [Workers -> Slots] /\ ~Idle(w)
  BY DEF Inv, StateType, Slots, Idle
<1>3. item \in Deliveries /\ ID(item) \in IDs /\ ID(item)[1] = item.key /\ Known(item.key, admitted, used)
  <2>1. item \in Deliveries /\ Known(item.key, admitted, used)
    BY <1>2 DEF Inv, DispatcherInv, BusyTyped, TakenKnown, Taken
  <2> QED BY <2>1 DEF Deliveries, IDs, ID
<1>4. /\ wk' \in [Workers -> Slots]
      /\ \A v \in Workers \ {w} : wk'[v] = wk[v]
      /\ wk'[w].pc = "sending" /\ wk'[w].item = item
  BY <1>2 DEF Slots, Move
<1>5. sends' \in [IDs -> Nat] /\ \A i \in IDs : sends'[i] = IF i = ID(item) THEN sends[i] + 1 ELSE sends[i]
  BY <1>2, <1>3 DEF StateType
<1>6. ~failed /\ QueuedAs(item) /\ up /\ data = disk
  <2>1. ~failed /\ QueuedAs(item)
    BY DEF Guarded, Current
  <2>2. up
    BY <1>2 DEF Inv, DispatcherInv, Quiet
  <2> QED BY <2>1, <2>2 DEF Inv, StoreInv, InSync
<1>7. StateType'
  BY <1>1, <1>2, <1>4, <1>5 DEF StateType, StoreSame, Slots
<1>8. WorkersKeep
  BY <1>2, <1>4 DEF WorkersKeep, Idle
<1>9. \A d : Taken(d)' => Taken(d) \/ d \in data.queue
  BY <1>1, <1>8 DEF Taken, WorkersKeep
<1>10. StoreInv' /\ TakenKnown' /\ TakenOwned'
  BY <1>1, <1>7, <1>9, DispatchStep
<1>11. RetiredCancelled'
  BY <1>1, <1>4, <1>6 DEF Inv, DispatcherInv, RetiredCancelled, QueuedAs, StoreSame
<1>12. BusyTyped' /\ OneRequest' /\ Quiet'
  BY <1>1, <1>6, <1>8, WorkersStep DEF StoreSame
<1>13. PICK r \in disk.queue : ID(r) = ID(item) /\ r.attempts = item.attempts
  BY <1>6 DEF QueuedAs
<1>14. r.key = item.key /\ r.attempts \in Nat /\ r.attempts <= 2 /\ (IsTest(r) <=> item.key \in Tests)
  <2>1. r.attempts \in Nat
    BY <1>2, QueuedFields DEF StateType
  <2>2. r.attempts <= 2
    BY DEF Inv, StoreInv, Stored, Sound, Allowed
  <2> QED BY <1>13, <2>1, <2>2 DEF ID, IsTest
<1>15. ASSUME NEW q \in disk.queue, ID(q) = ID(item), Once(item.key, admitted)
       PROVE  q = r
  <2>1. UniqueQueue(disk, admitted)
    BY DEF Inv, StoreInv, Stored, Sound
  <2> QED BY <1>13, <1>14, <1>15, <2>1 DEF UniqueQueue, ID
<1>16. ~Uncounted(r)
  BY <1>2, <1>6, <1>13 DEF Inv, DispatcherInv, OneRequest, Uncounted, RequestFor, Requesting, Idle
<1> DEFINE more == IF item.key \in Tests THEN stops ELSE 0
<1>17. more \in Nat /\ sends[ID(item)] \in Nat
  BY <1>2, <1>3 DEF StateType
<1>18. Once(item.key, admitted) => sends[ID(item)] <= r.attempts + more
  <2> HAVE Once(item.key, admitted)
  <2>1. sends[ID(r)] <= r.attempts + (IF IsTest(r) THEN stops ELSE 0) + (IF Uncounted(r) THEN 1 ELSE 0)
    BY <1>6, <1>14 DEF Inv, SendInv, Budget
  <2> QED BY <1>13, <1>14, <1>16, <2>1, <1>17
<1>19. Unsent'
  BY <1>1, <1>3, <1>5 DEF Inv, SendInv, Unsent, StoreSame
<1> HIDE DEF item
<1>20. SendBound'
  <2> SUFFICES ASSUME NEW i \in IDs, i[1] \notin Repeated
               PROVE  sends'[i] <= IF i[1] \in Tests THEN 3 + stops ELSE 3
    BY <1>1 DEF SendBound, StoreSame, Repeated
  <2>1. CASE i = ID(item)
    <3>1. Once(item.key, admitted)
      BY <1>2, <1>3, <2>1, OnceRepeated
    <3>2. sends'[i] <= r.attempts + more + 1
      BY <1>5, <1>14, <1>17, <1>18, <2>1, <3>1
    <3>3. sends'[i] <= 3 + more /\ sends'[i] \in Nat
      BY <1>5, <1>14, <1>17, <3>2
    <3> QED BY <1>3, <2>1, <3>3
  <2>2. CASE i # ID(item)
    BY <1>5, <2>2 DEF Inv, SendInv, SendBound
  <2> QED BY <2>1, <2>2
<1>21. Budget'
  <2> SUFFICES ASSUME NEW q \in disk.queue, Once(q.key, admitted), IsTest(q) \/ (up /\ ~failed)
               PROVE  sends'[ID(q)] <= q.attempts + (IF IsTest(q) THEN stops ELSE 0) + (IF Uncounted(q)' THEN 1 ELSE 0)
    BY <1>1 DEF Budget, StoreSame, IsTest
  <2>1. CASE ID(q) = ID(item)
    <3>1. q.key = item.key
      BY <2>1 DEF ID
    <3>2. q = r
      BY <1>15, <2>1, <3>1
    <3>3. Uncounted(r)'
      BY <1>4, <1>13 DEF Uncounted, RequestFor, Requesting
    <3>4. sends'[ID(item)] = sends[ID(item)] + 1
      BY <1>3, <1>5
    <3>5. sends'[ID(q)] <= r.attempts + more + 1
      BY <1>14, <1>17, <1>18, <2>1, <3>1, <3>4
    <3> QED BY <1>14, <3>2, <3>3, <3>5
  <2>2. CASE ID(q) # ID(item)
    <3>1. ID(q) \in IDs /\ q.attempts \in Nat /\ sends[ID(q)] \in Nat
      BY <1>2, QueuedFields DEF StateType
    <3>2. sends'[ID(q)] = sends[ID(q)]
      BY <1>5, <2>2, <3>1
    <3>3. RequestFor(q) => RequestFor(q)'
      BY <1>4, <2>2 DEF RequestFor, Requesting, item
    <3>4. Uncounted(q) => Uncounted(q)'
      BY <1>6, <3>3 DEF Uncounted
    <3>5. sends[ID(q)] <= q.attempts + (IF IsTest(q) THEN stops ELSE 0) + (IF Uncounted(q) THEN 1 ELSE 0)
      BY DEF Inv, SendInv, Budget
    <3>6. stops \in Nat
      BY <1>2 DEF StateType
    <3> QED BY <3>1, <3>2, <3>4, <3>5, <3>6
  <2> QED BY <2>1, <2>2
<1> QED BY <1>7, <1>10, <1>11, <1>12, <1>19, <1>20, <1>21 DEF Inv, DispatcherInv, SendInv

LEMMA DeliverSendInv ==
  ASSUME Inv, NEW w \in Workers, DeliverSend(w)
  PROVE  Inv'
<1>1. CASE Guarded(w)
  BY <1>1, SendingInv DEF DeliverSend
<1>2. CASE ~Guarded(w)
  <2>1. wk' = [wk EXCEPT ![w].pc = "answered", ![w].answer = "transient"] /\ UNCHANGED sends
    BY <1>2 DEF DeliverSend
  <2>2. "transient" \in Answers
    BY DEF Answers
  <2> QED BY <2>1, <2>2, AnsweredInv DEF DeliverSend
<1> QED BY <1>1, <1>2

\* An answer to an attempt that is no longer queued is dropped.
LEMMA FinishLeaves ==
  ASSUME Inv, NEW w \in Workers, wk[w].pc = "answered", ~(up /\ ~failed /\ QueuedAs(wk[w].item)),
         Leave(w), UNCHANGED storeVars,
         UNCHANGED <<up, stopping, batch, expired, epochs, stops, historyVars>>
  PROVE  Inv'
<1>1. /\ StoreSame /\ sends' = sends
      /\ UNCHANGED <<stopping, batch, expired, epochs>>
  BY DEF storeVars, admissions, historyVars, StoreSame
<1>2. StateType /\ wk \in [Workers -> Slots]
  BY DEF Inv, StateType, Slots
<1>3. /\ wk' \in [Workers -> Slots] /\ wk'[w].pc = "idle"
      /\ \A v \in Workers \ {w} : wk'[v] = wk[v]
  BY <1>2, IdleSlot DEF Leave
<1>4. StateType'
  BY <1>1, <1>2, <1>3 DEF StateType, StoreSame, Slots
<1>5. WorkersKeep
  BY <1>3 DEF WorkersKeep, Idle
<1>6. \A d : Taken(d)' => Taken(d) \/ d \in data.queue
  BY <1>1, <1>5 DEF Taken, WorkersKeep
<1>7. StoreInv' /\ TakenKnown' /\ TakenOwned'
  BY <1>1, <1>4, <1>6, DispatchStep
<1>8. RetiredCancelled'
  BY <1>1, <1>3 DEF Inv, DispatcherInv, RetiredCancelled, QueuedAs, StoreSame
<1>9. BusyTyped' /\ OneRequest' /\ Quiet'
  BY <1>1, <1>5, WorkersStep DEF Inv, DispatcherInv, Quiet, StoreSame, WorkersKeep
<1>10. \A q \in disk.queue : RequestFor(q) => failed \/ RequestFor(q)'
  <2> SUFFICES ASSUME NEW q \in disk.queue, ~failed,
                      NEW v \in Workers, Requesting(v), ID(wk[v].item) = ID(q), wk[v].item.attempts = q.attempts
               PROVE  v # w
    BY <1>3 DEF RequestFor, Requesting
  <2>1. up /\ data = disk
    BY DEF Inv, DispatcherInv, Quiet, StoreInv, InSync, Requesting, Idle
  <2> QED BY <2>1 DEF QueuedAs
<1>11. SendInv'
  BY <1>1, <1>4, <1>10, BudgetStep
<1> QED BY <1>4, <1>7, <1>8, <1>9, <1>11 DEF Inv, DispatcherInv

LEMMA FinishInv ==
  ASSUME Inv, NEW w \in Workers, Finish(w)
  PROVE  Inv'
<1>1. CASE up /\ ~failed /\ QueuedAs(wk[w].item)
  BY <1>1, FinishMutates DEF Finish, Available
<1>2. CASE ~(up /\ ~failed /\ QueuedAs(wk[w].item))
  <2>1. wk[w].pc = "answered" /\ Leave(w) /\ UNCHANGED storeVars
        /\ UNCHANGED <<up, stopping, batch, expired, epochs, stops, historyVars>>
    BY <1>2 DEF Finish
  <2> QED BY <1>2, <2>1, FinishLeaves
<1> QED BY <1>1, <1>2

\* A delivery is started only if no goroutine has its ID.
LEMMA RunNextInv ==
  ASSUME Inv, NEW item \in batch, RunNext(item)
  PROVE  Inv'
<1>1. /\ StoreSame /\ sends' = sends /\ up
      /\ UNCHANGED <<stopping, expired, epochs>>
  BY DEF RunNext, storeVars, admissions, historyVars, StoreSame
<1>2. StateType /\ wk \in [Workers -> Slots] /\ item \in Deliveries
  BY DEF Inv, StateType, Slots
<1>3. batch' \subseteq batch
  BY DEF RunNext
<1>4. CASE wk' = wk
  <2>1. StateType'
    BY <1>1, <1>2, <1>3, <1>4 DEF StateType, StoreSame, Slots
  <2>2. WorkersKeep
    BY <1>4 DEF WorkersKeep, Idle
  <2>3. \A d : Taken(d)' => Taken(d) \/ d \in data.queue
    BY <1>3, <2>2 DEF Taken, WorkersKeep
  <2>4. StoreInv' /\ TakenKnown' /\ TakenOwned'
    BY <1>1, <2>1, <2>3, DispatchStep
  <2>5. RetiredCancelled'
    BY <1>1, <1>4 DEF Inv, DispatcherInv, RetiredCancelled, QueuedAs, StoreSame
  <2>6. BusyTyped' /\ OneRequest' /\ Quiet'
    BY <1>1, <2>2, WorkersStep DEF StoreSame
  <2>7. SendInv'
    BY <1>1, <1>4, <2>1, BudgetStep DEF RequestFor, Requesting
  <2> QED BY <2>1, <2>4, <2>5, <2>6, <2>7 DEF Inv, DispatcherInv
<1>5. CASE /\ ID(item) \notin Inflight
           /\ \E w \in Workers :
                Idle(w) /\ wk' = [wk EXCEPT ![w] = [IdleWorker EXCEPT !.pc = "launched", !.item = item]]
  <2>1. PICK w \in Workers :
          Idle(w) /\ wk' = [wk EXCEPT ![w] = [IdleWorker EXCEPT !.pc = "launched", !.item = item]]
    BY <1>5
  <2>2. /\ [IdleWorker EXCEPT !.pc = "launched", !.item = item] \in Slots
        /\ [IdleWorker EXCEPT !.pc = "launched", !.item = item].pc = "launched"
        /\ [IdleWorker EXCEPT !.pc = "launched", !.item = item].item = item
    BY <1>2 DEF IdleWorker, Slots
  <2>3. /\ wk' \in [Workers -> Slots] /\ wk'[w].pc = "launched" /\ wk'[w].item = item
        /\ \A v \in Workers \ {w} : wk'[v] = wk[v]
    BY <1>2, <2>1, <2>2
  <2>4. StateType'
    BY <1>1, <1>2, <1>3, <2>3 DEF StateType, StoreSame, Slots
  <2>5. \A d : Taken(d)' => Taken(d) \/ d \in data.queue
    BY <1>3, <2>3 DEF Taken, Idle
  <2>6. StoreInv' /\ TakenKnown' /\ TakenOwned'
    BY <1>1, <2>4, <2>5, DispatchStep
  <2>7. RetiredCancelled'
    BY <1>1, <2>3 DEF Inv, DispatcherInv, RetiredCancelled, QueuedAs, StoreSame
  <2>8. BusyTyped'
    BY <1>2, <2>3 DEF Inv, DispatcherInv, BusyTyped, Idle
  <2>9. OneRequest'
    <3>1. \A v \in Workers : ~Idle(v) => ID(wk[v].item) # ID(item)
      BY <1>5 DEF Inflight
    <3> QED BY <2>3, <3>1 DEF Inv, DispatcherInv, OneRequest, Idle
  <2>10. Quiet'
    BY <1>1 DEF Quiet, StoreSame
  <2>11. \A q : RequestFor(q) => RequestFor(q)'
    BY <2>1, <2>3 DEF RequestFor, Requesting, Idle
  <2>12. SendInv'
    BY <1>1, <2>4, <2>11, BudgetStep
  <2> QED BY <2>4, <2>6, <2>7, <2>8, <2>9, <2>10, <2>12 DEF Inv, DispatcherInv
<1> QED BY <1>4, <1>5 DEF RunNext

\* pending: the snapshot is what the store holds.
LEMMA TickInv ==
  ASSUME Inv, Tick
  PROVE  Inv'
<1> DEFINE next == Drop(data, {q \in data.queue : Stale(data, q)})
           due == {q \in next.queue : q.due}
<1>0. /\ Available
      /\ UNCHANGED <<up, stopping, expired, epochs, stops, historyVars>>
      /\ IF next = data
         THEN batch' = due /\ UNCHANGED <<storeVars, wk>>
         ELSE \/ SaveOk(next) /\ wk' = Retire(next) /\ batch' = due /\ UNCHANGED admissions
              \/ SaveFails(next) /\ wk' = CancelAll /\ UNCHANGED <<batch, admissions>>
  BY Zenon DEF Tick
<1>1. Sound(next, regs, admitted, used) /\ Pruned(data, next)
  BY <1>0, StoreFacts, PendingSound
<1>2. UNCHANGED <<regs, sends, used>>
  BY <1>0 DEF historyVars
<1> HIDE DEF next
<1>3. CASE next = data
  <2>1. StoreSame /\ wk' = wk /\ sends' = sends /\ batch' \subseteq data.queue /\ up
    BY <1>0, <1>2, <1>3 DEF StoreSame, storeVars, admissions, Available
  <2>2. StateType'
    <3>1. StateType /\ batch' \subseteq Deliveries
      BY <2>1 DEF Inv, StateType, DiskStates
    <3> QED BY <1>0, <2>1, <3>1 DEF StateType, StoreSame
  <2>3. WorkersKeep
    BY <2>1 DEF WorkersKeep, Idle
  <2>4. \A d : Taken(d)' => Taken(d) \/ d \in data.queue
    BY <2>1, <2>3 DEF Taken, WorkersKeep
  <2>5. StoreInv' /\ TakenKnown' /\ TakenOwned'
    BY <2>1, <2>2, <2>4, DispatchStep
  <2>6. RetiredCancelled'
    BY <2>1 DEF Inv, DispatcherInv, RetiredCancelled, QueuedAs, StoreSame
  <2>7. BusyTyped' /\ OneRequest' /\ Quiet'
    BY <2>1, <2>3, WorkersStep DEF StoreSame
  <2>8. SendInv'
    BY <2>1, <2>2, BudgetStep DEF RequestFor, Requesting
  <2> QED BY <2>2, <2>5, <2>6, <2>7, <2>8 DEF Inv, DispatcherInv
<1>4. CASE next # data
  <2>1. /\ \/ SaveOk(next) /\ wk' = Retire(next)
           \/ SaveFails(next) /\ wk' = CancelAll
        /\ admitted' = admitted /\ forgotten' = forgotten
        /\ batch' = batch \/ (batch' \subseteq next.queue /\ data' = next)
    BY <1>0, <1>4 DEF admissions, SaveOk
  <2>2. Outcome(next, {})
    BY <2>1, PlainOutcome
  <2>3. next.dedupe = data.dedupe /\ Carries(next, {})
    BY <1>1, PrunedCarries DEF Pruned
  <2>4. Remembered' /\ AdmittedOnce' /\ Grows
    BY <1>0, <1>2, <2>1, <2>2, <2>3, NothingAdmitted
  <2>5. HistoryTypes' /\ Sound(data, regs', admitted', used')
    BY <1>0, <1>2, <2>1, StoreFacts DEF HistoryTypes
  <2> QED BY <1>0, <1>1, <1>2, <2>1, <2>2, <2>3, <2>4, <2>5, StoreStep
<1> QED BY <1>3, <1>4

-----------------------------------------------------------------------------
(* Time, shutdown, crash and restart. *)

\* Nothing the invariant relates changes.
LEMMA FrameInv ==
  ASSUME Inv, UNCHANGED <<storeVars, up, batch, wk, epochs, stops, historyVars>>,
         stopping' \in BOOLEAN, expired' \subseteq Keys
  PROVE  Inv'
<1>1. StoreSame /\ wk' = wk /\ sends' = sends /\ batch' = batch /\ epochs' = epochs
  BY DEF StoreSame, storeVars, admissions, historyVars
<1>2. StateType'
  BY <1>1 DEF Inv, StateType, StoreSame
<1>3. WorkersKeep
  BY <1>1 DEF WorkersKeep, Idle
<1>4. \A d : Taken(d)' => Taken(d) \/ d \in data.queue
  BY <1>1, <1>3 DEF Taken, WorkersKeep
<1>5. StoreInv' /\ TakenKnown' /\ TakenOwned'
  BY <1>1, <1>2, <1>4, DispatchStep
<1>6. RetiredCancelled'
  BY <1>1 DEF Inv, DispatcherInv, RetiredCancelled, QueuedAs, StoreSame
<1>7. BusyTyped' /\ OneRequest' /\ Quiet'
  BY <1>1 DEF Inv, DispatcherInv, BusyTyped, OneRequest, Quiet, StoreSame, Idle
<1>8. SendInv'
  BY <1>1, <1>2, BudgetStep DEF RequestFor, Requesting
<1> QED BY <1>2, <1>5, <1>6, <1>7, <1>8 DEF Inv, DispatcherInv

LEMMA ExpireInv ==
  ASSUME Inv, NEW k \in Keys, Expire(k)
  PROVE  Inv'
<1>1. UNCHANGED <<storeVars, up, batch, wk, epochs, stops, historyVars>> /\ stopping' = stopping
      /\ expired' = expired \cup {k}
  BY DEF Expire
<1> QED BY <1>1, FrameInv DEF Inv, StateType

LEMMA CloseDispatcherInv ==
  ASSUME Inv, CloseDispatcher
  PROVE  Inv'
<1>1. UNCHANGED <<storeVars, up, batch, wk, epochs, stops, historyVars>> /\ stopping' = TRUE
      /\ expired' = expired
  BY DEF CloseDispatcher
<1> QED BY <1>1, FrameInv DEF Inv, StateType

\* Time passes in the store.
LEMMA ClockInv ==
  ASSUME Inv, Sound(data', regs, admitted, used), Sound(disk', regs, admitted, used),
         SameQueue(data, data'), SameQueue(disk, disk'), data = disk => data' = disk',
         UNCHANGED <<failed, admissions, up, stopping, batch, wk, expired, epochs, stops, historyVars>>
  PROVE  Inv'
<1>1. UNCHANGED <<failed, admitted, forgotten, up, stopping, batch, wk, expired, epochs, stops, regs, sends, used>>
  BY DEF admissions, historyVars
<1>2. StateType'
  BY <1>1 DEF Inv, StateType, Sound
<1>3. StoreInv'
  BY <1>1 DEF Inv, StoreInv, Stored, InSync, Remembered, AdmittedOnce, Repeated, SameQueue
<1>4. Grows
  BY <1>1 DEF Inv, StateType, Grows
<1>5. TakenKnown' /\ TakenOwned'
  <2>1. \A d : Taken(d)' => Taken(d) \/ d \in data'.queue
    BY <1>1 DEF Taken, Idle
  <2>2. \A r \in data'.queue \cup disk'.queue :
          \E q \in data.queue \cup disk.queue : ID(q) = ID(r) /\ q.reg = r.reg
    BY DEF SameQueue
  <2> QED BY <1>2, <1>3, <1>4, <2>1, <2>2, TakenStep DEF StoreInv
<1>6. BusyTyped' /\ OneRequest' /\ Quiet'
  BY <1>1 DEF Inv, DispatcherInv, BusyTyped, OneRequest, Quiet, Idle
<1>7. RetiredCancelled'
  <2> SUFFICES ASSUME NEW w \in Workers, wk[w].pc = "sending", ~wk[w].cancelled
               PROVE  ~failed /\ \E r \in data'.queue : ID(r) = ID(wk[w].item) /\ r.attempts = wk[w].item.attempts
    BY <1>1 DEF RetiredCancelled, QueuedAs
  <2>1. ~failed
    BY DEF Inv, DispatcherInv, RetiredCancelled
  <2>2. PICK q \in data.queue : ID(q) = ID(wk[w].item) /\ q.attempts = wk[w].item.attempts
    BY DEF Inv, DispatcherInv, RetiredCancelled, QueuedAs
  <2>3. PICK r \in data'.queue : ID(q) = ID(r) /\ q.attempts = r.attempts
    BY Zenon DEF SameQueue
  <2> QED BY <2>1, <2>2, <2>3
<1>8. Unsent' /\ SendBound'
  BY <1>1, <1>2, <1>4, SendStep
<1>9. Budget'
  <2> SUFFICES ASSUME NEW r \in disk'.queue, Once(r.key, admitted), IsTest(r) \/ (up /\ ~failed)
               PROVE  sends[ID(r)] <= r.attempts + (IF IsTest(r) THEN stops ELSE 0) + (IF Uncounted(r)' THEN 1 ELSE 0)
    BY <1>1 DEF Budget, IsTest
  <2>1. PICK q \in disk.queue : ID(q) = ID(r) /\ q.reg = r.reg /\ q.attempts = r.attempts
    BY Zenon DEF SameQueue
  <2>2. q.key = r.key /\ (IsTest(q) <=> IsTest(r))
    BY <2>1 DEF ID, IsTest
  <2>3. sends[ID(q)] <= q.attempts + (IF IsTest(q) THEN stops ELSE 0) + (IF Uncounted(q) THEN 1 ELSE 0)
    BY <2>2 DEF Inv, SendInv, Budget
  <2>4. Uncounted(q) <=> Uncounted(r)'
    BY <1>1, <2>1 DEF Uncounted, RequestFor, Requesting
  <2> QED BY <2>1, <2>2, <2>3, <2>4
<1> QED BY <1>2, <1>3, <1>5, <1>6, <1>7, <1>8, <1>9 DEF Inv, DispatcherInv, SendInv

LEMMA BackoffElapsesInv ==
  ASSUME Inv, BackoffElapses
  PROVE  Inv'
<1>1. /\ data' = AllDue(data) /\ disk' = AllDue(disk)
      /\ UNCHANGED <<failed, admissions, up, stopping, batch, wk, expired, epochs, stops, historyVars>>
  BY DEF BackoffElapses
<1>2. Sound(data, regs, admitted, used) /\ Sound(disk, regs, admitted, used)
  BY DEF Inv, StoreInv, Stored
<1>3. /\ Sound(data', regs, admitted, used) /\ SameQueue(data, data')
      /\ Sound(disk', regs, admitted, used) /\ SameQueue(disk, disk')
  BY <1>1, <1>2, AllDueSound
<1>4. data = disk => data' = disk'
  BY <1>1
<1> QED BY <1>1, <1>3, <1>4, ClockInv

LEMMA MinutePassesInv ==
  ASSUME Inv, MinutePasses
  PROVE  Inv'
<1>1. /\ data' = NoneRecent(data) /\ disk' = NoneRecent(disk)
      /\ UNCHANGED <<failed, admissions, up, stopping, batch, wk, expired, epochs, stops, historyVars>>
  BY DEF MinutePasses
<1>2. Sound(data, regs, admitted, used) /\ Sound(disk, regs, admitted, used)
  BY DEF Inv, StoreInv, Stored
<1>3. /\ Sound(data', regs, admitted, used) /\ SameQueue(data, data')
      /\ Sound(disk', regs, admitted, used) /\ SameQueue(disk, disk')
  BY <1>1, <1>2, NoneRecentSound DEF SameQueue
<1>4. data = disk => data' = disk'
  BY <1>1
<1> QED BY <1>1, <1>3, <1>4, ClockInv

\* A process that stops takes its uncounted requests with it: a test may be sent
\* once more.
LEMMA DownInv ==
  ASSUME Inv, Down, UNCHANGED <<disk, admissions, expired, epochs, historyVars>>
  PROVE  Inv'
<1>1. /\ UNCHANGED <<disk, admitted, forgotten, expired, epochs, regs, sends, used>>
      /\ data' = disk /\ failed' = FALSE /\ up' = FALSE /\ stopping' = FALSE /\ batch' = {}
      /\ wk' = [w \in Workers |-> IdleWorker] /\ stops' = stops + 1
  BY DEF Down, admissions, historyVars
<1>2. wk' \in [Workers -> Slots] /\ \A w \in Workers : wk'[w].pc = "idle"
  BY <1>1, IdleSlot
<1>3. StateType'
  <2>1. StateType /\ {} \subseteq Deliveries /\ FALSE \in BOOLEAN
    BY DEF Inv
  <2>2. stops' \in Nat
    BY <1>1, <2>1 DEF StateType
  <2> QED BY <1>1, <1>2, <2>1, <2>2, Zenon DEF StateType, Slots
<1>4. StoreInv'
  BY <1>1 DEF Inv, StoreInv, Stored, InSync, Remembered, AdmittedOnce, Repeated
<1>5. Grows
  BY <1>1 DEF Inv, StateType, Grows
<1>6. DispatcherInv'
  BY <1>1, <1>2 DEF DispatcherInv, BusyTyped, Quiet, OneRequest, TakenKnown, TakenOwned, RetiredCancelled, Taken, Idle
<1>7. Unsent' /\ SendBound'
  BY <1>1, <1>3, <1>5, SendStep
<1>8. Budget'
  <2> SUFFICES ASSUME NEW q \in disk.queue, Once(q.key, admitted), IsTest(q)
               PROVE  sends[ID(q)] <= q.attempts + (stops + 1) + (IF Uncounted(q)' THEN 1 ELSE 0)
    BY <1>1 DEF Budget, IsTest
  <2>1. sends[ID(q)] <= q.attempts + stops + (IF Uncounted(q) THEN 1 ELSE 0)
    BY DEF Inv, SendInv, Budget
  <2>2. q.attempts \in Nat /\ sends[ID(q)] \in Nat /\ stops \in Nat
    BY QueuedFields DEF Inv, StateType
  <2> QED BY <2>1, <2>2
<1> QED BY <1>3, <1>4, <1>6, <1>7, <1>8 DEF Inv, SendInv

\* A restart keeps only tests, with the requests sent for them.
LEMMA OpenInv ==
  ASSUME Inv, Open
  PROVE  Inv'
<1> DEFINE next == InEpoch(disk, epochs')
<1>1. /\ ~up /\ epochs' = epochs + 1
      /\ UNCHANGED <<admitted, forgotten, stopping, batch, wk, expired, stops, regs, sends, used>>
      /\ data' = disk' /\ disk' \in {disk, next} /\ failed' = failed
      /\ up' = up \/ (up' = TRUE /\ disk' = next)
  BY DEF Open, SaveOk, admissions, historyVars
<1>2. StateType /\ Sound(disk, regs, admitted, used) /\ epochs' \in Nat
  BY <1>1 DEF Inv, StoreInv, Stored, StateType
<1>3. Sound(next, regs, admitted, used) /\ Pruned(disk, next) /\ \A q \in next.queue : IsTest(q)
  BY <1>2, InEpochSound
<1> HIDE DEF next
<1>4. /\ Sound(disk', regs, admitted, used) /\ disk'.dedupe = disk.dedupe
      /\ disk'.queue \subseteq disk.queue
  BY <1>1, <1>2, <1>3 DEF Pruned
<1>5. StateType'
  <2>1. data' \in DiskStates /\ disk' \in DiskStates
    BY <1>1, <1>4 DEF Sound
  <2>2. up' \in BOOLEAN
    BY <1>1, <1>2 DEF StateType
  <2> QED BY <1>1, <1>2, <2>1, <2>2 DEF StateType
<1>6. StoreInv'
  BY <1>1, <1>4 DEF Inv, StoreInv, Stored, InSync, Remembered, AdmittedOnce, Repeated
<1>7. Grows
  BY <1>1, <1>2 DEF StateType, Grows
<1>8. batch = {} /\ \A w \in Workers : Idle(w)
  BY <1>1 DEF Inv, DispatcherInv, Quiet
<1>9. DispatcherInv'
  BY <1>1, <1>8 DEF DispatcherInv, BusyTyped, Quiet, OneRequest, TakenKnown, TakenOwned, RetiredCancelled, Taken, Idle
<1>10. Unsent' /\ SendBound'
  BY <1>1, <1>5, <1>7, SendStep
<1>11. Budget'
  <2> SUFFICES ASSUME NEW q \in disk'.queue, Once(q.key, admitted), IsTest(q) \/ (up' /\ ~failed')
               PROVE  sends[ID(q)] <= q.attempts + (IF IsTest(q) THEN stops ELSE 0) + (IF Uncounted(q)' THEN 1 ELSE 0)
    BY <1>1 DEF Budget, IsTest
  <2>1. IsTest(q) /\ q \in disk.queue
    BY <1>1, <1>3, <1>4
  <2>2. sends[ID(q)] <= q.attempts + (IF IsTest(q) THEN stops ELSE 0) + (IF Uncounted(q) THEN 1 ELSE 0)
    BY <2>1 DEF Inv, SendInv, Budget
  <2>3. Uncounted(q) <=> Uncounted(q)'
    BY <1>1 DEF Uncounted, RequestFor, Requesting
  <2> QED BY <2>2, <2>3
<1> QED BY <1>5, <1>6, <1>9, <1>10, <1>11 DEF Inv, SendInv

-----------------------------------------------------------------------------
(* The theorems. *)

LEMMA StutterInv ==
  ASSUME Inv, UNCHANGED vars
  PROVE  Inv'
<1>1. UNCHANGED <<storeVars, up, batch, wk, epochs, stops, historyVars>> /\ stopping' = stopping /\ expired' = expired
  BY DEF vars
<1> QED BY <1>1, FrameInv DEF Inv, StateType

LEMMA NextInv ==
  ASSUME Inv, [Next]_vars
  PROVE  Inv'
<1>1. ASSUME NEW s \in Subs, NEW want \in BOOLEAN, Register(s, want) PROVE Inv'
  BY <1>1, RegisterInv
<1>2. ASSUME NEW s \in Subs, Delete(s) PROVE Inv'
  BY <1>2, DeleteInv
<1>3. ASSUME NEW s \in Subs, NEW t \in Tests, QueueTest(s, t) PROVE Inv'
  BY <1>3, QueueTestInv
<1>4. CASE Reset
  BY <1>4, ResetInv
<1>5. ASSUME NEW e \in Events, NEW silent \in BOOLEAN, Enqueue(e, silent) PROVE Inv'
  BY <1>5, EnqueueInv
<1>6. CASE Tick
  BY <1>6, TickInv
<1>7. ASSUME NEW item \in batch, RunNext(item) PROVE Inv'
  BY <1>7, RunNextInv
<1>8. ASSUME NEW w \in Workers, Deliver(w) PROVE Inv'
  BY <1>8, DeliverCheckInv, DeliverRegisterInv, DeliverSendInv, DeliverAnswerInv, FinishInv DEF Deliver
<1>9. ASSUME NEW k \in Keys, Expire(k) PROVE Inv'
  BY <1>9, ExpireInv
<1>10. CASE BackoffElapses
  BY <1>10, BackoffElapsesInv
<1>11. CASE MinutePasses
  BY <1>11, MinutePassesInv
<1>12. CASE CloseDispatcher
  BY <1>12, CloseDispatcherInv
<1>13. CASE CloseStore
  BY <1>13, DownInv DEF CloseStore
<1>14. CASE Crash
  BY <1>14, DownInv DEF Crash
<1>15. CASE Open
  BY <1>15, OpenInv
<1>16. CASE FirstSave
  <2>1. UNCHANGED <<storeVars, up, batch, wk, epochs, stops, historyVars>> /\ stopping' = stopping /\ expired' = expired
    BY <1>16 DEF FirstSave
  <2> QED BY <2>1, FrameInv DEF Inv, StateType
<1>17. CASE UNCHANGED vars
  BY <1>17, StutterInv
<1> QED
  BY <1>1, <1>2, <1>3, <1>4, <1>5, <1>6, <1>7, <1>8, <1>9, <1>10, <1>11, <1>12, <1>13, <1>14, <1>15, <1>16, <1>17
  DEF Next

\* Before the first save nothing is open and nothing is stored.
FirstStart ==
  /\ files \in {"none", "locked", "saved"}
  /\ files # "saved" => ~up /\ data = EmptyState /\ disk = EmptyState

\* Without a service only a first start, a restart and the clock take steps, and
\* the clock has nothing to do in an empty store.
LEMMA FirstStartStep ==
  ASSUME Inv, FirstStart, [Next]_vars
  PROVE  FirstStart'
<1>0. EmptyState.queue = {} /\ EmptyState.tests = 0
  BY DEF EmptyState
<1>1. \A w \in Workers : ~up => Idle(w)
  BY DEF Inv, DispatcherInv, Quiet
<1>2. ~up => batch = {}
  BY DEF Inv, DispatcherInv, Quiet
<1>3. ASSUME files' = files, files = "saved" \/ UNCHANGED <<up, data, disk>> PROVE FirstStart'
  BY <1>3 DEF FirstStart
<1> USE DEF FirstStart
<1>4. ASSUME NEW s \in Subs, NEW want \in BOOLEAN, Register(s, want) PROVE FirstStart'
  BY <1>3, <1>4 DEF Register, Available
<1>5. ASSUME NEW s \in Subs, Delete(s) PROVE FirstStart'
  BY <1>3, <1>5 DEF Delete, Available
<1>6. ASSUME NEW s \in Subs, NEW t \in Tests, QueueTest(s, t) PROVE FirstStart'
  BY <1>3, <1>6 DEF QueueTest, Available
<1>7. CASE Reset
  BY <1>3, <1>7 DEF Reset, Available
<1>8. ASSUME NEW e \in Events, NEW silent \in BOOLEAN, Enqueue(e, silent) PROVE FirstStart'
  <2>1. files' = files /\ up
    BY <1>8 DEF Enqueue, Available
  <2> QED BY <1>3, <2>1
<1>9. CASE Tick
  <2>1. files' = files /\ up
    BY <1>9 DEF Tick, Available
  <2> QED BY <1>3, <2>1
<1>10. ASSUME NEW item \in batch, RunNext(item) PROVE FirstStart'
  BY <1>3, <1>10 DEF RunNext
<1>11. ASSUME NEW w \in Workers, Deliver(w) PROVE FirstStart'
  <2>1. wk[w].pc # "idle"
    BY <1>11 DEF Deliver, DeliverCheck, DeliverRegister, DeliverSend, DeliverAnswer, Finish
  <2>2. up
    BY <1>1, <2>1 DEF Idle
  <2>3. files' = files
    <3>1. CASE DeliverCheck(w) \/ DeliverRegister(w) \/ DeliverSend(w)
      BY <3>1 DEF DeliverCheck, DeliverRegister, DeliverSend, dispatcherFrame
    <3>2. CASE \E answer \in Answers : DeliverAnswer(w, answer)
      BY <3>2 DEF DeliverAnswer, dispatcherFrame
    <3>3. CASE Finish(w)
      BY <3>3 DEF Finish
    <3> QED BY <1>11, <3>1, <3>2, <3>3 DEF Deliver
  <2> QED BY <1>3, <2>2, <2>3
<1>12. ASSUME NEW k \in Keys, Expire(k) PROVE FirstStart'
  BY <1>3, <1>12 DEF Expire, storeVars
<1>13. CASE BackoffElapses
  BY <1>0, <1>3, <1>13 DEF BackoffElapses
<1>14. CASE MinutePasses
  BY <1>0, <1>3, <1>14 DEF MinutePasses
<1>15. CASE CloseDispatcher
  BY <1>3, <1>15 DEF CloseDispatcher
<1>16. CASE CloseStore
  BY <1>3, <1>16 DEF CloseStore
<1>17. CASE Crash
  BY <1>3, <1>17 DEF Crash
<1>18. CASE FirstSave
  BY <1>18 DEF FirstSave, storeVars
<1>19. CASE Open
  BY <1>3, <1>19 DEF Open
<1>20. CASE UNCHANGED vars
  BY <1>3, <1>20 DEF vars, storeVars
<1> QED
  BY <1>4, <1>5, <1>6, <1>7, <1>8, <1>9, <1>10, <1>11, <1>12, <1>13, <1>14, <1>15, <1>16, <1>17, <1>18, <1>19, <1>20
  DEF Next

\* The inductive invariant: store, dispatcher and requests sent stay related as
\* Inv says in every behaviour of the service.
THEOREM PushInvariant == Spec => [](Inv /\ FirstStart)
<1>1. Init => FirstStart
  BY DEF Init, FirstStart
<1> QED BY <1>1, InitInv, NextInv, FirstStartStep, PTL DEF Spec

\* Store, dispatcher and worker slots keep their types.
THEOREM PushTypes == Spec => []TypeOK
<1>1. Inv /\ FirstStart => TypeOK
  BY DEF Inv, FirstStart, TypeOK
<1> QED BY <1>1, PushInvariant, PTL

\* mutate cancels every request whose delivery it removes, and guardedClient.Do
\* refuses those that registered too late: a request that runs uncancelled is
\* for an attempt the store holds.
THEOREM PushRetired == Spec => []RetiredCancelled
<1>1. Inv => RetiredCancelled
  BY DEF Inv, DispatcherInv
<1> QED BY <1>1, PushInvariant, PTL

\* Enqueue admits an event once, across failed saves and restarts, unless
\* remember pushed its key out.
THEOREM PushAdmittedOnce == Spec => []AdmittedOnce
<1>1. Inv => AdmittedOnce
  BY DEF Inv, StoreInv
<1> QED BY <1>1, PushInvariant, PTL

\* Register, Delete, ResetEpoch and finish leave nothing in the queue that may
\* not be sent.
THEOREM PushQueueAllowed == Spec => []QueueAllowed
<1>1. Inv => QueueAllowed
  BY DEF Inv, StoreInv, Stored, Sound, Allowed, QueueAllowed
<1> QED BY <1>1, PushInvariant, PTL

\* After the first save validDiskState accepts whatever save left on disk, but
\* for the two deliveries of a forgotten event that came back; before it the
\* directory holds nothing to lose.
THEOREM PushLoads == Spec => []SavedStateLoads
<1>1. Inv /\ FirstStart => SavedStateLoads
  <2> SUFFICES ASSUME Inv, FirstStart PROVE SavedStateLoads
    OBVIOUS
  <2>1. StateType /\ Sound(disk, regs, admitted, used)
    BY DEF Inv, StoreInv, Stored
  <2>2. \A q \in disk.queue : q.sub \in disk.subs /\ q.attempts <= 3
    BY <2>1, QueuedFields DEF StateType, Sound, Allowed
  <2>3. Bounded(disk)
    BY <2>1, <2>2 DEF Sound, Limited, Distinct, Bounded
  <2>4. ASSUME NEW q \in disk.queue, NEW r \in disk.queue, ID(q) = ID(r), q.key \notin Repeated PROVE q = r
    <3>1. Once(q.key, admitted)
      BY <2>1, <2>4, OnceRepeated
    <3> QED BY <2>1, <2>4, <3>1 DEF Sound, UniqueQueue
  <2> QED BY <2>3, <2>4 DEF SavedStateLoads, FirstStart
<1> QED BY <1>1, PushInvariant, PTL

\* finish applies an answer only to the registration its request was made for.
THEOREM PushOwnRegistration == Spec => []AnswersOwnRegistration
<1>1. Inv => AnswersOwnRegistration
  <2> SUFFICES ASSUME Inv, NEW w \in Workers, ~Idle(w), wk[w].item.key \notin Repeated, ~failed, QueuedAs(wk[w].item)
               PROVE  wk[w].item.reg = regs[wk[w].item.sub]
    BY DEF AnswersOwnRegistration
  <2>1. PICK q \in data.queue : ID(q) = ID(wk[w].item)
    BY DEF QueuedAs
  <2>2. StateType /\ Sound(data, regs, admitted, used) /\ TakenOwned
    BY DEF Inv, StoreInv, Stored, DispatcherInv
  <2>3. Once(wk[w].item.key, admitted) /\ Taken(wk[w].item)
    BY <2>2, OnceRepeated DEF Taken
  <2>4. wk[w].item.reg = q.reg
    BY <2>1, <2>2, <2>3 DEF TakenOwned
  <2>5. q.reg = regs[q.sub]
    BY <2>2 DEF Sound, Owned
  <2> QED BY <2>1, <2>4, <2>5 DEF ID
<1> QED BY <1>1, PushInvariant, PTL

\* deliver sends a notification at most three times, and a test once more for
\* every stop of the process.
THEOREM PushSendBound == Spec => []SendBound
<1>1. Inv => SendBound
  BY DEF Inv, SendInv
<1> QED BY <1>1, PushInvariant, PTL
=============================================================================
