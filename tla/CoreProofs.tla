----------------------------- MODULE CoreProofs -----------------------------
(***************************************************************************)
(* Proofs about the way of an event through the core, for every set of     *)
(* deliveries and workers, every size of the queue, every set of           *)
(* configurations and every session key.                                   *)
(***************************************************************************)
EXTENDS CoreProcess, SequenceTheorems, TLAPS

\* Where an event is, kind by kind of place.
Queued(d) == {j \in DOMAIN queue : queue[j] = d}
Carriers(d) == {w \in Worker : holds[w] = d}
OpenIn(d) == {g \in Group : d \in open[g]}
SealedIn(d) == {b \in sealed : d \in b}
DeliveredIn(d) == {p \in delivered : d \in p}

Tagged(q, w, o, s, p) ==
  {<<"queue", i>> : i \in q} \cup {<<"worker", v>> : v \in w} \cup {<<"open", g>> : g \in o}
    \cup {<<"sealed", b>> : b \in s} \cup {<<"delivered", x>> : x \in p}

Nowhere(q, w, o, s, p) == q = {} /\ w = {} /\ o = {} /\ s = {} /\ p = {}

Single(S) == \E x : S = {x}

Once(q, w, o, s, p) ==
  \/ Single(q) /\ w = {} /\ o = {} /\ s = {} /\ p = {}
  \/ q = {} /\ Single(w) /\ o = {} /\ s = {} /\ p = {}
  \/ q = {} /\ w = {} /\ Single(o) /\ s = {} /\ p = {}
  \/ q = {} /\ w = {} /\ o = {} /\ Single(s) /\ p = {}
  \/ q = {} /\ w = {} /\ o = {} /\ s = {} /\ Single(p)

\* Tags keep the kinds apart, so that one place is one element of one kind.
LEMMA TaggedNowhere ==
  ASSUME NEW q, NEW w, NEW o, NEW s, NEW p
  PROVE  Tagged(q, w, o, s, p) = {} <=> Nowhere(q, w, o, s, p)
BY DEF Tagged, Nowhere

LEMMA TaggedOnce ==
  ASSUME NEW q, NEW w, NEW o, NEW s, NEW p
  PROVE  (\E x \in Tagged(q, w, o, s, p) : Tagged(q, w, o, s, p) = {x}) <=> Once(q, w, o, s, p)
<1> DEFINE T == Tagged(q, w, o, s, p)
<1>1. ASSUME Once(q, w, o, s, p)
      PROVE  \E x \in T : T = {x}
  <2>1. CASE Single(q) /\ w = {} /\ o = {} /\ s = {} /\ p = {}
    <3>1. PICK i : q = {i}
      BY <2>1 DEF Single
    <3>2. T = {<<"queue", i>>}
      BY <2>1, <3>1 DEF Tagged
    <3> QED
      BY <3>2
  <2>2. CASE q = {} /\ Single(w) /\ o = {} /\ s = {} /\ p = {}
    <3>1. PICK i : w = {i}
      BY <2>2 DEF Single
    <3>2. T = {<<"worker", i>>}
      BY <2>2, <3>1 DEF Tagged
    <3> QED
      BY <3>2
  <2>3. CASE q = {} /\ w = {} /\ Single(o) /\ s = {} /\ p = {}
    <3>1. PICK i : o = {i}
      BY <2>3 DEF Single
    <3>2. T = {<<"open", i>>}
      BY <2>3, <3>1 DEF Tagged
    <3> QED
      BY <3>2
  <2>4. CASE q = {} /\ w = {} /\ o = {} /\ Single(s) /\ p = {}
    <3>1. PICK i : s = {i}
      BY <2>4 DEF Single
    <3>2. T = {<<"sealed", i>>}
      BY <2>4, <3>1 DEF Tagged
    <3> QED
      BY <3>2
  <2>5. CASE q = {} /\ w = {} /\ o = {} /\ s = {} /\ Single(p)
    <3>1. PICK i : p = {i}
      BY <2>5 DEF Single
    <3>2. T = {<<"delivered", i>>}
      BY <2>5, <3>1 DEF Tagged
    <3> QED
      BY <3>2
  <2> QED
    BY <1>1, <2>1, <2>2, <2>3, <2>4, <2>5 DEF Once
<1>2. ASSUME NEW x \in T, T = {x}
      PROVE  Once(q, w, o, s, p)
  <2>1. /\ \A i \in q : x = <<"queue", i>>
        /\ \A i \in w : x = <<"worker", i>>
        /\ \A i \in o : x = <<"open", i>>
        /\ \A i \in s : x = <<"sealed", i>>
        /\ \A i \in p : x = <<"delivered", i>>
    BY <1>2 DEF Tagged
  <2>2. /\ \A i, j \in q : i = j
        /\ \A i, j \in w : i = j
        /\ \A i, j \in o : i = j
        /\ \A i, j \in s : i = j
        /\ \A i, j \in p : i = j
    BY <2>1
  <2>3. /\ \A i \in q, j \in w \cup o \cup s \cup p : FALSE
        /\ \A i \in w, j \in o \cup s \cup p : FALSE
        /\ \A i \in o, j \in s \cup p : FALSE
        /\ \A i \in s, j \in p : FALSE
    BY <2>1
  <2>4. CASE q # {}
    <3>1. Single(q) /\ w = {} /\ o = {} /\ s = {} /\ p = {}
      BY <2>2, <2>3, <2>4 DEF Single
    <3> QED
      BY <3>1 DEF Once
  <2>5. CASE w # {}
    <3>1. q = {} /\ Single(w) /\ o = {} /\ s = {} /\ p = {}
      BY <2>2, <2>3, <2>5 DEF Single
    <3> QED
      BY <3>1 DEF Once
  <2>6. CASE o # {}
    <3>1. q = {} /\ w = {} /\ Single(o) /\ s = {} /\ p = {}
      BY <2>2, <2>3, <2>6 DEF Single
    <3> QED
      BY <3>1 DEF Once
  <2>7. CASE s # {}
    <3>1. q = {} /\ w = {} /\ o = {} /\ Single(s) /\ p = {}
      BY <2>2, <2>3, <2>7 DEF Single
    <3> QED
      BY <3>1 DEF Once
  <2>8. CASE p # {}
    <3>1. q = {} /\ w = {} /\ o = {} /\ s = {} /\ Single(p)
      BY <2>2, <2>3, <2>8 DEF Single
    <3> QED
      BY <3>1 DEF Once
  <2>9. CASE Nowhere(q, w, o, s, p)
    BY <1>2, <2>9, TaggedNowhere
  <2> QED
    BY <2>4, <2>5, <2>6, <2>7, <2>8, <2>9 DEF Nowhere
<1> QED
  BY <1>1, <1>2

-----------------------------------------------------------------------------
\* What a step has to keep for one event.
Accounted(d) ==
  IF status[d] = 202
  THEN Once(Queued(d), Carriers(d), OpenIn(d), SealedIn(d), DeliveredIn(d))
  ELSE Nowhere(Queued(d), Carriers(d), OpenIn(d), SealedIn(d), DeliveredIn(d))

CoreTypeOK ==
  /\ TypeOK
  /\ open \in [Group -> SUBSET Delivery]
  /\ sealed \subseteq SUBSET Delivery
  /\ delivered \subseteq SUBSET Delivery

\* Nothing is held before the workers are started.
IdleWhileLoading == phase = "loading" => \A w \in Worker : holds[w] = Idle

CoreInvariant ==
  /\ CoreTypeOK
  /\ IdleWhileLoading
  /\ \A d \in Delivery : Accounted(d)

LEMMA AccountedForFollows == CoreInvariant => AccountedFor
<1> SUFFICES ASSUME CoreInvariant, NEW d \in Delivery
             PROVE  IF status[d] = 202 THEN \E place \in Places(d) : Places(d) = {place}
                                       ELSE Places(d) = {}
  BY DEF AccountedFor
<1>1. Places(d) = Tagged(Queued(d), Carriers(d), OpenIn(d), SealedIn(d), DeliveredIn(d))
  BY DEF Places, Tagged, Queued, Carriers, OpenIn, SealedIn, DeliveredIn
<1>2. Accounted(d)
  BY DEF CoreInvariant
<1> QED
  BY <1>1, <1>2, TaggedOnce, TaggedNowhere DEF Accounted

LEMMA CoreInit_Invariant == CoreInit => CoreInvariant
<1> SUFFICES ASSUME CoreInit
             PROVE  CoreInvariant
  OBVIOUS
<1> USE DEF CoreInit, Init, E!Init
<1>1. CoreTypeOK
  <2>1. <<>> \in Seq(Delivery) /\ Len(<<>>) = 0 /\ capacity \in Nat /\ 0 <= capacity
    BY EmptySeq
  <2>2. holds \in [Worker -> Delivery \cup {Idle}] /\ status \in [Delivery -> {0, 202, 400, 503}]
    OBVIOUS
  <2>3. open \in [Group -> SUBSET Delivery]
    OBVIOUS
  <2> QED
    BY <2>1, <2>2, <2>3 DEF CoreTypeOK, TypeOK
<1>2. ASSUME NEW d \in Delivery
      PROVE  Accounted(d)
  <2>1. holds \in [Worker -> {Idle}] /\ d # Idle /\ status[d] = 0
    BY ReceiverAssumption DEF ReceiverAssumption
  <2>2. Queued(d) = {} /\ Carriers(d) = {} /\ OpenIn(d) = {}
    BY <2>1 DEF Queued, Carriers, OpenIn
  <2>3. SealedIn(d) = {} /\ DeliveredIn(d) = {}
    BY DEF SealedIn, DeliveredIn
  <2> QED
    BY <2>1, <2>2, <2>3 DEF Accounted, Nowhere
<1>3. IdleWhileLoading
  BY DEF IdleWhileLoading
<1> QED
  BY <1>1, <1>2, <1>3 DEF CoreInvariant

-----------------------------------------------------------------------------
\* An event that an action does not touch.
LEMMA Untouched ==
  ASSUME NEW d \in Delivery, Accounted(d), status'[d] = status[d],
         Queued(d)' = Queued(d), Carriers(d)' = Carriers(d), OpenIn(d)' = OpenIn(d),
         SealedIn(d)' = SealedIn(d), DeliveredIn(d)' = DeliveredIn(d)
  PROVE  Accounted(d)'
BY DEF Accounted

\* What stays where nothing is moved.
LEMMA QueueStays ==
  ASSUME NEW d \in Delivery, UNCHANGED queue
  PROVE  Queued(d)' = Queued(d)
BY DEF Queued

LEMMA HoldsStay ==
  ASSUME NEW d \in Delivery, UNCHANGED holds
  PROVE  Carriers(d)' = Carriers(d)
BY DEF Carriers

LEMMA EngineStays ==
  ASSUME NEW d \in Delivery, UNCHANGED engineVars
  PROVE  OpenIn(d)' = OpenIn(d) /\ SealedIn(d)' = SealedIn(d) /\ DeliveredIn(d)' = DeliveredIn(d)
BY DEF OpenIn, SealedIn, DeliveredIn, engineVars

\* main's own steps, a new request and a worker that returns move no event.
LEMMA Outside_Invariant ==
  ASSUME CoreInvariant,
         Start \/ Listen \/ Signal \/ Shutdown \/ Exit \/ (\E d \in Delivery : SubmitEvent(d))
           \/ (\E w \in Worker : Return(w) /\ Running /\ UNCHANGED <<config, phase, engineVars>>)
           \/ UNCHANGED coreVars
  PROVE  CoreInvariant'
<1> USE DEF CoreInvariant
<1>1. UNCHANGED <<status, queue, holds, accepted, ingested, capacity, engineVars>>
  BY DEF Start, Listen, Signal, Cancel, Shutdown, Exit, SubmitEvent, Arrive, Return, coreVars, vars
<1>2. \A d \in Delivery : Accounted(d)'
  <2> SUFFICES ASSUME NEW d \in Delivery
               PROVE  Accounted(d)'
    OBVIOUS
  <2> QED
    BY <1>1, QueueStays, HoldsStay, EngineStays, Untouched
<1>3. stopped' \subseteq {w \in Worker : holds'[w] = Idle}
  <2>1. CASE Start
    BY <2>1, <1>1 DEF Start, IdleWhileLoading, CoreTypeOK, TypeOK
  <2>2. CASE \E w \in Worker : Return(w)
    BY <2>2, <1>1 DEF Return, Parked, CoreTypeOK, TypeOK
  <2>3. CASE ~ Start /\ ~ (\E w \in Worker : Return(w))
    <3>1. stopped' = stopped
      BY <2>3 DEF Listen, Signal, Cancel, Shutdown, Exit, SubmitEvent, Arrive, coreVars, vars
    <3> QED
      BY <3>1, <1>1 DEF CoreTypeOK, TypeOK
  <2> QED
    BY <2>1, <2>2, <2>3
<1>4. pending' \subseteq Delivery /\ canceled' \in BOOLEAN
  BY DEF Start, Listen, Signal, Cancel, Shutdown, Exit, SubmitEvent, Arrive, Return, coreVars, vars,
         CoreTypeOK, TypeOK
<1>5. CoreTypeOK'
  BY <1>1, <1>3, <1>4 DEF CoreTypeOK, TypeOK, engineVars, Group
<1>6. IdleWhileLoading'
  BY <1>1 DEF Start, Listen, ElectionFailures, Signal, Shutdown, Exit, SubmitEvent, coreVars, IdleWhileLoading
<1> QED
  BY <1>2, <1>4, <1>5, <1>6

\* A refused delivery was nowhere, and still is; one that is acknowledged
\* stays where it is.
LEMMA Answer_Invariant ==
  ASSUME CoreInvariant, Running, NEW d \in Delivery, Reject(d) \/ QueueFull(d) \/ Acknowledge(d),
         UNCHANGED <<config, phase, engineVars>>
  PROVE  CoreInvariant'
<1> USE DEF CoreInvariant
<1>1. PICK code \in {202, 400, 503} : Respond(d, code) /\ (code = 202 <=> status[d] = 202)
  BY DEF Reject, QueueFull, DefaultCase, Acknowledge, Open
<1>2. UNCHANGED <<queue, holds, stopped, canceled, accepted, ingested, capacity, engineVars>>
  BY DEF Reject, QueueFull, DefaultCase, Acknowledge
<1>3. status \in [Delivery -> {0, 202, 400, 503}] /\ (code # 202 => status[d] = 0)
  BY <1>1 DEF CoreTypeOK, TypeOK, Reject, QueueFull, Acknowledge, Open
<1>4. pending' = pending \ {d} /\ status' = [status EXCEPT ![d] = code]
  BY <1>1 DEF Respond
<1>5. ASSUME NEW e \in Delivery
      PROVE  Accounted(e)'
  <2>1. /\ Queued(e)' = Queued(e) /\ Carriers(e)' = Carriers(e) /\ OpenIn(e)' = OpenIn(e)
        /\ SealedIn(e)' = SealedIn(e) /\ DeliveredIn(e)' = DeliveredIn(e)
    BY <1>2, QueueStays, HoldsStay, EngineStays
  <2>2. (status[e] # 202 /\ status'[e] # 202) \/ status'[e] = status[e]
    BY <1>1, <1>3, <1>4
  <2> QED
    BY <2>1, <2>2 DEF Accounted
<1>7. CoreTypeOK'
  <2>1. status' \in [Delivery -> {0, 202, 400, 503}] /\ pending' \subseteq Delivery
    BY <1>3, <1>4 DEF CoreTypeOK, TypeOK
  <2> QED
    BY <1>2, <2>1 DEF CoreTypeOK, TypeOK, engineVars, Group
<1>8. IdleWhileLoading'
  BY <1>2 DEF Running, IdleWhileLoading
<1> QED
  BY <1>5, <1>7, <1>8

\* An accepted event goes to the end of the channel, or to a parked worker.
LEMMA Enqueue_Invariant ==
  ASSUME CoreInvariant, Running, NEW d \in Delivery, Enqueue(d),
         UNCHANGED <<config, phase, engineVars>>
  PROVE  CoreInvariant'
<1> USE DEF CoreInvariant
<1>1. /\ status' = [status EXCEPT ![d] = 202]
      /\ UNCHANGED <<pending, stopped, canceled, ingested, capacity, engineVars>>
      /\ accepted' = Append(accepted, d)
  BY DEF Enqueue
<1>2. status[d] = 0 /\ status \in [Delivery -> {0, 202, 400, 503}]
  BY DEF Enqueue, Open, CoreTypeOK, TypeOK
<1>3. Nowhere(Queued(d), Carriers(d), OpenIn(d), SealedIn(d), DeliveredIn(d))
  BY <1>2 DEF Accounted
<1>4. ASSUME NEW e \in Delivery
      PROVE  /\ e # d => status'[e] = status[e]
             /\ OpenIn(e)' = OpenIn(e) /\ SealedIn(e)' = SealedIn(e) /\ DeliveredIn(e)' = DeliveredIn(e)
  BY <1>1, <1>2, EngineStays
<1>5. status'[d] = 202
  BY <1>1, <1>2
<1>6. queue \in Seq(Delivery) /\ d # Idle /\ holds \in [Worker -> Delivery \cup {Idle}]
  BY ReceiverAssumption DEF CoreTypeOK, TypeOK, ReceiverAssumption
<1>7. CASE Room /\ queue' = Append(queue, d) /\ UNCHANGED holds
  <2>1. /\ Len(queue) \in Nat /\ DOMAIN queue = 1 .. Len(queue)
        /\ queue' \in Seq(Delivery) /\ Len(queue') = Len(queue) + 1
        /\ DOMAIN queue' = 1 .. Len(queue) + 1
        /\ \A i \in 1 .. Len(queue) : queue'[i] = queue[i]
        /\ queue'[Len(queue) + 1] = d
    BY <1>6, <1>7
  <2>2. Queued(d)' = {Len(queue) + 1}
    <3>1. \A i \in 1 .. Len(queue) : queue[i] # d
      BY <1>3, <2>1 DEF Nowhere, Queued
    <3> QED
      BY <2>1, <3>1 DEF Queued
  <2>3. ASSUME NEW e \in Delivery, e # d
        PROVE  Queued(e)' = Queued(e)
    BY <2>1, <2>3 DEF Queued
  <2>4. Len(queue') <= capacity
    BY <1>7, <2>1 DEF Room, CoreTypeOK, TypeOK
  <2>5. Accounted(d)'
    <3>1. Single(Queued(d)')
      BY <2>2 DEF Single
    <3>2. Carriers(d)' = {} /\ OpenIn(d)' = {} /\ SealedIn(d)' = {} /\ DeliveredIn(d)' = {}
      BY <1>3, <1>4, <1>7, HoldsStay DEF Nowhere
    <3> QED
      BY <3>1, <3>2, <1>5 DEF Accounted, Once
  <2>6. ASSUME NEW e \in Delivery
        PROVE  Accounted(e)'
    <3>1. CASE e = d
      BY <3>1, <2>5
    <3>2. CASE e # d
      <4>1. Carriers(e)' = Carriers(e)
        BY <1>7, HoldsStay
      <4> QED
        BY <3>2, <4>1, <1>4, <2>3, Untouched
    <3> QED
      BY <3>1, <3>2
  <2>7. CoreTypeOK'
    <3>1. accepted' \in Seq(Delivery)
      BY <1>1 DEF CoreTypeOK, TypeOK
    <3>2. pending' \subseteq Delivery /\ canceled' \in BOOLEAN /\ ingested' \in Seq(Delivery)
      BY <1>1 DEF CoreTypeOK, TypeOK
    <3>3. status' \in [Delivery -> {0, 202, 400, 503}]
      BY <1>1, <1>2
    <3>4. holds' \in [Worker -> Delivery \cup {Idle}] /\ stopped' \subseteq {v \in Worker : holds'[v] = Idle}
      BY <1>1, <1>7 DEF CoreTypeOK, TypeOK
    <3>5. TypeOK'
      BY <1>1, <2>1, <2>4, <3>1, <3>2, <3>3, <3>4 DEF CoreTypeOK, TypeOK
    <3> QED
      BY <1>1, <3>5 DEF CoreTypeOK, engineVars, Group
  <2>8. IdleWhileLoading'
    BY DEF Running, IdleWhileLoading
  <2> QED
    BY <1>5, <2>6, <2>7, <2>8
<1>8. ASSUME NEW w \in Parked, holds' = [holds EXCEPT ![w] = d], UNCHANGED queue
      PROVE  CoreInvariant'
  <2>1. w \in Worker /\ w \notin stopped /\ holds[w] = Idle
    BY DEF Parked
  <2>2. Carriers(d)' = {w}
    BY <1>3, <1>6, <1>8, <2>1 DEF Carriers, Nowhere
  <2>3. ASSUME NEW e \in Delivery, e # d
        PROVE  Carriers(e)' = Carriers(e)
    <3>1. e # Idle
      BY ReceiverAssumption DEF ReceiverAssumption
    <3> QED
      BY <1>6, <1>8, <2>1, <2>3, <3>1 DEF Carriers
  <2>4. Accounted(d)'
    <3>1. Single(Carriers(d)')
      BY <2>2 DEF Single
    <3>2. Queued(d)' = {} /\ OpenIn(d)' = {} /\ SealedIn(d)' = {} /\ DeliveredIn(d)' = {}
      BY <1>3, <1>4, <1>8, QueueStays DEF Nowhere
    <3> QED
      BY <3>1, <3>2, <1>5 DEF Accounted, Once
  <2>5. ASSUME NEW e \in Delivery
        PROVE  Accounted(e)'
    <3>1. CASE e = d
      BY <3>1, <2>4
    <3>2. CASE e # d
      <4>1. Queued(e)' = Queued(e)
        BY <1>8, QueueStays
      <4> QED
        BY <3>2, <4>1, <1>4, <2>3, Untouched
    <3> QED
      BY <3>1, <3>2
  <2>6. CoreTypeOK'
    <3>1. accepted' \in Seq(Delivery)
      BY <1>1 DEF CoreTypeOK, TypeOK
    <3>2. stopped \subseteq {v \in Worker : holds'[v] = Idle}
      BY <1>6, <1>8, <2>1 DEF CoreTypeOK, TypeOK
    <3>3. holds' \in [Worker -> Delivery \cup {Idle}]
      BY <1>6, <1>8
    <3>4. pending' \subseteq Delivery /\ canceled' \in BOOLEAN /\ ingested' \in Seq(Delivery)
      BY <1>1 DEF CoreTypeOK, TypeOK
    <3>5. status' \in [Delivery -> {0, 202, 400, 503}]
      BY <1>1, <1>2
    <3>6. queue' \in Seq(Delivery) /\ Len(queue') <= capacity
      BY <1>1, <1>8 DEF CoreTypeOK, TypeOK
    <3>7. stopped' \subseteq {v \in Worker : holds'[v] = Idle}
      BY <1>1, <3>2
    <3>8. TypeOK'
      BY <1>1, <3>1, <3>3, <3>4, <3>5, <3>6, <3>7 DEF CoreTypeOK, TypeOK
    <3> QED
      BY <1>1, <3>8 DEF CoreTypeOK, engineVars, Group
  <2>7. IdleWhileLoading'
    BY DEF Running, IdleWhileLoading
  <2> QED
    BY <1>5, <2>5, <2>6, <2>7
<1> QED
  BY <1>7, <1>8 DEF Enqueue

\* The event at the head moves from the channel to the worker.
LEMMA Take_Invariant ==
  ASSUME CoreInvariant, Running, NEW w \in Worker, Take(w),
         UNCHANGED <<config, phase, engineVars>>
  PROVE  CoreInvariant'
<1> USE DEF CoreInvariant
<1> PICK d \in Delivery : d = Head(queue)
  BY DEF Take, CoreTypeOK, TypeOK
<1>1. /\ queue # <<>> /\ queue \in Seq(Delivery)
      /\ holds \in [Worker -> Delivery \cup {Idle}]
      /\ w \notin stopped /\ holds[w] = Idle
      /\ holds' = [holds EXCEPT ![w] = d] /\ queue' = Tail(queue)
      /\ UNCHANGED <<pending, status, stopped, canceled, accepted, ingested, capacity, engineVars>>
  BY DEF Take, Parked, ReceiveFrom, CoreTypeOK, TypeOK
<1>2. /\ Len(queue) \in Nat \ {0} /\ DOMAIN queue = 1 .. Len(queue)
      /\ d = queue[1]
      /\ queue' \in Seq(Delivery) /\ Len(queue') = Len(queue) - 1
      /\ DOMAIN queue' = 1 .. Len(queue) - 1
      /\ \A i \in 1 .. Len(queue) - 1 : queue'[i] = queue[i + 1]
  BY <1>1
<1>3. 1 \in Queued(d)
  BY <1>2 DEF Queued
<1>4. /\ status[d] = 202 /\ Single(Queued(d)) /\ Carriers(d) = {}
      /\ OpenIn(d) = {} /\ SealedIn(d) = {} /\ DeliveredIn(d) = {}
  BY <1>2, <1>3 DEF Accounted, Nowhere, Once
<1>5. Queued(d)' = {}
  <2>1. \A i \in 1 .. Len(queue) : queue[i] = d => i = 1
    BY <1>2, <1>3, <1>4 DEF Single, Queued
  <2> QED
    BY <1>2, <2>1 DEF Queued
<1>6. Carriers(d)' = {w}
  BY <1>1, <1>2, <1>4 DEF Carriers
<1>7. Accounted(d)'
  <2>1. OpenIn(d)' = {} /\ SealedIn(d)' = {} /\ DeliveredIn(d)' = {}
    BY <1>1, <1>2, <1>4, EngineStays
  <2>2. Single(Carriers(d)') /\ status'[d] = 202
    BY <1>1, <1>4, <1>6 DEF Single
  <2> QED
    BY <1>5, <2>1, <2>2 DEF Accounted, Once
<1>8. ASSUME NEW e \in Delivery, e # d
      PROVE  Accounted(e)'
  <2>1. Carriers(e)' = Carriers(e)
    <3>1. e # Idle
      BY ReceiverAssumption DEF ReceiverAssumption
    <3> QED
      BY <1>1, <1>8, <3>1 DEF Carriers
  <2>2. /\ OpenIn(e)' = OpenIn(e) /\ SealedIn(e)' = SealedIn(e) /\ DeliveredIn(e)' = DeliveredIn(e)
        /\ status'[e] = status[e]
    BY <1>1, EngineStays
  <2>3. \A i : i \in Queued(e)' <=> i \in 1 .. Len(queue) - 1 /\ i + 1 \in Queued(e)
    BY <1>2 DEF Queued
  <2>4. \A j \in Queued(e) : j \in 1 .. Len(queue) /\ j - 1 \in 1 .. Len(queue) - 1
    BY <1>2, <1>8 DEF Queued
  <2>5. Single(Queued(e)) => Single(Queued(e)')
    <3>1. SUFFICES ASSUME NEW j, Queued(e) = {j}
                   PROVE  Queued(e)' = {j - 1}
      BY DEF Single
    <3>2. j \in 1 .. Len(queue) /\ j - 1 \in 1 .. Len(queue) - 1 /\ j - 1 + 1 = j
      BY <1>2, <2>4, <3>1
    <3>3. \A i \in Queued(e)' : i = j - 1
      BY <1>2, <2>3, <3>1, <3>2
    <3>4. j - 1 \in Queued(e)'
      BY <2>3, <3>1, <3>2
    <3> QED
      BY <3>3, <3>4
  <2>6. Queued(e) = {} => Queued(e)' = {}
    BY <2>3
  <2> QED
    BY <2>1, <2>2, <2>5, <2>6 DEF Accounted, Once, Nowhere
<1>9. CoreTypeOK'
  <2>1. Len(queue') <= capacity
    BY <1>2 DEF CoreTypeOK, TypeOK
  <2>2. /\ stopped \subseteq {v \in Worker : holds'[v] = Idle}
        /\ holds' \in [Worker -> Delivery \cup {Idle}]
    BY <1>1, <1>2 DEF CoreTypeOK, TypeOK
  <2> QED
    BY <1>1, <1>2, <2>1, <2>2 DEF CoreTypeOK, TypeOK, engineVars, Group
<1>10. IdleWhileLoading'
  BY <1>1 DEF Running, IdleWhileLoading
<1> QED
  BY <1>7, <1>8, <1>9, <1>10

\* Ingest moves an event from the worker to the open batch of its group.
LEMMA Feed_Invariant ==
  ASSUME CoreInvariant, NEW w \in Worker, Feed(w)
  PROVE  CoreInvariant'
<1> USE DEF CoreInvariant
<1> PICK d \in Delivery : d = holds[w]
  BY DEF Feed, Ingest, CoreTypeOK, TypeOK
<1>1. /\ d # Idle /\ holds' = [holds EXCEPT ![w] = Idle] /\ stopped' = stopped
      /\ ingested' = Append(ingested, d)
      /\ UNCHANGED <<pending, status, queue, capacity, canceled, accepted, config, phase, sealed,
                     delivered>>
      /\ open' = [open EXCEPT ![d.group] = @ \cup {d}]
  BY DEF Feed, Ingest, HoldsAfterIngest, StoppedAfterIngest, E!Accept
<1>2. /\ holds \in [Worker -> Delivery \cup {Idle}] /\ open \in [Group -> SUBSET Delivery]
      /\ d.group \in Group
  <2>1. d.group \in Group
    BY DEF Group
  <2> QED
    BY <2>1 DEF CoreTypeOK, TypeOK
<1>3. w \in Carriers(d)
  BY DEF Carriers
<1>4. /\ status[d] = 202 /\ Carriers(d) = {w} /\ Queued(d) = {}
      /\ OpenIn(d) = {} /\ SealedIn(d) = {} /\ DeliveredIn(d) = {}
  BY <1>2, <1>3 DEF Accounted, Nowhere, Once, Single
<1>5. ASSUME NEW e \in Delivery
      PROVE  /\ Queued(e)' = Queued(e) /\ SealedIn(e)' = SealedIn(e)
             /\ DeliveredIn(e)' = DeliveredIn(e) /\ status'[e] = status[e]
  BY <1>1 DEF Queued, SealedIn, DeliveredIn
<1>6. Accounted(d)'
  <2>1. Carriers(d)' = {}
    BY <1>1, <1>2, <1>4 DEF Carriers
  <2>2. OpenIn(d)' = {d.group}
    BY <1>1, <1>2, <1>4 DEF OpenIn, Group
  <2>3. Single(OpenIn(d)')
    BY <2>2 DEF Single
  <2> QED
    BY <1>2, <1>4, <1>5, <2>1, <2>3 DEF Accounted, Once
<1>7. ASSUME NEW e \in Delivery, e # d
      PROVE  Accounted(e)'
  <2>1. e # Idle
    BY ReceiverAssumption DEF ReceiverAssumption
  <2>2. Carriers(e)' = Carriers(e)
    BY <1>1, <1>2, <1>7, <2>1 DEF Carriers
  <2>3. OpenIn(e)' = OpenIn(e)
    BY <1>1, <1>2, <1>7 DEF OpenIn, Group
  <2> QED
    BY <1>5, <2>2, <2>3, Untouched
<1>8. CoreTypeOK'
  <2>1. /\ stopped' \subseteq {v \in Worker : holds'[v] = Idle}
        /\ holds' \in [Worker -> Delivery \cup {Idle}]
    BY <1>1, <1>2 DEF CoreTypeOK, TypeOK
  <2>2. open' \in [Group -> SUBSET Delivery]
    BY <1>1, <1>2
  <2>3. ingested' \in Seq(Delivery)
    BY <1>1, <1>2 DEF CoreTypeOK, TypeOK
  <2> QED
    BY <1>1, <2>1, <2>2, <2>3 DEF CoreTypeOK, TypeOK, Group
<1>9. IdleWhileLoading'
  BY <1>1 DEF Feed, Running, IdleWhileLoading
<1> QED
  BY <1>6, <1>7, <1>8, <1>9

\* A batch is sealed whole: its events leave the open batch together.
LEMMA Seal_Invariant ==
  ASSUME CoreInvariant, NEW g \in Group, E!Seal(g), UNCHANGED <<vars, config, phase>>
  PROVE  CoreInvariant'
<1> USE DEF CoreInvariant
<1> PICK batch \in SUBSET Delivery : batch = open[g]
  BY DEF CoreTypeOK
<1>1. /\ sealed' = sealed \cup {batch} /\ open' = [open EXCEPT ![g] = {}]
      /\ UNCHANGED <<delivered, pending, status, queue, capacity, holds, stopped, canceled, accepted,
                     ingested, config, phase>>
      /\ open \in [Group -> SUBSET Delivery]
  BY DEF E!Seal, vars, CoreTypeOK
<1>2. ASSUME NEW d \in Delivery
      PROVE  /\ Queued(d)' = Queued(d) /\ Carriers(d)' = Carriers(d)
             /\ DeliveredIn(d)' = DeliveredIn(d) /\ status'[d] = status[d]
  BY <1>1, QueueStays, HoldsStay DEF DeliveredIn
<1>3. ASSUME NEW d \in Delivery, d \in batch
      PROVE  Accounted(d)'
  <2>1. g \in OpenIn(d)
    BY <1>3 DEF OpenIn
  <2>2. /\ status[d] = 202 /\ OpenIn(d) = {g} /\ Queued(d) = {} /\ Carriers(d) = {}
        /\ SealedIn(d) = {} /\ DeliveredIn(d) = {}
    BY <2>1 DEF Accounted, Nowhere, Once, Single
  <2>3. OpenIn(d)' = {}
    BY <1>1, <2>2 DEF OpenIn
  <2>4. SealedIn(d)' = {batch}
    BY <1>1, <1>3, <2>2 DEF SealedIn
  <2>5. Single(SealedIn(d)')
    BY <2>4 DEF Single
  <2> QED
    BY <1>2, <2>2, <2>3, <2>5 DEF Accounted, Once
<1>4. ASSUME NEW d \in Delivery, d \notin batch
      PROVE  Accounted(d)'
  <2>1. OpenIn(d)' = OpenIn(d)
    BY <1>1, <1>4 DEF OpenIn, Group
  <2>2. SealedIn(d)' = SealedIn(d)
    BY <1>1, <1>4 DEF SealedIn
  <2> QED
    BY <1>2, <2>1, <2>2, Untouched
<1>5. CoreTypeOK'
  <2>1. open' \in [Group -> SUBSET Delivery] /\ sealed' \subseteq SUBSET Delivery
    BY <1>1 DEF CoreTypeOK
  <2> QED
    BY <1>1, <2>1 DEF CoreTypeOK, TypeOK, Group
<1>6. IdleWhileLoading'
  BY <1>1 DEF IdleWhileLoading
<1> QED
  BY <1>3, <1>4, <1>5, <1>6

\* A part of a sealed batch is delivered, and the rest stays a batch.
LEMMA Deliver_Invariant ==
  ASSUME CoreInvariant, NEW g \in Group, E!DeliverSome(g), UNCHANGED <<vars, config, phase>>
  PROVE  CoreInvariant'
<1> USE DEF CoreInvariant
<1> PICK batch \in sealed : \E e \in batch : E!Deliver(batch, e)
  BY DEF E!DeliverSome
<1> PICK ev \in batch : E!Deliver(batch, ev)
  OBVIOUS
<1> DEFINE part == E!Part(batch, ev)
           rest == batch \ part
<1>1. /\ delivered' = delivered \cup {part} /\ sealed' = (sealed \ {batch}) \cup ({rest} \ {{}})
      /\ UNCHANGED <<open, pending, status, queue, capacity, holds, stopped, canceled, accepted,
                     ingested, config, phase>>
      /\ part \subseteq batch /\ batch \subseteq Delivery
  BY DEF E!Deliver, E!Part, vars, CoreTypeOK
<1> HIDE DEF part
<1>2. ASSUME NEW d \in Delivery
      PROVE  /\ Queued(d)' = Queued(d) /\ Carriers(d)' = Carriers(d)
             /\ OpenIn(d)' = OpenIn(d) /\ status'[d] = status[d]
  BY <1>1, QueueStays, HoldsStay DEF OpenIn, Group
<1>3. ASSUME NEW d \in Delivery, d \in batch
      PROVE  Accounted(d)'
  <2>1. batch \in SealedIn(d)
    BY <1>3 DEF SealedIn
  <2>2. /\ status[d] = 202 /\ SealedIn(d) = {batch} /\ Queued(d) = {} /\ Carriers(d) = {}
        /\ OpenIn(d) = {} /\ DeliveredIn(d) = {}
    BY <2>1 DEF Accounted, Nowhere, Once, Single
  <2>3. \A b \in sealed \ {batch} : d \notin b
    BY <2>2 DEF SealedIn
  <2>4. CASE d \in part
    <3>1. SealedIn(d)' = {}
      BY <1>1, <2>3, <2>4 DEF SealedIn
    <3>2. DeliveredIn(d)' = {part}
      BY <1>1, <2>2, <2>4 DEF DeliveredIn
    <3>3. Single(DeliveredIn(d)')
      BY <3>2 DEF Single
    <3> QED
      BY <1>2, <2>2, <3>1, <3>3 DEF Accounted, Once
  <2>5. CASE d \notin part
    <3>1. SealedIn(d)' = {rest}
      BY <1>1, <1>3, <2>3, <2>5 DEF SealedIn
    <3>2. DeliveredIn(d)' = {}
      BY <1>1, <2>2, <2>5 DEF DeliveredIn
    <3>3. Single(SealedIn(d)')
      BY <3>1 DEF Single
    <3> QED
      BY <1>2, <2>2, <3>2, <3>3 DEF Accounted, Once
  <2> QED
    BY <2>4, <2>5
<1>4. ASSUME NEW d \in Delivery, d \notin batch
      PROVE  Accounted(d)'
  <2>1. SealedIn(d)' = SealedIn(d)
    BY <1>1, <1>4 DEF SealedIn
  <2>2. DeliveredIn(d)' = DeliveredIn(d)
    BY <1>1, <1>4 DEF DeliveredIn
  <2> QED
    BY <1>2, <2>1, <2>2, Untouched
<1>5. CoreTypeOK'
  <2>1. sealed' \subseteq SUBSET Delivery /\ delivered' \subseteq SUBSET Delivery
    BY <1>1 DEF CoreTypeOK
  <2> QED
    BY <1>1, <2>1 DEF CoreTypeOK, TypeOK, Group
<1>6. IdleWhileLoading'
  BY <1>1 DEF IdleWhileLoading
<1> QED
  BY <1>3, <1>4, <1>5, <1>6

-----------------------------------------------------------------------------
\* The inductive invariant holds whatever the core does.
THEOREM CoreInvariantHolds == CoreSpec => []CoreInvariant
<1>1. ASSUME CoreInvariant, [CoreNext]_coreVars
      PROVE  CoreInvariant'
  <2>1. CASE Start \/ Listen \/ Signal \/ Shutdown \/ Exit \/ UNCHANGED coreVars
    BY <1>1, <2>1, Outside_Invariant
  <2>2. ASSUME NEW d \in Delivery, SubmitEvent(d)
        PROVE  CoreInvariant'
    BY <1>1, <2>2, Outside_Invariant
  <2>3. ASSUME NEW d \in Delivery, Handle(d)
        PROVE  CoreInvariant'
    BY <1>1, <2>3, Answer_Invariant, Enqueue_Invariant DEF Handle
  <2>4. ASSUME NEW w \in Worker, Work(w)
        PROVE  CoreInvariant'
    BY <1>1, <2>4, Take_Invariant, Outside_Invariant DEF Work
  <2>5. ASSUME NEW w \in Worker, Feed(w)
        PROVE  CoreInvariant'
    BY <1>1, <2>5, Feed_Invariant
  <2>6. ASSUME NEW g \in Group, Flush(g)
        PROVE  CoreInvariant'
    BY <1>1, <2>6, Seal_Invariant, Deliver_Invariant DEF Flush
  <2> QED
    BY <1>1, <2>1, <2>2, <2>3, <2>4, <2>5, <2>6 DEF CoreNext
<1> QED
  BY <1>1, CoreInit_Invariant, PTL DEF CoreSpec

\* For every queue size, every number of workers and any deliveries, whatever
\* fills up, overtakes or shuts down: an event answered 202 is in exactly one
\* place until the process ends, and any other in none (ServeHTTP, RunWorkers,
\* Ingest, flush).
THEOREM AccountedForHolds == CoreSpec => []AccountedFor
BY CoreInvariantHolds, AccountedForFollows, PTL

\* The channel never holds more than its capacity, and only idle workers
\* have returned.
THEOREM ReceiverTyped == CoreSpec => []TypeOK
<1>1. CoreInvariant => TypeOK
  BY DEF CoreInvariant, CoreTypeOK
<1> QED
  BY <1>1, CoreInvariantHolds, PTL

-----------------------------------------------------------------------------
(* Order.  The channel is the end of the history of accepted events; what  *)
(* precedes it there has been taken, and is ingested or at a worker.       *)

Taken == Len(accepted) - Len(queue)

QueueIsEndOfAccepted ==
  /\ Taken \in Nat
  /\ \A i \in 1 .. Len(queue) : queue[i] = accepted[Taken + i]

TakenIsIngestedOrHeld ==
  \A i \in 1 .. Taken : accepted[i] \in ToSet(ingested) \cup Held

IngestedLeftQueue ==
  \A k \in 1 .. Len(ingested) : status[ingested[k]] = 202 /\ Queued(ingested[k]) = {}

OrderInvariant == QueueIsEndOfAccepted /\ TakenIsIngestedOrHeld /\ IngestedLeftQueue

\* Members of a history.
LEMMA ToSetOf ==
  ASSUME NEW s \in Seq(Delivery)
  PROVE  \A x : x \in ToSet(s) <=> \E k \in 1 .. Len(s) : s[k] = x
BY DEF ToSet

LEMMA OrderFollows == CoreInvariant /\ OrderInvariant => OvertakenOnlyWhenHeld
<1> SUFFICES ASSUME CoreInvariant, OrderInvariant,
                    NEW i \in DOMAIN accepted, NEW j \in DOMAIN accepted,
                    i < j, accepted[j] \in ToSet(ingested)
             PROVE  accepted[i] \in ToSet(ingested) \cup Held
  BY DEF OvertakenOnlyWhenHeld
<1>1. /\ accepted \in Seq(Delivery) /\ ingested \in Seq(Delivery) /\ queue \in Seq(Delivery)
      /\ DOMAIN accepted = 1 .. Len(accepted) /\ DOMAIN queue = 1 .. Len(queue)
      /\ Len(accepted) \in Nat /\ Len(queue) \in Nat
  BY DEF CoreInvariant, CoreTypeOK, TypeOK
<1>2. Queued(accepted[j]) = {}
  <2>1. PICK k \in 1 .. Len(ingested) : ingested[k] = accepted[j]
    BY <1>1, ToSetOf
  <2> QED
    BY <2>1 DEF OrderInvariant, IngestedLeftQueue, Queued
<1>3. j <= Taken
  <2>1. SUFFICES ASSUME j > Taken
                 PROVE  FALSE
    BY <1>1 DEF Taken
  <2>2. j - Taken \in 1 .. Len(queue) /\ Taken + (j - Taken) = j
    BY <1>1, <2>1 DEF Taken
  <2>3. queue[j - Taken] = accepted[j]
    BY <2>2 DEF OrderInvariant, QueueIsEndOfAccepted
  <2> QED
    BY <1>1, <1>2, <2>2, <2>3 DEF Queued
<1>4. i \in 1 .. Taken
  BY <1>1, <1>3 DEF OrderInvariant, QueueIsEndOfAccepted
<1> QED
  BY <1>4 DEF OrderInvariant, TakenIsIngestedOrHeld

\* Steps that leave the channel, the workers and the histories alone.
LEMMA Elsewhere_Order ==
  ASSUME CoreInvariant, OrderInvariant, UNCHANGED <<queue, holds, accepted, ingested>>,
         \A d \in Delivery : status[d] = 202 => status'[d] = 202
  PROVE  OrderInvariant'
<1>1. ingested \in Seq(Delivery)
  BY DEF CoreInvariant, CoreTypeOK, TypeOK
<1>2. \A k \in 1 .. Len(ingested) : ingested[k] \in Delivery
  BY <1>1
<1>3. IngestedLeftQueue'
  BY <1>2 DEF OrderInvariant, IngestedLeftQueue, Queued
<1> QED
  BY <1>3 DEF OrderInvariant, QueueIsEndOfAccepted, TakenIsIngestedOrHeld, Taken, Held

LEMMA Enqueue_Order ==
  ASSUME CoreInvariant, OrderInvariant, NEW d \in Delivery, Enqueue(d)
  PROVE  OrderInvariant'
<1>1. /\ status' = [status EXCEPT ![d] = 202] /\ status[d] = 0
      /\ status \in [Delivery -> {0, 202, 400, 503}]
      /\ accepted \in Seq(Delivery) /\ ingested \in Seq(Delivery) /\ queue \in Seq(Delivery)
      /\ holds \in [Worker -> Delivery \cup {Idle}]
      /\ accepted' = Append(accepted, d) /\ ingested' = ingested
  BY DEF Enqueue, Open, CoreInvariant, CoreTypeOK, TypeOK
<1>2. /\ Len(accepted) \in Nat /\ Len(queue) \in Nat /\ Len(accepted') = Len(accepted) + 1
      /\ accepted'[Len(accepted) + 1] = d
      /\ \A i \in 1 .. Len(accepted) : accepted'[i] = accepted[i]
      /\ DOMAIN queue = 1 .. Len(queue)
      /\ \A k \in 1 .. Len(ingested) : ingested[k] \in Delivery
  BY <1>1
<1>3. Taken \in Nat /\ Taken + Len(queue) = Len(accepted)
  BY <1>2 DEF OrderInvariant, QueueIsEndOfAccepted, Taken
<1>4. \A k \in 1 .. Len(ingested) : ingested[k] # d /\ status'[ingested[k]] = 202
  BY <1>1, <1>2 DEF OrderInvariant, IngestedLeftQueue
<1>5. CASE queue' = Append(queue, d) /\ UNCHANGED holds
  <2>1. /\ Len(queue') = Len(queue) + 1 /\ queue'[Len(queue) + 1] = d
        /\ \A i \in 1 .. Len(queue) : queue'[i] = queue[i]
        /\ DOMAIN queue' = 1 .. Len(queue) + 1
    BY <1>1, <1>5
  <2>2. Taken' = Taken
    BY <1>2, <2>1 DEF Taken
  <2>3. QueueIsEndOfAccepted'
    <3>1. ASSUME NEW i \in 1 .. Len(queue) + 1
          PROVE  queue'[i] = accepted'[Taken + i]
      <4>1. CASE i = Len(queue) + 1
        BY <1>2, <1>3, <2>1, <4>1
      <4>2. CASE i \in 1 .. Len(queue)
        <5>1. Taken + i \in 1 .. Len(accepted)
          BY <1>2, <1>3, <4>2
        <5> QED
          BY <1>2, <2>1, <4>2, <5>1 DEF OrderInvariant, QueueIsEndOfAccepted
      <4> QED
        BY <1>2, <4>1, <4>2
    <3> QED
      BY <1>3, <2>1, <2>2, <3>1 DEF QueueIsEndOfAccepted
  <2>4. TakenIsIngestedOrHeld'
    <3>1. \A i \in 1 .. Taken : accepted'[i] = accepted[i]
      BY <1>2, <1>3
    <3>2. ToSet(ingested)' = ToSet(ingested) /\ Held' = Held
      BY <1>1, <1>5 DEF Held
    <3> QED
      BY <2>2, <3>1, <3>2 DEF OrderInvariant, TakenIsIngestedOrHeld
  <2>5. IngestedLeftQueue'
    <3>1. \A k \in 1 .. Len(ingested) : Queued(ingested[k])' = {}
      <4>1. SUFFICES ASSUME NEW k \in 1 .. Len(ingested), NEW i \in 1 .. Len(queue) + 1,
                            queue'[i] = ingested[k]
                     PROVE  FALSE
        BY <1>1, <2>1 DEF Queued
      <4>2. i \in 1 .. Len(queue) /\ queue[i] = ingested[k]
        BY <1>2, <1>4, <2>1, <4>1
      <4> QED
        BY <1>2, <4>2 DEF OrderInvariant, IngestedLeftQueue, Queued
    <3> QED
      BY <1>1, <1>4, <3>1 DEF IngestedLeftQueue, Queued
  <2> QED
    BY <2>3, <2>4, <2>5 DEF OrderInvariant
<1>6. ASSUME NEW w \in Parked, queue = <<>>, holds' = [holds EXCEPT ![w] = d], UNCHANGED queue
      PROVE  OrderInvariant'
  <2>1. w \in Worker /\ holds[w] = Idle /\ d # Idle /\ Len(queue) = 0
    BY <1>6, ReceiverAssumption DEF Parked, ReceiverAssumption
  <2>2. Taken = Len(accepted) /\ Taken' = Taken + 1
    BY <1>2, <1>3, <1>6, <2>1 DEF Taken
  <2>3. Held \cup {d} \subseteq Held'
    BY <1>1, <1>6, <2>1 DEF Held
  <2>4. TakenIsIngestedOrHeld'
    <3>1. ASSUME NEW i \in 1 .. Taken + 1
          PROVE  accepted'[i] \in ToSet(ingested) \cup Held'
      <4>1. CASE i = Taken + 1
        BY <1>2, <2>2, <2>3, <4>1
      <4>2. CASE i \in 1 .. Taken
        BY <1>2, <2>2, <2>3, <4>2 DEF OrderInvariant, TakenIsIngestedOrHeld
      <4> QED
        BY <1>3, <4>1, <4>2
    <3> QED
      BY <1>1, <2>2, <3>1 DEF TakenIsIngestedOrHeld
  <2>5. QueueIsEndOfAccepted'
    BY <1>3, <1>6, <2>1, <2>2 DEF QueueIsEndOfAccepted
  <2>6. IngestedLeftQueue'
    BY <1>1, <1>4, <1>6 DEF OrderInvariant, IngestedLeftQueue, Queued
  <2> QED
    BY <2>4, <2>5, <2>6 DEF OrderInvariant
<1> QED
  BY <1>5, <1>6 DEF Enqueue

LEMMA Take_Order ==
  ASSUME CoreInvariant, OrderInvariant, NEW w \in Worker, Take(w)
  PROVE  OrderInvariant'
<1>1. /\ accepted \in Seq(Delivery) /\ ingested \in Seq(Delivery) /\ queue \in Seq(Delivery)
      /\ holds \in [Worker -> Delivery \cup {Idle}] /\ Idle \notin Delivery
      /\ queue # <<>> /\ holds[w] = Idle
      /\ holds' = [holds EXCEPT ![w] = Head(queue)] /\ queue' = Tail(queue)
      /\ UNCHANGED <<status, accepted, ingested>>
  BY ReceiverAssumption DEF Take, Parked, ReceiveFrom, CoreInvariant, CoreTypeOK, TypeOK,
                            ReceiverAssumption
<1>2. /\ Len(accepted) \in Nat /\ Len(queue) \in Nat \ {0} /\ Head(queue) = queue[1]
      /\ queue[1] \in Delivery /\ DOMAIN queue = 1 .. Len(queue)
      /\ Len(queue') = Len(queue) - 1 /\ DOMAIN queue' = 1 .. Len(queue) - 1
      /\ \A i \in 1 .. Len(queue) - 1 : queue'[i] = queue[i + 1]
  BY <1>1
<1>3. Taken' = Taken + 1 /\ Taken \in Nat
  BY <1>1, <1>2 DEF Taken, OrderInvariant, QueueIsEndOfAccepted
<1>4. QueueIsEndOfAccepted'
  <2>1. ASSUME NEW i \in 1 .. Len(queue) - 1
        PROVE  queue'[i] = accepted[Taken + 1 + i]
    <3>1. i + 1 \in 1 .. Len(queue) /\ Taken + (i + 1) = Taken + 1 + i
      BY <1>2, <1>3
    <3> QED
      BY <1>2, <3>1 DEF OrderInvariant, QueueIsEndOfAccepted
  <2> QED
    BY <1>1, <1>2, <1>3, <2>1 DEF QueueIsEndOfAccepted
<1>5. TakenIsIngestedOrHeld'
  <2>1. Held \cup {queue[1]} \subseteq Held'
    BY <1>1, <1>2 DEF Held
  <2>2. queue[1] = accepted[Taken + 1]
    BY <1>2 DEF OrderInvariant, QueueIsEndOfAccepted
  <2>3. ASSUME NEW i \in 1 .. Taken + 1
        PROVE  accepted[i] \in ToSet(ingested) \cup Held'
    <3>1. CASE i = Taken + 1
      BY <2>1, <2>2, <3>1
    <3>2. CASE i \in 1 .. Taken
      BY <2>1, <3>2 DEF OrderInvariant, TakenIsIngestedOrHeld
    <3> QED
      BY <1>3, <3>1, <3>2
  <2> QED
    BY <1>1, <1>3, <2>3 DEF TakenIsIngestedOrHeld
<1>6. IngestedLeftQueue'
  <2>1. ASSUME NEW k \in 1 .. Len(ingested), NEW i \in 1 .. Len(queue) - 1
        PROVE  queue'[i] # ingested[k]
    <3>1. queue'[i] = queue[i + 1] /\ i + 1 \in 1 .. Len(queue)
      BY <1>2
    <3>2. i + 1 \in DOMAIN queue /\ Queued(ingested[k]) = {}
      BY <1>2, <3>1 DEF OrderInvariant, IngestedLeftQueue
    <3> QED
      BY <3>1, <3>2 DEF Queued
  <2>2. \A k \in 1 .. Len(ingested) : Queued(ingested[k])' = {}
    BY <1>1, <1>2, <2>1 DEF Queued
  <2> QED
    BY <1>1, <2>2 DEF OrderInvariant, IngestedLeftQueue
<1> QED
  BY <1>4, <1>5, <1>6 DEF OrderInvariant

LEMMA Feed_Order ==
  ASSUME CoreInvariant, OrderInvariant, NEW w \in Worker, Feed(w)
  PROVE  OrderInvariant'
<1> PICK d \in Delivery : d = holds[w]
  BY DEF Feed, Ingest, CoreInvariant, CoreTypeOK, TypeOK
<1>1. /\ ingested \in Seq(Delivery) /\ holds \in [Worker -> Delivery \cup {Idle}]
      /\ d # Idle /\ holds' = [holds EXCEPT ![w] = Idle] /\ ingested' = Append(ingested, d)
      /\ UNCHANGED <<status, queue, accepted>>
  BY DEF Feed, Ingest, HoldsAfterIngest, CoreInvariant, CoreTypeOK, TypeOK
<1>2. /\ Len(ingested) \in Nat /\ Len(ingested') = Len(ingested) + 1
      /\ ingested' \in Seq(Delivery)
      /\ \A k \in 1 .. Len(ingested) : ingested'[k] = ingested[k]
      /\ ingested'[Len(ingested) + 1] = d
  BY <1>1
<1>3. QueueIsEndOfAccepted'
  BY <1>1 DEF OrderInvariant, QueueIsEndOfAccepted, Taken
<1>4. TakenIsIngestedOrHeld'
  <2>1. ToSet(ingested) \cup {d} \subseteq ToSet(ingested')
    <3>1. ASSUME NEW x \in ToSet(ingested)
          PROVE  x \in ToSet(ingested')
      <4>1. PICK k \in 1 .. Len(ingested) : ingested[k] = x
        BY <1>1, ToSetOf
      <4>2. k \in 1 .. Len(ingested') /\ ingested'[k] = x
        BY <1>2, <4>1
      <4> QED
        BY <1>2, <4>2, ToSetOf
    <3>2. d \in ToSet(ingested')
      BY <1>2, ToSetOf
    <3> QED
      BY <3>1, <3>2
  <2>2. Held \subseteq Held' \cup {d}
    BY <1>1 DEF Held
  <2>3. Taken' = Taken
    BY <1>1 DEF Taken
  <2> QED
    BY <1>1, <2>1, <2>2, <2>3 DEF OrderInvariant, TakenIsIngestedOrHeld
<1>5. IngestedLeftQueue'
  <2>1. status[d] = 202 /\ Queued(d) = {}
    <3>1. w \in Carriers(d)
      BY DEF Carriers
    <3> QED
      BY <3>1 DEF CoreInvariant, Accounted, Nowhere, Once, Single
  <2>2. ASSUME NEW k \in 1 .. Len(ingested) + 1
        PROVE  status[ingested'[k]] = 202 /\ Queued(ingested'[k]) = {}
    <3>1. CASE k = Len(ingested) + 1
      BY <1>2, <2>1, <3>1
    <3>2. CASE k \in 1 .. Len(ingested)
      BY <1>2, <3>2 DEF OrderInvariant, IngestedLeftQueue, Queued
    <3> QED
      BY <1>2, <3>1, <3>2
  <2> QED
    BY <1>1, <1>2, <2>2 DEF IngestedLeftQueue, Queued
<1> QED
  BY <1>3, <1>4, <1>5 DEF OrderInvariant

LEMMA CoreInit_Order == CoreInit => OrderInvariant
<1> SUFFICES ASSUME CoreInit
             PROVE  OrderInvariant
  OBVIOUS
<1>1. Len(queue) = 0 /\ Len(accepted) = 0 /\ Len(ingested) = 0
  BY EmptySeq DEF CoreInit, Init
<1> QED
  BY <1>1 DEF OrderInvariant, QueueIsEndOfAccepted, TakenIsIngestedOrHeld, IngestedLeftQueue, Taken

\* An event is overtaken only while a worker holds it, for every number of
\* workers and every queue size: whatever was accepted before an ingested
\* event is ingested, or at a worker (h.ch, RunWorkers).
THEOREM OvertakenOnlyWhenHeldHolds == CoreSpec => []OvertakenOnlyWhenHeld
<1>1. ASSUME CoreInvariant, OrderInvariant, [CoreNext]_coreVars
      PROVE  OrderInvariant'
  <2>1. CASE Start \/ Listen \/ Signal \/ Shutdown \/ Exit \/ UNCHANGED coreVars
    <3>1. UNCHANGED <<queue, holds, accepted, ingested, status>>
      BY <2>1 DEF Start, Listen, Signal, Cancel, Shutdown, Exit, coreVars, vars
    <3> QED
      BY <1>1, <3>1, Elsewhere_Order
  <2>2. ASSUME NEW d \in Delivery, SubmitEvent(d)
        PROVE  OrderInvariant'
    BY <1>1, <2>2, Elsewhere_Order DEF SubmitEvent, Arrive
  <2>3. ASSUME NEW d \in Delivery, Reject(d) \/ QueueFull(d) \/ Acknowledge(d)
        PROVE  OrderInvariant'
    <3>1. /\ status \in [Delivery -> {0, 202, 400, 503}]
          /\ UNCHANGED <<queue, holds, accepted, ingested>>
          /\ \E code \in {202, 400, 503} :
               status' = [status EXCEPT ![d] = code] /\ (code # 202 => status[d] = 0)
      BY <1>1, <2>3 DEF Reject, QueueFull, DefaultCase, Acknowledge, Respond, Open, CoreInvariant,
                        CoreTypeOK, TypeOK
    <3>2. \A e \in Delivery : status[e] = 202 => status'[e] = 202
      BY <3>1
    <3> QED
      BY <1>1, <3>1, <3>2, Elsewhere_Order
  <2>4. ASSUME NEW d \in Delivery, Enqueue(d)
        PROVE  OrderInvariant'
    BY <1>1, <2>4, Enqueue_Order
  <2>5. ASSUME NEW w \in Worker, Take(w)
        PROVE  OrderInvariant'
    BY <1>1, <2>5, Take_Order
  <2>6. ASSUME NEW w \in Worker, Return(w)
        PROVE  OrderInvariant'
    BY <1>1, <2>6, Elsewhere_Order DEF Return
  <2>7. ASSUME NEW w \in Worker, Feed(w)
        PROVE  OrderInvariant'
    BY <1>1, <2>7, Feed_Order
  <2>8. ASSUME NEW g \in Group, Flush(g)
        PROVE  OrderInvariant'
    BY <1>1, <2>8, Elsewhere_Order DEF Flush, vars
  <2> QED
    BY <1>1, <2>1, <2>2, <2>3, <2>4, <2>5, <2>6, <2>7, <2>8 DEF CoreNext, Handle, Work
<1> QED
  BY <1>1, CoreInit_Order, OrderFollows, CoreInvariantHolds, PTL DEF CoreSpec

=============================================================================
