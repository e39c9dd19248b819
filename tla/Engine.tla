------------------------------- MODULE Engine -------------------------------
(***************************************************************************)
(* The debounce engine of the core (internal/aggregator/engine.go).        *)
(*                                                                         *)
(* Worker goroutines Ingest events into the open batch of their group.     *)
(* The first event of a batch arms the hard timer (MaxWait), every event   *)
(* re-arms the idle timer (IdleWindow).  Either timer launches             *)
(* onTimerFire in a goroutine of its own, which first waits for e.mu, then *)
(* seals the batch under the next generation and, outside the lock, hands  *)
(* the batch to the publisher, one Upsert per session key.                 *)
(*                                                                         *)
(* time.AfterFunc gives no atomicity between a timer's expiry and its      *)
(* callback, so Expire and onTimerFire are separate actions: Stop does     *)
(* nothing to a callback that has been launched and waits for e.mu.        *)
(***************************************************************************)
EXTENDS Integers, FiniteSets, Sequences, SequencesExt

CONSTANTS
  Group,            \* values of the grouping label (ev.GroupKey)
  Trigger,          \* names of the ArgoCD triggers (ev.Trigger)
  Event,            \* webhook deliveries: one element per accepted call
  IdleWindow,       \* cfg.IdleWindow in ticks
  MaxWait,          \* cfg.MaxWait in ticks
  CombineTriggers   \* cfg.CombineTriggers

ASSUME EventAssumption ==
  /\ IsFiniteSet(Trigger)
  /\ \A ev \in Event : ev.group \in Group /\ ev.trigger \in Trigger

\* config.Validate refuses IdleWindow >= MaxWait.
ASSUME WindowAssumption ==
  /\ IdleWindow \in Nat
  /\ MaxWait \in Nat
  /\ IdleWindow < MaxWait

ASSUME CombineAssumption == CombineTriggers \in BOOLEAN

VARIABLES
  buckets,     \* groupState.buckets: group -> trigger -> events of the open batch
  generation,  \* groupState.generation
  timers,      \* timers armed in the runtime
  callbacks,   \* onTimerFire goroutines that have not yet taken e.mu
  flushes,     \* flush goroutines: a sealed batch being handed over
  ingested,    \* history: events in the order in which Ingest took e.mu
  handed,      \* history: the Upsert calls made so far
  age,         \* observer: ticks since the first event of the open batch
  quiet        \* observer: ticks since the last event of the open batch

vars == <<buckets, generation, timers, callbacks, flushes, ingested, handed, age, quiet>>

-----------------------------------------------------------------------------
(* Batches, timers and session keys.                                       *)

EmptyBatch == [t \in Trigger |-> <<>>]

\* freshBatch is ~IsOpen(g): the map of buckets has no key.
IsOpen(g) == buckets[g] # EmptyBatch

TimersOf(g, kind) == {t \in timers : t.group = g /\ t.kind = kind}

\* clock.AfterFunc: the closure captures the group and its generation.
AfterFunc(g, kind, d) ==
  [group |-> g, kind |-> kind, gen |-> generation[g], left |-> d]

\* The Trigger field is left empty when triggers are combined.
SessionKeyOf(ev) ==
  [group |-> ev.group, revision |-> ev.revision,
   trigger |-> IF CombineTriggers THEN "" ELSE ev.trigger]

SessionKeys == {SessionKeyOf(ev) : ev \in Event}

Events(batch) == UNION {ToSet(batch[t]) : t \in Trigger}

TriggersIn(batch) == {t \in Trigger : batch[t] # <<>>}

\* Mutant: each session receives the whole batch.
WholeBatchFor(f, key) == FlattenSeq([i \in DOMAIN f.order |-> f.buckets[f.order[i]]])

\* What flush appends for one session key while it goes over one bucket.
OfSession(events, key) ==
  LET appended[n \in 0 .. Len(events)] ==
        IF n = 0 THEN <<>>
        ELSE IF SessionKeyOf(events[n]) = key THEN Append(appended[n - 1], events[n])
        ELSE appended[n - 1]
  IN  appended[Len(events)]

\* The slice flush collects for one session key.  f.order is the order in
\* which "range buckets" happened to visit the triggers.
EventsFor(f, key) ==
  FlattenSeq([i \in DOMAIN f.order |-> OfSession(f.buckets[f.order[i]], key)])

\* An Upsert call, and the slice it is given.
Call(f, key) == [key |-> key, gen |-> f.gen, buckets |-> f.buckets, order |-> f.order]

Slice(h) == EventsFor(h, h.key)

-----------------------------------------------------------------------------
Timer == [group : Group, kind : {"idle", "hard"}, gen : Nat, left : 0 .. MaxWait]

TypeOK ==
  /\ buckets \in [Group -> [Trigger -> Seq(Event)]]
  /\ generation \in [Group -> Nat]
  /\ timers \subseteq Timer
  /\ callbacks \subseteq [group : Group, kind : {"idle", "hard"}, gen : Nat]
  /\ flushes \subseteq [group : Group, gen : Nat, buckets : [Trigger -> Seq(Event)],
                        order : Seq(Trigger), todo : SUBSET SessionKeys,
                        calling : SUBSET SessionKeys]
  /\ ingested \in Seq(Event)
  /\ handed \subseteq [key : SessionKeys, gen : Nat, buckets : [Trigger -> Seq(Event)],
                       order : Seq(Trigger)]
  /\ age \in [Group -> 0 .. MaxWait + 1]
  /\ quiet \in [Group -> 0 .. MaxWait + 1]

Init ==
  /\ buckets = [g \in Group |-> EmptyBatch]
  /\ generation = [g \in Group |-> 0]
  /\ timers = {}
  /\ callbacks = {}
  /\ flushes = {}
  /\ ingested = <<>>
  /\ handed = {}
  /\ age = [g \in Group |-> 0]
  /\ quiet = [g \in Group |-> 0]

-----------------------------------------------------------------------------
(* Ingest, one critical section.                                           *)

\* Mutant: freshBatch read after the append is never true.
HardTimerNever(g) == {}

\* Only the first event of a batch arms the hard timer.
HardTimerFor(g) ==
  IF IsOpen(g) THEN {} ELSE {AfterFunc(g, "hard", MaxWait)}

\* gs.idleTimer.Stop() and a new idle timer in its place.
IdleTimerReset(g) ==
  (timers \ TimersOf(g, "idle")) \cup {AfterFunc(g, "idle", IdleWindow)}

\* Mutant: the newest event goes to the front of its bucket.
PrependTo(batch, ev) == [batch EXCEPT ![ev.trigger] = <<ev>> \o @]

AppendTo(batch, ev) == [batch EXCEPT ![ev.trigger] = Append(@, ev)]

Ingest(ev) ==
  LET g == ev.group IN
  /\ ev \notin ToSet(ingested)
  /\ ingested' = Append(ingested, ev)
  /\ buckets' = [buckets EXCEPT ![g] = AppendTo(@, ev)]
  /\ timers' = IdleTimerReset(g) \cup HardTimerFor(g)
  /\ age' = [age EXCEPT ![g] = IF IsOpen(g) THEN @ ELSE 0]
  /\ quiet' = [quiet EXCEPT ![g] = 0]
  /\ UNCHANGED <<generation, callbacks, flushes, handed>>

-----------------------------------------------------------------------------
(* Time and the runtime's timers.                                          *)

\* An armed timer that is due starts its callback before time moves on, but
\* the callback may then wait for e.mu for any number of ticks.
Expire(t) ==
  /\ t.left = 0
  /\ timers' = timers \ {t}
  /\ callbacks' = callbacks \cup {[group |-> t.group, kind |-> t.kind, gen |-> t.gen]}
  /\ UNCHANGED <<buckets, generation, flushes, ingested, handed, age, quiet>>

Elapse(t) == [t EXCEPT !.left = @ - 1]

\* Observers saturate one tick past MaxWait.
Aged(n) == IF n > MaxWait THEN n ELSE n + 1

\* One tick of the clock all timers run on.
PassTime ==
  /\ \A t \in timers : t.left > 0
  /\ timers' = {Elapse(t) : t \in timers}
  /\ age' = [g \in Group |-> IF IsOpen(g) THEN Aged(age[g]) ELSE age[g]]
  /\ quiet' = [g \in Group |-> IF IsOpen(g) THEN Aged(quiet[g]) ELSE quiet[g]]
  /\ UNCHANGED <<buckets, generation, callbacks, flushes, ingested, handed>>

\* The engine has no use for the time in which no batch is open.
Tick == (\E g \in Group : IsOpen(g)) /\ PassTime

-----------------------------------------------------------------------------
(* onTimerFire: the critical section, then flush outside the lock.         *)

\* Mutants: the generation is not compared; it is compared with >=.
StaleIgnoringGeneration(c) == ~IsOpen(c.group)
StaleUnlessNewer(c) == generation[c.group] >= c.gen \/ ~IsOpen(c.group)

\* The early return of onTimerFire.
Stale(c) == generation[c.group] # c.gen \/ ~IsOpen(c.group)

DropStale(c) ==
  /\ Stale(c)
  /\ callbacks' = callbacks \ {c}
  /\ UNCHANGED <<buckets, generation, timers, flushes, ingested, handed, age, quiet>>

\* Mutant: only the idle timer is stopped.
HardTimerKept(g) == timers \ TimersOf(g, "idle")

\* Both timers of the group are stopped and forgotten.
TimersAfterSeal(g) == timers \ (TimersOf(g, "idle") \cup TimersOf(g, "hard"))

\* Mutant: gs.buckets is not replaced by a new map.
BucketsKept(g) == buckets

BucketsAfterSeal(g) == [buckets EXCEPT ![g] = EmptyBatch]

GenerationAfterSeal(g) == [generation EXCEPT ![g] = @ + 1]

NewFlush(g, order) ==
  [group |-> g, gen |-> generation[g], buckets |-> buckets[g], order |-> order,
   todo |-> {SessionKeyOf(ev) : ev \in Events(buckets[g])}, calling |-> {}]

SealBatch(c) ==
  LET g == c.group IN
  /\ ~Stale(c)
  /\ \E order \in SetToSeqs(TriggersIn(buckets[g])) :
       flushes' = flushes \cup {NewFlush(g, order)}
  /\ buckets' = BucketsAfterSeal(g)
  /\ timers' = TimersAfterSeal(g)
  /\ generation' = GenerationAfterSeal(g)
  /\ callbacks' = callbacks \ {c}
  /\ age' = [age EXCEPT ![g] = 0]
  /\ quiet' = [quiet EXCEPT ![g] = 0]
  /\ UNCHANGED <<ingested, handed>>

onTimerFire(c) == DropStale(c) \/ SealBatch(c)

\* "for key, evs := range sessioned": the keys come in any order, one at a
\* time; the slice is non-empty for every key of the range.
CallUpsert(f, key) ==
  /\ f.calling = {}
  /\ key \in f.todo
  /\ flushes' = (flushes \ {f}) \cup {[f EXCEPT !.calling = {key}]}
  /\ handed' = handed \cup {Call(f, key)}
  /\ UNCHANGED <<buckets, generation, timers, callbacks, ingested, age, quiet>>

\* Upsert returns; an error is logged and the loop goes on.
ReturnUpsert(f) ==
  /\ f.calling # {}
  /\ LET left == f.todo \ f.calling IN
       flushes' = (flushes \ {f}) \cup
                  (IF left = {} THEN {} ELSE {[f EXCEPT !.todo = left, !.calling = {}]})
  /\ UNCHANGED <<buckets, generation, timers, callbacks, ingested, handed, age, quiet>>

-----------------------------------------------------------------------------
Next ==
  \/ \E ev \in Event : Ingest(ev)
  \/ \E t \in timers : Expire(t)
  \/ Tick
  \/ \E c \in callbacks : onTimerFire(c)
  \/ \E f \in flushes : (\E key \in SessionKeys : CallUpsert(f, key)) \/ ReturnUpsert(f)

\* The runtime runs timers and goroutines, and sync.Mutex is starvation
\* free.  Nothing obliges ArgoCD to send an event: Ingest is not fair.
Fairness ==
  /\ WF_vars(Tick)
  /\ \A g \in Group :
       /\ WF_vars(\E t \in timers : t.group = g /\ Expire(t))
       /\ WF_vars(\E c \in callbacks : c.group = g /\ onTimerFire(c))
       /\ WF_vars(\E f \in flushes : f.group = g /\ \E key \in SessionKeys : CallUpsert(f, key))
       /\ WF_vars(\E f \in flushes : f.group = g /\ ReturnUpsert(f))

Spec == Init /\ [][Next]_vars

FairSpec == Spec /\ Fairness
-----------------------------------------------------------------------------
(* Properties.                                                             *)

\* An open batch always has its hard timer armed with exactly the time left
\* to the cap, or a callback of its own generation on its way to e.mu: no
\* race of Stop, Expire and a seal can leave events waiting without a cap.
HardCap ==
  \A g \in Group : IsOpen(g) =>
    \/ \E t \in TimersOf(g, "hard") :
         t.gen = generation[g] /\ age[g] + t.left = MaxWait
    \/ \E c \in callbacks : c.group = g /\ c.gen = generation[g]

\* Nothing stays armed for a batch that has been sealed, and a group has at
\* most one timer of each kind: the runtime collects every timer the engine
\* has let go of.
NoOrphanTimers ==
  \A t, u \in timers :
    /\ IsOpen(t.group) /\ t.gen = generation[t.group]
    /\ t.group = u.group /\ t.kind = u.kind => t = u

\* Armed timers are on schedule: the hard timer is due at MaxWait after the
\* first event, the idle timer not before an idle window after it.
TimersPaced ==
  \A t \in timers :
    /\ t.kind = "hard" => age[t.group] + t.left = MaxWait
    /\ t.kind = "idle" => age[t.group] + t.left >= IdleWindow

\* A pending callback belongs to a sealed batch, or to the open one and then
\* an idle window has passed since its first event.
CallbacksPaced ==
  \A c \in callbacks :
    \/ c.gen < generation[c.group]
    \/ c.gen = generation[c.group] /\ IsOpen(c.group) /\ age[c.group] >= IdleWindow

\* The inductive invariant behind HardCap, NoOrphanTimers and NoEarlySeal.
TimerInvariant == TypeOK /\ NoOrphanTimers /\ TimersPaced /\ CallbacksPaced /\ HardCap

\* A batch is never sealed before an idle window has passed since its first
\* event: a callback launched for an earlier batch cannot seal a later one
\* (the comment on groupState.generation).
NoEarlySeal ==
  [][\A g \in Group : generation'[g] # generation[g] => age[g] >= IdleWindow]_vars

\* The part of a sealed batch whose session keys have not been handed over.
Remaining(f) == {ev \in Events(f.buckets) : SessionKeyOf(ev) \in f.todo \ f.calling}

\* Each ingested event is in exactly one place: the open batch, a flush that
\* has still to hand it over, or one Upsert call, and there once.
ExactlyOnce ==
  /\ \A ev \in ToSet(ingested) :
       Cardinality({h \in handed : ev \in ToSet(Slice(h))})
         + Cardinality({f \in flushes : ev \in Remaining(f)})
         + (IF ev \in Events(buckets[ev.group]) THEN 1 ELSE 0) = 1
  /\ \A h \in handed : IsInjective(Slice(h))

ArrivedBefore(ev1, ev2) ==
  \E i, j \in DOMAIN ingested : i < j /\ ingested[i] = ev1 /\ ingested[j] = ev2

\* Batches cut the arrivals of a group into consecutive runs, and within an
\* Upsert call the events of one trigger keep the order of their arrival.
ArrivalOrder ==
  \A h1, h2 \in handed :
    /\ h1.key.group = h2.key.group /\ h1.gen < h2.gen =>
         \A ev1 \in ToSet(Slice(h1)), ev2 \in ToSet(Slice(h2)) : ArrivedBefore(ev1, ev2)
    /\ \A i, j \in DOMAIN Slice(h1) :
         i < j /\ Slice(h1)[i].trigger = Slice(h1)[j].trigger =>
           ArrivedBefore(Slice(h1)[i], Slice(h1)[j])

\* Every ingested event is handed to the publisher eventually.
EventuallyHanded ==
  \A ev \in Event :
    ev \in ToSet(ingested) ~> \E h \in handed : ev \in ToSet(Slice(h))
-----------------------------------------------------------------------------
(* What the engine promises.                                               *)

Abstract == INSTANCE Batching WITH
  KeyOf <- SessionKeyOf,
  open <- [g \in Group |-> Events(buckets[g])],
  sealed <- {Remaining(f) : f \in flushes} \ {{}},
  delivered <- {ToSet(Slice(h)) : h \in handed}

\* The engine implements Batching: no event is lost, handed over twice or to
\* a session that is not its own, batches are cut and handed over whole, and
\* each open batch is sealed and each sealed one handed over in the end.
ImplementsBatching == Abstract!Spec

-----------------------------------------------------------------------------
(* What the documents say and the code does not keep: counterexamples are  *)
(* described in the README, and no passing run checks these.               *)

\* In every Upsert call the last event of an app is the latest one of that
\* app in the batch, so that "last write wins" keeps the current state.
LatestEventLast ==
  \A h \in handed : \A i, j \in DOMAIN Slice(h) :
    i < j /\ Slice(h)[i].app = Slice(h)[j].app =>
      ArrivedBefore(Slice(h)[i], Slice(h)[j])

\* The idle timer restarts with every event of the group: a batch is sealed
\* only when the group has been quiet for the whole window or the cap is due.
IdleTimerRestarts ==
  [][\A g \in Group : generation'[g] # generation[g] =>
       quiet[g] >= IdleWindow \/ age[g] >= MaxWait]_vars
=============================================================================
