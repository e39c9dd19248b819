-------------------------- MODULE AggregatorProofs --------------------------
(***************************************************************************)
(* Proofs about the debounce engine, for every set of groups, triggers and *)
(* deliveries and every pair of windows config.Validate accepts, and about *)
(* the aggregator that runs it together with the session publisher.        *)
(***************************************************************************)
EXTENDS Aggregator, FiniteSetTheorems, SequenceLemmas, TLAPS

\* The order in which flush visits the triggers is a sequence of triggers.
LEMMA OrderType ==
  ASSUME NEW batch \in [Trigger -> Seq(Event)], NEW order \in SetToSeqs(TriggersIn(batch))
  PROVE  order \in Seq(Trigger)
<1>1. IsFiniteSet(TriggersIn(batch))
  BY EventAssumption, FS_Subset DEF EventAssumption, TriggersIn
<1>2. Cardinality(TriggersIn(batch)) \in Nat
  BY <1>1, FS_CardinalityType
<1>3. order \in [1 .. Cardinality(TriggersIn(batch)) -> TriggersIn(batch)]
  BY DEF SetToSeqs
<1>4. order \in [1 .. Cardinality(TriggersIn(batch)) -> Trigger]
  BY <1>3 DEF TriggersIn
<1> QED
  BY <1>2, <1>4, SeqDef

\* Appending an event opens its batch and keeps the type of the bucket map.
LEMMA AppendType ==
  ASSUME NEW batch \in [Trigger -> Seq(Event)], NEW ev \in Event
  PROVE  /\ AppendTo(batch, ev) \in [Trigger -> Seq(Event)]
         /\ AppendTo(batch, ev) # EmptyBatch
<1>1. ev.trigger \in Trigger
  BY EventAssumption DEF EventAssumption
<1>2. Append(batch[ev.trigger], ev) \in Seq(Event) /\ Append(batch[ev.trigger], ev) # <<>>
  BY <1>1, AppendProperties
<1>3. AppendTo(batch, ev)[ev.trigger] = Append(batch[ev.trigger], ev)
  BY <1>1 DEF AppendTo
<1>4. EmptyBatch[ev.trigger] = <<>>
  BY <1>1 DEF EmptyBatch
<1>5. AppendTo(batch, ev) \in [Trigger -> Seq(Event)]
  BY <1>1, <1>2 DEF AppendTo
<1> QED
  BY <1>2, <1>3, <1>4, <1>5

\* A tick takes one from the time left and keeps everything else.
LEMMA ElapseType ==
  ASSUME NEW t \in Timer, t.left > 0
  PROVE  /\ Elapse(t) \in Timer
         /\ Elapse(t).group = t.group /\ Elapse(t).kind = t.kind
         /\ Elapse(t).gen = t.gen /\ Elapse(t).left = t.left - 1
<1>1. t.left \in Nat /\ t.left - 1 \in 0 .. MaxWait
  BY WindowAssumption DEF Timer, WindowAssumption
<1> QED
  BY <1>1 DEF Timer, Elapse

\* The keys and the buckets of a new flush have their types.
LEMMA NewFlushType ==
  ASSUME TypeOK, NEW g \in Group, NEW order \in SetToSeqs(TriggersIn(buckets[g]))
  PROVE  NewFlush(g, order) \in
           [group : Group, gen : Nat, buckets : [Trigger -> Seq(Event)],
            order : Seq(Trigger), todo : SUBSET SessionKeys, calling : SUBSET SessionKeys]
<1>1. buckets[g] \in [Trigger -> Seq(Event)] /\ generation[g] \in Nat
  BY DEF TypeOK
<1>2. order \in Seq(Trigger)
  BY <1>1, OrderType
<1>3. Events(buckets[g]) \subseteq Event
  <2> SUFFICES ASSUME NEW t \in Trigger, NEW e \in ToSet(buckets[g][t])
               PROVE  e \in Event
    BY DEF Events
  <2>1. buckets[g][t] \in Seq(Event)
    BY <1>1
  <2> QED
    BY <2>1, ElementOfSeq DEF ToSet
<1>4. {SessionKeyOf(ev) : ev \in Events(buckets[g])} \subseteq SessionKeys
  BY <1>3 DEF SessionKeys
<1> QED
  BY <1>1, <1>2, <1>4 DEF NewFlush

-----------------------------------------------------------------------------
\* Every variable keeps its type in every step.
LEMMA TypeStep == TypeOK /\ [Next]_vars => TypeOK'
<1> SUFFICES ASSUME TypeOK, [Next]_vars
             PROVE  TypeOK'
  OBVIOUS
<1> USE WindowAssumption DEF WindowAssumption
<1>1. ASSUME NEW ev \in Event, Ingest(ev)
      PROVE  TypeOK'
  <2> DEFINE g == ev.group
  <2>1. g \in Group
    BY EventAssumption DEF EventAssumption
  <2>2. buckets' \in [Group -> [Trigger -> Seq(Event)]]
    BY <1>1, <2>1, AppendType DEF Ingest, TypeOK
  <2>3. timers' \subseteq Timer
    BY <1>1, <2>1 DEF Ingest, TypeOK, Timer, IdleTimerReset, HardTimerFor, AfterFunc, TimersOf
  <2>4. ingested' \in Seq(Event)
    BY <1>1, AppendProperties DEF Ingest, TypeOK
  <2>5. age' \in [Group -> 0 .. MaxWait + 1] /\ quiet' \in [Group -> 0 .. MaxWait + 1]
    BY <1>1, <2>1 DEF Ingest, TypeOK
  <2> QED
    BY <1>1, <2>2, <2>3, <2>4, <2>5 DEF Ingest, TypeOK
<1>2. ASSUME NEW t \in timers, Expire(t)
      PROVE  TypeOK'
  BY <1>2 DEF Expire, TypeOK, Timer
<1>3. CASE Tick
  <2>1. timers' \subseteq Timer
    BY <1>3, ElapseType DEF Tick, PassTime, TypeOK
  <2>2. age' \in [Group -> 0 .. MaxWait + 1] /\ quiet' \in [Group -> 0 .. MaxWait + 1]
    BY <1>3 DEF Tick, PassTime, TypeOK, Aged
  <2> QED
    BY <1>3, <2>1, <2>2 DEF Tick, PassTime, TypeOK
<1>4. ASSUME NEW c \in callbacks, DropStale(c)
      PROVE  TypeOK'
  BY <1>4 DEF DropStale, TypeOK
<1>5. ASSUME NEW c \in callbacks, SealBatch(c)
      PROVE  TypeOK'
  <2> DEFINE g == c.group
  <2>1. g \in Group
    BY DEF TypeOK
  <2>2. EmptyBatch \in [Trigger -> Seq(Event)]
    BY DEF EmptyBatch
  <2>3. buckets' \in [Group -> [Trigger -> Seq(Event)]]
    BY <1>5, <2>1, <2>2 DEF SealBatch, BucketsAfterSeal, TypeOK
  <2>4. PICK order \in SetToSeqs(TriggersIn(buckets[g])) :
          flushes' = flushes \cup {NewFlush(g, order)}
    BY <1>5 DEF SealBatch
  <2>5. NewFlush(g, order) \in
          [group : Group, gen : Nat, buckets : [Trigger -> Seq(Event)],
           order : Seq(Trigger), todo : SUBSET SessionKeys, calling : SUBSET SessionKeys]
    BY <2>1, NewFlushType
  <2>6. generation' \in [Group -> Nat]
    BY <1>5, <2>1 DEF SealBatch, GenerationAfterSeal, TypeOK
  <2>7. age' \in [Group -> 0 .. MaxWait + 1] /\ quiet' \in [Group -> 0 .. MaxWait + 1]
    BY <1>5, <2>1 DEF SealBatch, TypeOK
  <2> QED
    BY <1>5, <2>3, <2>4, <2>5, <2>6, <2>7 DEF SealBatch, TimersAfterSeal, TypeOK
<1>6. ASSUME NEW f \in flushes, NEW key \in SessionKeys, CallUpsert(f, key)
      PROVE  TypeOK'
  <2>1. Call(f, key) \in [key : SessionKeys, gen : Nat, buckets : [Trigger -> Seq(Event)],
                          order : Seq(Trigger)]
    BY DEF TypeOK, Call
  <2>2. [f EXCEPT !.calling = {key}] \in
          [group : Group, gen : Nat, buckets : [Trigger -> Seq(Event)],
           order : Seq(Trigger), todo : SUBSET SessionKeys, calling : SUBSET SessionKeys]
    BY DEF TypeOK
  <2> QED
    BY <1>6, <2>1, <2>2 DEF CallUpsert, TypeOK
<1>7. ASSUME NEW f \in flushes, ReturnUpsert(f)
      PROVE  TypeOK'
  <2>1. [f EXCEPT !.todo = f.todo \ f.calling, !.calling = {}] \in
          [group : Group, gen : Nat, buckets : [Trigger -> Seq(Event)],
           order : Seq(Trigger), todo : SUBSET SessionKeys, calling : SUBSET SessionKeys]
    BY DEF TypeOK
  <2> QED
    BY <1>7, <2>1 DEF ReturnUpsert, TypeOK
<1>8. CASE UNCHANGED vars
  BY <1>8 DEF vars, TypeOK
<1> QED
  BY <1>1, <1>2, <1>3, <1>4, <1>5, <1>6, <1>7, <1>8 DEF Next, onTimerFire
\* Initially there is nothing to time.
LEMMA InitTimerInvariant == Init => TimerInvariant
<1> SUFFICES ASSUME Init
             PROVE  TimerInvariant
  OBVIOUS
<1> USE WindowAssumption DEF WindowAssumption
<1>1. EmptyBatch \in [Trigger -> Seq(Event)]
  BY DEF EmptyBatch
<1>2. TypeOK
  BY <1>1 DEF Init, TypeOK
<1> QED
  BY <1>2 DEF Init, TimerInvariant, NoOrphanTimers, TimersPaced, CallbacksPaced, HardCap, IsOpen

-----------------------------------------------------------------------------
(* One lemma for each action that touches a batch, a timer or a callback.  *)

\* Ingest: the new idle timer replaces the old one, a fresh batch gets its cap.
LEMMA IngestStep ==
  ASSUME TimerInvariant, TypeOK', NEW ev \in Event, Ingest(ev)
  PROVE  TimerInvariant'
<1> DEFINE g == ev.group
           idle == AfterFunc(g, "idle", IdleWindow)
           hard == AfterFunc(g, "hard", MaxWait)
<1> USE WindowAssumption DEF WindowAssumption
<1>1. g \in Group
  BY EventAssumption DEF EventAssumption
<1>2. TypeOK /\ NoOrphanTimers /\ TimersPaced /\ CallbacksPaced /\ HardCap
  BY DEF TimerInvariant
<1>3. /\ \A h \in Group : h # g => IsOpen(h)' = IsOpen(h) /\ age'[h] = age[h]
      /\ IsOpen(g)'
      /\ IsOpen(g) => age'[g] = age[g]
      /\ ~IsOpen(g) => age'[g] = 0
      /\ generation' = generation /\ callbacks' = callbacks
  BY <1>1, <1>2, AppendType DEF Ingest, IsOpen, TypeOK
<1>4. /\ idle.group = g /\ idle.kind = "idle" /\ idle.gen = generation[g] /\ idle.left = IdleWindow
      /\ hard.group = g /\ hard.kind = "hard" /\ hard.gen = generation[g] /\ hard.left = MaxWait
  BY DEF AfterFunc
<1>5. \A t \in timers' : \/ t = idle
                         \/ t = hard /\ ~IsOpen(g)
                         \/ t \in timers /\ ~(t.group = g /\ t.kind = "idle")
  BY DEF Ingest, IdleTimerReset, HardTimerFor, TimersOf
<1>6. \A t \in timers : t.group \in Group /\ IsOpen(t.group) /\ t.gen = generation[t.group]
  BY <1>2 DEF NoOrphanTimers, TypeOK, Timer
<1>7. NoOrphanTimers'
  <2>1. \A t \in timers' : IsOpen(t.group)' /\ t.gen = generation'[t.group]
    BY <1>3, <1>4, <1>5, <1>6
  <2>2. ASSUME NEW t \in timers', NEW u \in timers', t.group = u.group, t.kind = u.kind
        PROVE  t = u
    <3>1. t \in timers /\ u \in timers => t = u
      BY <1>2, <2>2 DEF NoOrphanTimers
    <3> QED
      BY <1>4, <1>5, <1>6, <2>2, <3>1
  <2> QED
    BY <2>1, <2>2 DEF NoOrphanTimers
<1>8. TimersPaced'
  <2>1. age[g] \in 0 .. MaxWait + 1
    BY <1>1, <1>2 DEF TypeOK
  <2>2. ASSUME NEW t \in timers'
        PROVE  /\ t.kind = "hard" => age'[t.group] + t.left = MaxWait
               /\ t.kind = "idle" => age'[t.group] + t.left >= IdleWindow
    <3>1. CASE t = idle
      BY <1>3, <1>4, <2>1, <3>1
    <3>2. CASE t = hard /\ ~IsOpen(g)
      BY <1>3, <1>4, <3>2
    <3>3. CASE t \in timers
      <4>1. age'[t.group] = age[t.group]
        BY <1>3, <1>6, <3>3
      <4> QED
        BY <1>2, <3>3, <4>1 DEF TimersPaced
    <3> QED
      BY <1>5, <3>1, <3>2, <3>3
  <2> QED
    BY <2>2 DEF TimersPaced
<1>9. CallbacksPaced'
  <2> SUFFICES ASSUME NEW c \in callbacks
               PROVE  \/ c.gen < generation[c.group]
                      \/ /\ c.gen = generation[c.group] /\ IsOpen(c.group)'
                         /\ age'[c.group] >= IdleWindow
    BY <1>3 DEF CallbacksPaced
  <2>1. c.group \in Group
    BY <1>2 DEF TypeOK
  <2> QED
    BY <1>2, <1>3, <2>1 DEF CallbacksPaced
<1>10. HardCap'
  <2> SUFFICES ASSUME NEW h \in Group, IsOpen(h)'
               PROVE  \/ \E t \in timers' : /\ t.group = h /\ t.kind = "hard"
                                            /\ t.gen = generation[h] /\ age'[h] + t.left = MaxWait
                      \/ \E c \in callbacks : c.group = h /\ c.gen = generation[h]
    BY <1>3 DEF HardCap, TimersOf
  <2>1. CASE IsOpen(h)
    <3>1. \/ \E t \in TimersOf(h, "hard") : t.gen = generation[h] /\ age[h] + t.left = MaxWait
          \/ \E c \in callbacks : c.group = h /\ c.gen = generation[h]
      BY <1>2, <2>1 DEF HardCap
    <3>2. TimersOf(h, "hard") \subseteq timers'
      BY DEF Ingest, IdleTimerReset, TimersOf
    <3>3. age'[h] = age[h]
      BY <1>3, <2>1
    <3> QED
      BY <3>1, <3>2, <3>3 DEF TimersOf
  <2>2. CASE ~IsOpen(h)
    <3>1. h = g
      BY <1>3, <2>2
    <3>2. hard \in timers'
      BY <2>2, <3>1 DEF Ingest, HardTimerFor
    <3> QED
      BY <1>3, <1>4, <2>2, <3>1, <3>2
  <2> QED
    BY <2>1, <2>2
<1> QED
  BY <1>7, <1>8, <1>9, <1>10 DEF TimerInvariant

\* A timer that expires hands its promise over to its callback.
LEMMA ExpireStep ==
  ASSUME TimerInvariant, TypeOK', NEW t \in timers, Expire(t)
  PROVE  TimerInvariant'
<1> DEFINE c == [group |-> t.group, kind |-> t.kind, gen |-> t.gen]
<1> USE WindowAssumption DEF WindowAssumption
<1>1. TypeOK /\ NoOrphanTimers /\ TimersPaced /\ CallbacksPaced /\ HardCap
  BY DEF TimerInvariant
<1>2. /\ t.left = 0 /\ timers' = timers \ {t} /\ callbacks' = callbacks \cup {c}
      /\ buckets' = buckets /\ generation' = generation /\ age' = age
  BY DEF Expire
<1>3. /\ t.group \in Group /\ t.kind \in {"idle", "hard"} /\ age[t.group] \in Nat
      /\ IsOpen(t.group) /\ t.gen = generation[t.group]
  BY <1>1 DEF NoOrphanTimers, TypeOK, Timer
<1>4. age[t.group] >= IdleWindow
  BY <1>1, <1>2, <1>3 DEF TimersPaced
<1>5. NoOrphanTimers' /\ TimersPaced'
  BY <1>1, <1>2 DEF NoOrphanTimers, TimersPaced, IsOpen
<1>6. CallbacksPaced'
  BY <1>1, <1>2, <1>3, <1>4 DEF CallbacksPaced, IsOpen
<1>7. HardCap'
  <2> SUFFICES ASSUME NEW g \in Group, IsOpen(g)
               PROVE  \/ \E u \in TimersOf(g, "hard")' : u.gen = generation[g] /\ age[g] + u.left = MaxWait
                      \/ \E d \in callbacks' : d.group = g /\ d.gen = generation[g]
    BY <1>2 DEF HardCap, IsOpen
  <2>1. CASE t.group = g
    <3>1. c \in callbacks' /\ c.group = g /\ c.gen = generation[g]
      BY <1>2, <1>3, <2>1
    <3> QED
      BY <3>1
  <2>2. CASE t.group # g
    BY <1>1, <1>2, <2>2 DEF HardCap, TimersOf
  <2> QED
    BY <2>1, <2>2
<1> QED
  BY <1>5, <1>6, <1>7 DEF TimerInvariant

\* A tick moves ages up and timers down together, and no timer is overdue.
LEMMA TickStep ==
  ASSUME TimerInvariant, TypeOK', Tick
  PROVE  TimerInvariant'
<1> USE WindowAssumption DEF WindowAssumption
<1>1. TypeOK /\ NoOrphanTimers /\ TimersPaced /\ CallbacksPaced /\ HardCap
  BY DEF TimerInvariant
<1>2. /\ buckets' = buckets /\ generation' = generation /\ callbacks' = callbacks
      /\ timers' = {Elapse(t) : t \in timers}
  BY DEF Tick, PassTime
<1>3. \A g \in Group : IsOpen(g)' = IsOpen(g)
  BY <1>2 DEF IsOpen
<1>4. \A t \in timers :
        /\ t.group \in Group /\ t.left \in Nat /\ t.left > 0
        /\ t.kind \in {"idle", "hard"} /\ t.gen \in Nat
        /\ IsOpen(t.group) /\ t.gen = generation[t.group]
        /\ Elapse(t).group = t.group /\ Elapse(t).kind = t.kind
        /\ Elapse(t).gen = t.gen /\ Elapse(t).left = t.left - 1
  <2> SUFFICES ASSUME NEW t \in timers
               PROVE  /\ t.group \in Group /\ t.left \in Nat /\ t.left > 0
                      /\ t.kind \in {"idle", "hard"} /\ t.gen \in Nat
                      /\ IsOpen(t.group) /\ t.gen = generation[t.group]
                      /\ Elapse(t).group = t.group /\ Elapse(t).kind = t.kind
                      /\ Elapse(t).gen = t.gen /\ Elapse(t).left = t.left - 1
    OBVIOUS
  <2>1. t \in Timer /\ t.left > 0
    BY <1>1 DEF Tick, PassTime, TypeOK
  <2>2. t.group \in Group /\ t.left \in Nat /\ t.kind \in {"idle", "hard"} /\ t.gen \in Nat
    BY <2>1 DEF Timer
  <2> QED
    BY <1>1, <2>1, <2>2, ElapseType DEF NoOrphanTimers
<1>5. \A g \in Group : /\ age[g] \in 0 .. MaxWait + 1
                       /\ IsOpen(g) => age'[g] = IF age[g] > MaxWait THEN age[g] ELSE age[g] + 1
  BY <1>1 DEF Tick, PassTime, TypeOK, Aged
<1>6. NoOrphanTimers'
  <2>1. \A u \in timers' : IsOpen(u.group)' /\ u.gen = generation'[u.group]
    BY <1>2, <1>3, <1>4
  <2>2. ASSUME NEW t \in timers, NEW u \in timers,
               Elapse(t).group = Elapse(u).group, Elapse(t).kind = Elapse(u).kind
        PROVE  Elapse(t) = Elapse(u)
    <3>1. t.group = u.group /\ t.kind = u.kind
      BY <1>4, <2>2
    <3> QED
      BY <1>1, <3>1 DEF NoOrphanTimers
  <2> QED
    BY <1>2, <2>1, <2>2 DEF NoOrphanTimers
<1>7. TimersPaced'
  <2> SUFFICES ASSUME NEW t \in timers
               PROVE  /\ t.kind = "hard" => age'[t.group] + (t.left - 1) = MaxWait
                      /\ t.kind = "idle" => age'[t.group] + (t.left - 1) >= IdleWindow
    BY <1>2, <1>4 DEF TimersPaced
  <2>1. /\ t.kind = "hard" => age[t.group] + t.left = MaxWait
        /\ t.kind = "idle" => age[t.group] + t.left >= IdleWindow
    BY <1>1 DEF TimersPaced
  <2> QED
    BY <1>4, <1>5, <2>1
<1>8. CallbacksPaced'
  <2> SUFFICES ASSUME NEW c \in callbacks
               PROVE  \/ c.gen < generation[c.group]
                      \/ /\ c.gen = generation[c.group] /\ IsOpen(c.group)
                         /\ age'[c.group] >= IdleWindow
    BY <1>2 DEF CallbacksPaced, IsOpen
  <2>1. c.group \in Group
    BY <1>1 DEF TypeOK
  <2> QED
    BY <1>1, <1>5, <2>1 DEF CallbacksPaced
<1>9. HardCap'
  <2> SUFFICES ASSUME NEW g \in Group, IsOpen(g)
               PROVE  \/ \E u \in timers' : /\ u.group = g /\ u.kind = "hard"
                                            /\ u.gen = generation[g] /\ age'[g] + u.left = MaxWait
                      \/ \E c \in callbacks : c.group = g /\ c.gen = generation[g]
    BY <1>2 DEF HardCap, IsOpen, TimersOf
  <2>1. CASE \E c \in callbacks : c.group = g /\ c.gen = generation[g]
    BY <2>1
  <2>2. ASSUME NEW t \in timers, t.group = g, t.kind = "hard",
               t.gen = generation[g], age[g] + t.left = MaxWait
        PROVE  \E u \in timers' : /\ u.group = g /\ u.kind = "hard"
                                  /\ u.gen = generation[g] /\ age'[g] + u.left = MaxWait
    <3>1. age'[g] = age[g] + 1
      BY <1>4, <1>5, <2>2
    <3>2. Elapse(t) \in timers'
      BY <1>2
    <3>3. age'[g] + (t.left - 1) = MaxWait
      BY <1>4, <1>5, <2>2, <3>1
    <3> QED
      BY <1>4, <2>2, <3>2, <3>3
  <2> QED
    BY <1>1, <2>1, <2>2 DEF HardCap, TimersOf
<1> QED
  BY <1>6, <1>7, <1>8, <1>9 DEF TimerInvariant

\* Sealing disarms the group, and its next generation outdates every callback.
LEMMA SealStep ==
  ASSUME TimerInvariant, TypeOK', NEW c \in callbacks, SealBatch(c)
  PROVE  TimerInvariant'
<1> DEFINE g == c.group
<1>1. TypeOK /\ NoOrphanTimers /\ TimersPaced /\ CallbacksPaced /\ HardCap
  BY DEF TimerInvariant
<1>2. g \in Group
  BY <1>1 DEF TypeOK
<1>3. /\ \A h \in Group : h # g => /\ IsOpen(h)' = IsOpen(h)
                                   /\ generation'[h] = generation[h]
                                   /\ age'[h] = age[h]
      /\ ~IsOpen(g)'
      /\ generation'[g] = generation[g] + 1
      /\ callbacks' = callbacks \ {c}
  BY <1>1, <1>2 DEF SealBatch, BucketsAfterSeal, GenerationAfterSeal, IsOpen, TypeOK
<1>4. \A t \in timers' : t \in timers /\ t.group \in Group /\ t.group # g
  BY <1>1 DEF SealBatch, TimersAfterSeal, TimersOf, TypeOK, Timer
<1>5. NoOrphanTimers' /\ TimersPaced'
  BY <1>1, <1>3, <1>4 DEF NoOrphanTimers, TimersPaced
<1>6. CallbacksPaced'
  <2> SUFFICES ASSUME NEW d \in callbacks'
               PROVE  \/ d.gen < generation'[d.group]
                      \/ /\ d.gen = generation'[d.group] /\ IsOpen(d.group)'
                         /\ age'[d.group] >= IdleWindow
    BY DEF CallbacksPaced
  <2>1. d \in callbacks /\ d.group \in Group /\ d.gen \in Nat /\ generation[d.group] \in Nat
    BY <1>1, <1>3 DEF TypeOK
  <2>2. d.gen <= generation[d.group]
    BY <1>1, <2>1 DEF CallbacksPaced
  <2>3. CASE d.group = g
    BY <1>3, <2>1, <2>2, <2>3
  <2>4. CASE d.group # g
    BY <1>1, <1>3, <2>1, <2>4 DEF CallbacksPaced
  <2> QED
    BY <2>3, <2>4
<1>7. HardCap'
  <2> SUFFICES ASSUME NEW h \in Group, IsOpen(h)'
               PROVE  \/ \E t \in timers' : /\ t.group = h /\ t.kind = "hard"
                                            /\ t.gen = generation'[h] /\ age'[h] + t.left = MaxWait
                      \/ \E d \in callbacks' : d.group = h /\ d.gen = generation'[h]
    BY DEF HardCap, TimersOf
  <2>1. h # g /\ IsOpen(h) /\ generation'[h] = generation[h] /\ age'[h] = age[h]
    BY <1>3
  <2>2. \A t \in timers : t.group = h => t \in timers'
    BY <2>1 DEF SealBatch, TimersAfterSeal, TimersOf
  <2>3. \A d \in callbacks : d.group = h => d \in callbacks'
    BY <1>3, <2>1
  <2> QED
    BY <1>1, <2>1, <2>2, <2>3 DEF HardCap, TimersOf
<1> QED
  BY <1>5, <1>6, <1>7 DEF TimerInvariant

\* A stale callback is not the one HardCap relies on.
LEMMA DropStaleStep ==
  ASSUME TimerInvariant, TypeOK', NEW c \in callbacks, DropStale(c)
  PROVE  TimerInvariant'
<1>1. TypeOK /\ NoOrphanTimers /\ TimersPaced /\ CallbacksPaced /\ HardCap
  BY DEF TimerInvariant
<1>2. /\ callbacks' = callbacks \ {c} /\ timers' = timers
      /\ buckets' = buckets /\ generation' = generation /\ age' = age
  BY DEF DropStale
<1>3. NoOrphanTimers' /\ TimersPaced' /\ CallbacksPaced'
  BY <1>1, <1>2 DEF NoOrphanTimers, TimersPaced, CallbacksPaced, IsOpen
<1>4. HardCap'
  BY <1>1, <1>2 DEF DropStale, Stale, HardCap, TimersOf, IsOpen
<1> QED
  BY <1>3, <1>4 DEF TimerInvariant

\* The flush goroutines and stuttering steps leave the timers alone.
LEMMA UntimedStep ==
  ASSUME TimerInvariant, TypeOK', UNCHANGED <<buckets, generation, timers, callbacks, age>>
  PROVE  TimerInvariant'
BY DEF TimerInvariant, NoOrphanTimers, TimersPaced, CallbacksPaced, HardCap, IsOpen, TimersOf

\* The timer invariant is inductive.
LEMMA TimerInvariantStep == TimerInvariant /\ [Next]_vars => TimerInvariant'
<1> SUFFICES ASSUME TimerInvariant, [Next]_vars
             PROVE  TimerInvariant'
  OBVIOUS
<1>1. TypeOK'
  BY TypeStep DEF TimerInvariant
<1>2. ASSUME NEW ev \in Event, Ingest(ev)
      PROVE  TimerInvariant'
  BY <1>1, <1>2, IngestStep
<1>3. ASSUME NEW t \in timers, Expire(t)
      PROVE  TimerInvariant'
  BY <1>1, <1>3, ExpireStep
<1>4. CASE Tick
  BY <1>1, <1>4, TickStep
<1>5. ASSUME NEW c \in callbacks, onTimerFire(c)
      PROVE  TimerInvariant'
  BY <1>1, <1>5, SealStep, DropStaleStep DEF onTimerFire
<1>6. ASSUME NEW f \in flushes, (\E key \in SessionKeys : CallUpsert(f, key)) \/ ReturnUpsert(f)
      PROVE  TimerInvariant'
  BY <1>1, <1>6, UntimedStep DEF CallUpsert, ReturnUpsert
<1>7. CASE UNCHANGED vars
  BY <1>1, <1>7, UntimedStep DEF vars
<1> QED
  BY <1>2, <1>3, <1>4, <1>5, <1>6, <1>7 DEF Next

-----------------------------------------------------------------------------
\* The timer bookkeeping of Ingest, Expire and onTimerFire is sound at every
\* interleaving: TimerInvariant holds in every reachable state.
THEOREM TimersCorrect == Spec => []TimerInvariant
<1>1. Init => TimerInvariant
  BY InitTimerInvariant
<1>2. TimerInvariant /\ [Next]_vars => TimerInvariant'
  BY TimerInvariantStep
<1> QED
  BY <1>1, <1>2, PTL DEF Spec

\* The type invariant of the engine.
THEOREM TypeCorrect == Spec => []TypeOK
BY TimersCorrect, PTL DEF TimerInvariant

\* No open batch is ever without its cap: the hard timer is on schedule, or a
\* callback that will seal this very batch is waiting for the lock.
THEOREM HardCapHolds == Spec => []HardCap
BY TimersCorrect, PTL DEF TimerInvariant

\* The engine keeps no timer of a sealed batch and no two of a kind.
THEOREM NoOrphanTimersHolds == Spec => []NoOrphanTimers
BY TimersCorrect, PTL DEF TimerInvariant

\* The generation check of onTimerFire keeps late callbacks of one batch from
\* sealing the next: no batch is sealed before its idle window has passed.
THEOREM NoEarlySealHolds == Spec => NoEarlySeal
<1> DEFINE SealsLate ==
      \A g \in Group : generation'[g] # generation[g] => age[g] >= IdleWindow
<1>1. ASSUME TimerInvariant, [Next]_vars
      PROVE  [SealsLate]_vars
  <2>1. ASSUME NEW c \in callbacks, SealBatch(c)
        PROVE  SealsLate
    <3>1. CallbacksPaced /\ TypeOK
      BY <1>1 DEF TimerInvariant
    <3>2. c.gen = generation[c.group] /\ age[c.group] >= IdleWindow
      BY <2>1, <3>1 DEF SealBatch, Stale, CallbacksPaced, TypeOK
    <3>3. \A g \in Group : g # c.group => generation'[g] = generation[g]
      BY <2>1, <3>1 DEF SealBatch, GenerationAfterSeal, TypeOK
    <3> QED
      BY <3>2, <3>3
  <2>2. CASE generation' = generation
    BY <2>2
  <2>3. \/ \E c \in callbacks : SealBatch(c)
        \/ generation' = generation
    BY <1>1 DEF Next, Ingest, Expire, Tick, PassTime, onTimerFire, DropStale, CallUpsert, ReturnUpsert, vars
  <2> QED
    BY <2>1, <2>2, <2>3
<1> QED
  BY <1>1, TimersCorrect, PTL DEF Spec, NoEarlySeal

-----------------------------------------------------------------------------
(* What the slice of a session holds, and in which order.                  *)

\* out is what flush has appended for the key after n events of a bucket.
Appended(out, s, key, n) ==
  /\ \A i \in 1 .. Len(out) : \E p \in 1 .. n : out[i] = s[p] /\ SessionKeyOf(s[p]) = key
  /\ \A p \in 1 .. n : SessionKeyOf(s[p]) = key => \E i \in 1 .. Len(out) : out[i] = s[p]
  /\ \A i, j \in 1 .. Len(out) : i < j =>
       \E p, q \in 1 .. n : p < q /\ out[i] = s[p] /\ out[j] = s[q]

LEMMA AppendedMore ==
  ASSUME NEW S, NEW s \in Seq(S), NEW key, NEW n \in Nat, n + 1 <= Len(s),
         NEW out \in Seq(S), Appended(out, s, key, n),
         NEW more, more = IF SessionKeyOf(s[n + 1]) = key THEN Append(out, s[n + 1]) ELSE out
  PROVE  more \in Seq(S) /\ Appended(more, s, key, n + 1)
<1>1. /\ n + 1 \in 1 .. n + 1 /\ \A p \in 1 .. n : p \in 1 .. n + 1 /\ p < n + 1
      /\ \A p \in 1 .. n + 1 : p = n + 1 \/ p \in 1 .. n
  OBVIOUS
<1>2. CASE SessionKeyOf(s[n + 1]) # key
  <2>1. more = out
    BY <1>2
  <2>2. \A i \in 1 .. Len(out) : \E p \in 1 .. n + 1 : out[i] = s[p] /\ SessionKeyOf(s[p]) = key
    BY <1>1 DEF Appended
  <2>3. \A p \in 1 .. n + 1 : SessionKeyOf(s[p]) = key => \E i \in 1 .. Len(out) : out[i] = s[p]
    BY <1>1, <1>2 DEF Appended
  <2>4. \A i, j \in 1 .. Len(out) : i < j =>
          \E p, q \in 1 .. n + 1 : p < q /\ out[i] = s[p] /\ out[j] = s[q]
    BY <1>1 DEF Appended
  <2>5. Appended(out, s, key, n + 1)
    BY <2>2, <2>3, <2>4 DEF Appended
  <2> QED
    BY <2>1, <2>5
<1>3. CASE SessionKeyOf(s[n + 1]) = key
  <2> DEFINE all == Append(out, s[n + 1])
  <2>1. s[n + 1] \in S /\ Len(out) \in Nat
    BY ElementOfSeq, LenProperties
  <2>2. /\ all \in Seq(S) /\ Len(all) = Len(out) + 1 /\ all[Len(out) + 1] = s[n + 1]
        /\ \A i \in 1 .. Len(out) : all[i] = out[i]
    BY <2>1, AppendProperties
  <2> HIDE DEF all
  <2>3. /\ \A i \in 1 .. Len(all) : i = Len(out) + 1 \/ (i \in 1 .. Len(out) /\ i < Len(out) + 1)
        /\ \A i \in 1 .. Len(out) : i \in 1 .. Len(all)
        /\ Len(out) + 1 \in 1 .. Len(all)
    BY <2>1, <2>2
  <2>4. ASSUME NEW i \in 1 .. Len(all)
        PROVE  \E p \in 1 .. n + 1 : all[i] = s[p] /\ SessionKeyOf(s[p]) = key
    <3>1. CASE i = Len(out) + 1
      BY <1>1, <1>3, <2>2, <3>1
    <3>2. CASE i \in 1 .. Len(out)
      <4>1. PICK p \in 1 .. n : out[i] = s[p] /\ SessionKeyOf(s[p]) = key
        BY <3>2 DEF Appended
      <4> QED
        BY <1>1, <2>2, <3>2, <4>1
    <3> QED
      BY <2>3, <3>1, <3>2
  <2>5. ASSUME NEW p \in 1 .. n + 1, SessionKeyOf(s[p]) = key
        PROVE  \E i \in 1 .. Len(all) : all[i] = s[p]
    <3>1. CASE p = n + 1
      BY <2>2, <2>3, <3>1
    <3>2. CASE p \in 1 .. n
      <4>1. PICK i \in 1 .. Len(out) : out[i] = s[p]
        BY <2>5, <3>2 DEF Appended
      <4> QED
        BY <2>2, <2>3, <4>1
    <3> QED
      BY <1>1, <3>1, <3>2
  <2>6. ASSUME NEW i \in 1 .. Len(all), NEW j \in 1 .. Len(all), i < j
        PROVE  \E p, q \in 1 .. n + 1 : p < q /\ all[i] = s[p] /\ all[j] = s[q]
    <3>1. i \in 1 .. Len(out)
      BY <2>1, <2>2, <2>6
    <3>2. CASE j \in 1 .. Len(out)
      <4>1. \E p, q \in 1 .. n : p < q /\ out[i] = s[p] /\ out[j] = s[q]
        BY <2>6, <3>1, <3>2 DEF Appended
      <4> QED
        BY <1>1, <2>2, <3>1, <3>2, <4>1
    <3>3. CASE j = Len(out) + 1
      <4>1. \E p \in 1 .. n : out[i] = s[p]
        BY <3>1 DEF Appended
      <4> QED
        BY <1>1, <2>2, <3>1, <3>3, <4>1
    <3> QED
      BY <2>3, <3>2, <3>3
  <2>7. Appended(all, s, key, n + 1)
    BY <2>4, <2>5, <2>6 DEF Appended
  <2> QED
    BY <1>3, <2>2, <2>7 DEF all
<1> QED
  BY <1>2, <1>3

\* f is the recursive function by which OfSession is defined.
Accumulates(f, s, key, m) ==
  f = [n \in 0 .. m |->
         IF n = 0 THEN <<>>
         ELSE IF SessionKeyOf(s[n]) = key THEN Append(f[n - 1], s[n])
         ELSE f[n - 1]]

LEMMA OfSessionRecursion ==
  ASSUME NEW s, NEW key
  PROVE  \A m \in Nat : \E f : Accumulates(f, s, key, m)
<1> DEFINE Step(n, seq) ==
             IF n = 0 THEN <<>> ELSE IF SessionKeyOf(s[n]) = key THEN Append(seq, s[n]) ELSE seq
           Rec(f, m) == [n \in 0 .. m |-> Step(n, f[n - 1])]
           S == {m \in Nat : \E f : f = Rec(f, m)}
<1>1. 0 \in S
  <2> DEFINE f == [n \in 0 .. 0 |-> <<>>]
  <2>1. f = Rec(f, 0)
    OBVIOUS
  <2>2. \E g : g = Rec(g, 0)
    BY <2>1
  <2> HIDE DEF Rec
  <2> QED
    BY <2>2
<1>2. ASSUME NEW m \in Nat, m \in S
      PROVE  m + 1 \in S
  <2>1. PICK f : f = Rec(f, m)
    BY <1>2
  <2> DEFINE h == [n \in 0 .. m + 1 |-> IF n <= m THEN f[n] ELSE Step(n, f[n - 1])]
  <2> HIDE DEF Step
  <2>2. ASSUME NEW n \in 0 .. m + 1
        PROVE  h[n] = Step(n, h[n - 1])
    <3>1. n # 0 => n - 1 \in 0 .. m + 1 /\ n - 1 <= m /\ h[n - 1] = f[n - 1]
      OBVIOUS
    <3>2. h[n] = IF n <= m THEN f[n] ELSE Step(n, f[n - 1])
      OBVIOUS
    <3>3. n <= m => f[n] = Step(n, f[n - 1])
      BY <2>1
    <3> HIDE DEF h
    <3>4. h[n] = Step(n, f[n - 1])
      BY <3>2, <3>3
    <3> QED
      BY <3>1, <3>4 DEF Step
  <2>3. h = [n \in 0 .. m + 1 |-> h[n]]
    OBVIOUS
  <2> HIDE DEF h
  <2>4. h = Rec(h, m + 1)
    BY <2>2, <2>3
  <2>5. \E g : g = Rec(g, m + 1)
    BY <2>4
  <2> HIDE DEF Rec
  <2> QED
    BY <2>5
<1>3. \A m \in Nat : \A f : f = Rec(f, m) => Accumulates(f, s, key, m)
  BY DEF Accumulates
<1> HIDE DEF Rec
<1>4. \A m \in Nat : m \in S => \E f : Accumulates(f, s, key, m)
  BY <1>3
<1> HIDE DEF S
<1>5. \A m \in Nat : m \in S
  BY <1>1, <1>2, NatSetInduction
<1> QED
  BY <1>4, <1>5

\* flush's selection of one session from a bucket.
LEMMA OfSessionProperties ==
  ASSUME NEW S, NEW s \in Seq(S), NEW key
  PROVE  OfSession(s, key) \in Seq(S) /\ Appended(OfSession(s, key), s, key, Len(s))
<1>1. Len(s) \in Nat
  BY LenProperties
<1> DEFINE f == CHOOSE g : Accumulates(g, s, key, Len(s))
<1>2. OfSession(s, key) = f[Len(s)]
  BY DEF OfSession, Accumulates
<1>3. f = [n \in 0 .. Len(s) |->
             IF n = 0 THEN <<>>
             ELSE IF SessionKeyOf(s[n]) = key THEN Append(f[n - 1], s[n])
             ELSE f[n - 1]]
  <2>1. \E g : Accumulates(g, s, key, Len(s))
    BY <1>1, OfSessionRecursion
  <2>2. Accumulates(f, s, key, Len(s))
    BY <2>1
  <2> HIDE DEF f
  <2> QED
    BY <2>2 DEF Accumulates
<1> HIDE DEF f
<1> DEFINE T == {n \in Nat : n <= Len(s) => f[n] \in Seq(S) /\ Appended(f[n], s, key, n)}
<1>4. 0 \in T
  <2>1. f[0] = <<>>
    BY <1>1, <1>3
  <2>2. <<>> \in Seq(S) /\ Len(<<>>) = 0
    BY EmptySeq
  <2>3. Appended(<<>>, s, key, 0)
    BY <2>2 DEF Appended
  <2> QED
    BY <2>1, <2>2, <2>3
<1>5. ASSUME NEW n \in Nat, n \in T
      PROVE  n + 1 \in T
  <2> SUFFICES ASSUME n + 1 <= Len(s)
               PROVE  f[n + 1] \in Seq(S) /\ Appended(f[n + 1], s, key, n + 1)
    OBVIOUS
  <2>1. f[n] \in Seq(S) /\ Appended(f[n], s, key, n)
    BY <1>1, <1>5
  <2>2. n + 1 \in 0 .. Len(s) /\ n + 1 # 0 /\ (n + 1) - 1 = n
    BY <1>1
  <2>3. f[n + 1] = IF SessionKeyOf(s[n + 1]) = key THEN Append(f[n], s[n + 1]) ELSE f[n]
    BY <1>3, <2>2
  <2> QED
    BY <2>1, <2>3, AppendedMore
<1> HIDE DEF T
<1>6. \A n \in Nat : n \in T
  BY <1>4, <1>5, NatSetInduction
<1>7. Len(s) \in T
  BY <1>1, <1>6
<1> QED
  BY <1>1, <1>2, <1>7 DEF T

\* The order of a flush visits every trigger of its batch, once.
Covers(b) ==
  /\ TriggersIn(b.buckets) \subseteq ToSet(b.order)
  /\ \A i, j \in DOMAIN b.order : b.order[i] = b.order[j] => i = j

LEMMA OrderCovers ==
  ASSUME NEW batch \in [Trigger -> Seq(Event)], NEW order \in SetToSeqs(TriggersIn(batch))
  PROVE  /\ TriggersIn(batch) \subseteq ToSet(order)
         /\ \A i, j \in DOMAIN order : order[i] = order[j] => i = j
<1> DEFINE T == TriggersIn(batch)
           D == 1 .. Cardinality(T)
<1>1. IsFiniteSet(T) /\ Cardinality(T) \in Nat
  BY EventAssumption, FS_Subset, FS_CardinalityType DEF EventAssumption, TriggersIn
<1>2. order \in [D -> T] /\ \A i, j \in D : i # j => order[i] # order[j]
  BY DEF SetToSeqs
<1>3. IsFiniteSet(D) /\ Cardinality(D) = Cardinality(T)
  BY <1>1, FS_Interval
<1> HIDE DEF T, D
<1>4. order \in Injection(D, T)
  BY <1>2 DEF Injection, IsInjective
<1>5. order \in Surjection(D, T)
  BY <1>1, <1>3, <1>4, FS_Injection
<1>6. \A t \in T : \E i \in D : order[i] = t
  BY <1>5 DEF Surjection
<1> QED
  BY <1>2, <1>6 DEF ToSet, T

LEMMA EventsMember ==
  ASSUME NEW batch \in [Trigger -> Seq(Event)], NEW ev
  PROVE  ev \in Events(batch) <=> \E t \in Trigger : \E p \in 1 .. Len(batch[t]) : ev = batch[t][p]
<1>1. \A t \in Trigger : DOMAIN batch[t] = 1 .. Len(batch[t])
  BY LenProperties
<1> QED
  BY <1>1 DEF Events, ToSet

\* The events of one session key in a batch.
EventsOf(b, key) == {ev \in Events(b.buckets) : SessionKeyOf(ev) = key}

\* The slice of a session holds the events of its key and no others; those of
\* one bucket keep their order.
LEMMA SliceProperties ==
  ASSUME NEW b, b.buckets \in [Trigger -> Seq(Event)], b.order \in Seq(Trigger), Covers(b),
         NEW key
  PROVE  /\ EventsFor(b, key) \in Seq(Event)
         /\ ToSet(EventsFor(b, key)) = EventsOf(b, key)
         /\ \A i, j \in 1 .. Len(EventsFor(b, key)) : i < j =>
              \E t, u \in Trigger : \E p \in 1 .. Len(b.buckets[t]), q \in 1 .. Len(b.buckets[u]) :
                /\ EventsFor(b, key)[i] = b.buckets[t][p]
                /\ EventsFor(b, key)[j] = b.buckets[u][q]
                /\ t # u \/ (t = u /\ p < q)
<1> DEFINE ss == [i \in DOMAIN b.order |-> OfSession(b.buckets[b.order[i]], key)]
           n == Len(b.order)
           out == EventsFor(b, key)
<1>1. n \in Nat /\ DOMAIN b.order = 1 .. n /\ \A i \in 1 .. n : b.order[i] \in Trigger
  BY LenProperties, ElementOfSeq
<1>2. \A t \in Trigger : b.buckets[t] \in Seq(Event) /\ Len(b.buckets[t]) \in Nat
  BY LenProperties
<1>3. \A i \in 1 .. n : /\ ss[i] = OfSession(b.buckets[b.order[i]], key)
                        /\ ss[i] \in Seq(Event)
                        /\ Appended(ss[i], b.buckets[b.order[i]], key, Len(b.buckets[b.order[i]]))
  BY <1>1, <1>2, OfSessionProperties
<1>4. ss \in Seq(Seq(Event)) /\ Len(ss) = n
  <2>1. ss \in [1 .. n -> Seq(Event)]
    BY <1>1, <1>3
  <2> QED
    BY <1>1, <2>1
<1>5. out = FlattenSeq(ss)
  BY DEF EventsFor
<1> HIDE DEF ss
<1>6. out \in Seq(Event) /\ Flattens(out, ss, n)
  BY <1>4, <1>5, FlattenProperties
<1>7. DOMAIN out = 1 .. Len(out) /\ Len(out) \in Nat
  BY <1>6, LenProperties
<1> HIDE DEF out
<1>8. ASSUME NEW i \in 1 .. n, NEW p \in 1 .. Len(ss[i])
      PROVE  \E q \in 1 .. Len(b.buckets[b.order[i]]) :
               ss[i][p] = b.buckets[b.order[i]][q] /\ SessionKeyOf(b.buckets[b.order[i]][q]) = key
  BY <1>3 DEF Appended
<1>9. ASSUME NEW x \in ToSet(out)
      PROVE  x \in EventsOf(b, key)
  <2>1. PICK k \in 1 .. Len(out) : x = out[k]
    BY <1>7 DEF ToSet
  <2>2. PICK i \in 1 .. n : \E p \in 1 .. Len(ss[i]) : x = ss[i][p]
    BY <1>6, <2>1 DEF Flattens, InBlocks
  <2>3. PICK q \in 1 .. Len(b.buckets[b.order[i]]) :
          x = b.buckets[b.order[i]][q] /\ SessionKeyOf(x) = key
    BY <1>8, <2>2
  <2>4. x \in Events(b.buckets)
    BY <1>1, <2>3, EventsMember
  <2> QED
    BY <2>3, <2>4 DEF EventsOf
<1>10. ASSUME NEW x \in EventsOf(b, key)
       PROVE  x \in ToSet(out)
  <2>1. PICK t \in Trigger : \E p \in 1 .. Len(b.buckets[t]) : x = b.buckets[t][p]
    BY EventsMember DEF EventsOf
  <2>2. PICK p \in 1 .. Len(b.buckets[t]) : x = b.buckets[t][p] /\ SessionKeyOf(b.buckets[t][p]) = key
    BY <2>1 DEF EventsOf
  <2>3. b.buckets[t] # <<>>
    BY <1>2, <2>2
  <2>4. t \in ToSet(b.order)
    BY <2>3 DEF Covers, TriggersIn
  <2>5. PICK i \in 1 .. n : b.order[i] = t
    BY <1>1, <2>4 DEF ToSet
  <2>6. \E k \in 1 .. Len(ss[i]) : ss[i][k] = b.buckets[t][p]
    BY <1>3, <2>2, <2>5 DEF Appended
  <2>7. \E k \in 1 .. Len(out) : out[k] = x
    BY <1>6, <2>2, <2>6 DEF Flattens
  <2> QED
    BY <1>7, <2>7 DEF ToSet
<1>11. ASSUME NEW k \in 1 .. Len(out), NEW l \in 1 .. Len(out), k < l
       PROVE  \E t, u \in Trigger : \E p \in 1 .. Len(b.buckets[t]), q \in 1 .. Len(b.buckets[u]) :
                /\ out[k] = b.buckets[t][p] /\ out[l] = b.buckets[u][q]
                /\ t # u \/ (t = u /\ p < q)
  <2>1. InOrder(out[k], out[l], ss, n)
    BY <1>6, <1>11 DEF Flattens
  <2>2. PICK i \in 1 .. n, j \in 1 .. n :
          \E x \in 1 .. Len(ss[i]), y \in 1 .. Len(ss[j]) :
            out[k] = ss[i][x] /\ out[l] = ss[j][y] /\ (i < j \/ (i = j /\ x < y))
    BY <2>1 DEF InOrder
  <2>3. CASE i # j
    <3>1. b.order[i] # b.order[j]
      BY <1>1, <2>3 DEF Covers
    <3>2. \E p \in 1 .. Len(b.buckets[b.order[i]]) : out[k] = b.buckets[b.order[i]][p]
      BY <1>8, <2>2
    <3>3. \E q \in 1 .. Len(b.buckets[b.order[j]]) : out[l] = b.buckets[b.order[j]][q]
      BY <1>8, <2>2
    <3>4. PICK t \in Trigger, u \in Trigger : t = b.order[i] /\ u = b.order[j]
      BY <1>1
    <3>5. /\ t # u
          /\ \E p \in 1 .. Len(b.buckets[t]) : out[k] = b.buckets[t][p]
          /\ \E q \in 1 .. Len(b.buckets[u]) : out[l] = b.buckets[u][q]
      BY <3>1, <3>2, <3>3, <3>4
    <3> QED
      BY <3>5
  <2>4. CASE i = j
    <3>1. PICK x \in 1 .. Len(ss[i]), y \in 1 .. Len(ss[i]) :
            out[k] = ss[i][x] /\ out[l] = ss[i][y] /\ x < y
      BY <2>2, <2>4
    <3>2. \E p, q \in 1 .. Len(b.buckets[b.order[i]]) :
            p < q /\ ss[i][x] = b.buckets[b.order[i]][p] /\ ss[i][y] = b.buckets[b.order[i]][q]
      BY <1>3, <3>1 DEF Appended
    <3>3. PICK t \in Trigger : t = b.order[i]
      BY <1>1
    <3>4. \E p, q \in 1 .. Len(b.buckets[t]) :
            p < q /\ out[k] = b.buckets[t][p] /\ out[l] = b.buckets[t][q]
      BY <3>1, <3>2, <3>3
    <3> QED
      BY <3>4
  <2> QED
    BY <2>3, <2>4
<1>12. ToSet(out) = EventsOf(b, key)
  BY <1>9, <1>10
<1> QED
  BY <1>6, <1>11, <1>12 DEF out

-----------------------------------------------------------------------------
(* The order of arrival.                                                   *)

Before(seq, e1, e2) == \E i, j \in DOMAIN seq : i < j /\ seq[i] = e1 /\ seq[j] = e2

Distinct(seq) == \A i, j \in DOMAIN seq : seq[i] = seq[j] => i = j

\* The buckets of a batch of the group, each in the order of arrival.
RunOf(seq, batch, g) ==
  \A t \in Trigger :
    /\ \A p \in 1 .. Len(batch[t]) :
         batch[t][p] \in ToSet(seq) /\ batch[t][p].group = g /\ batch[t][p].trigger = t
    /\ \A p, q \in 1 .. Len(batch[t]) : p < q => Before(seq, batch[t][p], batch[t][q])

AllBefore(seq, b1, b2) == \A e1 \in Events(b1), e2 \in Events(b2) : Before(seq, e1, e2)

LEMMA AppendOrder ==
  ASSUME NEW seq \in Seq(Event), NEW ev \in Event
  PROVE  /\ ToSet(Append(seq, ev)) = ToSet(seq) \cup {ev}
         /\ \A e1, e2 : Before(seq, e1, e2) => Before(Append(seq, ev), e1, e2)
         /\ \A e \in ToSet(seq) : Before(Append(seq, ev), e, ev)
         /\ Distinct(seq) /\ ev \notin ToSet(seq) => Distinct(Append(seq, ev))
<1> DEFINE n == Len(seq)
           all == Append(seq, ev)
<1>1. n \in Nat /\ DOMAIN seq = 1 .. n
  BY LenProperties
<1>2. /\ DOMAIN all = 1 .. n + 1 /\ all[n + 1] = ev
      /\ \A i \in 1 .. n : all[i] = seq[i]
  BY <1>1, AppendProperties, LenProperties
<1>3. /\ n + 1 \in 1 .. n + 1 /\ \A i \in 1 .. n : i \in 1 .. n + 1 /\ i < n + 1
      /\ \A i \in 1 .. n + 1 : i = n + 1 \/ i \in 1 .. n
  BY <1>1
<1> HIDE DEF n, all
<1>4. \A x : x \in ToSet(all) <=> x \in ToSet(seq) \/ x = ev
  BY <1>1, <1>2, <1>3 DEF ToSet
<1>5. ASSUME NEW e1, NEW e2, Before(seq, e1, e2)
      PROVE  Before(all, e1, e2)
  BY <1>1, <1>2, <1>3, <1>5 DEF Before
<1>6. ASSUME NEW e \in ToSet(seq)
      PROVE  Before(all, e, ev)
  BY <1>1, <1>2, <1>3, <1>6 DEF Before, ToSet
<1>7. ASSUME Distinct(seq), ev \notin ToSet(seq)
      PROVE  Distinct(all)
  BY <1>1, <1>2, <1>3, <1>7 DEF Distinct, ToSet
<1> QED
  BY <1>4, <1>5, <1>6, <1>7 DEF all

LEMMA AppendEvents ==
  ASSUME NEW batch \in [Trigger -> Seq(Event)], NEW ev \in Event
  PROVE  Events(AppendTo(batch, ev)) = Events(batch) \cup {ev}
<1> DEFINE t == ev.trigger
           all == AppendTo(batch, ev)
<1>1. t \in Trigger
  BY EventAssumption DEF EventAssumption
<1>2. ToSet(Append(batch[t], ev)) = ToSet(batch[t]) \cup {ev}
  BY <1>1, AppendOrder
<1>3. all[t] = Append(batch[t], ev) /\ \A u \in Trigger \ {t} : all[u] = batch[u]
  BY <1>1 DEF AppendTo
<1> HIDE DEF all, t
<1>4. \A e : e \in Events(all) <=> e \in Events(batch) \/ e = ev
  BY <1>1, <1>2, <1>3 DEF Events
<1> QED
  BY <1>4 DEF all

LEMMA RunEvents ==
  ASSUME NEW seq, NEW batch \in [Trigger -> Seq(Event)], NEW g, RunOf(seq, batch, g),
         NEW e \in Events(batch)
  PROVE  e \in ToSet(seq) /\ e.group = g
BY EventsMember DEF RunOf

LEMMA AppendRun ==
  ASSUME NEW seq \in Seq(Event), NEW ev \in Event, NEW batch \in [Trigger -> Seq(Event)],
         NEW g, RunOf(seq, batch, g)
  PROVE  /\ RunOf(Append(seq, ev), batch, g)
         /\ g = ev.group => RunOf(Append(seq, ev), AppendTo(batch, ev), g)
<1> DEFINE more == Append(seq, ev)
<1>1. /\ \A e \in ToSet(seq) : e \in ToSet(more) /\ Before(more, e, ev)
      /\ ev \in ToSet(more)
      /\ \A e1, e2 : Before(seq, e1, e2) => Before(more, e1, e2)
  BY AppendOrder
<1> HIDE DEF more
<1>2. RunOf(more, batch, g)
  BY <1>1 DEF RunOf
<1>3. ASSUME g = ev.group
      PROVE  RunOf(more, AppendTo(batch, ev), g)
  <2> DEFINE t == ev.trigger
             all == AppendTo(batch, ev)
             n == Len(batch[t])
  <2>1. t \in Trigger /\ n \in Nat
    BY EventAssumption, LenProperties DEF EventAssumption
  <2>2. /\ Len(all[t]) = n + 1 /\ all[t][n + 1] = ev
        /\ \A p \in 1 .. n : all[t][p] = batch[t][p]
        /\ \A u \in Trigger \ {t} : all[u] = batch[u]
    BY <2>1, AppendProperties DEF AppendTo
  <2> HIDE DEF all, t, n
  <2>3. \A p \in 1 .. n : /\ batch[t][p] \in ToSet(seq)
                          /\ batch[t][p].group = g /\ batch[t][p].trigger = t
    BY <2>1 DEF RunOf, n
  <2>4. \A p \in 1 .. n + 1 :
          all[t][p] \in ToSet(more) /\ all[t][p].group = g /\ all[t][p].trigger = t
    <3>1. \A p \in 1 .. n + 1 : p \in 1 .. n \/ p = n + 1
      BY <2>1
    <3> QED
      BY <1>1, <1>3, <2>2, <2>3, <3>1 DEF t
  <2>5. ASSUME NEW p \in 1 .. n + 1, NEW q \in 1 .. n + 1, p < q
        PROVE  Before(more, all[t][p], all[t][q])
    <3>1. p \in 1 .. n
      BY <2>1, <2>5
    <3>2. CASE q \in 1 .. n
      <4>1. Before(seq, batch[t][p], batch[t][q])
        BY <2>1, <2>5, <3>1, <3>2 DEF RunOf, n
      <4> QED
        BY <1>1, <2>2, <3>1, <3>2, <4>1
    <3>3. CASE q = n + 1
      BY <1>1, <2>2, <2>3, <3>1, <3>3
    <3> QED
      BY <2>1, <3>2, <3>3
  <2>6. \A u \in Trigger \ {t} :
          /\ \A p \in 1 .. Len(all[u]) :
               all[u][p] \in ToSet(more) /\ all[u][p].group = g /\ all[u][p].trigger = u
          /\ \A p, q \in 1 .. Len(all[u]) : p < q => Before(more, all[u][p], all[u][q])
    BY <1>2, <2>2 DEF RunOf
  <2>7. RunOf(more, all, g)
    BY <2>2, <2>4, <2>5, <2>6 DEF RunOf
  <2> QED
    BY <2>7 DEF all
<1> QED
  BY <1>2, <1>3 DEF more

LEMMA AppendAllBefore ==
  ASSUME NEW seq \in Seq(Event), NEW ev \in Event,
         NEW b1, NEW b2 \in [Trigger -> Seq(Event)],
         AllBefore(seq, b1, b2), Events(b1) \subseteq ToSet(seq)
  PROVE  /\ AllBefore(Append(seq, ev), b1, b2)
         /\ AllBefore(Append(seq, ev), b1, AppendTo(b2, ev))
BY AppendOrder, AppendEvents DEF AllBefore

-----------------------------------------------------------------------------
(* The batches on their way to the publisher.                              *)

\* What a flush has still to do, and in which order it does it.
FlushInv ==
  /\ \A b \in flushes \cup handed : Covers(b)
  /\ \A f \in flushes :
       /\ f.calling \subseteq f.todo
       /\ f.todo \subseteq {SessionKeyOf(ev) : ev \in Events(f.buckets)}

\* The sealed batches that a flush or an Upsert call holds.
Sealed ==
  {[group |-> f.group, gen |-> f.gen, buckets |-> f.buckets] : f \in flushes} \cup
  {[group |-> h.key.group, gen |-> h.gen, buckets |-> h.buckets] : h \in handed}

\* Batches of a group are runs of its arrivals, in the order of their
\* generations, and the open batch is the last.
ArrivalInv ==
  /\ Distinct(ingested)
  /\ \A g \in Group : RunOf(ingested, buckets[g], g)
  /\ \A x \in Sealed :
       /\ RunOf(ingested, x.buckets, x.group)
       /\ x.gen < generation[x.group]
       /\ AllBefore(ingested, x.buckets, buckets[x.group])
  /\ \A x, y \in Sealed :
       x.group = y.group /\ x.gen < y.gen => AllBefore(ingested, x.buckets, y.buckets)

Handed(ev) == {h \in handed : ev \in EventsOf(h, h.key)}
Flushing(ev) == {f \in flushes : ev \in Remaining(f)}
Waiting(ev) == ev \in Events(buckets[ev.group])

\* The one place of an ingested event.
PlacesInv ==
  \A ev \in ToSet(ingested) :
    /\ \A h, i \in Handed(ev) : h = i
    /\ \A f, i \in Flushing(ev) : f = i
    /\ Handed(ev) # {} => Flushing(ev) = {} /\ ~ Waiting(ev)
    /\ Flushing(ev) # {} => ~ Waiting(ev)
    /\ Waiting(ev) \/ Flushing(ev) # {} \/ Handed(ev) # {}

HandoverInv == TypeOK /\ FlushInv /\ ArrivalInv /\ PlacesInv

LEMMA KeyGroup ==
  /\ \A ev : SessionKeyOf(ev).group = ev.group
  /\ \A key \in SessionKeys : key.group \in Group
<1>1. \A ev : SessionKeyOf(ev).group = ev.group
  BY DEF SessionKeyOf
<1>2. ASSUME NEW key \in SessionKeys
      PROVE  key.group \in Group
  <2>1. PICK ev \in Event : key = SessionKeyOf(ev)
    BY DEF SessionKeys
  <2> QED
    BY <1>1, <2>1, EventAssumption DEF EventAssumption
<1> QED
  BY <1>1, <1>2

LEMMA BatchTypes ==
  ASSUME TypeOK
  PROVE  /\ \A g \in Group : buckets[g] \in [Trigger -> Seq(Event)] /\ generation[g] \in Nat
         /\ \A f \in flushes : /\ f.buckets \in [Trigger -> Seq(Event)]
                               /\ f.order \in Seq(Trigger) /\ f.group \in Group /\ f.gen \in Nat
         /\ \A h \in handed : /\ h.buckets \in [Trigger -> Seq(Event)] /\ h.order \in Seq(Trigger)
                              /\ h.key \in SessionKeys /\ h.gen \in Nat
         /\ \A x \in Sealed : /\ x.group \in Group /\ x.gen \in Nat
                              /\ x.buckets \in [Trigger -> Seq(Event)]
         /\ ingested \in Seq(Event)
<1>1. \A h \in handed : h.key.group \in Group /\ h.gen \in Nat /\ h.buckets \in [Trigger -> Seq(Event)]
  BY KeyGroup DEF TypeOK
<1>2. \A f \in flushes : f.group \in Group /\ f.gen \in Nat /\ f.buckets \in [Trigger -> Seq(Event)]
  BY DEF TypeOK
<1>3. \A x \in Sealed : x.group \in Group /\ x.gen \in Nat /\ x.buckets \in [Trigger -> Seq(Event)]
  BY <1>1, <1>2 DEF Sealed
<1> QED
  BY <1>3 DEF TypeOK

\* Events that are held somewhere have been ingested, in the group that holds
\* them.
LEMMA HeldIngested ==
  ASSUME TypeOK, ArrivalInv
  PROVE  /\ \A g \in Group : \A ev \in Events(buckets[g]) : ev \in ToSet(ingested) /\ ev.group = g
         /\ \A f \in flushes : \A ev \in Events(f.buckets) : ev \in ToSet(ingested) /\ ev.group = f.group
         /\ \A h \in handed : \A ev \in Events(h.buckets) : ev \in ToSet(ingested) /\ ev.group = h.key.group
<1>1. \A g \in Group : \A ev \in Events(buckets[g]) : ev \in ToSet(ingested) /\ ev.group = g
  BY BatchTypes, RunEvents DEF ArrivalInv
<1>2. \A x \in Sealed : \A ev \in Events(x.buckets) : ev \in ToSet(ingested) /\ ev.group = x.group
  BY BatchTypes, RunEvents DEF ArrivalInv
<1>3. ASSUME NEW f \in flushes
      PROVE  \A ev \in Events(f.buckets) : ev \in ToSet(ingested) /\ ev.group = f.group
  <2>1. [group |-> f.group, gen |-> f.gen, buckets |-> f.buckets] \in Sealed
    BY DEF Sealed
  <2> QED
    BY <1>2, <2>1
<1>4. ASSUME NEW h \in handed
      PROVE  \A ev \in Events(h.buckets) : ev \in ToSet(ingested) /\ ev.group = h.key.group
  <2>1. [group |-> h.key.group, gen |-> h.gen, buckets |-> h.buckets] \in Sealed
    BY DEF Sealed
  <2> QED
    BY <1>2, <2>1
<1> QED
  BY <1>1, <1>3, <1>4

LEMMA IngestHandover ==
  ASSUME HandoverInv, TypeOK', NEW ev \in Event, Ingest(ev)
  PROVE  HandoverInv'
<1> DEFINE g == ev.group
<1>1. /\ g \in Group /\ ev \notin ToSet(ingested) /\ ingested' = Append(ingested, ev)
      /\ buckets'[g] = AppendTo(buckets[g], ev)
      /\ \A h \in Group \ {g} : buckets'[h] = buckets[h]
      /\ UNCHANGED <<generation, flushes, handed>>
  BY EventAssumption DEF EventAssumption, HandoverInv, TypeOK, Ingest
<1>2. /\ \A h \in Group : buckets[h] \in [Trigger -> Seq(Event)]
      /\ \A x \in Sealed : x.group \in Group /\ x.buckets \in [Trigger -> Seq(Event)]
      /\ ingested \in Seq(Event)
  BY BatchTypes DEF HandoverInv
<1>3. ToSet(ingested') = ToSet(ingested) \cup {ev} /\ Distinct(ingested')
  BY <1>1, <1>2, AppendOrder DEF HandoverInv, ArrivalInv
<1>4. Events(buckets'[g]) = Events(buckets[g]) \cup {ev}
  BY <1>1, <1>2, AppendEvents
<1> HIDE DEF g
<1>5. Sealed' = Sealed
  BY <1>1 DEF Sealed
<1>6. FlushInv'
  BY <1>1 DEF HandoverInv, FlushInv
<1>7. ArrivalInv'
  <2>1. \A h \in Group : RunOf(ingested', buckets'[h], h)
    <3>1. RunOf(ingested', buckets'[g], g)
      BY <1>1, <1>2, AppendRun DEF HandoverInv, ArrivalInv, g
    <3>2. \A h \in Group \ {g} : RunOf(ingested', buckets'[h], h)
      BY <1>1, <1>2, AppendRun DEF HandoverInv, ArrivalInv
    <3> QED
      BY <3>1, <3>2
  <2>2. ASSUME NEW x \in Sealed
        PROVE  /\ RunOf(ingested', x.buckets, x.group)
               /\ x.gen < generation'[x.group]
               /\ AllBefore(ingested', x.buckets, buckets'[x.group])
    <3>1. RunOf(ingested', x.buckets, x.group)
      BY <1>1, <1>2, AppendRun DEF HandoverInv, ArrivalInv
    <3>2. x.gen < generation'[x.group]
      BY <1>1 DEF HandoverInv, ArrivalInv
    <3>3. Events(x.buckets) \subseteq ToSet(ingested)
      BY <1>2, RunEvents DEF HandoverInv, ArrivalInv
    <3>4. AllBefore(ingested, x.buckets, buckets[x.group])
      BY DEF HandoverInv, ArrivalInv
    <3>5. AllBefore(ingested', x.buckets, buckets'[x.group])
      <4>1. CASE x.group = g
        BY <1>1, <1>2, <3>3, <3>4, <4>1, AppendAllBefore
      <4>2. CASE x.group # g
        BY <1>1, <1>2, <3>3, <3>4, <4>2, AppendAllBefore
      <4> QED
        BY <4>1, <4>2
    <3> QED
      BY <3>1, <3>2, <3>5
  <2>3. ASSUME NEW x \in Sealed, NEW y \in Sealed, x.group = y.group, x.gen < y.gen
        PROVE  AllBefore(ingested', x.buckets, y.buckets)
    <3>1. Events(x.buckets) \subseteq ToSet(ingested)
      BY <1>2, RunEvents DEF HandoverInv, ArrivalInv
    <3>2. AllBefore(ingested, x.buckets, y.buckets)
      BY <2>3 DEF HandoverInv, ArrivalInv
    <3> QED
      BY <1>1, <1>2, <3>1, <3>2, AppendAllBefore
  <2> QED
    BY <1>3, <1>5, <2>1, <2>2, <2>3 DEF ArrivalInv
<1>8. PlacesInv'
  <2>1. \A e : Handed(e)' = Handed(e) /\ Flushing(e)' = Flushing(e)
    BY <1>1 DEF Handed, Flushing
  <2>2. \A e \in ToSet(ingested) : e # ev /\ Waiting(e)' = Waiting(e)
    <3>1. \A e \in ToSet(ingested) : e # ev /\ e.group \in Group
      BY <1>1, <1>2, EventAssumption, ElementOfSeq, LenProperties DEF EventAssumption, ToSet
    <3> QED
      BY <1>1, <1>4, <3>1 DEF Waiting
  <2>3. Waiting(ev)'
    BY <1>4 DEF Waiting, g
  <2>4. Handed(ev) = {} /\ Flushing(ev) = {}
    BY <1>1, HeldIngested DEF HandoverInv, Handed, Flushing, EventsOf, Remaining
  <2> QED
    BY <1>3, <2>1, <2>2, <2>3, <2>4 DEF HandoverInv, PlacesInv
<1> QED
  BY <1>6, <1>7, <1>8 DEF HandoverInv

LEMMA SealHandover ==
  ASSUME HandoverInv, TypeOK', NEW c \in callbacks, SealBatch(c)
  PROVE  HandoverInv'
<1> DEFINE g == c.group
<1>1. PICK order \in SetToSeqs(TriggersIn(buckets[g])) :
        flushes' = flushes \cup {NewFlush(g, order)}
  BY DEF SealBatch
<1> DEFINE new == NewFlush(g, order)
<1>2. g \in Group
  BY DEF HandoverInv, TypeOK
<1>3. /\ buckets'[g] = EmptyBatch /\ \A h \in Group \ {g} : buckets'[h] = buckets[h]
      /\ generation'[g] = generation[g] + 1
      /\ \A h \in Group \ {g} : generation'[h] = generation[h]
      /\ UNCHANGED <<ingested, handed>>
  BY <1>2 DEF HandoverInv, TypeOK, SealBatch, BucketsAfterSeal, GenerationAfterSeal
<1>4. /\ \A h \in Group : buckets[h] \in [Trigger -> Seq(Event)] /\ generation[h] \in Nat
      /\ \A x \in Sealed : x.group \in Group /\ x.gen \in Nat
  BY BatchTypes DEF HandoverInv
<1>5. /\ new.group = g /\ new.gen = generation[g] /\ new.buckets = buckets[g] /\ new.order = order
      /\ new.todo = {SessionKeyOf(ev) : ev \in Events(buckets[g])} /\ new.calling = {}
  BY DEF NewFlush
<1>6. Events(EmptyBatch) = {} /\ \A t \in Trigger : EmptyBatch[t] = <<>> /\ Len(EmptyBatch[t]) = 0
  BY DEF Events, EmptyBatch, ToSet
<1> HIDE DEF g, new
<1>7. FlushInv'
  <2>1. Covers(new)
    BY <1>2, <1>4, <1>5, OrderCovers DEF Covers
  <2> QED
    BY <1>1, <1>3, <1>5, <2>1 DEF HandoverInv, FlushInv, new
<1> DEFINE batch == [group |-> g, gen |-> generation[g], buckets |-> buckets[g]]
<1>8. Sealed' = Sealed \cup {batch}
  BY <1>1, <1>3, <1>5 DEF Sealed, new
<1>9. ArrivalInv'
  <2>1. \A h \in Group : RunOf(ingested, buckets'[h], h)
    BY <1>3, <1>6 DEF HandoverInv, ArrivalInv, RunOf
  <2>2. ASSUME NEW x \in Sealed \cup {batch}
        PROVE  /\ RunOf(ingested, x.buckets, x.group)
               /\ x.gen < generation'[x.group]
               /\ AllBefore(ingested, x.buckets, buckets'[x.group])
    <3>1. CASE x \in Sealed
      <4>1. /\ RunOf(ingested, x.buckets, x.group)
            /\ x.gen < generation[x.group]
            /\ AllBefore(ingested, x.buckets, buckets[x.group])
        BY <3>1 DEF HandoverInv, ArrivalInv
      <4>2. x.group \in Group /\ x.gen \in Nat
        BY <1>4, <3>1
      <4>3. x.gen < generation'[x.group]
        BY <1>3, <1>4, <4>1, <4>2
      <4>4. AllBefore(ingested, x.buckets, buckets'[x.group])
        BY <1>3, <1>6, <4>1, <4>2 DEF AllBefore
      <4> QED
        BY <4>1, <4>3, <4>4
    <3>2. CASE x = batch
      <4>1. RunOf(ingested, buckets[g], g)
        BY <1>2 DEF HandoverInv, ArrivalInv
      <4>2. AllBefore(ingested, buckets[g], buckets'[g])
        BY <1>3, <1>6 DEF AllBefore
      <4> QED
        BY <1>2, <1>3, <1>4, <3>2, <4>1, <4>2
    <3> QED
      BY <3>1, <3>2
  <2>3. ASSUME NEW x \in Sealed \cup {batch}, NEW y \in Sealed \cup {batch},
               x.group = y.group, x.gen < y.gen
        PROVE  AllBefore(ingested, x.buckets, y.buckets)
    <3>1. CASE x \in Sealed /\ y \in Sealed
      BY <2>3, <3>1 DEF HandoverInv, ArrivalInv
    <3>2. CASE x \in Sealed /\ y = batch
      BY <2>3, <3>2 DEF HandoverInv, ArrivalInv
    <3>3. CASE x = batch /\ y \in Sealed
      <4>1. y.gen < generation[g] /\ y.gen \in Nat /\ generation[g] \in Nat
        BY <1>2, <1>4, <2>3, <3>3 DEF HandoverInv, ArrivalInv
      <4> QED
        BY <2>3, <3>3, <4>1
    <3>4. CASE x = batch /\ y = batch
      BY <1>2, <1>4, <2>3, <3>4
    <3> QED
      BY <3>1, <3>2, <3>3, <3>4
  <2> HIDE DEF batch
  <2> QED
    BY <1>3, <1>8, <2>1, <2>2, <2>3 DEF HandoverInv, ArrivalInv
<1>10. PlacesInv'
  <2>1. \A ev : Handed(ev)' = Handed(ev)
    BY <1>3 DEF Handed
  <2>2. \A ev : ev \in Remaining(new) <=> ev \in Events(buckets[g])
    BY <1>5 DEF Remaining
  <2>3. \A ev : Flushing(ev)' = Flushing(ev) \cup (IF ev \in Events(buckets[g]) THEN {new} ELSE {})
    BY <1>1, <2>2 DEF Flushing, new
  <2>4. \A ev \in Events(buckets[g]) : Waiting(ev) /\ ~ Waiting(ev)' /\ ev.group = g
    BY <1>2, <1>3, <1>6, HeldIngested DEF HandoverInv, Waiting
  <2>5. ASSUME NEW ev \in ToSet(ingested), ev \notin Events(buckets[g])
        PROVE  Waiting(ev)' = Waiting(ev)
    <3>1. ev.group \in Group
      BY BatchTypes, EventAssumption, ElementOfSeq, LenProperties
         DEF EventAssumption, HandoverInv, ToSet
    <3>2. CASE ev.group = g
      BY <1>3, <1>6, <2>5, <3>2 DEF Waiting
    <3>3. CASE ev.group # g
      BY <1>3, <3>1, <3>3 DEF Waiting
    <3> QED
      BY <3>2, <3>3
  <2> QED
    BY <1>3, <2>1, <2>3, <2>4, <2>5 DEF HandoverInv, PlacesInv
<1> QED
  BY <1>7, <1>9, <1>10 DEF HandoverInv

LEMMA CallHandover ==
  ASSUME HandoverInv, TypeOK', NEW f \in flushes, NEW key \in SessionKeys, CallUpsert(f, key)
  PROVE  HandoverInv'
<1> DEFINE now == [f EXCEPT !.calling = {key}]
           h == Call(f, key)
<1>1. /\ f.calling = {} /\ key \in f.todo
      /\ flushes' = (flushes \ {f}) \cup {now} /\ handed' = handed \cup {h}
      /\ UNCHANGED <<buckets, generation, ingested>>
  BY DEF CallUpsert
<1>2. /\ now.group = f.group /\ now.gen = f.gen /\ now.buckets = f.buckets
      /\ now.order = f.order /\ now.todo = f.todo /\ now.calling = {key}
      /\ h.key = key /\ h.gen = f.gen /\ h.buckets = f.buckets /\ h.order = f.order
  BY DEF HandoverInv, TypeOK, Call
<1> HIDE DEF now, h
<1>3. PICK first \in Events(f.buckets) : SessionKeyOf(first) = key
  BY <1>1 DEF HandoverInv, FlushInv
<1>4. key.group = f.group
  BY <1>3, KeyGroup, HeldIngested DEF HandoverInv
<1>5. FlushInv'
  <2>1. Covers(f)
    BY DEF HandoverInv, FlushInv
  <2>2. Covers(now) /\ Covers(h)
    BY <1>2, <2>1 DEF Covers
  <2> QED
    BY <1>1, <1>2, <2>2 DEF HandoverInv, FlushInv
<1>6. Sealed' = Sealed
  BY <1>1, <1>2, <1>4 DEF Sealed
<1>7. ArrivalInv'
  BY <1>1, <1>6 DEF HandoverInv, ArrivalInv
<1>8. PlacesInv'
  <2>1. \A ev : Waiting(ev)' = Waiting(ev)
    BY <1>1 DEF Waiting
  <2>2. \A ev : ev \in EventsOf(h, h.key) <=> ev \in EventsOf(f, key)
    BY <1>2 DEF EventsOf
  <2>3. \A ev : Handed(ev)' = Handed(ev) \cup (IF ev \in EventsOf(f, key) THEN {h} ELSE {})
    BY <1>1, <2>2 DEF Handed
  <2>4. \A ev : ev \in Remaining(now) <=> ev \in Remaining(f) /\ ev \notin EventsOf(f, key)
    BY <1>1, <1>2 DEF Remaining, EventsOf
  <2>5. \A ev \in EventsOf(f, key) : ev \in Remaining(f) /\ f \in Flushing(ev)
    BY <1>1 DEF Remaining, EventsOf, Flushing
  <2>6. \A ev : Flushing(ev)' =
          (Flushing(ev) \ {f}) \cup
          (IF ev \in Remaining(f) /\ ev \notin EventsOf(f, key) THEN {now} ELSE {})
    BY <1>1, <2>4 DEF Flushing
  <2>7. \A ev : ev \in Remaining(f) <=> f \in Flushing(ev)
    BY DEF Flushing
  <2> SUFFICES ASSUME NEW ev \in ToSet(ingested)
               PROVE  /\ \A i, j \in Handed(ev)' : i = j
                      /\ \A i, j \in Flushing(ev)' : i = j
                      /\ Handed(ev)' # {} => Flushing(ev)' = {} /\ ~ Waiting(ev)'
                      /\ Flushing(ev)' # {} => ~ Waiting(ev)'
                      /\ Waiting(ev)' \/ Flushing(ev)' # {} \/ Handed(ev)' # {}
    BY <1>1 DEF PlacesInv
  <2>8. /\ \A i, j \in Handed(ev) : i = j
        /\ \A i, j \in Flushing(ev) : i = j
        /\ Handed(ev) # {} => Flushing(ev) = {} /\ ~ Waiting(ev)
        /\ Flushing(ev) # {} => ~ Waiting(ev)
        /\ Waiting(ev) \/ Flushing(ev) # {} \/ Handed(ev) # {}
    BY DEF HandoverInv, PlacesInv
  <2>9. CASE ev \in EventsOf(f, key)
    <3>1. Flushing(ev) = {f} /\ Handed(ev) = {}
      BY <2>5, <2>8, <2>9
    <3>2. Flushing(ev)' = {} /\ Handed(ev)' = {h}
      BY <2>3, <2>6, <2>9, <3>1
    <3> QED
      BY <2>1, <2>8, <3>1, <3>2
  <2>10. CASE ev \notin EventsOf(f, key)
    <3>1. Handed(ev)' = Handed(ev)
      BY <2>3, <2>10
    <3>2. CASE f \in Flushing(ev)
      <4>1. Flushing(ev) = {f} /\ Flushing(ev)' = {now}
        BY <2>6, <2>7, <2>8, <2>10, <3>2
      <4> QED
        BY <2>1, <2>8, <3>1, <4>1
    <3>3. CASE f \notin Flushing(ev)
      <4>1. Flushing(ev)' = Flushing(ev)
        BY <2>6, <2>7, <3>3
      <4> QED
        BY <2>1, <2>8, <3>1, <4>1
    <3> QED
      BY <3>2, <3>3
  <2> QED
    BY <2>9, <2>10
<1> QED
  BY <1>5, <1>7, <1>8 DEF HandoverInv

LEMMA ReturnHandover ==
  ASSUME HandoverInv, TypeOK', NEW f \in flushes, ReturnUpsert(f)
  PROVE  HandoverInv'
<1> DEFINE left == f.todo \ f.calling
           now == [f EXCEPT !.todo = left, !.calling = {}]
           after == IF left = {} THEN {} ELSE {now}
<1>1. /\ flushes' = (flushes \ {f}) \cup after
      /\ UNCHANGED <<buckets, generation, ingested, handed>>
  BY DEF ReturnUpsert
<1>2. /\ now.group = f.group /\ now.gen = f.gen /\ now.buckets = f.buckets
      /\ now.order = f.order /\ now.todo = left /\ now.calling = {}
  BY DEF HandoverInv, TypeOK
<1>3. after \subseteq {now} /\ (after = {} => left = {}) /\ (left = {} => after = {})
  OBVIOUS
<1> HIDE DEF now, after
<1>4. FlushInv'
  <2>1. Covers(f) /\ f.todo \subseteq {SessionKeyOf(ev) : ev \in Events(f.buckets)}
    BY DEF HandoverInv, FlushInv
  <2>2. Covers(now)
    BY <1>2, <2>1 DEF Covers
  <2> QED
    BY <1>1, <1>2, <1>3, <2>1, <2>2 DEF HandoverInv, FlushInv
<1>5. Sealed' \subseteq Sealed
  BY <1>1, <1>2, <1>3 DEF Sealed
<1>6. ArrivalInv'
  BY <1>1, <1>5 DEF HandoverInv, ArrivalInv
<1>7. PlacesInv'
  <2>1. \A ev : Waiting(ev)' = Waiting(ev) /\ Handed(ev)' = Handed(ev)
    BY <1>1 DEF Waiting, Handed
  <2>2. \A ev : ev \in Remaining(now) <=> ev \in Remaining(f)
    BY <1>2 DEF Remaining
  <2>3. left = {} => Remaining(f) = {}
    BY DEF Remaining
  <2>4. \A ev : Flushing(ev)' = (Flushing(ev) \ {f}) \cup (IF ev \in Remaining(f) THEN {now} ELSE {})
    BY <1>1, <1>3, <2>2, <2>3 DEF Flushing
  <2>5. \A ev : ev \in Remaining(f) <=> f \in Flushing(ev)
    BY DEF Flushing
  <2> QED
    BY <1>1, <2>1, <2>4, <2>5 DEF HandoverInv, PlacesInv
<1> QED
  BY <1>4, <1>6, <1>7 DEF HandoverInv

LEMMA HandoverInvariant == Spec => []HandoverInv
<1>1. ASSUME Init
      PROVE  HandoverInv
  <2>1. TypeOK
    BY <1>1, InitTimerInvariant DEF TimerInvariant
  <2>2. ingested = <<>> /\ flushes = {} /\ handed = {} /\ \A g \in Group : buckets[g] = EmptyBatch
    BY <1>1 DEF Init
  <2>3. \A t \in Trigger : Len(EmptyBatch[t]) = 0
    BY DEF EmptyBatch
  <2>4. FlushInv /\ ArrivalInv
    BY <2>2, <2>3 DEF FlushInv, ArrivalInv, Sealed, Distinct, RunOf
  <2>5. PlacesInv
    BY <2>2 DEF PlacesInv, ToSet
  <2> QED
    BY <2>1, <2>4, <2>5 DEF HandoverInv
<1>2. ASSUME HandoverInv, [Next]_vars
      PROVE  HandoverInv'
  <2>1. TypeOK'
    BY <1>2, TypeStep DEF HandoverInv
  <2>2. CASE UNCHANGED <<buckets, generation, flushes, ingested, handed>>
    BY <1>2, <2>1, <2>2
       DEF HandoverInv, FlushInv, ArrivalInv, PlacesInv, Sealed, Handed, Flushing, Waiting
  <2>3. ASSUME NEW ev \in Event, Ingest(ev)
        PROVE  HandoverInv'
    BY <1>2, <2>1, <2>3, IngestHandover
  <2>4. ASSUME NEW c \in callbacks, SealBatch(c)
        PROVE  HandoverInv'
    BY <1>2, <2>1, <2>4, SealHandover
  <2>5. ASSUME NEW f \in flushes, NEW key \in SessionKeys, CallUpsert(f, key)
        PROVE  HandoverInv'
    BY <1>2, <2>1, <2>5, CallHandover
  <2>6. ASSUME NEW f \in flushes, ReturnUpsert(f)
        PROVE  HandoverInv'
    BY <1>2, <2>1, <2>6, ReturnHandover
  <2>7. \/ \E t \in timers : Expire(t)
        \/ \E c \in callbacks : DropStale(c)
        \/ Tick \/ UNCHANGED vars
        => UNCHANGED <<buckets, generation, flushes, ingested, handed>>
    BY DEF Expire, DropStale, Tick, PassTime, vars
  <2> QED
    BY <1>2, <2>2, <2>3, <2>4, <2>5, <2>6, <2>7 DEF Next, onTimerFire
<1> QED
  BY <1>1, <1>2, PTL DEF Spec

\* The slice of a session that is cut out of a run of arrivals.
LEMMA SliceOrder ==
  ASSUME TypeOK, Distinct(ingested), NEW g,
         NEW b, b.buckets \in [Trigger -> Seq(Event)], b.order \in Seq(Trigger), Covers(b),
         RunOf(ingested, b.buckets, g), NEW key
  PROVE  /\ EventsFor(b, key) \in Seq(Event) /\ ToSet(EventsFor(b, key)) = EventsOf(b, key)
         /\ \A i, j \in 1 .. Len(EventsFor(b, key)) : i < j =>
              /\ EventsFor(b, key)[i] # EventsFor(b, key)[j]
              /\ EventsFor(b, key)[i].trigger = EventsFor(b, key)[j].trigger =>
                   Before(ingested, EventsFor(b, key)[i], EventsFor(b, key)[j])
<1> DEFINE s == EventsFor(b, key)
<1>1. s \in Seq(Event) /\ ToSet(s) = EventsOf(b, key)
  BY SliceProperties
<1>2. \A e : ~ Before(ingested, e, e)
  BY LenProperties DEF TypeOK, Before, Distinct
<1>3. ASSUME NEW i \in 1 .. Len(s), NEW j \in 1 .. Len(s), i < j
      PROVE  s[i] # s[j] /\ (s[i].trigger = s[j].trigger => Before(ingested, s[i], s[j]))
  <2>1. \E t, u \in Trigger :
          \E p \in 1 .. Len(b.buckets[t]), q \in 1 .. Len(b.buckets[u]) :
            /\ s[i] = b.buckets[t][p]
            /\ s[j] = b.buckets[u][q]
            /\ t # u \/ (t = u /\ p < q)
    BY <1>3, SliceProperties
  <2> HIDE DEF s
  <2>2. PICK t \in Trigger, u \in Trigger :
          \E p \in 1 .. Len(b.buckets[t]), q \in 1 .. Len(b.buckets[u]) :
            /\ s[i] = b.buckets[t][p] /\ s[j] = b.buckets[u][q]
            /\ t # u \/ (t = u /\ p < q)
    BY <2>1
  <2>3. s[i].trigger = t /\ s[j].trigger = u
    BY <2>2 DEF RunOf
  <2>4. t = u => Before(ingested, s[i], s[j])
    BY <2>2 DEF RunOf
  <2> QED
    BY <1>2, <2>3, <2>4
<1> QED
  BY <1>1, <1>3 DEF s

\* What the Upsert calls were given, in terms of the batches they come from.
LEMMA SliceOfCall ==
  ASSUME HandoverInv, NEW h \in handed
  PROVE  /\ Slice(h) \in Seq(Event) /\ ToSet(Slice(h)) = EventsOf(h, h.key)
         /\ \A i, j \in 1 .. Len(Slice(h)) : i < j =>
              /\ Slice(h)[i] # Slice(h)[j]
              /\ Slice(h)[i].trigger = Slice(h)[j].trigger =>
                   Before(ingested, Slice(h)[i], Slice(h)[j])
<1>1. /\ h.buckets \in [Trigger -> Seq(Event)] /\ h.order \in Seq(Trigger) /\ Covers(h)
  BY BatchTypes DEF HandoverInv, FlushInv
<1>2. RunOf(ingested, h.buckets, h.key.group)
  <2>1. [group |-> h.key.group, gen |-> h.gen, buckets |-> h.buckets] \in Sealed
    BY DEF Sealed
  <2> QED
    BY <2>1 DEF HandoverInv, ArrivalInv
<1> QED
  BY <1>1, <1>2, SliceOrder DEF Slice, HandoverInv, ArrivalInv

\* No event is lost between Ingest and the publisher, handed over twice or
\* held in two places: every ingested event has exactly one (onTimerFire and
\* flush move it, whatever callbacks and flushes overlap).
THEOREM ExactlyOnceHolds == Spec => []ExactlyOnce
<1>1. ASSUME HandoverInv
      PROVE  ExactlyOnce
  <2>1. ASSUME NEW ev \in ToSet(ingested)
        PROVE  Cardinality({h \in handed : ev \in ToSet(Slice(h))})
                 + Cardinality({f \in flushes : ev \in Remaining(f)})
                 + (IF ev \in Events(buckets[ev.group]) THEN 1 ELSE 0) = 1
    <3>1. {h \in handed : ev \in ToSet(Slice(h))} = Handed(ev)
      BY <1>1, SliceOfCall DEF Handed
    <3>2. {f \in flushes : ev \in Remaining(f)} = Flushing(ev)
      BY DEF Flushing
    <3>3. ev \in Events(buckets[ev.group]) <=> Waiting(ev)
      BY DEF Waiting
    <3>4. /\ \A h, i \in Handed(ev) : h = i
          /\ \A f, i \in Flushing(ev) : f = i
          /\ Handed(ev) # {} => Flushing(ev) = {} /\ ~ Waiting(ev)
          /\ Flushing(ev) # {} => ~ Waiting(ev)
          /\ Waiting(ev) \/ Flushing(ev) # {} \/ Handed(ev) # {}
      BY <1>1 DEF HandoverInv, PlacesInv
    <3>5. \A S : (\A x, y \in S : x = y) => Cardinality(S) = IF S = {} THEN 0 ELSE 1
      <4>1. ASSUME NEW S, \A x, y \in S : x = y
            PROVE  S = {} \/ \E x : S = {x}
        BY <4>1
      <4> QED
        BY <4>1, FS_EmptySet, FS_Singleton
    <3>6. /\ Cardinality(Handed(ev)) = IF Handed(ev) = {} THEN 0 ELSE 1
          /\ Cardinality(Flushing(ev)) = IF Flushing(ev) = {} THEN 0 ELSE 1
      BY <3>4, <3>5
    <3> DEFINE n == Cardinality({h \in handed : ev \in ToSet(Slice(h))})
               m == Cardinality({f \in flushes : ev \in Remaining(f)})
    <3>7. /\ n = IF Handed(ev) = {} THEN 0 ELSE 1
          /\ m = IF Flushing(ev) = {} THEN 0 ELSE 1
      BY <3>1, <3>2, <3>6
    <3> HIDE DEF n, m
    <3>8. n + m + (IF Waiting(ev) THEN 1 ELSE 0) = 1
      BY <3>4, <3>7
    <3> QED
      BY <3>3, <3>8 DEF n, m
  <2>2. ASSUME NEW h \in handed
        PROVE  IsInjective(Slice(h))
    <3>1. Slice(h) \in Seq(Event) /\ DOMAIN Slice(h) = 1 .. Len(Slice(h)) /\ Len(Slice(h)) \in Nat
      BY <1>1, SliceOfCall, LenProperties
    <3>2. \A i, j \in 1 .. Len(Slice(h)) : i < j => Slice(h)[i] # Slice(h)[j]
      BY <1>1, SliceOfCall
    <3> QED
      BY <3>1, <3>2 DEF IsInjective
  <2> QED
    BY <2>1, <2>2 DEF ExactlyOnce
<1> QED
  BY <1>1, HandoverInvariant, PTL

\* Sessions see the batches of a group in the order of arrival, and in a call
\* the events of one trigger (the map of buckets in onTimerFire and flush).
THEOREM ArrivalOrderHolds == Spec => []ArrivalOrder
<1>1. ASSUME HandoverInv
      PROVE  ArrivalOrder
  <2>1. ASSUME NEW h1 \in handed, NEW h2 \in handed,
               h1.key.group = h2.key.group, h1.gen < h2.gen,
               NEW ev1 \in ToSet(Slice(h1)), NEW ev2 \in ToSet(Slice(h2))
        PROVE  ArrivedBefore(ev1, ev2)
    <3>1. ev1 \in Events(h1.buckets) /\ ev2 \in Events(h2.buckets)
      BY <1>1, SliceOfCall DEF EventsOf
    <3>2. PICK x \in Sealed, y \in Sealed :
            /\ x = [group |-> h1.key.group, gen |-> h1.gen, buckets |-> h1.buckets]
            /\ y = [group |-> h2.key.group, gen |-> h2.gen, buckets |-> h2.buckets]
      BY DEF Sealed
    <3>3. AllBefore(ingested, x.buckets, y.buckets)
      BY <1>1, <2>1, <3>2 DEF HandoverInv, ArrivalInv
    <3> QED
      BY <3>1, <3>2, <3>3 DEF AllBefore, Before, ArrivedBefore
  <2>2. ASSUME NEW h \in handed, NEW i \in DOMAIN Slice(h), NEW j \in DOMAIN Slice(h),
               i < j, Slice(h)[i].trigger = Slice(h)[j].trigger
        PROVE  ArrivedBefore(Slice(h)[i], Slice(h)[j])
    <3>1. Slice(h) \in Seq(Event) /\ DOMAIN Slice(h) = 1 .. Len(Slice(h))
      BY <1>1, SliceOfCall, LenProperties
    <3>2. Before(ingested, Slice(h)[i], Slice(h)[j])
      BY <1>1, <2>2, <3>1, SliceOfCall
    <3> QED
      BY <3>2 DEF Before, ArrivedBefore
  <2> QED
    BY <2>1, <2>2 DEF ArrivalOrder
<1> QED
  BY <1>1, HandoverInvariant, PTL

-----------------------------------------------------------------------------
(* The engine implements Batching.                                         *)

AbstractOpen == [g \in Group |-> Events(buckets[g])]
AbstractSealed == {Remaining(f) : f \in flushes} \ {{}}
AbstractDelivered == {ToSet(Slice(h)) : h \in handed}
AbstractKnown ==
  (UNION {AbstractOpen[g] : g \in Group}) \cup (UNION AbstractSealed) \cup (UNION AbstractDelivered)

LEMMA KnownIngested ==
  ASSUME HandoverInv
  PROVE  AbstractKnown \subseteq ToSet(ingested)
<1>1. \A g \in Group : AbstractOpen[g] \subseteq ToSet(ingested)
  BY HeldIngested DEF HandoverInv, AbstractOpen
<1>2. \A f \in flushes : Remaining(f) \subseteq ToSet(ingested)
  BY HeldIngested DEF HandoverInv, Remaining
<1>3. \A h \in handed : ToSet(Slice(h)) \subseteq ToSet(ingested)
  BY HeldIngested, SliceOfCall DEF HandoverInv, EventsOf
<1>4. UNION {AbstractOpen[g] : g \in Group} \subseteq ToSet(ingested)
  BY <1>1
<1>5. UNION AbstractSealed \subseteq ToSet(ingested)
  BY <1>2 DEF AbstractSealed
<1>6. UNION AbstractDelivered \subseteq ToSet(ingested)
  BY <1>3 DEF AbstractDelivered
<1> QED
  BY <1>4, <1>5, <1>6 DEF AbstractKnown

LEMMA IngestAccepts ==
  ASSUME HandoverInv, NEW ev \in Event, Ingest(ev)
  PROVE  /\ ev.group \in Group /\ ev \notin AbstractKnown
         /\ AbstractOpen' = [AbstractOpen EXCEPT ![ev.group] = @ \cup {ev}]
         /\ AbstractSealed' = AbstractSealed /\ AbstractDelivered' = AbstractDelivered
<1> DEFINE g == ev.group
<1>1. /\ g \in Group /\ ev \notin ToSet(ingested)
      /\ buckets'[g] = AppendTo(buckets[g], ev)
      /\ \A h \in Group \ {g} : buckets'[h] = buckets[h]
      /\ UNCHANGED <<flushes, handed>>
  BY EventAssumption DEF EventAssumption, HandoverInv, TypeOK, Ingest
<1>2. ev \notin AbstractKnown
  BY <1>1, KnownIngested
<1>3. Events(buckets'[g]) = Events(buckets[g]) \cup {ev}
  BY <1>1, BatchTypes, AppendEvents DEF HandoverInv
<1> HIDE DEF g
<1>4. AbstractOpen' = [AbstractOpen EXCEPT ![g] = @ \cup {ev}]
  BY <1>1, <1>3 DEF AbstractOpen
<1>5. AbstractSealed' = AbstractSealed /\ AbstractDelivered' = AbstractDelivered
  BY <1>1 DEF AbstractSealed, AbstractDelivered
<1> QED
  BY <1>1, <1>2, <1>4, <1>5 DEF g

LEMMA SealSeals ==
  ASSUME HandoverInv, NEW c \in callbacks, SealBatch(c)
  PROVE  /\ c.group \in Group /\ AbstractOpen[c.group] # {}
         /\ AbstractSealed' = AbstractSealed \cup {AbstractOpen[c.group]}
         /\ AbstractOpen' = [AbstractOpen EXCEPT ![c.group] = {}]
         /\ AbstractDelivered' = AbstractDelivered
<1> DEFINE g == c.group
<1>1. PICK order \in SetToSeqs(TriggersIn(buckets[g])) :
        flushes' = flushes \cup {NewFlush(g, order)}
  BY DEF SealBatch
<1>2. g \in Group /\ buckets[g] \in [Trigger -> Seq(Event)]
  BY DEF HandoverInv, TypeOK
<1>3. /\ buckets'[g] = EmptyBatch /\ \A h \in Group \ {g} : buckets'[h] = buckets[h]
      /\ UNCHANGED handed /\ buckets[g] # EmptyBatch
  BY <1>2 DEF HandoverInv, TypeOK, SealBatch, BucketsAfterSeal, Stale, IsOpen
<1>4. Events(EmptyBatch) = {}
  BY DEF Events, EmptyBatch, ToSet
<1>5. Remaining(NewFlush(g, order)) = Events(buckets[g])
  BY DEF Remaining, NewFlush
<1>6. Events(buckets[g]) # {}
  <2>1. PICK t \in Trigger : buckets[g][t] # <<>>
    BY <1>2, <1>3 DEF EmptyBatch
  <2>2. Len(buckets[g][t]) \in Nat \ {0}
    BY <1>2, <2>1, EmptySeq
  <2>3. 1 \in 1 .. Len(buckets[g][t])
    BY <2>2
  <2>4. \E u \in Trigger : \E i \in 1 .. Len(buckets[g][u]) : buckets[g][t][1] = buckets[g][u][i]
    BY <2>1, <2>3
  <2>5. buckets[g][t][1] \in Events(buckets[g])
    BY <1>2, <2>4, EventsMember
  <2> QED
    BY <2>5
<1> HIDE DEF g
<1>7. AbstractOpen' = [AbstractOpen EXCEPT ![g] = {}] /\ AbstractOpen[g] = Events(buckets[g])
  <2>1. AbstractOpen[g] = Events(buckets[g])
    BY <1>2 DEF AbstractOpen
  <2>2. AbstractOpen' = [h \in Group |-> Events(buckets'[h])]
    BY DEF AbstractOpen
  <2>3. \A h \in Group \ {g} : Events(buckets'[h]) = AbstractOpen[h]
    BY <1>3 DEF AbstractOpen
  <2>4. Events(buckets'[g]) = {}
    BY <1>3, <1>4
  <2>5. [AbstractOpen EXCEPT ![g] = {}] = [h \in Group |-> IF h = g THEN {} ELSE AbstractOpen[h]]
    BY DEF AbstractOpen
  <2>6. \A h \in Group : Events(buckets'[h]) = IF h = g THEN {} ELSE AbstractOpen[h]
    BY <2>3, <2>4
  <2> QED
    BY <2>1, <2>2, <2>5, <2>6
<1>8. AbstractSealed' = AbstractSealed \cup {Events(buckets[g])}
  BY <1>1, <1>5, <1>6 DEF AbstractSealed
<1>9. AbstractDelivered' = AbstractDelivered
  BY <1>3 DEF AbstractDelivered
<1> QED
  BY <1>2, <1>6, <1>7, <1>8, <1>9 DEF g

Part(batch, ev) == {e \in batch : SessionKeyOf(e) = SessionKeyOf(ev)}

LEMMA CallDelivers ==
  ASSUME HandoverInv, HandoverInv', NEW f \in flushes, NEW key \in SessionKeys, CallUpsert(f, key)
  PROVE  \E batch \in AbstractSealed : \E ev \in batch :
           /\ ev.group \in Group
           /\ AbstractDelivered' = AbstractDelivered \cup {Part(batch, ev)}
           /\ AbstractSealed' = (AbstractSealed \ {batch}) \cup ({batch \ Part(batch, ev)} \ {{}})
           /\ AbstractOpen' = AbstractOpen
<1> DEFINE now == [f EXCEPT !.calling = {key}]
           h == Call(f, key)
           batch == Remaining(f)
<1>1. /\ f.calling = {} /\ key \in f.todo
      /\ flushes' = (flushes \ {f}) \cup {now} /\ handed' = handed \cup {h}
      /\ UNCHANGED buckets
  BY DEF CallUpsert
<1>2. /\ now.buckets = f.buckets /\ now.todo = f.todo /\ now.calling = {key}
      /\ h.key = key /\ h.buckets = f.buckets
  BY DEF HandoverInv, TypeOK, Call
<1> HIDE DEF now, h
<1>3. PICK ev \in Events(f.buckets) : SessionKeyOf(ev) = key
  BY <1>1 DEF HandoverInv, FlushInv
<1>4. ev \in batch /\ ev.group \in Group
  BY <1>1, <1>3, HeldIngested, BatchTypes DEF HandoverInv, Remaining
<1>5. Part(batch, ev) = EventsOf(f, key)
  BY <1>1, <1>3 DEF Part, EventsOf, Remaining
<1>6. ToSet(Slice(h)) = EventsOf(f, key)
  <2>1. h \in handed'
    BY <1>1
  <2>2. ToSet(Slice(h)) = EventsOf(h, h.key)
    <3>1. Covers(h) /\ h.buckets \in [Trigger -> Seq(Event)] /\ h.order \in Seq(Trigger)
      BY <2>1 DEF HandoverInv, FlushInv, TypeOK
    <3> QED
      BY <3>1, SliceProperties DEF Slice
  <2> QED
    BY <1>2, <2>2 DEF EventsOf
<1>7. AbstractDelivered' = AbstractDelivered \cup {Part(batch, ev)}
  BY <1>1, <1>5, <1>6 DEF AbstractDelivered
<1>8. Remaining(now) = batch \ Part(batch, ev)
  BY <1>1, <1>2, <1>3 DEF Remaining, Part
<1>9. \A i \in flushes \ {f} : Remaining(i) # batch
  <2>1. ev \in ToSet(ingested) /\ f \in Flushing(ev)
    BY <1>3, <1>4, HeldIngested DEF HandoverInv, Flushing
  <2>2. \A i \in Flushing(ev) : i = f
    BY <2>1 DEF HandoverInv, PlacesInv
  <2> QED
    BY <1>4, <2>2 DEF Flushing
<1>10. batch \in AbstractSealed
  BY <1>4 DEF AbstractSealed
<1> HIDE DEF batch
<1>11. AbstractSealed' = (AbstractSealed \ {batch}) \cup ({batch \ Part(batch, ev)} \ {{}})
  BY <1>1, <1>8, <1>9 DEF AbstractSealed, batch
<1>12. AbstractOpen' = AbstractOpen
  BY <1>1 DEF AbstractOpen
<1> QED
  BY <1>4, <1>7, <1>10, <1>11, <1>12

LEMMA ReturnStutters ==
  ASSUME HandoverInv, NEW f \in flushes, ReturnUpsert(f)
  PROVE  UNCHANGED <<AbstractOpen, AbstractSealed, AbstractDelivered>>
<1> DEFINE left == f.todo \ f.calling
           now == [f EXCEPT !.todo = left, !.calling = {}]
           after == IF left = {} THEN {} ELSE {now}
<1>1. flushes' = (flushes \ {f}) \cup after /\ UNCHANGED <<buckets, handed>>
  BY DEF ReturnUpsert
<1>2. now.buckets = f.buckets /\ now.todo = left /\ now.calling = {}
  BY DEF HandoverInv, TypeOK
<1>3. after \subseteq {now} /\ (after = {} => left = {})
  OBVIOUS
<1> HIDE DEF now, after
<1>4. Remaining(now) = Remaining(f)
  BY <1>2 DEF Remaining
<1>5. left = {} => Remaining(f) = {}
  BY DEF Remaining
<1>6. AbstractSealed' = AbstractSealed
  BY <1>1, <1>3, <1>4, <1>5 DEF AbstractSealed
<1> QED
  BY <1>1, <1>6 DEF AbstractOpen, AbstractDelivered

\* Every step of the engine is one that Batching allows, or none of its
\* concern: what the engine does to timers, generations and goroutines amounts
\* to accepting events, sealing batches whole and handing over their parts.
THEOREM EngineImplementsBatching == Spec => Abstract!Init /\ [][Abstract!Next]_(Abstract!vars)
<1>1. ASSUME Init
      PROVE  Abstract!Init
  <2>1. Events(EmptyBatch) = {}
    BY DEF Events, EmptyBatch, ToSet
  <2> QED
    BY <1>1, <2>1 DEF Init, Abstract!Init
<1>2. ASSUME HandoverInv, HandoverInv', [Next]_vars
      PROVE  [Abstract!Next]_(Abstract!vars)
  <2>1. ASSUME NEW ev \in Event, Ingest(ev)
        PROVE  Abstract!Next
    <3>1. Abstract!Accept(ev.group, ev)
      BY <1>2, <2>1, IngestAccepts
         DEF Abstract!Accept, Abstract!Known, AbstractOpen, AbstractSealed, AbstractDelivered, AbstractKnown
    <3> QED
      BY <1>2, <2>1, <3>1, IngestAccepts DEF Abstract!Next
  <2>2. ASSUME NEW c \in callbacks, SealBatch(c)
        PROVE  Abstract!Next
    <3>1. Abstract!Seal(c.group)
      BY <1>2, <2>2, SealSeals DEF Abstract!Seal, AbstractOpen, AbstractSealed, AbstractDelivered
    <3> QED
      BY <1>2, <2>2, <3>1, SealSeals DEF Abstract!Next
  <2>3. ASSUME NEW f \in flushes, NEW key \in SessionKeys, CallUpsert(f, key)
        PROVE  Abstract!Next
    <3>1. PICK batch \in AbstractSealed : \E ev \in batch :
           /\ ev.group \in Group
           /\ AbstractDelivered' = AbstractDelivered \cup {Part(batch, ev)}
           /\ AbstractSealed' = (AbstractSealed \ {batch}) \cup ({batch \ Part(batch, ev)} \ {{}})
           /\ AbstractOpen' = AbstractOpen
      BY <1>2, <2>3, CallDelivers
    <3>2. PICK ev \in batch :
           /\ ev.group \in Group
           /\ AbstractDelivered' = AbstractDelivered \cup {Part(batch, ev)}
           /\ AbstractSealed' = (AbstractSealed \ {batch}) \cup ({batch \ Part(batch, ev)} \ {{}})
           /\ AbstractOpen' = AbstractOpen
      BY <3>1
    <3>3. Abstract!Deliver(batch, ev)
      BY <3>2 DEF Abstract!Deliver, Abstract!Part, Part, AbstractOpen, AbstractSealed, AbstractDelivered
    <3>4. Abstract!DeliverSome(ev.group)
      BY <3>1, <3>2, <3>3 DEF Abstract!DeliverSome, AbstractSealed
    <3> QED
      BY <3>2, <3>4 DEF Abstract!Next
  <2>4. ASSUME UNCHANGED <<AbstractOpen, AbstractSealed, AbstractDelivered>>
        PROVE  UNCHANGED Abstract!vars
    BY <2>4 DEF Abstract!vars, AbstractOpen, AbstractSealed, AbstractDelivered
  <2>5. ASSUME NEW f \in flushes, ReturnUpsert(f)
        PROVE  UNCHANGED Abstract!vars
    BY <1>2, <2>4, <2>5, ReturnStutters
  <2>6. CASE UNCHANGED <<buckets, flushes, handed>>
    BY <2>4, <2>6 DEF AbstractOpen, AbstractSealed, AbstractDelivered
  <2>7. \/ \E t \in timers : Expire(t)
        \/ \E c \in callbacks : DropStale(c)
        \/ Tick \/ UNCHANGED vars
        => UNCHANGED <<buckets, flushes, handed>>
    BY DEF Expire, DropStale, Tick, PassTime, vars
  <2> QED
    BY <1>2, <2>1, <2>2, <2>3, <2>5, <2>6, <2>7 DEF Next, onTimerFire
<1> QED
  BY <1>1, <1>2, HandoverInvariant, PTL DEF Spec

-----------------------------------------------------------------------------
(* The aggregator runs the engine.                                         *)

\* Time that passes while no batch is open, for sessions to age, is nothing
\* to the engine: it has no timers then.
LEMMA IdleClock ==
  ASSUME TimerInvariant, PassTime
  PROVE  [Next]_vars
<1>1. CASE \E g \in Group : IsOpen(g)
  BY <1>1 DEF Next, Tick
<1>2. CASE \A g \in Group : ~ IsOpen(g)
  <2>1. timers = {}
    BY <1>2 DEF TimerInvariant, TypeOK, NoOrphanTimers, Timer
  <2>2. timers' = timers
    BY <2>1 DEF PassTime
  <2>3. age' = age /\ quiet' = quiet
    BY <1>2 DEF TimerInvariant, TypeOK, PassTime
  <2> QED
    BY <2>2, <2>3 DEF PassTime, vars
<1> QED
  BY <1>1, <1>2

LEMMA AggregatorStep ==
  ASSUME TimerInvariant, [AggNext]_allVars
  PROVE  [Next]_vars
<1>1. CASE EngineStep
  BY <1>1 DEF EngineStep, Next, onTimerFire
<1>2. CASE UpsertBegins
  <2>1. PICK f \in flushes, key \in SessionKeys : CallUpsert(f, key)
    BY <1>2 DEF UpsertBegins
  <2> QED
    BY <2>1 DEF Next
<1>3. CASE PublisherStep
  <2>1. UNCHANGED vars
    BY <1>3 DEF PublisherStep
  <2> QED
    BY <2>1
<1>4. CASE UpsertReturns
  <2>1. PICK f \in flushes : ReturnUpsert(f)
    BY <1>4 DEF UpsertReturns
  <2> QED
    BY <2>1 DEF Next
<1>5. CASE Clock
  <2>1. PassTime
    BY <1>5 DEF Clock
  <2> QED
    BY <2>1, IdleClock
<1>6. CASE UNCHANGED allVars
  BY <1>6 DEF allVars
<1> QED
  BY <1>1, <1>2, <1>3, <1>4, <1>5, <1>6 DEF AggNext

\* What the publisher does, and how long its calls take, never makes the
\* engine do anything else than it does by itself: all that is proved of
\* Engine holds in the aggregator (Engine.flush calls Upsert outside e.mu).
THEOREM AggregatorImplementsEngine == AggSpec => Spec
<1>1. AggInit => Init /\ TimerInvariant
  BY InitTimerInvariant DEF AggInit
<1>2. TimerInvariant /\ [AggNext]_allVars => TimerInvariant' /\ [Next]_vars
  BY AggregatorStep, TimerInvariantStep
<1> QED
  BY <1>1, <1>2, PTL DEF AggSpec, Spec

-----------------------------------------------------------------------------
(* What a batch leaves in the perApp map of a session.                     *)

LEMMA LargestWrite ==
  ASSUME NEW n \in Nat, NEW W \in SUBSET (1 .. n), W # {}
  PROVE  SP!Max(W) \in W /\ \A x \in W : x <= SP!Max(W)
<1>1. SP!Max(W) = Max(W)
  BY DEF SP!Max, Max
<1> QED
  BY <1>1, LargestIndex

\* A duplicate has the hash of the event of its app before it, or of the
\* entry of its app if it is the first.
LEMMA DuplicateHash ==
  ASSUME NEW S, NEW events \in Seq(S), NEW perApp, NEW i \in SP!Duplicates(perApp, events)
  PROVE  /\ i \in 1 .. Len(events)
         /\ \/ \E j \in 1 .. Len(events) :
                 /\ j < i /\ events[j].app = events[i].app
                 /\ \A l \in 1 .. Len(events) : l < i /\ events[l].app = events[i].app => l <= j
                 /\ SP!contentHash(events[i]) = SP!contentHash(events[j])
            \/ /\ \A j \in 1 .. Len(events) : j < i => events[j].app # events[i].app
               /\ events[i].app \in DOMAIN perApp
               /\ SP!contentHash(events[i]) = SP!contentHash(perApp[events[i].app])
<1> DEFINE app == events[i].app
           earlier == {j \in 1 .. i - 1 : events[j].app = app}
<1>1. /\ i \in 1 .. Len(events) /\ Len(events) \in Nat
      /\ SP!contentHash(events[i]) \in SP!Prior(perApp, events, i)
  BY LenProperties DEF SP!Duplicates
<1>2. \A j \in 1 .. Len(events) : j < i <=> j \in 1 .. i - 1
  BY <1>1
<1>3. earlier \in SUBSET (1 .. Len(events))
  BY <1>1
<1>4. SP!Prior(perApp, events, i) =
        IF earlier # {} THEN {SP!contentHash(events[SP!Max(earlier)])}
        ELSE IF app \in DOMAIN perApp THEN {SP!contentHash(perApp[app])}
        ELSE {}
  BY DEF SP!Prior
<1>5. CASE earlier # {}
  <2>1. SP!Max(earlier) \in earlier /\ \A l \in earlier : l <= SP!Max(earlier)
    BY <1>1, <1>3, <1>5, LargestWrite
  <2>2. SP!contentHash(events[i]) = SP!contentHash(events[SP!Max(earlier)])
    BY <1>1, <1>4, <1>5
  <2>3. PICK j : j = SP!Max(earlier)
    OBVIOUS
  <2>4. j \in 1 .. Len(events) /\ j < i /\ events[j].app = app
    BY <1>1, <2>1, <2>3
  <2>5. \A l \in 1 .. Len(events) : l < i /\ events[l].app = app => l <= j
    BY <1>2, <2>1, <2>3
  <2> QED
    BY <1>1, <2>2, <2>3, <2>4, <2>5
<1>6. CASE earlier = {}
  <2>1. \A j \in 1 .. Len(events) : j < i => events[j].app # app
    BY <1>2, <1>6
  <2>2. app \in DOMAIN perApp /\ SP!contentHash(events[i]) = SP!contentHash(perApp[app])
    BY <1>1, <1>4, <1>6
  <2> QED
    BY <1>1, <2>1, <2>2
<1> QED
  BY <1>5, <1>6

\* The entry of an app has the hash of the last event of it, be that one a
\* duplicate or not; an app without an event keeps its entry.
LEMMA LastWriteHash ==
  ASSUME NEW S, NEW events \in Seq(S), NEW perApp, NEW after,
         after = SP!LastWrite(perApp, events)
  PROVE  /\ \A m \in 1 .. Len(events) :
              (\A i \in 1 .. Len(events) : events[i].app = events[m].app => i <= m) =>
                SP!contentHash(after[events[m].app]) = SP!contentHash(events[m])
         /\ \A a \in DOMAIN after :
              \/ \E i \in 1 .. Len(events) : events[i].app = a
              \/ a \in DOMAIN perApp /\ after[a] = perApp[a]
<1> DEFINE Writes(a) == {i \in DOMAIN events \ SP!Duplicates(perApp, events) : events[i].app = a}
<1>1. Len(events) \in Nat /\ DOMAIN events = 1 .. Len(events)
  BY LenProperties
<1>2. after = [a \in DOMAIN perApp \cup {events[i].app : i \in DOMAIN events} |->
                 IF Writes(a) = {} THEN perApp[a] ELSE events[SP!Max(Writes(a))]]
  BY DEF SP!LastWrite
<1>3. ASSUME NEW m \in 1 .. Len(events),
             \A i \in 1 .. Len(events) : events[i].app = events[m].app => i <= m
      PROVE  SP!contentHash(after[events[m].app]) = SP!contentHash(events[m])
  <2>1. PICK a : a = events[m].app
    OBVIOUS
  <2>2. after[a] = IF Writes(a) = {} THEN perApp[a] ELSE events[SP!Max(Writes(a))]
    BY <1>1, <1>2, <2>1
  <2>3. PICK first \in Nat :
          /\ \A i \in 1 .. Len(events) : events[i].app = a /\ i > first =>
               i \in SP!Duplicates(perApp, events)
          /\ \/ first = 0 /\ after[a] = perApp[a]
             \/ first \in 1 .. Len(events) /\ events[first].app = a /\ after[a] = events[first]
    <3>1. CASE Writes(a) = {}
      <4>1. \A i \in 1 .. Len(events) : events[i].app = a => i \in SP!Duplicates(perApp, events)
        BY <1>1, <3>1
      <4> QED
        BY <2>2, <3>1, <4>1
    <3>2. CASE Writes(a) # {}
      <4>1. Writes(a) \in SUBSET (1 .. Len(events))
        BY <1>1
      <4>2. PICK w : w = SP!Max(Writes(a))
        OBVIOUS
      <4>3. w \in Writes(a) /\ \A x \in Writes(a) : x <= w
        BY <1>1, <3>2, <4>1, <4>2, LargestWrite
      <4>4. w \in 1 .. Len(events) /\ events[w].app = a /\ after[a] = events[w] /\ w \in Nat
        BY <1>1, <2>2, <3>2, <4>2, <4>3
      <4>5. ASSUME NEW i \in 1 .. Len(events), events[i].app = a, i > w
            PROVE  i \in SP!Duplicates(perApp, events)
        <5>1. i \notin Writes(a)
          BY <4>3, <4>4, <4>5
        <5> QED
          BY <1>1, <4>5, <5>1
      <4> QED
        BY <4>4, <4>5
    <3> QED
      BY <3>1, <3>2
  <2> HIDE DEF Writes
  <2> DEFINE Off == {i \in 1 .. Len(events) :
                       /\ events[i].app = a /\ i >= first
                       /\ SP!contentHash(events[i]) # SP!contentHash(after[a])}
  <2>4. Off = {}
    <3> SUFFICES ASSUME Off # {}
                 PROVE  FALSE
      OBVIOUS
    <3>1. PICK i \in Off : \A j \in Off : i <= j
      <4>1. Off \in SUBSET Nat
        BY <1>1
      <4> HIDE DEF Off
      <4> QED
        BY <4>1, LeastNatural
    <3>2. /\ i \in 1 .. Len(events) /\ events[i].app = a /\ i >= first
          /\ SP!contentHash(events[i]) # SP!contentHash(after[a])
      BY <3>1
    <3>3. i > first
      BY <2>3, <3>2
    <3>4. i \in SP!Duplicates(perApp, events)
      BY <2>3, <3>2, <3>3
    <3>5. CASE \E j \in 1 .. Len(events) :
                 /\ j < i /\ events[j].app = events[i].app
                 /\ \A l \in 1 .. Len(events) : l < i /\ events[l].app = events[i].app => l <= j
                 /\ SP!contentHash(events[i]) = SP!contentHash(events[j])
      <4>1. PICK j \in 1 .. Len(events) :
              /\ j < i /\ events[j].app = a
              /\ \A l \in 1 .. Len(events) : l < i /\ events[l].app = a => l <= j
              /\ SP!contentHash(events[i]) = SP!contentHash(events[j])
        BY <3>2, <3>5
      <4>2. j >= first
        BY <2>3, <3>3, <4>1
      <4>3. j \in Off
        BY <3>2, <4>1, <4>2
      <4> QED
        BY <1>1, <3>1, <3>2, <4>1, <4>3
    <3>6. CASE /\ \A j \in 1 .. Len(events) : j < i => events[j].app # events[i].app
               /\ SP!contentHash(events[i]) = SP!contentHash(perApp[events[i].app])
      <4>1. first = 0 /\ after[a] = perApp[a]
        BY <2>3, <3>2, <3>3, <3>6
      <4> QED
        BY <3>2, <3>6, <4>1
    <3> QED
      BY <3>4, <3>5, <3>6, DuplicateHash
  <2>5. first <= m
    BY <1>3, <2>1, <2>3
  <2> QED
    BY <2>1, <2>4, <2>5
<1>4. ASSUME NEW a \in DOMAIN after
      PROVE  \/ \E i \in 1 .. Len(events) : events[i].app = a
             \/ a \in DOMAIN perApp /\ after[a] = perApp[a]
  <2>1. CASE \A i \in 1 .. Len(events) : events[i].app # a
    <3>1. Writes(a) = {} /\ a \in DOMAIN perApp
      BY <1>1, <1>2, <2>1
    <3> QED
      BY <1>2, <3>1
  <2> QED
    BY <2>1
<1> QED
  BY <1>3, <1>4

-----------------------------------------------------------------------------
(* What two Upserts of a session get, in the order in which they begin.    *)

\* A generation of a group is sealed once.
SealedOnce ==
  \A x, y \in Sealed : x.group = y.group /\ x.gen = y.gen => x.buckets = y.buckets

LEMMA SealSealedOnce ==
  ASSUME HandoverInv, SealedOnce, NEW c \in callbacks, SealBatch(c)
  PROVE  SealedOnce'
<1>1. PICK order : /\ flushes' = flushes \cup {NewFlush(c.group, order)}
                   /\ handed' = handed
  BY DEF SealBatch
<1>2. PICK n : n = [group |-> c.group, gen |-> generation[c.group], buckets |-> buckets[c.group]]
  OBVIOUS
<1>3. \A x \in Sealed' : x \in Sealed \/ x = n
  BY <1>1, <1>2 DEF Sealed, NewFlush
<1>4. ASSUME NEW x \in Sealed, x.group = n.group
      PROVE  x.gen # n.gen
  <2>1. x.gen < generation[x.group] /\ x.gen \in Nat /\ generation[x.group] \in Nat
    BY BatchTypes DEF HandoverInv, ArrivalInv
  <2> QED
    BY <1>2, <1>4, <2>1
<1> QED
  BY <1>3, <1>4 DEF SealedOnce

\* A flush that hands something over is of the group of its session.
LEMMA FlushKey ==
  ASSUME HandoverInv, NEW f \in flushes, NEW key \in f.todo
  PROVE  key.group = f.group
<1>1. PICK ev \in Events(f.buckets) : key = SessionKeyOf(ev)
  BY DEF HandoverInv, FlushInv
<1> QED
  BY <1>1, KeyGroup, HeldIngested DEF HandoverInv

LEMMA CallSealedOnce ==
  ASSUME HandoverInv, SealedOnce, NEW f \in flushes, NEW key \in SessionKeys, CallUpsert(f, key)
  PROVE  SealedOnce'
<1>1. PICK now : now = [f EXCEPT !.calling = {key}]
  OBVIOUS
<1>2. /\ key \in f.todo
      /\ flushes' = (flushes \ {f}) \cup {now}
      /\ handed' = handed \cup {Call(f, key)}
  BY <1>1 DEF CallUpsert
<1>3. now.group = f.group /\ now.gen = f.gen /\ now.buckets = f.buckets
  BY <1>1 DEF HandoverInv, TypeOK
<1>4. PICK h : h = Call(f, key)
  OBVIOUS
<1>5. h.key.group = f.group /\ h.gen = f.gen /\ h.buckets = f.buckets
  BY <1>2, <1>4, FlushKey DEF Call
<1>6. \A x \in Sealed' : x \in Sealed
  BY <1>2, <1>3, <1>4, <1>5 DEF Sealed
<1> QED
  BY <1>6 DEF SealedOnce

LEMMA ReturnSealedOnce ==
  ASSUME HandoverInv, SealedOnce, NEW f \in flushes, ReturnUpsert(f)
  PROVE  SealedOnce'
<1>1. PICK now : now = [f EXCEPT !.todo = f.todo \ f.calling, !.calling = {}]
  OBVIOUS
<1>2. flushes' \subseteq (flushes \ {f}) \cup {now} /\ handed' = handed
  BY <1>1 DEF ReturnUpsert
<1>3. now.group = f.group /\ now.gen = f.gen /\ now.buckets = f.buckets
  BY <1>1 DEF HandoverInv, TypeOK
<1>4. \A x \in Sealed' : x \in Sealed
  BY <1>2, <1>3 DEF Sealed
<1> QED
  BY <1>4 DEF SealedOnce

LEMMA SealedOnceStep ==
  ASSUME HandoverInv, SealedOnce, [AggNext]_allVars
  PROVE  SealedOnce'
<1>1. ASSUME UNCHANGED <<flushes, handed>>
      PROVE  SealedOnce'
  BY <1>1 DEF SealedOnce, Sealed
<1>2. CASE EngineStep
  <2>1. \/ \E ev \in Event : Ingest(ev)
        \/ \E t \in timers : Expire(t)
        \/ \E c \in callbacks : DropStale(c)
        => UNCHANGED <<flushes, handed>>
    BY DEF Ingest, Expire, DropStale
  <2> QED
    BY <1>1, <1>2, <2>1, SealSealedOnce DEF EngineStep, onTimerFire
<1>3. CASE UpsertBegins
  <2>1. PICK f \in flushes, key \in SessionKeys : CallUpsert(f, key)
    BY <1>3 DEF UpsertBegins
  <2> QED
    BY <2>1, CallSealedOnce
<1>4. CASE PublisherStep \/ UNCHANGED allVars
  BY <1>1, <1>4 DEF PublisherStep, vars, allVars
<1>5. CASE UpsertReturns
  <2>1. PICK f \in flushes : ReturnUpsert(f)
    BY <1>5 DEF UpsertReturns
  <2> QED
    BY <2>1, ReturnSealedOnce
<1>6. CASE Clock
  BY <1>1, <1>6 DEF Clock, PassTime
<1> QED
  BY <1>2, <1>3, <1>4, <1>5, <1>6 DEF AggNext

-----------------------------------------------------------------------------
(* The perApp maps of the sessions.                                        *)

SessionShape ==
  /\ DOMAIN session = SessionKeys
  /\ \A k \in SessionKeys : DOMAIN session[k] = {"inc", "perApp", "refs", "idle"}

KnownEvent(k, a, ev) == ev \in ToSet(ingested) /\ SessionKeyOf(ev) = k /\ ev.app = a

\* No event of the app has been handed over to the session after this one.
LastHanded(k, a, ev) ==
  /\ KnownEvent(k, a, ev)
  /\ \A h \in handed : h.key = k =>
       \A e \in EventsOf(h, k) : e.app = a => e = ev \/ Before(ingested, e, ev)

\* The entries of a session are of ingested events, and have the hashes of the
\* last events handed over unless these were reordered.
PublishedInv ==
  \A k \in SessionKeys : \A a \in DOMAIN session[k].perApp :
    \E ev : /\ KnownEvent(k, a, ev)
            /\ \/ Reordered(k, a)
               \/ /\ LastHanded(k, a, ev)
                  /\ SP!contentHash(session[k].perApp[a]) = SP!contentHash(ev)

\* Only the first critical section of Upsert writes to perApp.
LEMMA PerAppKept ==
  ASSUME SessionShape,
         PublisherStep \/ Clock \/ UNCHANGED session \/ \E c \in calls : SP!Return(c)
  PROVE  /\ SessionShape'
         /\ \A k \in SessionKeys : session'[k].perApp = session[k].perApp
<1>1. CASE UNCHANGED session
  BY <1>1 DEF SessionShape
<1>2. ASSUME NEW c \in calls, SP!MergeRefs(c)
      PROVE  /\ SessionShape'
             /\ \A k \in SessionKeys : session'[k].perApp = session[k].perApp
  <2>1. session' = SP!MergedSession(c)
    BY <1>2 DEF SP!MergeRefs
  <2>2. CASE SP!StillCurrent(c)
    <3>1. session' = [session EXCEPT ![c.batch.key].refs = SP!Merged(@, c.newRefs)]
      BY <2>1, <2>2 DEF SP!MergedSession
    <3>2. PICK refs : session' = [session EXCEPT ![c.batch.key].refs = refs]
      BY <3>1
    <3> QED
      BY <3>2 DEF SessionShape
  <2>3. CASE ~ SP!StillCurrent(c)
    BY <1>1, <2>1, <2>3 DEF SP!MergedSession
  <2> QED
    BY <2>2, <2>3
<1>3. CASE Clock
  <2>1. session' = SP!AgedSessions
    BY <1>3 DEF Clock
  <2>2. session' = [k \in SessionKeys |->
                      IF session[k].inc > 0 /\ session[k].idle <= SessionTTL
                      THEN [session[k] EXCEPT !.idle = @ + 1] ELSE session[k]]
    BY <2>1 DEF SP!AgedSessions
  <2> QED
    BY <2>2 DEF SessionShape
<1>4. CASE \E c \in calls : SP!Return(c)
  BY <1>1, <1>4 DEF SP!Return
<1>5. CASE PublisherStep
  <2>1. ASSUME NEW c \in calls, NEW d \in Dest, SP!Skip(c, d) \/ SP!Send(c, d)
        PROVE  UNCHANGED session
    BY <2>1 DEF SP!Skip, SP!Send
  <2>2. ASSUME NEW c \in calls, SP!Apply(c) \/ SP!Answer(c)
        PROVE  UNCHANGED session
    <3>1. SP!Apply(c) => UNCHANGED session
      BY Zenon DEF SP!Apply
    <3>2. SP!Answer(c) => UNCHANGED session
      BY Zenon DEF SP!Answer
    <3> QED
      BY <2>2, <3>1, <3>2
  <2>3. ASSUME NEW c \in calls, NEW r \in c.replies, SP!Reply(c, r)
        PROVE  UNCHANGED session
    BY <2>3 DEF SP!Reply
  <2> QED
    BY <1>1, <1>2, <1>5, <2>1, <2>2, <2>3 DEF PublisherStep
<1> QED
  BY <1>1, <1>3, <1>4, <1>5

LEMMA ReorderedStays ==
  ASSUME \A h \in handed : h \in handed', \A x \in overtaken : x \in overtaken',
         \A e, ev : Before(ingested, e, ev) => Before(ingested', e, ev)
  PROVE  \A k, a : Reordered(k, a) => Reordered(k, a)'
<1>1. \A e, ev : ArrivedBefore(e, ev) => ArrivedBefore(e, ev)'
  BY DEF ArrivedBefore, Before
<1>2. ASSUME NEW k, NEW a, Shuffled(k, a)
      PROVE  Shuffled(k, a)'
  <2>1. PICK h \in handed : \E i, j \in DOMAIN Slice(h) :
          /\ h.key = k /\ i < j
          /\ Slice(h)[i].app = a /\ Slice(h)[j].app = a
          /\ ArrivedBefore(Slice(h)[j], Slice(h)[i])
    BY <1>2 DEF Shuffled
  <2> QED
    BY <1>1, <2>1 DEF Shuffled, Slice
<1> QED
  BY <1>2 DEF Reordered

LEMMA PublishedStays ==
  ASSUME PublishedInv, handed' = handed, overtaken' = overtaken,
         \A k \in SessionKeys : session'[k].perApp = session[k].perApp,
         \A ev \in ToSet(ingested) : ev \in ToSet(ingested'),
         \A e, ev : Before(ingested, e, ev) => Before(ingested', e, ev)
  PROVE  PublishedInv'
<1>1. ASSUME NEW k, NEW a, NEW ev
      PROVE  /\ KnownEvent(k, a, ev) => KnownEvent(k, a, ev)'
             /\ LastHanded(k, a, ev) => LastHanded(k, a, ev)'
  BY <1>1 DEF LastHanded, KnownEvent
<1>2. \A k, a : Reordered(k, a) => Reordered(k, a)'
  BY ReorderedStays
<1> QED
  BY <1>1, <1>2 DEF PublishedInv

\* What an Upsert does to the perApp map of its session; a session that has
\* expired is begun anew.
LEMMA BeginWrites ==
  ASSUME SessionShape, NEW f, NEW key \in SessionKeys, SP!BeginUpsert(UpsertOf(f, key))
  PROVE  /\ SessionShape'
         /\ \A k \in SessionKeys \ {key} : session'[k] = session[k]
         /\ \E perApp : /\ perApp = session[key].perApp \/ DOMAIN perApp = {}
                        /\ session'[key].perApp = SP!LastWrite(perApp, EventsFor(f, key))
<1>1. PICK b : b = UpsertOf(f, key)
  OBVIOUS
<1>2. b.key = key /\ b.events = EventsFor(f, key)
  BY <1>1 DEF UpsertOf
<1>3. PICK st : st = SP!SessionFor(key)
  OBVIOUS
<1>4. PICK after : after = SP!LastWrite(st.perApp, b.events)
  OBVIOUS
<1>5. session' = [session EXCEPT ![key] = [st EXCEPT !.perApp = after, !.idle = 0]]
  BY <1>1, <1>2, <1>3, <1>4 DEF SP!BeginUpsert
<1>6. /\ DOMAIN st = {"inc", "perApp", "refs", "idle"}
      /\ st.perApp = session[key].perApp \/ DOMAIN st.perApp = {}
  <2>1. CASE SP!Expired(key)
    <3>1. st = [inc |-> session[key].inc + 1, perApp |-> SP!Empty, refs |-> SP!Empty, idle |-> 0]
      BY <1>3, <2>1 DEF SP!SessionFor
    <3>2. DOMAIN SP!Empty = {}
      BY DEF SP!Empty
    <3> QED
      BY <3>1, <3>2
  <2>2. CASE ~ SP!Expired(key)
    BY <1>3, <2>2 DEF SP!SessionFor, SessionShape
  <2> QED
    BY <2>1, <2>2
<1>7. session'[key].perApp = after
  BY <1>5, <1>6 DEF SessionShape
<1>8. SessionShape'
  BY <1>5, <1>6 DEF SessionShape
<1> QED
  BY <1>2, <1>4, <1>5, <1>6, <1>7, <1>8 DEF SessionShape

\* Of the events that a session has been handed of an app, the last one of a
\* slice in order is the latest, unless a later batch came before this one.
LEMMA HandedInOrder ==
  ASSUME HandoverInv, SealedOnce, NEW f \in flushes, f.calling = {}, NEW key \in f.todo,
         NEW a, a \notin AppsOvertaken(f, key), NEW s, s = EventsFor(f, key),
         \A i, j \in 1 .. Len(s) :
           i < j /\ s[i].app = a /\ s[j].app = a => ~ ArrivedBefore(s[j], s[i]),
         NEW m \in 1 .. Len(s), s[m].app = a,
         \A i \in 1 .. Len(s) : s[i].app = a => i <= m
  PROVE  /\ s[m] \in EventsOf(f, key)
         /\ \A e \in EventsOf(f, key) : e.app = a => e = s[m] \/ Before(ingested, e, s[m])
         /\ \A h \in handed : h.key = key =>
              \A e \in EventsOf(h, key) : e.app = a => e = s[m] \/ Before(ingested, e, s[m])
<1>1. PICK x \in Sealed : x = [group |-> f.group, gen |-> f.gen, buckets |-> f.buckets]
  BY DEF Sealed
<1>2. RunOf(ingested, f.buckets, f.group)
  BY <1>1 DEF HandoverInv, ArrivalInv
<1>3. f.buckets \in [Trigger -> Seq(Event)] /\ f.order \in Seq(Trigger) /\ Covers(f)
  BY BatchTypes DEF HandoverInv, FlushInv
<1>4. s \in Seq(Event) /\ ToSet(s) = EventsOf(f, key)
  BY <1>2, <1>3, SliceOrder DEF HandoverInv, ArrivalInv
<1>5. DOMAIN s = 1 .. Len(s) /\ Len(s) \in Nat /\ \A e : e \in ToSet(s) <=> \E i \in 1 .. Len(s) : s[i] = e
  BY <1>4, LenProperties DEF ToSet
<1>6. s[m] \in EventsOf(f, key)
  BY <1>4, <1>5
<1>7. \A e \in EventsOf(f, key) : e \in ToSet(ingested)
  BY HeldIngested DEF HandoverInv, EventsOf
<1>8. ASSUME NEW e \in EventsOf(f, key), e.app = a
      PROVE  e = s[m] \/ Before(ingested, e, s[m])
  <2>1. PICK i \in 1 .. Len(s) : s[i] = e
    BY <1>4, <1>5
  <2>2. i = m \/ i < m
    BY <1>5, <1>8, <2>1
  <2>3. DOMAIN ingested = 1 .. Len(ingested) /\ Len(ingested) \in Nat
    BY LenProperties DEF HandoverInv, TypeOK
  <2>4. PICK p \in DOMAIN ingested, q \in DOMAIN ingested : ingested[p] = e /\ ingested[q] = s[m]
    BY <1>6, <1>7, <2>3 DEF ToSet
  <2>5. CASE i < m
    <3>1. ~ ArrivedBefore(s[m], e)
      BY <1>8, <2>1, <2>5
    <3>2. ~ (q < p)
      BY <2>4, <3>1 DEF ArrivedBefore
    <3>3. p = q \/ p < q
      BY <2>3, <3>2
    <3> QED
      BY <2>4, <3>3 DEF Before
  <2> QED
    BY <2>1, <2>2, <2>5
<1>9. ASSUME NEW h \in handed, h.key = key, NEW e \in EventsOf(h, key), e.app = a
      PROVE  e = s[m] \/ Before(ingested, e, s[m])
  <2>1. PICK y \in Sealed : y = [group |-> h.key.group, gen |-> h.gen, buckets |-> h.buckets]
    BY DEF Sealed
  <2>2. y.group = x.group /\ y.gen \in Nat /\ x.gen \in Nat
    BY <1>1, <1>9, <2>1, FlushKey, BatchTypes DEF HandoverInv
  <2>3. ~ (h.gen > f.gen)
    <3>1. Slice(h) \in Seq(Event) /\ ToSet(Slice(h)) = EventsOf(h, key)
      BY <1>9, SliceOfCall
    <3>2. a \in AppsIn(Slice(h))
      BY <1>9, <3>1 DEF ToSet, AppsIn
    <3>3. a \in AppsIn(s)
      BY <1>5 DEF AppsIn
    <3> QED
      BY <1>9, <3>2, <3>3 DEF AppsOvertaken
  <2>4. CASE h.gen = f.gen
    <3>1. h.buckets = f.buckets
      BY <1>1, <2>1, <2>2, <2>4 DEF SealedOnce
    <3>2. e \in EventsOf(f, key)
      BY <1>9, <3>1 DEF EventsOf
    <3> QED
      BY <1>8, <1>9, <3>2
  <2>5. CASE h.gen < f.gen
    <3>1. AllBefore(ingested, y.buckets, x.buckets)
      BY <1>1, <2>1, <2>2, <2>5 DEF HandoverInv, ArrivalInv
    <3> QED
      BY <1>1, <1>6, <1>9, <2>1, <3>1 DEF AllBefore, EventsOf
  <2>6. h.gen \in Nat /\ f.gen \in Nat
    BY <1>1, <2>1, <2>2
  <2> QED
    BY <2>3, <2>4, <2>5, <2>6
<1> QED
  BY <1>6, <1>8, <1>9

LEMMA UpsertPublishes ==
  ASSUME HandoverInv, SealedOnce, SessionShape, PublishedInv,
         NEW f \in flushes, NEW key \in SessionKeys,
         CallUpsert(f, key), SP!BeginUpsert(UpsertOf(f, key)),
         overtaken' = overtaken \cup [key : {key}, app : AppsOvertaken(f, key)]
  PROVE  PublishedInv'
<1>1. PICK h : h = Call(f, key)
  OBVIOUS
<1>2. /\ f.calling = {} /\ key \in f.todo
      /\ handed' = handed \cup {h} /\ ingested' = ingested
  BY <1>1 DEF CallUpsert
<1>3. h.key = key /\ EventsOf(h, key) = EventsOf(f, key)
  BY <1>1 DEF Call, EventsOf
<1>4. PICK s : s = EventsFor(f, key)
  OBVIOUS
<1>5. PICK perApp :
        /\ perApp = session[key].perApp \/ DOMAIN perApp = {}
        /\ session'[key].perApp = SP!LastWrite(perApp, s)
  BY <1>4, BeginWrites
<1>6. \A k \in SessionKeys \ {key} : session'[k] = session[k]
  BY BeginWrites
<1>7. s \in Seq(Event) /\ ToSet(s) = EventsOf(f, key)
  <2>1. f.buckets \in [Trigger -> Seq(Event)] /\ f.order \in Seq(Trigger) /\ Covers(f)
    BY BatchTypes DEF HandoverInv, FlushInv
  <2> QED
    BY <1>4, <2>1, SliceProperties
<1>8. DOMAIN s = 1 .. Len(s) /\ Len(s) \in Nat /\ \A e : e \in ToSet(s) <=> \E i \in 1 .. Len(s) : s[i] = e
  BY <1>7, LenProperties DEF ToSet
<1>9. \A e \in EventsOf(f, key) : e \in ToSet(ingested) /\ SessionKeyOf(e) = key
  BY HeldIngested DEF HandoverInv, EventsOf
<1>10. PICK after : after = session'[key].perApp
  OBVIOUS
<1>11. /\ \A m \in 1 .. Len(s) :
            (\A i \in 1 .. Len(s) : s[i].app = s[m].app => i <= m) =>
              SP!contentHash(after[s[m].app]) = SP!contentHash(s[m])
       /\ \A a \in DOMAIN after :
            \/ \E i \in 1 .. Len(s) : s[i].app = a
            \/ a \in DOMAIN perApp /\ after[a] = perApp[a]
  BY <1>5, <1>7, <1>10, LastWriteHash
<1>12. Slice(h) = s
  BY <1>1, <1>4 DEF Slice, Call, EventsFor
<1>13. \A k, a : Reordered(k, a) => Reordered(k, a)'
  BY <1>2, ReorderedStays
<1>14. ASSUME NEW a \in DOMAIN after, NEW n \in 1 .. Len(s), s[n].app = a
       PROVE  \E ev : /\ KnownEvent(key, a, ev)'
                      /\ \/ Reordered(key, a)'
                         \/ LastHanded(key, a, ev)' /\ SP!contentHash(after[a]) = SP!contentHash(ev)
  <2>1. PICK W : W = {i \in 1 .. Len(s) : s[i].app = a}
    OBVIOUS
  <2>2. W \in SUBSET (1 .. Len(s)) /\ W # {}
    BY <1>14, <2>1
  <2>3. PICK m : m = Max(W)
    OBVIOUS
  <2>4. m \in W /\ \A i \in W : i <= m
    BY <1>8, <2>2, <2>3, LargestIndex
  <2>5. m \in 1 .. Len(s) /\ s[m].app = a /\ \A i \in 1 .. Len(s) : s[i].app = a => i <= m
    BY <2>1, <2>4
  <2>6. SP!contentHash(after[a]) = SP!contentHash(s[m])
    BY <1>11, <2>5
  <2>7. s[m] \in EventsOf(f, key)
    BY <1>7, <1>8, <2>5
  <2>8. KnownEvent(key, a, s[m])'
    BY <1>2, <1>9, <2>5, <2>7 DEF KnownEvent
  <2>9. CASE Reordered(key, a)'
    BY <2>8, <2>9
  <2>10. CASE ~ Reordered(key, a)'
    <3>1. a \notin AppsOvertaken(f, key)
      BY <2>10 DEF Reordered
    <3>2. \A i, j \in 1 .. Len(s) :
            i < j /\ s[i].app = a /\ s[j].app = a => ~ ArrivedBefore(s[j], s[i])'
      <4>1. h \in handed'
        BY <1>2
      <4>2. ~ Shuffled(key, a)'
        BY <2>10 DEF Reordered
      <4> QED
        BY <1>3, <1>8, <1>12, <4>1, <4>2 DEF Shuffled, Slice, EventsFor
    <3>3. \A e1, e2 : ArrivedBefore(e1, e2)' <=> ArrivedBefore(e1, e2)
      BY <1>2 DEF ArrivedBefore
    <3>4. /\ \A e \in EventsOf(f, key) : e.app = a => e = s[m] \/ Before(ingested, e, s[m])
          /\ \A i \in handed : i.key = key =>
               \A e \in EventsOf(i, key) : e.app = a => e = s[m] \/ Before(ingested, e, s[m])
      BY <1>2, <1>4, <2>5, <3>1, <3>2, <3>3, HandedInOrder
    <3>5. LastHanded(key, a, s[m])'
      BY <1>2, <1>3, <2>8, <3>4 DEF LastHanded
    <3> QED
      BY <2>6, <2>8, <3>5
  <2> QED
    BY <2>9, <2>10
<1>15. ASSUME NEW a \in DOMAIN after, \A i \in 1 .. Len(s) : s[i].app # a
       PROVE  \E ev : /\ KnownEvent(key, a, ev)'
                      /\ \/ Reordered(key, a)'
                         \/ LastHanded(key, a, ev)' /\ SP!contentHash(after[a]) = SP!contentHash(ev)
  <2>1. a \in DOMAIN session[key].perApp /\ after[a] = session[key].perApp[a]
    BY <1>5, <1>11, <1>15
  <2>2. PICK ev : /\ KnownEvent(key, a, ev)
                  /\ \/ Reordered(key, a)
                     \/ LastHanded(key, a, ev) /\ SP!contentHash(after[a]) = SP!contentHash(ev)
    BY <2>1 DEF PublishedInv
  <2>3. \A e \in EventsOf(h, key) : e.app # a
    BY <1>3, <1>7, <1>8, <1>15
  <2>4. KnownEvent(key, a, ev)'
    BY <1>2, <2>2 DEF KnownEvent
  <2>5. LastHanded(key, a, ev) => LastHanded(key, a, ev)'
    BY <1>2, <2>3, <2>4 DEF LastHanded
  <2> QED
    BY <1>13, <2>2, <2>4, <2>5
<1>16. ASSUME NEW k \in SessionKeys \ {key}, NEW a \in DOMAIN session[k].perApp
       PROVE  \E ev : /\ KnownEvent(k, a, ev)'
                      /\ \/ Reordered(k, a)'
                         \/ /\ LastHanded(k, a, ev)'
                            /\ SP!contentHash(session[k].perApp[a]) = SP!contentHash(ev)
  <2>1. PICK ev : /\ KnownEvent(k, a, ev)
                  /\ \/ Reordered(k, a)
                     \/ /\ LastHanded(k, a, ev)
                        /\ SP!contentHash(session[k].perApp[a]) = SP!contentHash(ev)
    BY DEF PublishedInv
  <2>2. KnownEvent(k, a, ev)'
    BY <1>2, <2>1 DEF KnownEvent
  <2>3. LastHanded(k, a, ev) => LastHanded(k, a, ev)'
    BY <1>2, <1>3, <2>2 DEF LastHanded
  <2> QED
    BY <1>13, <2>1, <2>2, <2>3
<1> QED
  BY <1>6, <1>10, <1>14, <1>15, <1>16 DEF PublishedInv

LEMMA PublishedStep ==
  ASSUME HandoverInv, SealedOnce, SessionShape, PublishedInv, [AggNext]_allVars
  PROVE  SessionShape' /\ PublishedInv'
<1>1. ASSUME UNCHANGED <<ingested, handed, overtaken>>, SessionShape',
             \A k \in SessionKeys : session'[k].perApp = session[k].perApp
      PROVE  PublishedInv'
  BY <1>1, PublishedStays
<1>2. CASE EngineStep
  <2>1. UNCHANGED <<session, overtaken>>
    BY <1>2 DEF EngineStep, spVars, history
  <2>2. SessionShape' /\ \A k \in SessionKeys : session'[k].perApp = session[k].perApp
    BY <2>1 DEF SessionShape
  <2>3. ASSUME NEW ev \in Event, Ingest(ev)
        PROVE  PublishedInv'
    <3>1. ingested' = Append(ingested, ev) /\ handed' = handed /\ ingested \in Seq(Event)
      BY <2>3 DEF Ingest, HandoverInv, TypeOK
    <3>2. /\ \A e \in ToSet(ingested) : e \in ToSet(ingested')
          /\ \A e1, e2 : Before(ingested, e1, e2) => Before(ingested', e1, e2)
      BY <3>1, AppendOrder
    <3> QED
      BY <2>1, <2>2, <3>1, <3>2, PublishedStays
  <2>4. \/ \E t \in timers : Expire(t)
        \/ \E c \in callbacks : DropStale(c) \/ SealBatch(c)
        => UNCHANGED <<ingested, handed>>
    BY DEF Expire, DropStale, SealBatch
  <2> QED
    BY <1>1, <1>2, <2>1, <2>2, <2>3, <2>4 DEF EngineStep, onTimerFire
<1>3. CASE UpsertBegins
  <2>1. PICK f \in flushes, key \in SessionKeys :
          /\ CallUpsert(f, key) /\ SP!BeginUpsert(UpsertOf(f, key))
          /\ overtaken' = overtaken \cup [key : {key}, app : AppsOvertaken(f, key)]
    BY <1>3 DEF UpsertBegins
  <2> QED
    BY <2>1, BeginWrites, UpsertPublishes
<1>4. CASE PublisherStep
  <2>1. UNCHANGED <<ingested, handed, overtaken>>
    BY <1>4 DEF PublisherStep, vars, history
  <2> QED
    BY <1>1, <1>4, <2>1, PerAppKept
<1>5. CASE UpsertReturns
  <2>1. PICK f \in flushes, c \in calls : SP!Return(c) /\ ReturnUpsert(f) /\ UNCHANGED history
    BY <1>5 DEF UpsertReturns
  <2>2. UNCHANGED <<ingested, handed, overtaken>>
    BY <2>1 DEF ReturnUpsert, history
  <2> QED
    BY <1>1, <2>1, <2>2, PerAppKept
<1>6. CASE Clock
  <2>1. UNCHANGED <<ingested, handed, overtaken>>
    BY <1>6 DEF Clock, PassTime, history
  <2> QED
    BY <1>1, <1>6, <2>1, PerAppKept
<1>7. CASE UNCHANGED allVars
  <2>1. UNCHANGED <<ingested, handed, session, overtaken>>
    BY <1>7 DEF allVars, vars, spVars, history
  <2> QED
    BY <1>1, <2>1, PerAppKept
<1> QED
  BY <1>2, <1>3, <1>4, <1>5, <1>6, <1>7 DEF AggNext

\* The state that is published is the latest one, but for two reorderings:
\* when all batches of a session are flushed, its entry of an app has the hash
\* of the last event Ingest took for it, or a flush with events of the app was
\* overtaken by a later one, or an Upsert was given two of them in the order
\* of "range buckets" (Engine.flush, SessionPublisher.Upsert).
THEOREM StaleOnlyWhenReorderedHolds == AggSpec => []StaleOnlyWhenReordered
<1>1. ASSUME AggInit
      PROVE  SealedOnce /\ SessionShape /\ PublishedInv
  <2>1. flushes = {} /\ handed = {}
    BY <1>1 DEF AggInit, Init
  <2>2. session = [k \in SessionKeys |->
                     [inc |-> 0, perApp |-> SP!Empty, refs |-> SP!Empty, idle |-> 0]]
    BY <1>1 DEF AggInit, SP!Init
  <2>3. DOMAIN SP!Empty = {}
    BY DEF SP!Empty
  <2> QED
    BY <2>1, <2>2, <2>3 DEF SealedOnce, Sealed, SessionShape, PublishedInv
<1>2. ASSUME HandoverInv, SealedOnce, SessionShape, PublishedInv, [AggNext]_allVars
      PROVE  SealedOnce' /\ SessionShape' /\ PublishedInv'
  BY <1>2, SealedOnceStep, PublishedStep
<1>3. ASSUME HandoverInv, PublishedInv
      PROVE  StaleOnlyWhenReordered
  <2> SUFFICES ASSUME AllPublished, NEW k \in SessionKeys, NEW a \in DOMAIN session[k].perApp
               PROVE  Arrivals(k, a) # {} /\ (HasLatest(k, a) \/ Reordered(k, a))
    BY DEF StaleOnlyWhenReordered
  <2>1. PICK ev : /\ KnownEvent(k, a, ev)
                  /\ \/ Reordered(k, a)
                     \/ /\ LastHanded(k, a, ev)
                        /\ SP!contentHash(session[k].perApp[a]) = SP!contentHash(ev)
    BY <1>3 DEF PublishedInv
  <2>2. DOMAIN ingested = 1 .. Len(ingested) /\ Len(ingested) \in Nat /\ ingested \in Seq(Event)
    BY <1>3, LenProperties DEF HandoverInv, TypeOK
  <2>3. PICK p \in 1 .. Len(ingested) : ingested[p] = ev
    BY <2>1, <2>2 DEF KnownEvent, ToSet
  <2>4. PICK A : A = Arrivals(k, a)
    OBVIOUS
  <2>5. A \in SUBSET (1 .. Len(ingested)) /\ p \in A
    BY <2>1, <2>2, <2>3, <2>4 DEF Arrivals, KnownEvent
  <2>6. CASE Reordered(k, a)
    BY <2>4, <2>5, <2>6
  <2>7. CASE ~ Reordered(k, a)
    <3>1. LastHanded(k, a, ev) /\ SP!contentHash(session[k].perApp[a]) = SP!contentHash(ev)
      BY <2>1, <2>7
    <3>2. PICK m : m = Max(A)
      OBVIOUS
    <3>3. m \in A /\ \A i \in A : i <= m
      BY <2>2, <2>5, <3>2, LargestIndex
    <3>4. /\ m \in 1 .. Len(ingested) /\ p <= m
          /\ SessionKeyOf(ingested[m]) = k /\ ingested[m].app = a
      BY <2>2, <2>4, <2>5, <3>3 DEF Arrivals
    <3>5. ingested[m] \in ToSet(ingested) /\ ingested[m] \in Event
      BY <2>2, <3>4 DEF ToSet
    <3>6. PICK h \in handed : ingested[m] \in EventsOf(h, h.key)
      <4>1. ~ Waiting(ingested[m])
        <5>1. ingested[m].group \in Group
          BY <3>5, EventAssumption DEF EventAssumption
        <5>2. Events(EmptyBatch) = {}
          BY DEF Events, EmptyBatch, ToSet
        <5> QED
          BY <5>1, <5>2 DEF AllPublished, IsOpen, Waiting
      <4>2. Flushing(ingested[m]) = {}
        BY DEF AllPublished, Flushing
      <4> QED
        BY <1>3, <3>5, <4>1, <4>2 DEF HandoverInv, PlacesInv, Handed
    <3>7. h.key = k
      BY <3>4, <3>6 DEF EventsOf
    <3>8. ingested[m] = ev \/ Before(ingested, ingested[m], ev)
      BY <3>1, <3>4, <3>6, <3>7 DEF LastHanded
    <3>9. Distinct(ingested)
      BY <1>3 DEF HandoverInv, ArrivalInv
    <3>10. CASE ingested[m] = ev
      <4>1. LatestArrival(k, a) = ev
        BY <2>4, <3>2, <3>10 DEF LatestArrival
      <4> QED
        BY <2>4, <2>5, <3>1, <4>1 DEF HasLatest
    <3>11. CASE Before(ingested, ingested[m], ev)
      <4>1. PICK i \in 1 .. Len(ingested), j \in 1 .. Len(ingested) :
              i < j /\ ingested[i] = ingested[m] /\ ingested[j] = ev
        BY <2>2, <3>11 DEF Before
      <4>2. i = m /\ j = p
        BY <2>2, <2>3, <3>4, <3>9, <4>1 DEF Distinct
      <4> QED
        BY <2>2, <3>4, <4>1, <4>2
    <3> QED
      BY <3>8, <3>10, <3>11
  <2> QED
    BY <2>6, <2>7
<1> QED
  BY <1>1, <1>2, <1>3, AggregatorImplementsEngine, HandoverInvariant, PTL DEF AggSpec
=============================================================================
