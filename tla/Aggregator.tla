----------------------------- MODULE Aggregator -----------------------------
(***************************************************************************)
(* The aggregator: the debounce engine and the session publisher together  *)
(* (internal/aggregator).  The engine's flush goroutines call Upsert; each *)
(* call is made of the steps of SessionPublisher.  Two batches of a group  *)
(* are flushed by two goroutines that nothing orders, so Upserts of one    *)
(* session overlap and may begin in the wrong order whenever the calls to  *)
(* the backends take longer than it takes the next batch to be sealed.     *)
(***************************************************************************)
EXTENDS Engine

CONSTANTS
  App, Dest, Shape, ThreadRepliers, DuplicateAction, SessionTTL,
  MaxCalls          \* as in SessionPublisher

\* config.Validate refuses MaxWait >= SessionTTL.
ASSUME TTLAssumption == SessionTTL \in Nat /\ MaxWait < SessionTTL

VARIABLES session, calls, late, channel, threads, begun, unsent

VARIABLES
  overtaken,   \* history: [key, app] whose events came to Upsert after later ones
  overlapped   \* history: keys that have had two Upserts in progress at a time

spVars == <<session, calls, late, channel, threads, begun, unsent>>
history == <<overtaken, overlapped>>
allVars == <<vars, spVars, history>>

\* The batches are the engine's, so the constant of the instance has none.
\* Backends that fail are left to SessionPublisher: every call succeeds here,
\* so that what goes wrong is the doing of the core alone.
SP == INSTANCE SessionPublisher WITH SessionKey <- SessionKeys, Batch <- {}, Faults <- {}

-----------------------------------------------------------------------------
AggInit == Init /\ SP!Init /\ overtaken = {} /\ overlapped = {}

\* The arguments of an Upsert call; its id is the flush that makes it.
UpsertOf(f, key) ==
  [id |-> [group |-> f.group, gen |-> f.gen], key |-> key, events |-> EventsFor(f, key)]

EngineStep ==
  /\ \/ \E ev \in Event : Ingest(ev)
     \/ \E t \in timers : Expire(t)
     \/ \E c \in callbacks : onTimerFire(c)
  /\ UNCHANGED <<spVars, history>>

AppsIn(slice) == {slice[i].app : i \in DOMAIN slice}

\* The apps of which a later batch has been handed to the session already.
AppsOvertaken(f, key) ==
  {a \in AppsIn(EventsFor(f, key)) :
     \E h \in handed : h.key = key /\ h.gen > f.gen /\ a \in AppsIn(Slice(h))}

\* The flush goroutines of two batches may come here in either order, and
\* while an Upsert of the same session is still in progress.
UpsertBegins ==
  \E f \in flushes, key \in SessionKeys :
    /\ CallUpsert(f, key)
    /\ SP!BeginUpsert(UpsertOf(f, key))
    /\ overtaken' = overtaken \cup [key : {key}, app : AppsOvertaken(f, key)]
    /\ overlapped' = overlapped \cup ({key} \cap {c.batch.key : c \in calls})

PublisherStep ==
  /\ \E c \in calls :
       \/ \E d \in Dest : SP!Skip(c, d) \/ SP!Send(c, d)
       \/ SP!Apply(c) \/ SP!Answer(c) \/ SP!MergeRefs(c)
       \/ \E r \in c.replies : SP!Reply(c, r)
  /\ UNCHANGED <<vars, history>>

UpsertReturns ==
  \E f \in flushes, c \in calls :
    /\ c.batch.id = [group |-> f.group, gen |-> f.gen]
    /\ SP!Return(c) /\ ReturnUpsert(f)
    /\ UNCHANGED history

\* One clock for the timers of the engine and the age of the sessions.
Clock ==
  /\ PassTime
  /\ (\E g \in Group : IsOpen(g)) \/ session # SP!AgedSessions
  /\ session' = SP!AgedSessions
  /\ UNCHANGED <<calls, late, channel, threads, begun, unsent, history>>

AggNext ==
  EngineStep \/ UpsertBegins \/ PublisherStep \/ UpsertReturns \/ Clock

AggSpec == AggInit /\ [][AggNext]_allVars

\* As for the engine; every call to a backend ends because it has a timeout.
AggFairSpec ==
  /\ AggSpec
  /\ WF_allVars(Clock)
  /\ WF_allVars(\E t \in timers : Expire(t) /\ UNCHANGED <<spVars, history>>)
  /\ WF_allVars(UpsertBegins)
  /\ WF_allVars(PublisherStep)
  /\ WF_allVars(UpsertReturns)
  /\ WF_allVars(EngineStep /\ ingested' = ingested)

-----------------------------------------------------------------------------
(* Properties.                                                             *)

\* Everything ingested has been published.
AllPublished == (\A g \in Group : ~IsOpen(g)) /\ flushes = {}

Arrivals(key, app) ==
  {i \in DOMAIN ingested : SessionKeyOf(ingested[i]) = key /\ ingested[i].app = app}

LatestArrival(key, app) == ingested[Max(Arrivals(key, app))]

HasLatest(k, a) ==
  SP!contentHash(session[k].perApp[a]) = SP!contentHash(LatestArrival(k, a))

\* An Upsert was given two events of the app in the wrong order: they are of
\* different triggers, and "range buckets" came to the later one first.
Shuffled(k, a) ==
  \E h \in handed : \E i, j \in DOMAIN Slice(h) :
    /\ h.key = k /\ i < j
    /\ Slice(h)[i].app = a /\ Slice(h)[j].app = a
    /\ ArrivedBefore(Slice(h)[j], Slice(h)[i])

Reordered(k, a) == [key |-> k, app |-> a] \in overtaken \/ Shuffled(k, a)

\* An entry of perApp that has fallen behind has done so in one of two ways,
\* both of the engine's making: a flush that was overtaken, or the order of a
\* map.  Expiry, duplicates, Upserts that overlap and batches of other apps
\* never cost a session the latest event of an app.
StaleOnlyWhenReordered ==
  AllPublished =>
    \A k \in SessionKeys : \A a \in DOMAIN session[k].perApp :
      /\ Arrivals(k, a) # {}
      /\ HasLatest(k, a) \/ Reordered(k, a)

\* End to end: without faults the latest event of an app is shown in the end
\* at a destination it is addressed to, unless it is behind in the session or
\* Upserts have overlapped, of which the one that sends last may be the older.
LatestShown ==
  \A k \in SessionKeys, a \in App :
    []<>(Arrivals(k, a) # {} =>
           \/ \E d \in SP!DestsOf(LatestArrival(k, a)) : \E i \in DOMAIN channel[d] :
                /\ channel[d][i].key = k
                /\ a \in DOMAIN channel[d][i].apps
                /\ SP!contentHash(channel[d][i].apps[a]) = SP!contentHash(LatestArrival(k, a))
           \/ Reordered(k, a) \/ k \in overlapped)

\* docs/design.md: the perApp map holds the latest known event of each app.
\* The code does not keep it: any of the two reorderings breaks it.
PerAppLatest ==
  AllPublished =>
    \A k \in SessionKeys : \A a \in DOMAIN session[k].perApp :
      Arrivals(k, a) # {} /\ HasLatest(k, a)
=============================================================================
