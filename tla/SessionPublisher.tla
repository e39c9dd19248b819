-------------------------- MODULE SessionPublisher --------------------------
(***************************************************************************)
(* The session publisher of the core (internal/aggregator/session.go).     *)
(*                                                                         *)
(* Upsert merges a batch of events into the session of its key under       *)
(* sp.mu, takes a snapshot of the session, and then works outside the lock *)
(* from the snapshot alone: it sends the state of the session to every     *)
(* (backend, recipient) pair, merges the message references it was given   *)
(* back into the session under sp.mu, and replies in the threads of        *)
(* unchanged events.  Nothing keeps two Upserts of one session apart.      *)
(*                                                                         *)
(* A call to a backend is three steps: sent, carried out, answered.  It    *)
(* can fail before it is carried out or after, and a call that was given   *)
(* up can still be carried out later.                                      *)
(***************************************************************************)
EXTENDS Integers, FiniteSets, Sequences, SequencesExt

CONSTANTS
  SessionKey,       \* keys of sessions
  App,              \* names of applications
  Dest,             \* (backend, recipient) pairs, RefKey in the code
  Batch,            \* batches to upsert: [id, key, events], events a sequence
  Shape,            \* backend -> the interfaces it implements, see below
  ThreadRepliers,   \* backends that implement ThreadReplier
  DuplicateAction,  \* cfg.DuplicateAction
  SessionTTL,       \* cfg.SessionTTL in ticks
  Faults,           \* what can go wrong with a call to a backend
  MaxCalls          \* bound: Upserts in progress at a time

Shapes == {"notifier",    \* Notifier that edits the message it is given
           "reposter",    \* Notifier that posts anew whatever it is given
           "updater",     \* Backend and Updater
           "poster",      \* Backend alone
           "neither"}

ASSUME DestAssumption ==
  \A d \in Dest : Shape[d.backend] \in Shapes

ASSUME BatchAssumption ==
  \A b \in Batch :
    /\ b.key \in SessionKey
    /\ b.events \in Seq(ToSet(b.events)) /\ b.events # <<>>
    /\ \A i \in DOMAIN b.events : b.events[i].app \in App

ASSUME ConfigAssumption ==
  /\ DuplicateAction \in {"drop", "thread"}
  /\ SessionTTL \in Nat
  /\ MaxCalls \in Nat
  /\ Faults \subseteq {"unresolved", "rejected", "lost", "late"}

VARIABLES
  session,   \* sp.sessions; incarnation 0: the key has no session yet
  calls,     \* Upserts between their first critical section and their return
  late,      \* requests given up by their caller that may yet be carried out
  channel,   \* destination -> the messages posted there, a ref is an index
  threads,   \* thread replies posted
  begun,     \* history: batches whose Upsert has begun
  unsent     \* observer: key -> destinations whose latest call failed

vars == <<session, calls, late, channel, threads, begun, unsent>>

-----------------------------------------------------------------------------
(* Events, routing and snapshots.                                          *)

\* splitRecipients and RefKey: an event goes to each of its recipients, all
\* under its one backend.
DestsOf(ev) == {d \in Dest : d.backend = ev.backend /\ d.recipient \in ev.recipients}

\* The keys of groupAppsByBackendRecipient(perApp) ...
Dests(perApp) == UNION {DestsOf(perApp[a]) : a \in DOMAIN perApp}

\* Mutant: every destination is shown the whole session.
WholeSession(perApp, d) == perApp

\* ... and the apps it groups under one of them.
AppsAt(perApp, d) ==
  [a \in {x \in DOMAIN perApp : d \in DestsOf(perApp[x])} |-> perApp[a]]

\* Backend and recipients are not part of the hash.  status stands for the
\* sync phase, the health status and the operation message.
contentHash(ev) == <<ev.trigger, ev.revision, ev.status>>

\* The hash recorded for the app of events[i] when the loop reaches it.
Prior(perApp, events, i) ==
  LET app == events[i].app
      earlier == {j \in 1 .. i - 1 : events[j].app = app}
  IN  IF earlier # {} THEN {contentHash(events[Max(earlier)])}
      ELSE IF app \in DOMAIN perApp THEN {contentHash(perApp[app])}
      ELSE {}

Duplicates(perApp, events) ==
  {i \in DOMAIN events : contentHash(events[i]) \in Prior(perApp, events, i)}

\* Mutant: an entry written in this batch is not overwritten.
FirstWrite(perApp, events) ==
  LET writes(a) == {i \in DOMAIN events \ Duplicates(perApp, events) : events[i].app = a}
  IN  [a \in DOMAIN perApp \cup {events[i].app : i \in DOMAIN events} |->
         IF writes(a) = {} THEN perApp[a] ELSE events[Min(writes(a))]]

\* perApp after the loop: an app keeps its entry unless some event of it is
\* not a duplicate; the last one of those is then its entry.
LastWrite(perApp, events) ==
  LET writes(a) == {i \in DOMAIN events \ Duplicates(perApp, events) : events[i].app = a}
  IN  [a \in DOMAIN perApp \cup {events[i].app : i \in DOMAIN events} |->
         IF writes(a) = {} THEN perApp[a] ELSE events[Max(writes(a))]]

\* refsSnapshot[rk]; 0 is the empty reference.
RefFor(refs, d) == IF d \in DOMAIN refs THEN refs[d] ELSE 0

\* maps.Copy(refs, newRefs)
Merged(refs, newRefs) ==
  [d \in DOMAIN refs \cup DOMAIN newRefs |->
     IF d \in DOMAIN newRefs THEN newRefs[d] ELSE refs[d]]

-----------------------------------------------------------------------------
BatchEvent == UNION {ToSet(b.events) : b \in Batch}

IsPerApp(f) == DOMAIN f \subseteq App /\ \A a \in DOMAIN f : f[a] \in BatchEvent
IsRefs(f) == DOMAIN f \subseteq Dest /\ \A d \in DOMAIN f : f[d] \in Nat \ {0}
IsMessage(m) == m.key \in SessionKey /\ m.inc \in Nat \ {0} /\ IsPerApp(m.apps)

IsCall(c) ==
  /\ c.batch \in Batch /\ c.inc \in Nat \ {0}
  /\ IsPerApp(c.apps) /\ IsRefs(c.refs) /\ IsRefs(c.newRefs)
  /\ c.todo \subseteq Dest /\ c.failed \subseteq Dest
  /\ c.sent \subseteq [dest : Dest, ref : Nat, done : BOOLEAN]
  /\ c.changed \in BOOLEAN /\ c.merged \in BOOLEAN
  /\ c.replies \subseteq [dest : Dest, event : BatchEvent]

TypeOK ==
  /\ \A k \in SessionKey :
       /\ session[k].inc \in Nat /\ session[k].idle \in 0 .. SessionTTL + 1
       /\ IsPerApp(session[k].perApp) /\ IsRefs(session[k].refs)
  /\ \A c \in calls : IsCall(c)
  /\ \A r \in late : r.dest \in Dest /\ r.ref \in Nat /\ IsMessage(r.msg)
  /\ \A d \in Dest : \A i \in DOMAIN channel[d] : IsMessage(channel[d][i])
  /\ threads \subseteq [dest : Dest, ref : Nat \ {0}, event : BatchEvent, key : SessionKey, inc : Nat \ {0}]
  /\ begun \subseteq Batch
  /\ unsent \in [SessionKey -> SUBSET Dest]

Empty == <<>>   \* the function with the empty domain

Init ==
  /\ session = [k \in SessionKey |-> [inc |-> 0, perApp |-> Empty, refs |-> Empty, idle |-> 0]]
  /\ calls = {}
  /\ late = {}
  /\ channel = [d \in Dest |-> <<>>]
  /\ threads = {}
  /\ begun = {}
  /\ unsent = [k \in SessionKey |-> {}]

-----------------------------------------------------------------------------
(* The first critical section of Upsert.                                   *)

Expired(k) == session[k].inc = 0 \/ session[k].idle > SessionTTL

\* A new sessionState is a new object: its incarnation is its identity.
SessionFor(k) ==
  IF Expired(k)
  THEN [inc |-> session[k].inc + 1, perApp |-> Empty, refs |-> Empty, idle |-> 0]
  ELSE session[k]

\* The replies the thread action will attempt: duplicates whose destination
\* has a reference in the snapshot and whose backend can reply.
Replies(st, events) ==
  IF DuplicateAction # "thread" THEN {}
  ELSE UNION {{[dest |-> d, event |-> events[i]] :
                 d \in {e \in DestsOf(events[i]) \cap DOMAIN st.refs : e.backend \in ThreadRepliers}} :
              i \in Duplicates(st.perApp, events)}

\* Mutant: only the destinations of the events of the batch are refreshed.
DestsOfBatch(perApp, events) == UNION {DestsOf(events[i]) : i \in DOMAIN events}

\* Every destination of the session is refreshed.
DestsToRefresh(perApp, events) == Dests(perApp)

\* Mutant: the copy is made before the loop.
SnapshotBefore(st, perApp) == st.perApp

\* perAppSnapshot is made after the loop, in the same critical section.
Snapshot(st, perApp) == perApp

BeginUpsert(b) ==
  LET k == b.key
      st == SessionFor(k)
      perApp == LastWrite(st.perApp, b.events)
      changed == Duplicates(st.perApp, b.events) # DOMAIN b.events
  IN
  /\ b \notin begun
  /\ Cardinality(calls) < MaxCalls
  /\ begun' = begun \cup {b}
  /\ session' = [session EXCEPT ![k] = [st EXCEPT !.perApp = perApp, !.idle = 0]]
  /\ calls' = calls \cup
       {[batch |-> b, inc |-> st.inc, apps |-> Snapshot(st, perApp), refs |-> st.refs, changed |-> changed,
         todo |-> IF changed THEN DestsToRefresh(perApp, b.events) ELSE {},
         sent |-> {}, newRefs |-> Empty, failed |-> {}, merged |-> FALSE,
         replies |-> Replies(st, b.events)]}
  /\ unsent' = IF Expired(k) THEN [unsent EXCEPT ![k] = {}] ELSE unsent
  /\ UNCHANGED <<late, channel, threads>>

\* lastFlush ages; one tick past the TTL is enough to tell the cases apart.
AgedSessions ==
  [k \in SessionKey |->
     IF session[k].inc > 0 /\ session[k].idle <= SessionTTL
     THEN [session[k] EXCEPT !.idle = @ + 1] ELSE session[k]]

Tick ==
  /\ session # AgedSessions
  /\ session' = AgedSessions
  /\ UNCHANGED <<calls, late, channel, threads, begun, unsent>>

-----------------------------------------------------------------------------
(* The loop over the destinations.                                         *)

Becomes(c, d) == calls' = (calls \ {c}) \cup {d}

NoteFailure(c, d) ==
  unsent' = IF session[c.batch.key].inc = c.inc
            THEN [unsent EXCEPT ![c.batch.key] = @ \cup {d}] ELSE unsent

\* Resolve finds no backend of that name, or one without any interface.
Skip(c, d) ==
  /\ c.sent = {} /\ d \in c.todo
  /\ "unresolved" \in Faults \/ Shape[d.backend] = "neither"
  /\ Becomes(c, [c EXCEPT !.todo = @ \ {d}, !.failed = @ \cup {d}])
  /\ NoteFailure(c, d)
  /\ UNCHANGED <<session, late, channel, threads, begun>>

\* A poster is never given a reference.
Send(c, d) ==
  /\ c.sent = {} /\ d \in c.todo
  /\ Shape[d.backend] # "neither"
  /\ LET ref == IF Shape[d.backend] = "poster" THEN 0 ELSE RefFor(c.refs, d) IN
       Becomes(c, [c EXCEPT !.todo = @ \ {d}, !.sent = {[dest |-> d, ref |-> ref, done |-> FALSE]}])
  /\ UNCHANGED <<session, late, channel, threads, begun, unsent>>

\* Mutant: the notification holds the events of the batch only.
MessageOfBatch(c, d) ==
  [key |-> c.batch.key, inc |-> c.inc,
   apps |-> AppsAt(LastWrite(Empty, c.batch.events), d)]

\* build(apps) from the snapshot; key and incarnation record the sender.
MessageFor(c, d) ==
  [key |-> c.batch.key, inc |-> c.inc, apps |-> AppsAt(c.apps, d)]

\* What a backend does with a request: edit the message of the reference, or
\* post another one.
IsEdit(d, ref) == Shape[d.backend] \in {"notifier", "updater"} /\ ref \in DOMAIN channel[d]

CarryOut(d, ref, msg) ==
  channel' = IF IsEdit(d, ref) THEN [channel EXCEPT ![d][ref].apps = msg.apps]
             ELSE [channel EXCEPT ![d] = Append(@, msg)]

Apply(c) ==
  \E s \in c.sent :
    /\ ~s.done
    /\ CarryOut(s.dest, s.ref, MessageFor(c, s.dest))
    /\ LET ref == IF IsEdit(s.dest, s.ref) THEN s.ref ELSE Len(channel[s.dest]) + 1 IN
         Becomes(c, [c EXCEPT !.sent = {[s EXCEPT !.ref = ref, !.done = TRUE]}])
    /\ UNCHANGED <<session, late, threads, begun, unsent>>

\* A Notifier's answer always holds the reference to keep; otherwise only the
\* Post of a backend that can update does.
RefKept(c, d) ==
  \/ Shape[d.backend] \in {"notifier", "reposter"}
  \/ Shape[d.backend] = "updater" /\ RefFor(c.refs, d) = 0

Answer(c) ==
  \E s \in c.sent :
    /\ s.done
    /\ Becomes(c, [c EXCEPT !.sent = {},
         !.newRefs = IF RefKept(c, s.dest) THEN Merged(@, [d \in {s.dest} |-> s.ref]) ELSE @])
    /\ unsent' = IF session[c.batch.key].inc = c.inc
                 THEN [unsent EXCEPT ![c.batch.key] = @ \ {s.dest}] ELSE unsent
    /\ UNCHANGED <<session, late, channel, threads, begun>>

\* An error leaves newRefs as they are.
RefsOnError(c, s) == c.newRefs

\* An error: the backend refused, its answer was lost, or the call was given
\* up (timeout) before the backend came to it.
Fail(c) ==
  \E s \in c.sent :
    /\ \/ "rejected" \in Faults /\ ~s.done /\ UNCHANGED late
       \/ "lost" \in Faults /\ s.done /\ UNCHANGED late
       \/ /\ "late" \in Faults /\ ~s.done
          /\ late' = late \cup {[dest |-> s.dest, ref |-> s.ref, msg |-> MessageFor(c, s.dest)]}
    /\ Becomes(c, [c EXCEPT !.sent = {}, !.failed = @ \cup {s.dest}, !.newRefs = RefsOnError(c, s)])
    /\ NoteFailure(c, s.dest)
    /\ UNCHANGED <<session, channel, threads, begun>>

ApplyLate(r) ==
  /\ CarryOut(r.dest, r.ref, r.msg)
  /\ late' = late \ {r}
  /\ UNCHANGED <<session, calls, threads, begun, unsent>>

-----------------------------------------------------------------------------
(* The second critical section, the thread replies and the return.         *)

\* Mutant: whatever session the key has now receives the references.
AlwaysCurrent(c) == TRUE

\* cur == st
StillCurrent(c) == session[c.batch.key].inc = c.inc

\* Mutant: the references are not merged.
NotMerged(c) == session

MergedSession(c) ==
  IF StillCurrent(c)
  THEN [session EXCEPT ![c.batch.key].refs = Merged(@, c.newRefs)] ELSE session

MergeRefs(c) ==
  /\ c.todo = {} /\ c.sent = {} /\ ~c.merged
  /\ session' = MergedSession(c)
  /\ Becomes(c, [c EXCEPT !.merged = TRUE])
  /\ UNCHANGED <<late, channel, threads, begun, unsent>>

\* One PostThreadReply, under the reference of the snapshot; it may fail.
Reply(c, r) ==
  /\ c.merged /\ r \in c.replies
  /\ \/ threads' = threads \cup {[dest |-> r.dest, ref |-> RefFor(c.refs, r.dest), event |-> r.event,
                                  key |-> c.batch.key, inc |-> c.inc]}
     \/ Faults # {} /\ UNCHANGED threads
  /\ Becomes(c, [c EXCEPT !.replies = @ \ {r}])
  /\ UNCHANGED <<session, late, channel, begun, unsent>>

Return(c) ==
  /\ c.merged /\ c.replies = {}
  /\ calls' = calls \ {c}
  /\ UNCHANGED <<session, late, channel, threads, begun, unsent>>

Next ==
  \/ \E b \in Batch : BeginUpsert(b)
  \/ Tick
  \/ \E c \in calls :
       \/ \E d \in Dest : Skip(c, d) \/ Send(c, d)
       \/ Apply(c) \/ Answer(c) \/ Fail(c) \/ MergeRefs(c)
       \/ \E r \in c.replies : Reply(c, r)
       \/ Return(c)
  \/ \E r \in late : ApplyLate(r)

Spec == Init /\ [][Next]_vars

-----------------------------------------------------------------------------
(* Properties.                                                             *)

Current(k) == session[k].inc > 0

Messages(k, d) ==
  {i \in DOMAIN channel[d] : channel[d][i].key = k /\ channel[d][i].inc = session[k].inc}

Edits(d) == Shape[d.backend] \in {"notifier", "updater"}

\* At rest: no Upsert of the session is in progress and no request is out.
AtRest(k) ==
  /\ Current(k)
  /\ \A c \in calls : c.batch.key # k
  /\ \A r \in late : r.msg.key # k

\* One live message: a session never has two messages at a destination whose
\* backend can edit.
OneLiveMessage ==
  \A k \in SessionKey, d \in Dest : Edits(d) => Cardinality(Messages(k, d)) <= 1

\* The message always shows the current state: at rest, the message of the
\* session at each destination its apps are routed to holds exactly the apps
\* routed there, as last reported, unless the latest call to it failed.
MessageCurrent ==
  \A k \in SessionKey : AtRest(k) =>
    \A d \in Dests(session[k].perApp) \ unsent[k] :
      LET apps == AppsAt(session[k].perApp, d)
          ref == RefFor(session[k].refs, d)
      IN  IF Edits(d) THEN ref \in DOMAIN channel[d] /\ channel[d][ref].apps = apps
          ELSE \E i \in Messages(k, d) : channel[d][i].apps = apps

\* A reference is never used outside the session it was given to: those of a
\* session, of the snapshot of a call and of its answers name messages that
\* this very incarnation of the session posted at that very destination.
RefsOwned ==
  LET owned(refs, k, inc) ==
        \A d \in DOMAIN refs :
          /\ refs[d] \in DOMAIN channel[d]
          /\ channel[d][refs[d]].key = k /\ channel[d][refs[d]].inc = inc
  IN  /\ \A k \in SessionKey : owned(session[k].refs, k, session[k].inc)
      /\ \A c \in calls :
           /\ owned(c.refs, c.batch.key, c.inc) /\ owned(c.newRefs, c.batch.key, c.inc)
           /\ \A s \in c.sent : s.ref > 0 =>
                owned([d \in {s.dest} |-> s.ref], c.batch.key, c.inc)
      /\ \A t \in threads : owned([d \in {t.dest} |-> t.ref], t.key, t.inc)

\* No destination is shown an app that was not addressed to it.
ContentRouted ==
  \A d \in Dest : \A i \in DOMAIN channel[d] :
    \A a \in DOMAIN channel[d][i].apps : d \in DestsOf(channel[d][i].apps[a])

\* A flush that changes the session and meets no error makes up for every
\* failed call before it, at all destinations the session still has.
ChangedFlushRepairs ==
  \A c \in calls : c.merged /\ c.changed /\ c.failed = {} =>
    unsent[c.batch.key] \cap Dests(session[c.batch.key].perApp) = {}

-----------------------------------------------------------------------------
(* What the documents say and the code does not keep: counterexamples are  *)
(* described in the README, and no passing run checks these.               *)

\* The next flush retries: after any flush without error no destination of
\* the session is left with a failed call.
NextFlushRetries ==
  \A c \in calls : c.merged /\ c.failed = {} =>
    unsent[c.batch.key] \cap Dests(session[c.batch.key].perApp) = {}

\* At rest and without failed calls, no message of the session shows anything
\* but the state of the apps now routed to its destination.
NothingLeftBehind ==
  \A k \in SessionKey : AtRest(k) /\ unsent[k] = {} =>
    \A d \in DOMAIN session[k].refs :
      channel[d][session[k].refs[d]].apps = AppsAt(session[k].perApp, d)
=============================================================================
