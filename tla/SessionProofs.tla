--------------------------- MODULE SessionProofs ---------------------------
(***************************************************************************)
(* Proofs about the session publisher: for any sessions, destinations,     *)
(* batches and shapes of backends, any faults and any number of Upserts    *)
(* in progress at a time, unless a theorem says otherwise.                 *)
(***************************************************************************)
EXTENDS SessionPublisher, SequenceLemmas, FiniteSetTheorems, TLAPS

PerApp == UNION {[A -> BatchEvent] : A \in SUBSET App}
RefMap == UNION {[D -> Nat \ {0}] : D \in SUBSET Dest}

Session == [inc : Nat, perApp : PerApp, refs : RefMap, idle : 0 .. SessionTTL + 1]
Message == [key : SessionKey, inc : Nat \ {0}, apps : PerApp]
Pending == {s \in [dest : Dest, ref : Nat, done : BOOLEAN] : s.done => s.ref # 0}
Answered == [dest : Dest, event : BatchEvent]
Upsert ==
  [batch : Batch, inc : Nat \ {0}, apps : PerApp, refs : RefMap, changed : BOOLEAN,
   todo : SUBSET Dest, sent : SUBSET Pending, newRefs : RefMap, failed : SUBSET Dest,
   merged : BOOLEAN, replies : SUBSET Answered]

Answerable(c) == \A r \in c.replies : r.dest \in DOMAIN c.refs

\* TypeOK, and what the records and functions it speaks of are made of.  A
\* request that was carried out has a message, a reply a reference to go to.
TypeInv ==
  /\ session \in [SessionKey -> Session]
  /\ calls \subseteq Upsert /\ \A c \in calls : Answerable(c)
  /\ late \subseteq [dest : Dest, ref : Nat, msg : Message]
  /\ channel \in [Dest -> Seq(Message)]
  /\ threads \subseteq [dest : Dest, ref : Nat \ {0}, event : BatchEvent, key : SessionKey,
                        inc : Nat \ {0}]
  /\ begun \subseteq Batch
  /\ unsent \in [SessionKey -> SUBSET Dest]

-----------------------------------------------------------------------------
(* Maps of apps and maps of references.                                    *)

LEMMA PerAppValues ==
  ASSUME NEW f \in PerApp
  PROVE  DOMAIN f \subseteq App /\ \A a \in DOMAIN f : f[a] \in BatchEvent
BY DEF PerApp

LEMMA PerAppIntro ==
  ASSUME NEW A \in SUBSET App, NEW f \in [A -> BatchEvent]
  PROVE  f \in PerApp
BY DEF PerApp

LEMMA RefMapValues ==
  ASSUME NEW f \in RefMap
  PROVE  DOMAIN f \subseteq Dest /\ \A d \in DOMAIN f : f[d] \in Nat \ {0}
BY DEF RefMap

LEMMA RefMapIntro ==
  ASSUME NEW D \in SUBSET Dest, NEW f \in [D -> Nat \ {0}]
  PROVE  f \in RefMap
BY DEF RefMap

LEMMA EmptyMap == Empty \in PerApp /\ Empty \in RefMap /\ DOMAIN Empty = {}
<1>1. \A S : Empty \in [{} -> S]
  BY DEF Empty
<1>2. {} \in SUBSET App /\ {} \in SUBSET Dest
  OBVIOUS
<1>3. Empty \in [{} -> BatchEvent] /\ Empty \in [{} -> Nat \ {0}]
  BY <1>1
<1> QED
  BY <1>2, <1>3, PerAppIntro, RefMapIntro

\* The events of a batch, by their positions.
LEMMA BatchEvents ==
  ASSUME NEW b \in Batch
  PROVE  /\ Len(b.events) \in Nat /\ DOMAIN b.events = 1 .. Len(b.events)
         /\ \A i \in DOMAIN b.events : b.events[i] \in BatchEvent /\ b.events[i].app \in App
         /\ b.key \in SessionKey
<1>1. b.events \in Seq(ToSet(b.events)) /\ b.key \in SessionKey
      /\ \A i \in DOMAIN b.events : b.events[i].app \in App
  BY BatchAssumption DEF BatchAssumption
<1>2. Len(b.events) \in Nat /\ DOMAIN b.events = 1 .. Len(b.events)
  BY <1>1, LenProperties
<1>3. \A i \in DOMAIN b.events : b.events[i] \in BatchEvent
  BY DEF BatchEvent, ToSet
<1> QED
  BY <1>1, <1>2, <1>3

\* The first event of an app the session does not know is no duplicate.
LEMMA NewAppIsWritten ==
  ASSUME NEW perApp, NEW b \in Batch, NEW a \in {b.events[i].app : i \in DOMAIN b.events},
         a \notin DOMAIN perApp
  PROVE  \E i \in DOMAIN b.events \ Duplicates(perApp, b.events) : b.events[i].app = a
<1> DEFINE T == {i \in DOMAIN b.events : b.events[i].app = a}
<1>1. T \in SUBSET Nat /\ T # {}
  BY BatchEvents
<1>2. PICK i \in T : \A j \in T : i <= j
  BY <1>1, LeastNatural
<1>3. \A j \in 1 .. i - 1 : j \notin T
  BY <1>1, <1>2
<1>4. {j \in 1 .. i - 1 : b.events[j].app = b.events[i].app} = {}
  <2>1. i \in 1 .. Len(b.events) /\ Len(b.events) \in Nat
    BY <1>2, BatchEvents
  <2>2. \A j \in 1 .. i - 1 : j \in DOMAIN b.events
    BY <2>1, BatchEvents
  <2> QED
    BY <1>2, <1>3, <2>2
<1>5. Prior(perApp, b.events, i) = {}
  BY <1>2, <1>4 DEF Prior
<1> QED
  BY <1>2, <1>5 DEF Duplicates

\* What the loop of Upsert writes: the entry of an app is the one it had, or
\* the event at one position of the batch, the last that is no duplicate.
LEMMA LastWriteEntries ==
  ASSUME NEW perApp \in PerApp, NEW b \in Batch
  PROVE  /\ LastWrite(perApp, b.events) \in PerApp
         /\ DOMAIN LastWrite(perApp, b.events) =
              DOMAIN perApp \cup {b.events[i].app : i \in DOMAIN b.events}
<1> DEFINE apps == DOMAIN perApp \cup {b.events[i].app : i \in DOMAIN b.events}
           writes(a) == {i \in DOMAIN b.events \ Duplicates(perApp, b.events) : b.events[i].app = a}
           entry(a) == IF writes(a) = {} THEN perApp[a] ELSE b.events[Max(writes(a))]
<1>1. apps \subseteq App
  BY PerAppValues, BatchEvents
<1>2. ASSUME NEW a \in apps
      PROVE  entry(a) \in BatchEvent
  <2>1. CASE writes(a) = {}
    <3>1. a \in DOMAIN perApp
      BY <2>1, NewAppIsWritten
    <3> QED
      BY <2>1, <3>1, PerAppValues
  <2>2. CASE writes(a) # {}
    <3>1. writes(a) \in SUBSET (1 .. Len(b.events)) /\ Len(b.events) \in Nat
      BY BatchEvents
    <3>2. Max(writes(a)) \in writes(a)
      BY <2>2, <3>1, LargestIndex
    <3>3. Max(writes(a)) \in DOMAIN b.events
      BY <3>2
    <3> QED
      BY <2>2, <3>3, BatchEvents
  <2> QED
    BY <2>1, <2>2
<1>3. LastWrite(perApp, b.events) = [a \in apps |-> entry(a)]
  BY DEF LastWrite
<1> HIDE DEF apps, entry
<1>4. [a \in apps |-> entry(a)] \in [apps -> BatchEvent]
  BY <1>2
<1> QED
  BY <1>1, <1>3, <1>4, PerAppIntro DEF apps

LEMMA AppsAtEntries ==
  ASSUME NEW perApp \in PerApp, NEW d
  PROVE  /\ AppsAt(perApp, d) \in PerApp
         /\ \A a \in DOMAIN AppsAt(perApp, d) : d \in DestsOf(AppsAt(perApp, d)[a])
<1> DEFINE apps == {x \in DOMAIN perApp : d \in DestsOf(perApp[x])}
<1>1. apps \in SUBSET App /\ AppsAt(perApp, d) \in [apps -> BatchEvent]
  BY PerAppValues DEF AppsAt
<1>2. \A a \in DOMAIN AppsAt(perApp, d) : d \in DestsOf(AppsAt(perApp, d)[a])
  BY DEF AppsAt
<1> QED
  BY <1>1, <1>2, PerAppIntro

LEMMA MergedEntries ==
  ASSUME NEW refs \in RefMap, NEW newRefs \in RefMap
  PROVE  /\ Merged(refs, newRefs) \in RefMap
         /\ DOMAIN Merged(refs, newRefs) = DOMAIN refs \cup DOMAIN newRefs
         /\ \A d \in DOMAIN Merged(refs, newRefs) :
              Merged(refs, newRefs)[d] = IF d \in DOMAIN newRefs THEN newRefs[d] ELSE refs[d]
<1> DEFINE dests == DOMAIN refs \cup DOMAIN newRefs
<1>1. dests \in SUBSET Dest /\ Merged(refs, newRefs) \in [dests -> Nat \ {0}]
  BY RefMapValues DEF Merged
<1> QED
  BY <1>1, RefMapIntro DEF Merged

LEMMA RefForEntries ==
  ASSUME NEW refs \in RefMap, NEW d
  PROVE  /\ RefFor(refs, d) \in Nat
         /\ RefFor(refs, d) = 0 <=> d \notin DOMAIN refs
         /\ d \in DOMAIN refs => RefFor(refs, d) = refs[d]
BY RefMapValues DEF RefFor

-----------------------------------------------------------------------------
(* What a request does to the channel.                                     *)

\* The message that carrying out a request writes.
Written(d, ref) == IF IsEdit(d, ref) THEN ref ELSE Len(channel[d]) + 1

\* Messages stay where they are, and with the session that posted them.
Grows ==
  \A d \in Dest : \A i \in DOMAIN channel[d] :
    /\ i \in DOMAIN channel'[d]
    /\ channel'[d][i].key = channel[d][i].key /\ channel'[d][i].inc = channel[d][i].inc

LEMMA EditWrites ==
  ASSUME NEW s \in Seq(Message), NEW i \in DOMAIN s, NEW apps \in PerApp
  PROVE  LET t == [s EXCEPT ![i].apps = apps] IN
         /\ t \in Seq(Message) /\ DOMAIN t = DOMAIN s
         /\ t[i].apps = apps /\ t[i].key = s[i].key /\ t[i].inc = s[i].inc
         /\ \A j \in DOMAIN s \ {i} : t[j] = s[j]
<1> DEFINE m == [s[i] EXCEPT !.apps = apps]
           t == [s EXCEPT ![i] = m]
<1>1. s[i] \in Message /\ i \in 1 .. Len(s)
  BY ElementOfSeq, LenProperties
<1>2. m \in Message /\ m.apps = apps /\ m.key = s[i].key /\ m.inc = s[i].inc
  BY <1>1 DEF Message
<1>3. t \in Seq(Message) /\ DOMAIN t = DOMAIN s
  BY <1>1, <1>2, ExceptSeq
<1>4. t[i] = m /\ \A j \in DOMAIN s \ {i} : t[j] = s[j]
  OBVIOUS
<1>5. t = [s EXCEPT ![i].apps = apps]
  OBVIOUS
<1> HIDE DEF t, m
<1> QED
  BY <1>2, <1>3, <1>4, <1>5

LEMMA CarryOutWrites ==
  ASSUME channel \in [Dest -> Seq(Message)], NEW d \in Dest, NEW ref \in Nat,
         NEW msg \in Message, CarryOut(d, ref, msg)
  PROVE  /\ channel' \in [Dest -> Seq(Message)] /\ Grows
         /\ Written(d, ref) \in DOMAIN channel'[d] /\ Written(d, ref) \in Nat \ {0}
         /\ channel'[d][Written(d, ref)].apps = msg.apps
         /\ ~ IsEdit(d, ref) => /\ Written(d, ref) \notin DOMAIN channel[d]
                                /\ channel'[d][Written(d, ref)] = msg
         /\ \A e \in Dest : \A i \in DOMAIN channel'[e] :
              e # d \/ i # Written(d, ref) =>
                i \in DOMAIN channel[e] /\ channel'[e][i] = channel[e][i]
<1> DEFINE s == channel[d]
           t == channel'[d]
<1>1. s \in Seq(Message) /\ Len(s) \in Nat /\ DOMAIN s = 1 .. Len(s)
  BY LenProperties
<1>2. CASE IsEdit(d, ref)
  <2>1. channel' = [channel EXCEPT ![d] = [s EXCEPT ![ref].apps = msg.apps]]
    BY <1>2 DEF CarryOut
  <2>2. ref \in DOMAIN s /\ msg.apps \in PerApp /\ Written(d, ref) = ref
    BY <1>2 DEF IsEdit, Message, Written
  <2>3. /\ t = [s EXCEPT ![ref].apps = msg.apps]
        /\ \A e \in Dest \ {d} : channel'[e] = channel[e]
    BY <2>1
  <2>4. /\ t \in Seq(Message) /\ DOMAIN t = DOMAIN s
        /\ t[ref].apps = msg.apps /\ t[ref].key = s[ref].key /\ t[ref].inc = s[ref].inc
        /\ \A j \in DOMAIN s \ {ref} : t[j] = s[j]
    BY <1>1, <2>2, <2>3, EditWrites
  <2>5. channel' \in [Dest -> Seq(Message)]
    BY <2>1, <2>3, <2>4
  <2> HIDE DEF s, t
  <2>6. Grows
    BY <2>3, <2>4 DEF Grows, s, t
  <2>7. ref \in Nat \ {0}
    BY <1>1, <2>2
  <2>8. \A e \in Dest : \A i \in DOMAIN channel'[e] :
          e # d \/ i # ref => i \in DOMAIN channel[e] /\ channel'[e][i] = channel[e][i]
    BY <2>3, <2>4 DEF s, t
  <2> QED
    BY <1>2, <2>2, <2>4, <2>5, <2>6, <2>7, <2>8 DEF t
<1>3. CASE ~ IsEdit(d, ref)
  <2>1. channel' = [channel EXCEPT ![d] = Append(s, msg)] /\ Written(d, ref) = Len(s) + 1
    BY <1>3 DEF CarryOut, Written
  <2>2. t = Append(s, msg) /\ \A e \in Dest \ {d} : channel'[e] = channel[e]
    BY <2>1
  <2>3. /\ t \in Seq(Message) /\ DOMAIN t = 1 .. Len(s) + 1
        /\ t[Len(s) + 1] = msg /\ \A i \in 1 .. Len(s) : t[i] = s[i]
    BY <1>1, <2>2, AppendProperties, LenProperties
  <2>4. channel' \in [Dest -> Seq(Message)]
    BY <2>1, <2>2, <2>3
  <2> HIDE DEF s, t
  <2>5. \A i \in 1 .. Len(s) : i \in 1 .. Len(s) + 1
    BY <1>1
  <2>6. Grows
    BY <1>1, <2>2, <2>3, <2>5 DEF Grows, s, t
  <2>7. /\ Len(s) + 1 \in 1 .. Len(s) + 1 /\ Len(s) + 1 \in Nat \ {0} /\ Len(s) + 1 \notin 1 .. Len(s)
        /\ \A i \in 1 .. Len(s) + 1 : i # Len(s) + 1 => i \in 1 .. Len(s)
    BY <1>1
  <2>8. \A e \in Dest : \A i \in DOMAIN channel'[e] :
          e # d \/ i # Len(s) + 1 => i \in DOMAIN channel[e] /\ channel'[e][i] = channel[e][i]
    BY <1>1, <2>2, <2>3, <2>7 DEF s, t
  <2>9. /\ Written(d, ref) \in DOMAIN channel'[d] /\ Written(d, ref) \in Nat \ {0}
        /\ channel'[d][Written(d, ref)] = msg /\ Written(d, ref) \notin DOMAIN channel[d]
    BY <1>1, <2>1, <2>3, <2>7 DEF s, t
  <2> QED
    BY <1>3, <2>1, <2>4, <2>6, <2>8, <2>9
<1> QED
  BY <1>2, <1>3

-----------------------------------------------------------------------------
(* The types are kept.                                                     *)

LEMMA SessionForType ==
  ASSUME TypeInv, NEW k \in SessionKey
  PROVE  /\ SessionFor(k) \in Session /\ SessionFor(k).inc \in Nat \ {0}
         /\ Expired(k) => /\ SessionFor(k).inc = session[k].inc + 1
                          /\ SessionFor(k).perApp = Empty /\ SessionFor(k).refs = Empty
         /\ ~ Expired(k) => SessionFor(k) = session[k]
<1>1. session[k] \in Session /\ 0 \in 0 .. SessionTTL + 1
  BY ConfigAssumption DEF TypeInv, ConfigAssumption
<1> QED
  BY <1>1, EmptyMap DEF SessionFor, Expired, Session

LEMMA ReplyTypes ==
  ASSUME NEW b \in Batch, NEW st, st.refs \in RefMap
  PROVE  /\ Replies(st, b.events) \subseteq Answered
         /\ \A r \in Replies(st, b.events) : r.dest \in DOMAIN st.refs
<1>1. ASSUME NEW r \in Replies(st, b.events)
      PROVE  r \in Answered /\ r.dest \in DOMAIN st.refs
  <2>1. PICK i \in Duplicates(st.perApp, b.events) :
          r \in {[dest |-> d, event |-> b.events[i]] :
                   d \in {e \in DestsOf(b.events[i]) \cap DOMAIN st.refs : e.backend \in ThreadRepliers}}
    BY <1>1 DEF Replies
  <2>2. PICK d \in DOMAIN st.refs : r = [dest |-> d, event |-> b.events[i]]
    BY <2>1
  <2>3. d \in Dest /\ b.events[i] \in BatchEvent
    BY <2>1, <2>2, RefMapValues, BatchEvents DEF Duplicates
  <2> QED
    BY <2>2, <2>3 DEF Answered
<1> QED
  BY <1>1

\* The Upsert that BeginUpsert starts.
Started(b) ==
  LET st == SessionFor(b.key)
      perApp == LastWrite(st.perApp, b.events)
      changed == Duplicates(st.perApp, b.events) # DOMAIN b.events
  IN  [batch |-> b, inc |-> st.inc, apps |-> Snapshot(st, perApp), refs |-> st.refs, changed |-> changed,
       todo |-> IF changed THEN DestsToRefresh(perApp, b.events) ELSE {},
       sent |-> {}, newRefs |-> Empty, failed |-> {}, merged |-> FALSE,
       replies |-> Replies(st, b.events)]

LEMMA BeginTypes ==
  ASSUME TypeInv, NEW b \in Batch, BeginUpsert(b)
  PROVE  /\ Started(b) \in Upsert /\ calls' = calls \cup {Started(b)}
         /\ session'[b.key] \in Session
         /\ session'[b.key].inc = SessionFor(b.key).inc
         /\ session'[b.key].refs = SessionFor(b.key).refs
         /\ session'[b.key].perApp = LastWrite(SessionFor(b.key).perApp, b.events)
         /\ session'[b.key].idle = 0
         /\ \A k \in SessionKey \ {b.key} : session'[k] = session[k]
         /\ TypeInv'
<1> DEFINE k == b.key
           st == SessionFor(k)
           perApp == LastWrite(st.perApp, b.events)
           new == [st EXCEPT !.perApp = perApp, !.idle = 0]
<1>1. k \in SessionKey
  BY BatchEvents
<1>2. st \in Session /\ st.inc \in Nat \ {0}
  BY <1>1, SessionForType
<1>3. st.perApp \in PerApp /\ st.refs \in RefMap
  BY <1>2 DEF Session
<1>4. perApp \in PerApp
  BY <1>3, LastWriteEntries
<1>5. /\ calls' = calls \cup {Started(b)} /\ session' = [session EXCEPT ![k] = new]
      /\ begun' = begun \cup {b} /\ UNCHANGED <<late, channel, threads>>
      /\ unsent' = IF Expired(k) THEN [unsent EXCEPT ![k] = {}] ELSE unsent
  BY DEF BeginUpsert, Started
<1>6. new \in Session /\ new.inc = st.inc /\ new.refs = st.refs /\ new.perApp = perApp /\ new.idle = 0
  <2>1. 0 \in 0 .. SessionTTL + 1
    BY ConfigAssumption DEF ConfigAssumption
  <2> HIDE DEF st, perApp
  <2> QED
    BY <1>2, <1>4, <2>1 DEF Session
<1>7. /\ Replies(st, b.events) \subseteq Answered
      /\ \A r \in Replies(st, b.events) : r.dest \in DOMAIN st.refs
  BY <1>3, ReplyTypes
<1>8. DestsToRefresh(perApp, b.events) \subseteq Dest
  BY DEF DestsToRefresh, Dests, DestsOf
<1>9. Started(b) \in Upsert /\ Answerable(Started(b))
  <2>1. Snapshot(st, perApp) = perApp
    BY DEF Snapshot
  <2>2. /\ Started(b).replies = Replies(st, b.events) /\ Started(b).refs = st.refs
        /\ Started(b) =
             [batch |-> b, inc |-> st.inc, apps |-> perApp, refs |-> st.refs,
              changed |-> Duplicates(st.perApp, b.events) # DOMAIN b.events,
              todo |-> IF Duplicates(st.perApp, b.events) # DOMAIN b.events
                       THEN DestsToRefresh(perApp, b.events) ELSE {},
              sent |-> {}, newRefs |-> Empty, failed |-> {}, merged |-> FALSE,
              replies |-> Replies(st, b.events)]
    BY <2>1 DEF Started
  <2> HIDE DEF st, perApp
  <2> QED
    BY <1>2, <1>3, <1>4, <1>7, <1>8, <2>2, EmptyMap DEF Upsert, Answerable
<1>10. session' \in [SessionKey -> Session] /\ session'[k] = new
       /\ \A h \in SessionKey \ {k} : session'[h] = session[h]
  BY <1>1, <1>5, <1>6 DEF TypeInv
<1>11. unsent' \in [SessionKey -> SUBSET Dest]
  BY <1>1, <1>5 DEF TypeInv
<1>12. TypeInv'
  BY <1>5, <1>9, <1>10, <1>11 DEF TypeInv
<1> HIDE DEF new, st, perApp, k
<1> QED
  BY <1>5, <1>6, <1>9, <1>10, <1>12 DEF k, st, perApp

LEMMA CallBecomes ==
  ASSUME TypeInv, NEW c \in calls, NEW n \in Upsert, Answerable(n), Becomes(c, n)
  PROVE  calls' \subseteq Upsert /\ \A x \in calls' : Answerable(x)
BY DEF TypeInv, Becomes

LEMMA NoteFailureTypes ==
  ASSUME TypeInv, NEW c \in calls, NEW d \in Dest, NoteFailure(c, d)
  PROVE  unsent' \in [SessionKey -> SUBSET Dest]
BY BatchEvents DEF TypeInv, Upsert, NoteFailure

LEMMA MessageForType ==
  ASSUME TypeInv, NEW c \in calls, NEW d \in Dest
  PROVE  /\ MessageFor(c, d) \in Message
         /\ MessageFor(c, d).key = c.batch.key /\ MessageFor(c, d).inc = c.inc
         /\ MessageFor(c, d).apps = AppsAt(c.apps, d)
<1>1. c.apps \in PerApp /\ c.inc \in Nat \ {0} /\ c.batch.key \in SessionKey
  BY BatchEvents DEF TypeInv, Upsert
<1> QED
  BY <1>1, AppsAtEntries DEF MessageFor, Message

LEMMA SkipTypes ==
  ASSUME TypeInv, NEW c \in calls, NEW d \in Dest, Skip(c, d)
  PROVE  TypeInv'
<1> DEFINE n == [c EXCEPT !.todo = @ \ {d}, !.failed = @ \cup {d}]
<1>1. c \in Upsert /\ Answerable(c)
  BY DEF TypeInv
<1>2. n \in Upsert /\ Answerable(n)
  BY <1>1 DEF Upsert, Answerable
<1>3. Becomes(c, n) /\ NoteFailure(c, d) /\ UNCHANGED <<session, late, channel, threads, begun>>
  BY DEF Skip
<1> HIDE DEF n
<1> QED
  BY <1>2, <1>3, CallBecomes, NoteFailureTypes DEF TypeInv

LEMMA SendTypes ==
  ASSUME TypeInv, NEW c \in calls, NEW d \in Dest, Send(c, d)
  PROVE  TypeInv'
<1> DEFINE ref == IF Shape[d.backend] = "poster" THEN 0 ELSE RefFor(c.refs, d)
           out == {[dest |-> d, ref |-> ref, done |-> FALSE]}
           n == [c EXCEPT !.todo = @ \ {d}, !.sent = out]
<1>1. c \in Upsert /\ Answerable(c) /\ c.refs \in RefMap
  BY DEF TypeInv, Upsert
<1>2. ref \in Nat
  BY <1>1, RefForEntries
<1> HIDE DEF ref
<1>3. out \in SUBSET Pending
  BY <1>2 DEF Pending
<1> HIDE DEF out
<1>4. n \in Upsert /\ Answerable(n)
  BY <1>1, <1>3 DEF Upsert, Answerable
<1>5. Becomes(c, n) /\ UNCHANGED <<session, late, channel, threads, begun, unsent>>
  BY DEF Send, ref, out
<1> HIDE DEF n
<1> QED
  BY <1>4, <1>5, CallBecomes DEF TypeInv

LEMMA ApplyTypes ==
  ASSUME TypeInv, NEW c \in calls, Apply(c)
  PROVE  TypeInv'
<1>1. PICK s \in c.sent :
        /\ CarryOut(s.dest, s.ref, MessageFor(c, s.dest))
        /\ Becomes(c, [c EXCEPT !.sent = {[s EXCEPT !.ref = Written(s.dest, s.ref), !.done = TRUE]}])
        /\ UNCHANGED <<session, late, threads, begun, unsent>>
  BY DEF Apply, Written
<1> DEFINE out == {[s EXCEPT !.ref = Written(s.dest, s.ref), !.done = TRUE]}
           n == [c EXCEPT !.sent = out]
<1>2. c \in Upsert /\ Answerable(c) /\ s \in Pending
  BY DEF TypeInv, Upsert
<1>3. s.dest \in Dest /\ s.ref \in Nat
  BY <1>2 DEF Pending
<1>4. channel' \in [Dest -> Seq(Message)] /\ Written(s.dest, s.ref) \in Nat \ {0}
  BY <1>1, <1>3, MessageForType, CarryOutWrites DEF TypeInv
<1>5. out \in SUBSET Pending
  BY <1>2, <1>4 DEF Pending
<1>6. Becomes(c, n)
  BY <1>1
<1> HIDE DEF out
<1>7. n \in Upsert /\ Answerable(n)
  BY <1>2, <1>5 DEF Upsert, Answerable
<1> HIDE DEF n
<1> QED
  BY <1>1, <1>4, <1>6, <1>7, CallBecomes DEF TypeInv

LEMMA SingleRef ==
  ASSUME NEW s \in Pending, s.done
  PROVE  [d \in {s.dest} |-> s.ref] \in RefMap
<1>1. {s.dest} \in SUBSET Dest /\ s.ref \in Nat \ {0}
  BY DEF Pending
<1>2. [d \in {s.dest} |-> s.ref] \in [{s.dest} -> Nat \ {0}]
  BY <1>1
<1> QED
  BY <1>1, <1>2, RefMapIntro

\* The references of a call after the answer to s.
RefsOnAnswer(c, s) ==
  IF RefKept(c, s.dest) THEN Merged(c.newRefs, [d \in {s.dest} |-> s.ref]) ELSE c.newRefs

LEMMA AnswerTypes ==
  ASSUME TypeInv, NEW c \in calls, Answer(c)
  PROVE  TypeInv'
<1>1. PICK s \in c.sent :
        /\ s.done
        /\ Becomes(c, [c EXCEPT !.sent = {}, !.newRefs = RefsOnAnswer(c, s)])
        /\ unsent' = IF session[c.batch.key].inc = c.inc
                     THEN [unsent EXCEPT ![c.batch.key] = @ \ {s.dest}] ELSE unsent
        /\ UNCHANGED <<session, late, channel, threads, begun>>
  <2>1. c \in Upsert
    BY DEF TypeInv
  <2> QED
    BY <2>1 DEF Answer, RefsOnAnswer, Upsert
<1> DEFINE refs == RefsOnAnswer(c, s)
           n == [c EXCEPT !.sent = {}, !.newRefs = refs]
<1>2. c \in Upsert /\ Answerable(c) /\ s \in Pending /\ c.newRefs \in RefMap
  BY DEF TypeInv, Upsert
<1>3. refs \in RefMap
  BY <1>1, <1>2, SingleRef, MergedEntries DEF RefsOnAnswer
<1>4. Becomes(c, n)
  BY <1>1
<1> HIDE DEF refs
<1>5. n \in Upsert /\ Answerable(n)
  BY <1>2, <1>3 DEF Upsert, Answerable
<1>6. unsent' \in [SessionKey -> SUBSET Dest]
  BY <1>1, <1>2, BatchEvents DEF TypeInv, Upsert
<1> HIDE DEF n
<1> QED
  BY <1>1, <1>4, <1>5, <1>6, CallBecomes DEF TypeInv

LEMMA FailTypes ==
  ASSUME TypeInv, NEW c \in calls, Fail(c)
  PROVE  TypeInv'
<1>1. PICK s \in c.sent :
        /\ late' \in {late, late \cup {[dest |-> s.dest, ref |-> s.ref, msg |-> MessageFor(c, s.dest)]}}
        /\ Becomes(c, [c EXCEPT !.sent = {}, !.failed = @ \cup {s.dest}, !.newRefs = RefsOnError(c, s)])
        /\ NoteFailure(c, s.dest)
        /\ UNCHANGED <<session, channel, threads, begun>>
  BY DEF Fail
<1> DEFINE n == [c EXCEPT !.sent = {}, !.failed = @ \cup {s.dest}, !.newRefs = c.newRefs]
           request == [dest |-> s.dest, ref |-> s.ref, msg |-> MessageFor(c, s.dest)]
<1>2. c \in Upsert /\ Answerable(c) /\ s \in Pending
  BY DEF TypeInv, Upsert
<1>3. s.dest \in Dest /\ s.ref \in Nat
  BY <1>2 DEF Pending
<1>4. request \in [dest : Dest, ref : Nat, msg : Message]
  BY <1>3, MessageForType
<1>5. Becomes(c, n)
  BY <1>1 DEF RefsOnError
<1>6. n \in Upsert /\ Answerable(n)
  BY <1>2, <1>3 DEF Upsert, Answerable
<1>7. late' \subseteq [dest : Dest, ref : Nat, msg : Message]
  BY <1>1, <1>4 DEF TypeInv
<1> HIDE DEF n
<1> QED
  BY <1>1, <1>3, <1>5, <1>6, <1>7, CallBecomes, NoteFailureTypes DEF TypeInv

LEMMA ApplyLateTypes ==
  ASSUME TypeInv, NEW r \in late, ApplyLate(r)
  PROVE  TypeInv'
<1>1. r.dest \in Dest /\ r.ref \in Nat /\ r.msg \in Message
  BY DEF TypeInv
<1>2. channel' \in [Dest -> Seq(Message)]
  BY <1>1, CarryOutWrites DEF ApplyLate, TypeInv
<1> QED
  BY <1>2 DEF ApplyLate, TypeInv

LEMMA MergeRefsTypes ==
  ASSUME TypeInv, NEW c \in calls, MergeRefs(c)
  PROVE  TypeInv'
<1> DEFINE n == [c EXCEPT !.merged = TRUE]
           k == c.batch.key
           refs == Merged(session[k].refs, c.newRefs)
<1>1. c \in Upsert /\ Answerable(c) /\ k \in SessionKey
  BY BatchEvents DEF TypeInv, Upsert
<1>2. n \in Upsert /\ Answerable(n)
  BY <1>1 DEF Upsert, Answerable
<1>3. session[k] \in Session
  BY <1>1 DEF TypeInv
<1>4. refs \in RefMap
  BY <1>1, <1>3, MergedEntries DEF Session, Upsert
<1>5. session' = IF StillCurrent(c) THEN [session EXCEPT ![k] = [session[k] EXCEPT !.refs = refs]]
                 ELSE session
  BY <1>1, <1>3 DEF MergeRefs, MergedSession, Session, TypeInv
<1> HIDE DEF refs
<1>6. [session[k] EXCEPT !.refs = refs] \in Session
  BY <1>3, <1>4 DEF Session
<1>7. session' \in [SessionKey -> Session]
  BY <1>1, <1>5, <1>6 DEF TypeInv
<1>8. Becomes(c, n) /\ UNCHANGED <<late, channel, threads, begun, unsent>>
  BY DEF MergeRefs
<1> HIDE DEF n
<1> QED
  BY <1>2, <1>7, <1>8, CallBecomes DEF TypeInv

LEMMA ReplyTypesKept ==
  ASSUME TypeInv, NEW c \in calls, NEW r \in c.replies, Reply(c, r)
  PROVE  TypeInv'
<1> DEFINE n == [c EXCEPT !.replies = @ \ {r}]
           post == [dest |-> r.dest, ref |-> RefFor(c.refs, r.dest), event |-> r.event,
                    key |-> c.batch.key, inc |-> c.inc]
<1>1. c \in Upsert /\ Answerable(c) /\ r \in Answered /\ c.refs \in RefMap
  BY DEF TypeInv, Upsert
<1>2. n \in Upsert /\ Answerable(n)
  BY <1>1 DEF Upsert, Answerable
<1>3. RefFor(c.refs, r.dest) \in Nat \ {0}
  BY <1>1, RefForEntries DEF Answerable
<1>4. post \in [dest : Dest, ref : Nat \ {0}, event : BatchEvent, key : SessionKey, inc : Nat \ {0}]
  BY <1>1, <1>3, BatchEvents DEF Upsert, Answered
<1>5. /\ Becomes(c, n) /\ threads' \in {threads, threads \cup {post}}
      /\ UNCHANGED <<session, late, channel, begun, unsent>>
  BY DEF Reply
<1> HIDE DEF n, post
<1> QED
  BY <1>2, <1>4, <1>5, CallBecomes DEF TypeInv

LEMMA TickTypes ==
  ASSUME TypeInv, Tick
  PROVE  TypeInv'
<1> DEFINE aged(k) == [session[k] EXCEPT !.idle = @ + 1]
<1>1. ASSUME NEW k \in SessionKey, session[k].idle <= SessionTTL
      PROVE  aged(k) \in Session
  <2>1. session[k] \in Session /\ SessionTTL \in Nat
    BY ConfigAssumption DEF TypeInv, ConfigAssumption
  <2>2. session[k].idle + 1 \in 0 .. SessionTTL + 1
    BY <1>1, <2>1 DEF Session
  <2> QED
    BY <2>1, <2>2 DEF Session
<1> HIDE DEF aged
<1>2. session' = [k \in SessionKey |->
                    IF session[k].inc > 0 /\ session[k].idle <= SessionTTL THEN aged(k) ELSE session[k]]
  BY DEF Tick, AgedSessions, aged
<1>3. session' \in [SessionKey -> Session]
  BY <1>1, <1>2 DEF TypeInv
<1> QED
  BY <1>3 DEF Tick, TypeInv

LEMMA TypesKept == TypeInv /\ [Next]_vars => TypeInv'
<1> SUFFICES ASSUME TypeInv, [Next]_vars
             PROVE  TypeInv'
  OBVIOUS
<1>1. ASSUME NEW c \in calls, Return(c)
      PROVE  TypeInv'
  BY <1>1 DEF Return, TypeInv
<1>2. CASE UNCHANGED vars
  BY <1>2 DEF TypeInv, vars
<1> QED
  BY <1>1, <1>2, BeginTypes, TickTypes, SkipTypes, SendTypes, ApplyTypes, AnswerTypes, FailTypes,
     ApplyLateTypes, MergeRefsTypes, ReplyTypesKept
     DEF Next

LEMMA InitTypes == Init => TypeInv
<1> SUFFICES ASSUME Init
             PROVE  TypeInv
  OBVIOUS
<1>1. 0 \in 0 .. SessionTTL + 1
  BY ConfigAssumption DEF ConfigAssumption
<1>2. [inc |-> 0, perApp |-> Empty, refs |-> Empty, idle |-> 0] \in Session
  BY <1>1, EmptyMap DEF Session
<1>3. channel \in [Dest -> Seq(Message)]
  BY EmptySeq DEF Init
<1> QED
  BY <1>2, <1>3 DEF Init, TypeInv

LEMMA PostedMessages ==
  ASSUME TypeInv, NEW d \in Dest, NEW i \in DOMAIN channel[d]
  PROVE  channel[d][i] \in Message /\ i \in Nat \ {0}
<1>1. channel[d] \in Seq(Message) /\ i \in 1 .. Len(channel[d])
  BY LenProperties DEF TypeInv
<1> QED
  BY <1>1, ElementOfSeq

LEMMA TypesHold == Spec => []TypeInv
BY InitTypes, TypesKept, PTL DEF Spec

\* The records and maps are what their comments say; in particular an app of
\* a session always has an entry, the last of a batch that is no duplicate.
THEOREM SessionTypeCorrect == Spec => []TypeOK
<1>1. ASSUME TypeInv
      PROVE  TypeOK
  <2>1. \A f \in PerApp : IsPerApp(f)
    BY PerAppValues DEF IsPerApp
  <2>2. \A f \in RefMap : IsRefs(f)
    BY RefMapValues DEF IsRefs
  <2>3. \A m \in Message : IsMessage(m)
    BY <2>1 DEF IsMessage, Message
  <2>4. \A c \in calls : IsCall(c)
    <3> SUFFICES ASSUME NEW c \in calls
                 PROVE  IsCall(c)
      OBVIOUS
    <3>1. c \in Upsert
      BY <1>1 DEF TypeInv
    <3>2. c.sent \subseteq [dest : Dest, ref : Nat, done : BOOLEAN]
      BY <3>1 DEF Upsert, Pending
    <3> QED
      BY <2>1, <2>2, <3>1, <3>2 DEF IsCall, Upsert, Answered
  <2>5. \A k \in SessionKey :
          /\ session[k].inc \in Nat /\ session[k].idle \in 0 .. SessionTTL + 1
          /\ IsPerApp(session[k].perApp) /\ IsRefs(session[k].refs)
    BY <1>1, <2>1, <2>2 DEF TypeInv, Session
  <2>6. \A d \in Dest : \A i \in DOMAIN channel[d] : IsMessage(channel[d][i])
    BY <1>1, <2>3, PostedMessages
  <2>7. \A r \in late : r.dest \in Dest /\ r.ref \in Nat /\ IsMessage(r.msg)
    BY <1>1, <2>3 DEF TypeInv
  <2> QED
    BY <1>1, <2>4, <2>5, <2>6, <2>7 DEF TypeOK, TypeInv
<1> QED
  BY <1>1, TypesHold, PTL

-----------------------------------------------------------------------------
(* What a step does to its call.  The snapshot of a call stays what it was. *)

NextCall(c, n, todo, sent, newRefs, failed, merged) ==
  /\ Becomes(c, n)
  /\ n.batch = c.batch /\ n.inc = c.inc /\ n.apps = c.apps /\ n.refs = c.refs /\ n.changed = c.changed
  /\ n.todo = todo /\ n.sent = sent /\ n.newRefs = newRefs /\ n.failed = failed /\ n.merged = merged

LEMMA SkipCall ==
  ASSUME TypeInv, NEW c \in calls, NEW d \in Dest, Skip(c, d)
  PROVE  /\ \E n : NextCall(c, n, c.todo \ {d}, {}, c.newRefs, c.failed \cup {d}, c.merged)
         /\ c.sent = {} /\ d \in c.todo /\ NoteFailure(c, d)
         /\ UNCHANGED <<session, late, channel, threads, begun>>
<1> DEFINE n == [c EXCEPT !.todo = @ \ {d}, !.failed = @ \cup {d}]
<1>1. /\ Becomes(c, n) /\ c.sent = {} /\ d \in c.todo /\ NoteFailure(c, d)
      /\ UNCHANGED <<session, late, channel, threads, begun>>
  BY DEF Skip
<1>2. c \in Upsert
  BY DEF TypeInv
<1>3. NextCall(c, n, c.todo \ {d}, {}, c.newRefs, c.failed \cup {d}, c.merged)
  BY <1>1, <1>2 DEF NextCall, Upsert
<1> QED
  BY <1>1, <1>3

\* A message to edit is the one the snapshot refers to.
LEMMA SendCall ==
  ASSUME TypeInv, NEW c \in calls, NEW d \in Dest, Send(c, d)
  PROVE  /\ \E n, ref :
              /\ NextCall(c, n, c.todo \ {d}, {[dest |-> d, ref |-> ref, done |-> FALSE]},
                          c.newRefs, c.failed, c.merged)
              /\ ref # 0 => d \in DOMAIN c.refs /\ ref = c.refs[d]
              /\ Edits(d) /\ d \in DOMAIN c.refs => ref = c.refs[d]
         /\ c.sent = {} /\ d \in c.todo
         /\ UNCHANGED <<session, late, channel, threads, begun, unsent>>
<1> DEFINE ref == IF Shape[d.backend] = "poster" THEN 0 ELSE RefFor(c.refs, d)
           out == [dest |-> d, ref |-> ref, done |-> FALSE]
           n == [c EXCEPT !.todo = @ \ {d}, !.sent = {out}]
<1>1. /\ Becomes(c, n) /\ c.sent = {} /\ d \in c.todo
      /\ UNCHANGED <<session, late, channel, threads, begun, unsent>>
  BY DEF Send
<1>2. c \in Upsert /\ c.refs \in RefMap
  BY DEF TypeInv, Upsert
<1>3. /\ ref # 0 => d \in DOMAIN c.refs /\ ref = c.refs[d]
      /\ Edits(d) /\ d \in DOMAIN c.refs => ref = c.refs[d]
  BY <1>2, RefForEntries DEF Edits
<1> HIDE DEF out
<1>4. NextCall(c, n, c.todo \ {d}, {out}, c.newRefs, c.failed, c.merged)
  BY <1>1, <1>2 DEF NextCall, Upsert
<1> HIDE DEF n, ref
<1> QED
  BY <1>1, <1>3, <1>4 DEF out

LEMMA ApplyCall ==
  ASSUME TypeInv, NEW c \in calls, Apply(c)
  PROVE  \E s \in c.sent : \E n, out :
           /\ NextCall(c, n, c.todo, {out}, c.newRefs, c.failed, c.merged)
           /\ out.dest = s.dest /\ out.ref = Written(s.dest, s.ref) /\ out.done
           /\ ~ s.done /\ CarryOut(s.dest, s.ref, MessageFor(c, s.dest))
           /\ s \in Pending /\ s.dest \in Dest /\ s.ref \in Nat
           /\ UNCHANGED <<session, late, threads, begun, unsent>>
<1>1. PICK s \in c.sent :
        /\ ~ s.done /\ CarryOut(s.dest, s.ref, MessageFor(c, s.dest))
        /\ Becomes(c, [c EXCEPT !.sent = {[s EXCEPT !.ref = Written(s.dest, s.ref), !.done = TRUE]}])
        /\ UNCHANGED <<session, late, threads, begun, unsent>>
  BY DEF Apply, Written
<1> DEFINE out == [s EXCEPT !.ref = Written(s.dest, s.ref), !.done = TRUE]
           n == [c EXCEPT !.sent = {out}]
<1>2. c \in Upsert /\ s \in Pending /\ s.dest \in Dest /\ s.ref \in Nat
  BY DEF TypeInv, Upsert, Pending
<1>3. out.dest = s.dest /\ out.ref = Written(s.dest, s.ref) /\ out.done
  BY <1>2 DEF Pending
<1>4. Becomes(c, n)
  BY <1>1
<1> HIDE DEF out
<1>5. NextCall(c, n, c.todo, {out}, c.newRefs, c.failed, c.merged)
  BY <1>2, <1>4 DEF NextCall, Upsert
<1> HIDE DEF n
<1> QED
  BY <1>1, <1>2, <1>3, <1>5

LEMMA AnswerCall ==
  ASSUME TypeInv, NEW c \in calls, Answer(c)
  PROVE  \E s \in c.sent : \E n :
           /\ NextCall(c, n, c.todo, {}, RefsOnAnswer(c, s), c.failed, c.merged)
           /\ s.done /\ s \in Pending /\ s.dest \in Dest
           /\ unsent' = IF session[c.batch.key].inc = c.inc
                        THEN [unsent EXCEPT ![c.batch.key] = @ \ {s.dest}] ELSE unsent
           /\ UNCHANGED <<session, late, channel, threads, begun>>
<1>1. c \in Upsert
  BY DEF TypeInv
<1>2. PICK s \in c.sent :
        /\ s.done
        /\ Becomes(c, [c EXCEPT !.sent = {}, !.newRefs = RefsOnAnswer(c, s)])
        /\ unsent' = IF session[c.batch.key].inc = c.inc
                     THEN [unsent EXCEPT ![c.batch.key] = @ \ {s.dest}] ELSE unsent
        /\ UNCHANGED <<session, late, channel, threads, begun>>
  BY <1>1 DEF Answer, RefsOnAnswer, Upsert
<1> DEFINE refs == RefsOnAnswer(c, s)
           n == [c EXCEPT !.sent = {}, !.newRefs = refs]
<1>3. s \in Pending /\ s.dest \in Dest
  BY <1>1 DEF Upsert, Pending
<1>4. Becomes(c, n)
  BY <1>2
<1> HIDE DEF refs
<1>5. NextCall(c, n, c.todo, {}, refs, c.failed, c.merged)
  BY <1>1, <1>4 DEF NextCall, Upsert
<1> HIDE DEF n
<1> QED
  BY <1>2, <1>3, <1>5 DEF refs

LEMMA FailCall ==
  ASSUME TypeInv, NEW c \in calls, Fail(c)
  PROVE  \E s \in c.sent : \E n :
           /\ NextCall(c, n, c.todo, {}, c.newRefs, c.failed \cup {s.dest}, c.merged)
           /\ s.done => "lost" \in Faults
           /\ late' = late \/ "late" \in Faults
           /\ s.dest \in Dest /\ NoteFailure(c, s.dest)
           /\ UNCHANGED <<session, channel, threads, begun>>
<1>1. c \in Upsert
  BY DEF TypeInv
<1>2. PICK s \in c.sent :
        /\ s.done => "lost" \in Faults
        /\ late' = late \/ "late" \in Faults
        /\ Becomes(c, [c EXCEPT !.sent = {}, !.failed = @ \cup {s.dest}, !.newRefs = c.newRefs])
        /\ NoteFailure(c, s.dest) /\ UNCHANGED <<session, channel, threads, begun>>
  BY DEF Fail, RefsOnError
<1> DEFINE n == [c EXCEPT !.sent = {}, !.failed = @ \cup {s.dest}, !.newRefs = c.newRefs]
<1>3. s.dest \in Dest
  BY <1>1 DEF Upsert, Pending
<1>4. Becomes(c, n)
  BY <1>2
<1>5. NextCall(c, n, c.todo, {}, c.newRefs, c.failed \cup {s.dest}, c.merged)
  BY <1>1, <1>4 DEF NextCall, Upsert
<1> HIDE DEF n
<1> QED
  BY <1>2, <1>3, <1>5

LEMMA MergeRefsCall ==
  ASSUME TypeInv, NEW c \in calls, MergeRefs(c)
  PROVE  /\ \E n : NextCall(c, n, {}, {}, c.newRefs, c.failed, TRUE)
         /\ c.todo = {} /\ c.sent = {} /\ ~ c.merged
         /\ UNCHANGED <<late, channel, threads, begun, unsent>>
         /\ \A k \in SessionKey :
              /\ session'[k].inc = session[k].inc /\ session'[k].perApp = session[k].perApp
              /\ session'[k].refs = IF k = c.batch.key /\ session[k].inc = c.inc
                                    THEN Merged(session[k].refs, c.newRefs) ELSE session[k].refs
<1> DEFINE n == [c EXCEPT !.merged = TRUE]
           k == c.batch.key
           new == [session[k] EXCEPT !.refs = Merged(session[k].refs, c.newRefs)]
<1>1. /\ Becomes(c, n) /\ c.todo = {} /\ c.sent = {} /\ ~ c.merged
      /\ UNCHANGED <<late, channel, threads, begun, unsent>>
  BY DEF MergeRefs
<1>2. c \in Upsert /\ k \in SessionKey /\ session[k] \in Session
  BY BatchEvents DEF TypeInv, Upsert
<1>3. NextCall(c, n, {}, {}, c.newRefs, c.failed, TRUE)
  BY <1>1, <1>2 DEF NextCall, Upsert
<1>4. session' = IF session[k].inc = c.inc THEN [session EXCEPT ![k] = new] ELSE session
  BY <1>2 DEF MergeRefs, MergedSession, StillCurrent, TypeInv, Session
<1>5. /\ new.inc = session[k].inc /\ new.perApp = session[k].perApp
      /\ new.refs = Merged(session[k].refs, c.newRefs)
  BY <1>2 DEF Session
<1> HIDE DEF n, new
<1>6. /\ session'[k] = IF session[k].inc = c.inc THEN new ELSE session[k]
      /\ \A h \in SessionKey \ {k} : session'[h] = session[h]
  BY <1>2, <1>4 DEF TypeInv
<1> QED
  BY <1>1, <1>3, <1>5, <1>6

LEMMA ReplyCall ==
  ASSUME TypeInv, NEW c \in calls, NEW r \in c.replies, Reply(c, r)
  PROVE  /\ \E n : NextCall(c, n, c.todo, c.sent, c.newRefs, c.failed, c.merged)
         /\ threads' \in {threads, threads \cup
              {[dest |-> r.dest, ref |-> RefFor(c.refs, r.dest), event |-> r.event,
                key |-> c.batch.key, inc |-> c.inc]}}
         /\ UNCHANGED <<session, late, channel, begun, unsent>>
<1> DEFINE n == [c EXCEPT !.replies = @ \ {r}]
<1>1. c \in Upsert
  BY DEF TypeInv
<1>2. Becomes(c, n) /\ UNCHANGED <<session, late, channel, begun, unsent>>
  BY DEF Reply
<1>3. NextCall(c, n, c.todo, c.sent, c.newRefs, c.failed, c.merged)
  BY <1>1, <1>2 DEF NextCall, Upsert
<1> QED
  BY <1>2, <1>3 DEF Reply

-----------------------------------------------------------------------------
(* References and the sessions they belong to.                             *)

\* ref is a message that incarnation inc of session k posted at d.
PostedBy(d, ref, k, inc) ==
  ref \in DOMAIN channel[d] /\ channel[d][ref].key = k /\ channel[d][ref].inc = inc

Owned(refs, k, inc) == \A d \in DOMAIN refs : PostedBy(d, refs[d], k, inc)

\* The request a call has out was given a reference of the call, or has one.
CallOwns(c) ==
  /\ Owned(c.refs, c.batch.key, c.inc) /\ Owned(c.newRefs, c.batch.key, c.inc)
  /\ \A s \in c.sent : s.ref # 0 => PostedBy(s.dest, s.ref, c.batch.key, c.inc)

\* RefsOwned, by the places where a reference is kept.
RefsInv ==
  /\ \A k \in SessionKey : Owned(session[k].refs, k, session[k].inc)
  /\ \A c \in calls : CallOwns(c)
  /\ \A t \in threads : PostedBy(t.dest, t.ref, t.key, t.inc)

LEMMA PostedStays ==
  ASSUME Grows, NEW d \in Dest, NEW ref, NEW k, NEW inc
  PROVE  PostedBy(d, ref, k, inc) => PostedBy(d, ref, k, inc)'
BY DEF Grows, PostedBy

LEMMA OwnedStays ==
  ASSUME Grows, NEW refs \in RefMap, NEW k, NEW inc
  PROVE  Owned(refs, k, inc) => Owned(refs, k, inc)'
BY PostedStays, RefMapValues DEF Owned

LEMMA CallOwnsStays ==
  ASSUME Grows, NEW c \in Upsert
  PROVE  CallOwns(c) => CallOwns(c)'
<1>1. c.refs \in RefMap /\ c.newRefs \in RefMap /\ \A s \in c.sent : s.dest \in Dest
  BY DEF Upsert, Pending
<1> QED
  BY <1>1, OwnedStays, PostedStays DEF CallOwns

\* A step that leaves the sessions alone, and of the calls changes c alone.
LEMMA OneCallOwns ==
  ASSUME TypeInv, RefsInv, Grows, NEW c \in calls, NEW n, Becomes(c, n), CallOwns(n)',
         UNCHANGED <<session, threads>>
  PROVE  RefsInv'
<1>1. \A x \in calls' : CallOwns(x)'
  BY CallOwnsStays DEF TypeInv, RefsInv, Becomes
<1>2. \A k \in SessionKey : Owned(session[k].refs, k, session[k].inc)'
  <2>1. \A k \in SessionKey : session[k].refs \in RefMap
    BY DEF TypeInv, Session
  <2> QED
    BY <2>1, OwnedStays DEF RefsInv
<1>3. \A t \in threads : PostedBy(t.dest, t.ref, t.key, t.inc)'
  BY PostedStays DEF TypeInv, RefsInv
<1> QED
  BY <1>1, <1>2, <1>3 DEF RefsInv

LEMMA ChannelKept ==
  ASSUME UNCHANGED channel
  PROVE  Grows
BY DEF Grows

LEMMA MergedOwned ==
  ASSUME NEW refs \in RefMap, NEW newRefs \in RefMap, NEW k, NEW inc,
         Owned(refs, k, inc), Owned(newRefs, k, inc)
  PROVE  Owned(Merged(refs, newRefs), k, inc)
<1> DEFINE all == Merged(refs, newRefs)
<1>1. /\ DOMAIN all = DOMAIN refs \cup DOMAIN newRefs
      /\ \A d \in DOMAIN all : all[d] = IF d \in DOMAIN newRefs THEN newRefs[d] ELSE refs[d]
  BY MergedEntries
<1> HIDE DEF all
<1>2. Owned(all, k, inc)
  BY <1>1 DEF Owned
<1> QED
  BY <1>2 DEF all

LEMMA BeginOwns ==
  ASSUME TypeInv, RefsInv, NEW b \in Batch, BeginUpsert(b)
  PROVE  RefsInv'
<1> DEFINE k == b.key
           st == SessionFor(k)
<1>1. k \in SessionKey
  BY BatchEvents
<1>2. Owned(st.refs, k, st.inc) /\ st.refs \in RefMap
  BY <1>1, SessionForType, EmptyMap DEF RefsInv, Owned, Session
<1>3. Grows /\ UNCHANGED threads
  BY DEF BeginUpsert, Grows
<1> HIDE DEF st
<1>4. CallOwns(Started(b))
  <2>1. /\ Started(b).batch.key = k /\ Started(b).inc = st.inc /\ Started(b).refs = st.refs
        /\ Started(b).newRefs = Empty /\ Started(b).sent = {}
    BY DEF Started, st
  <2> QED
    BY <1>2, <2>1, EmptyMap DEF CallOwns, Owned
<1>5. \A x \in calls' : CallOwns(x)'
  BY <1>3, <1>4, BeginTypes, CallOwnsStays DEF TypeInv, RefsInv
<1>6. \A h \in SessionKey : Owned(session[h].refs, h, session[h].inc)'
  <2>1. PICK refs \in RefMap, inc \in Nat : refs = st.refs /\ inc = st.inc
    BY <1>1, <1>2, SessionForType DEF st
  <2>2. session'[k].refs = refs /\ session'[k].inc = inc
    BY <2>1, BeginTypes DEF st
  <2>3. Owned(refs, k, inc)'
    BY <1>2, <1>3, <2>1, OwnedStays
  <2>4. ASSUME NEW h \in SessionKey, h # k
        PROVE  Owned(session[h].refs, h, session[h].inc)'
    <3>1. session'[h] = session[h] /\ session[h].refs \in RefMap /\ session[h].inc \in Nat
      BY <2>4, BeginTypes DEF TypeInv, Session
    <3>2. PICK mine \in RefMap, inc2 \in Nat : mine = session[h].refs /\ inc2 = session[h].inc
      BY <3>1
    <3>3. Owned(mine, h, inc2)'
      BY <1>3, <3>2, OwnedStays DEF RefsInv
    <3> QED
      BY <3>1, <3>2, <3>3
  <2> QED
    BY <2>2, <2>3, <2>4
<1>7. \A t \in threads : PostedBy(t.dest, t.ref, t.key, t.inc)'
  BY <1>3, PostedStays DEF TypeInv, RefsInv
<1> QED
  BY <1>3, <1>5, <1>6, <1>7 DEF RefsInv

LEMMA SkipOwns ==
  ASSUME TypeInv, RefsInv, NEW c \in calls, NEW d \in Dest, Skip(c, d)
  PROVE  RefsInv'
<1>1. PICK n : NextCall(c, n, c.todo \ {d}, {}, c.newRefs, c.failed \cup {d}, c.merged)
  BY SkipCall
<1>2. Grows /\ UNCHANGED <<session, threads>>
  BY SkipCall, ChannelKept
<1>3. CallOwns(c)'
  BY <1>2, CallOwnsStays DEF TypeInv, RefsInv
<1>4. CallOwns(n)'
  BY <1>1, <1>3 DEF CallOwns, NextCall
<1> QED
  BY <1>1, <1>2, <1>4, OneCallOwns DEF NextCall

LEMMA SendOwns ==
  ASSUME TypeInv, RefsInv, NEW c \in calls, NEW d \in Dest, Send(c, d)
  PROVE  RefsInv'
<1>1. PICK n, ref :
        /\ NextCall(c, n, c.todo \ {d}, {[dest |-> d, ref |-> ref, done |-> FALSE]},
                    c.newRefs, c.failed, c.merged)
        /\ ref # 0 => d \in DOMAIN c.refs /\ ref = c.refs[d]
  BY SendCall
<1>2. Grows /\ UNCHANGED <<session, threads>>
  BY SendCall, ChannelKept
<1>3. CallOwns(c)'
  BY <1>2, CallOwnsStays DEF TypeInv, RefsInv
<1>4. ref # 0 => PostedBy(d, ref, c.batch.key, c.inc)'
  BY <1>1, <1>3 DEF CallOwns, Owned
<1>5. CallOwns(n)'
  BY <1>1, <1>3, <1>4 DEF CallOwns, NextCall
<1> QED
  BY <1>1, <1>2, <1>5, OneCallOwns DEF NextCall

LEMMA ApplyOwns ==
  ASSUME TypeInv, RefsInv, NEW c \in calls, Apply(c)
  PROVE  RefsInv'
<1>1. PICK s \in c.sent : \E n, out :
        /\ NextCall(c, n, c.todo, {out}, c.newRefs, c.failed, c.merged)
        /\ out.dest = s.dest /\ out.ref = Written(s.dest, s.ref)
        /\ CarryOut(s.dest, s.ref, MessageFor(c, s.dest))
        /\ s.dest \in Dest /\ s.ref \in Nat /\ UNCHANGED <<session, threads>>
  BY ApplyCall
<1>2. PICK n, out :
        /\ NextCall(c, n, c.todo, {out}, c.newRefs, c.failed, c.merged)
        /\ out.dest = s.dest /\ out.ref = Written(s.dest, s.ref)
  BY <1>1
<1>3. PICK ref : ref = Written(s.dest, s.ref)
  OBVIOUS
<1>4. /\ Grows
      /\ ref \in DOMAIN channel'[s.dest] /\ ref # 0
      /\ ~ IsEdit(s.dest, s.ref) => channel'[s.dest][ref] = MessageFor(c, s.dest)
  BY <1>1, <1>3, MessageForType, CarryOutWrites DEF TypeInv
<1>5. PostedBy(s.dest, ref, c.batch.key, c.inc)'
  <2>1. CASE ~ IsEdit(s.dest, s.ref)
    BY <1>1, <1>4, <2>1, MessageForType DEF PostedBy
  <2>2. CASE IsEdit(s.dest, s.ref)
    <3>1. ref = s.ref /\ s.ref \in DOMAIN channel[s.dest]
      BY <1>3, <2>2 DEF Written, IsEdit
    <3>2. PostedBy(s.dest, s.ref, c.batch.key, c.inc)
      BY <1>4, <3>1 DEF RefsInv, CallOwns
    <3> QED
      BY <1>1, <1>4, <3>1, <3>2, PostedStays
  <2> QED
    BY <2>1, <2>2
<1>6. CallOwns(c)'
  BY <1>4, CallOwnsStays DEF TypeInv, RefsInv
<1>7. CallOwns(n)'
  BY <1>2, <1>3, <1>5, <1>6 DEF CallOwns, NextCall
<1> QED
  BY <1>1, <1>2, <1>4, <1>7, OneCallOwns DEF NextCall

LEMMA AnswerOwns ==
  ASSUME TypeInv, RefsInv, NEW c \in calls, Answer(c)
  PROVE  RefsInv'
<1>1. PICK s \in c.sent : \E n :
        /\ NextCall(c, n, c.todo, {}, RefsOnAnswer(c, s), c.failed, c.merged)
        /\ s.done /\ s \in Pending /\ UNCHANGED <<session, channel, threads>>
  BY AnswerCall
<1>2. PICK n : NextCall(c, n, c.todo, {}, RefsOnAnswer(c, s), c.failed, c.merged)
  BY <1>1
<1> DEFINE single == [d \in {s.dest} |-> s.ref]
<1>3. c.newRefs \in RefMap /\ CallOwns(c)
  BY DEF TypeInv, RefsInv, Upsert
<1>4. /\ single \in RefMap /\ Owned(single, c.batch.key, c.inc)
      /\ Owned(c.newRefs, c.batch.key, c.inc)
  BY <1>1, <1>3, SingleRef DEF CallOwns, Owned, Pending
<1>5. Owned(RefsOnAnswer(c, s), c.batch.key, c.inc)
  <2> HIDE DEF single
  <2>1. Owned(Merged(c.newRefs, single), c.batch.key, c.inc)
    BY <1>3, <1>4, MergedOwned
  <2> QED
    BY <1>4, <2>1 DEF RefsOnAnswer, single
<1>6. CallOwns(n)
  BY <1>2, <1>3, <1>5 DEF CallOwns, NextCall
<1>7. CallOwns(n)' /\ Grows
  BY <1>1, <1>6, ChannelKept DEF CallOwns, Owned, PostedBy
<1> QED
  BY <1>1, <1>2, <1>7, OneCallOwns DEF NextCall

LEMMA FailOwns ==
  ASSUME TypeInv, RefsInv, NEW c \in calls, Fail(c)
  PROVE  RefsInv'
<1>1. PICK s \in c.sent : \E n :
        /\ NextCall(c, n, c.todo, {}, c.newRefs, c.failed \cup {s.dest}, c.merged)
        /\ UNCHANGED <<session, channel, threads>>
  BY FailCall
<1>2. PICK n : NextCall(c, n, c.todo, {}, c.newRefs, c.failed \cup {s.dest}, c.merged)
  BY <1>1
<1>3. CallOwns(c)' /\ Grows
  BY <1>1, ChannelKept, CallOwnsStays DEF TypeInv, RefsInv
<1>4. CallOwns(n)'
  BY <1>2, <1>3 DEF CallOwns, NextCall
<1> QED
  BY <1>1, <1>2, <1>3, <1>4, OneCallOwns DEF NextCall

LEMMA MergeRefsOwns ==
  ASSUME TypeInv, RefsInv, NEW c \in calls, MergeRefs(c)
  PROVE  RefsInv'
<1>1. PICK n : NextCall(c, n, {}, {}, c.newRefs, c.failed, TRUE)
  BY MergeRefsCall
<1>2. UNCHANGED <<channel, threads>>
  BY MergeRefsCall
<1>3. CallOwns(c) /\ c.newRefs \in RefMap
  BY DEF TypeInv, RefsInv, Upsert
<1>4. CallOwns(n)
  BY <1>1, <1>3 DEF CallOwns, NextCall
<1>5. \A x \in calls' : CallOwns(x)
  BY <1>1, <1>4 DEF RefsInv, NextCall, Becomes
<1>6. ASSUME NEW h \in SessionKey
      PROVE  Owned(session'[h].refs, h, session'[h].inc)
  <2>1. /\ session'[h].inc = session[h].inc
        /\ session'[h].refs = IF h = c.batch.key /\ session[h].inc = c.inc
                              THEN Merged(session[h].refs, c.newRefs) ELSE session[h].refs
    BY MergeRefsCall
  <2>2. Owned(session[h].refs, h, session[h].inc) /\ session[h].refs \in RefMap
    BY DEF RefsInv, TypeInv, Session
  <2>3. CASE h = c.batch.key /\ session[h].inc = c.inc
    <3>1. Owned(Merged(session[h].refs, c.newRefs), h, c.inc)
      BY <1>3, <2>2, <2>3, MergedOwned DEF CallOwns
    <3> QED
      BY <2>1, <2>3, <3>1
  <2> QED
    BY <2>1, <2>2, <2>3
<1> QED
  BY <1>2, <1>5, <1>6 DEF RefsInv, CallOwns, Owned, PostedBy

LEMMA ReplyOwns ==
  ASSUME TypeInv, RefsInv, NEW c \in calls, NEW r \in c.replies, Reply(c, r)
  PROVE  RefsInv'
<1> DEFINE post == [dest |-> r.dest, ref |-> RefFor(c.refs, r.dest), event |-> r.event,
                    key |-> c.batch.key, inc |-> c.inc]
<1>1. PICK n : NextCall(c, n, c.todo, c.sent, c.newRefs, c.failed, c.merged)
  BY ReplyCall
<1>2. threads' \in {threads, threads \cup {post}} /\ UNCHANGED <<session, channel>>
  BY ReplyCall
<1>3. CallOwns(c) /\ c.refs \in RefMap /\ r.dest \in DOMAIN c.refs
  BY DEF TypeInv, RefsInv, Upsert, Answerable
<1>4. CallOwns(n)
  BY <1>1, <1>3 DEF CallOwns, NextCall
<1>5. \A x \in calls' : CallOwns(x)
  BY <1>1, <1>4 DEF RefsInv, NextCall, Becomes
<1>6. PostedBy(post.dest, post.ref, post.key, post.inc)
  BY <1>3, RefForEntries DEF CallOwns, Owned
<1> HIDE DEF post
<1>7. \A t \in threads' : PostedBy(t.dest, t.ref, t.key, t.inc)
  BY <1>2, <1>6 DEF RefsInv
<1> QED
  BY <1>2, <1>5, <1>7 DEF RefsInv, CallOwns, Owned, PostedBy

LEMMA ApplyLateOwns ==
  ASSUME TypeInv, RefsInv, NEW r \in late, ApplyLate(r)
  PROVE  RefsInv'
<1>1. Grows
  BY CarryOutWrites DEF ApplyLate, TypeInv
<1>2. UNCHANGED <<session, calls, threads>>
  BY DEF ApplyLate
<1>3. \A x \in calls : CallOwns(x)'
  BY <1>1, CallOwnsStays DEF TypeInv, RefsInv
<1>4. \A k \in SessionKey : Owned(session[k].refs, k, session[k].inc)'
  <2> SUFFICES ASSUME NEW k \in SessionKey
               PROVE  Owned(session[k].refs, k, session[k].inc)'
    OBVIOUS
  <2>1. PICK mine \in RefMap, inc \in Nat : mine = session[k].refs /\ inc = session[k].inc
    BY DEF TypeInv, Session
  <2>2. Owned(mine, k, inc)'
    BY <1>1, <2>1, OwnedStays DEF RefsInv
  <2> QED
    BY <1>2, <2>1, <2>2
<1>5. \A t \in threads : PostedBy(t.dest, t.ref, t.key, t.inc)'
  BY <1>1, PostedStays DEF TypeInv, RefsInv
<1> QED
  BY <1>2, <1>3, <1>4, <1>5 DEF RefsInv

LEMMA TickOwns ==
  ASSUME TypeInv, RefsInv, Tick
  PROVE  RefsInv'
<1>1. \A k \in SessionKey : session'[k].refs = session[k].refs /\ session'[k].inc = session[k].inc
  BY DEF Tick, AgedSessions, TypeInv, Session
<1>2. UNCHANGED <<calls, channel, threads>>
  BY DEF Tick
<1> QED
  BY <1>1, <1>2 DEF RefsInv, CallOwns, Owned, PostedBy

LEMMA RefsInvariant == Spec => [](TypeInv /\ RefsInv)
<1>1. ASSUME Init
      PROVE  RefsInv
  BY <1>1, EmptyMap DEF Init, RefsInv, Owned
<1>2. ASSUME TypeInv, RefsInv, [Next]_vars
      PROVE  RefsInv'
  <2>1. ASSUME NEW c \in calls, Return(c)
        PROVE  RefsInv'
    BY <1>2, <2>1 DEF Return, RefsInv, CallOwns, Owned, PostedBy
  <2>2. CASE UNCHANGED vars
    BY <1>2, <2>2 DEF vars, RefsInv, CallOwns, Owned, PostedBy
  <2> QED
    BY <1>2, <2>1, <2>2, BeginOwns, TickOwns, SkipOwns, SendOwns, ApplyOwns, AnswerOwns, FailOwns,
       ApplyLateOwns, MergeRefsOwns, ReplyOwns
       DEF Next
<1> QED
  BY <1>1, <1>2, TypesHold, PTL DEF Spec

\* A reference is never used outside the session it was given to, however the
\* Upserts of a session and its expiry overlap and whatever calls fail: cur ==
\* st in the second critical section of Upsert is all it takes.
THEOREM RefsOwnedHolds == Spec => []RefsOwned
<1>1. ASSUME TypeInv, RefsInv
      PROVE  RefsOwned
  <2>1. \A c \in calls : \A s \in c.sent : s.ref > 0 => s.ref # 0
    BY <1>1 DEF TypeInv, Upsert, Pending
  <2>2. \A d, ref, k, inc :
          PostedBy(d, ref, k, inc) <=>
            \A e \in DOMAIN [x \in {d} |-> ref] : PostedBy(e, [x \in {d} |-> ref][e], k, inc)
    OBVIOUS
  <2> QED
    BY <1>1, <2>1, <2>2 DEF RefsOwned, RefsInv, CallOwns, Owned, PostedBy
<1> QED
  BY <1>1, RefsInvariant, PTL

-----------------------------------------------------------------------------
(* What messages show.                                                     *)

Routed(apps, d) == \A a \in DOMAIN apps : d \in DestsOf(apps[a])

\* ContentRouted, also of the messages that are still on their way.
ContentInv ==
  /\ \A d \in Dest : \A i \in DOMAIN channel[d] : Routed(channel[d][i].apps, d)
  /\ \A r \in late : Routed(r.msg.apps, r.dest)

LEMMA CarryOutRouted ==
  ASSUME TypeInv, ContentInv, NEW d \in Dest, NEW ref \in Nat, NEW msg \in Message,
         Routed(msg.apps, d), CarryOut(d, ref, msg)
  PROVE  \A e \in Dest : \A i \in DOMAIN channel'[e] : Routed(channel'[e][i].apps, e)
<1>1. /\ channel'[d][Written(d, ref)].apps = msg.apps
      /\ \A e \in Dest : \A i \in DOMAIN channel'[e] :
           e # d \/ i # Written(d, ref) =>
             i \in DOMAIN channel[e] /\ channel'[e][i] = channel[e][i]
  <2>1. channel \in [Dest -> Seq(Message)]
    BY DEF TypeInv
  <2> QED
    BY <2>1, CarryOutWrites
<1> SUFFICES ASSUME NEW e \in Dest, NEW i \in DOMAIN channel'[e]
             PROVE  Routed(channel'[e][i].apps, e)
  OBVIOUS
<1>2. CASE e = d /\ i = Written(d, ref)
  BY <1>1, <1>2
<1>3. CASE e # d \/ i # Written(d, ref)
  BY <1>1, <1>3 DEF ContentInv
<1> QED
  BY <1>2, <1>3

LEMMA MessageRouted ==
  ASSUME TypeInv, NEW c \in calls, NEW d \in Dest
  PROVE  Routed(MessageFor(c, d).apps, d)
<1>1. c.apps \in PerApp
  BY DEF TypeInv, Upsert
<1> QED
  BY <1>1, MessageForType, AppsAtEntries DEF Routed

LEMMA ApplyRouted ==
  ASSUME TypeInv, ContentInv, NEW c \in calls, Apply(c)
  PROVE  ContentInv'
<1>1. PICK s \in c.sent : CarryOut(s.dest, s.ref, MessageFor(c, s.dest)) /\ UNCHANGED late
  BY DEF Apply
<1>2. s.dest \in Dest /\ s.ref \in Nat
  BY DEF TypeInv, Upsert, Pending
<1>3. MessageFor(c, s.dest) \in Message /\ Routed(MessageFor(c, s.dest).apps, s.dest)
  BY <1>2, MessageForType, MessageRouted
<1> QED
  BY <1>1, <1>2, <1>3, CarryOutRouted DEF ContentInv

LEMMA FailRouted ==
  ASSUME TypeInv, ContentInv, NEW c \in calls, Fail(c)
  PROVE  ContentInv'
<1>1. PICK s \in c.sent :
        /\ late' \in {late, late \cup {[dest |-> s.dest, ref |-> s.ref, msg |-> MessageFor(c, s.dest)]}}
        /\ UNCHANGED channel
  BY DEF Fail
<1>2. s.dest \in Dest
  BY DEF TypeInv, Upsert, Pending
<1>3. Routed(MessageFor(c, s.dest).apps, s.dest)
  BY <1>2, MessageRouted
<1> QED
  BY <1>1, <1>3 DEF ContentInv

LEMMA ApplyLateRouted ==
  ASSUME TypeInv, ContentInv, NEW r \in late, ApplyLate(r)
  PROVE  ContentInv'
<1>1. r.dest \in Dest /\ r.ref \in Nat /\ r.msg \in Message /\ Routed(r.msg.apps, r.dest)
  BY DEF TypeInv, ContentInv
<1> QED
  BY <1>1, CarryOutRouted DEF ApplyLate, ContentInv

\* No destination is ever shown an app that was not addressed to it, not even
\* by a request its caller gave up and the backend carries out much later:
\* groupAppsByBackendRecipient is applied to the snapshot a message is built of.
THEOREM ContentRoutedHolds == Spec => []ContentRouted
<1>1. ASSUME Init
      PROVE  ContentInv
  BY <1>1 DEF Init, ContentInv
<1>2. ASSUME TypeInv, ContentInv, [Next]_vars
      PROVE  ContentInv'
  <2>1. ASSUME UNCHANGED <<channel, late>>
        PROVE  ContentInv'
    BY <1>2, <2>1 DEF ContentInv
  <2>2. CASE UNCHANGED vars
    BY <2>1, <2>2 DEF vars
  <2>3. ASSUME NEW b \in Batch, BeginUpsert(b)
        PROVE  ContentInv'
    BY <2>1, <2>3 DEF BeginUpsert
  <2>4. CASE Tick
    BY <2>1, <2>4 DEF Tick
  <2>5. ASSUME NEW c \in calls, NEW d \in Dest, Skip(c, d) \/ Send(c, d)
        PROVE  ContentInv'
    BY <2>1, <2>5 DEF Skip, Send
  <2>6. ASSUME NEW c \in calls, Answer(c) \/ MergeRefs(c) \/ Return(c)
        PROVE  ContentInv'
    BY <2>1, <2>6 DEF Answer, MergeRefs, Return
  <2>7. ASSUME NEW c \in calls, NEW r \in c.replies, Reply(c, r)
        PROVE  ContentInv'
    BY <2>1, <2>7 DEF Reply
  <2> QED
    BY <1>2, <2>2, <2>3, <2>4, <2>5, <2>6, <2>7, ApplyRouted, FailRouted, ApplyLateRouted DEF Next
<1>3. ContentInv => ContentRouted
  BY DEF ContentInv, ContentRouted, Routed
<1> QED
  BY <1>1, <1>2, <1>3, TypesHold, PTL DEF Spec
-----------------------------------------------------------------------------
(* Upserts of one session that do not overlap.                             *)

\* No two Upserts of one session are in progress.
Apart == \A c1, c2 \in calls : c1.batch.key = c2.batch.key => c1 = c2

\* The destinations of a call are to be sent to, sent to or done with; the
\* message it edits is the one it found in the session, and the one it posts
\* the first of its session at the destination.
Orderly(c) ==
  /\ c.batch \in begun
  /\ c.inc = session[c.batch.key].inc /\ c.apps = session[c.batch.key].perApp
  /\ c.merged => c.todo = {} /\ c.sent = {}
  /\ ~ c.merged => c.refs = session[c.batch.key].refs
  /\ \A d \in c.todo : d \notin DOMAIN c.newRefs
  /\ \A d \in DOMAIN c.newRefs : Edits(d) /\ d \in DOMAIN c.refs => c.newRefs[d] = c.refs[d]
  /\ \A s, t \in c.sent : s = t
  /\ \A s \in c.sent :
       /\ s.dest \notin c.todo /\ s.dest \notin DOMAIN c.newRefs
       /\ Edits(s.dest) /\ s.dest \in DOMAIN c.refs => s.ref = c.refs[s.dest]
       /\ ~ s.done /\ s.dest \notin DOMAIN c.refs => s.ref = 0

OrderlyInv == \A c \in calls : Orderly(c)

LEMMA OrderlyStays ==
  ASSUME NEW c, Orderly(c), c.batch \in begun',
         session'[c.batch.key].inc = session[c.batch.key].inc,
         session'[c.batch.key].perApp = session[c.batch.key].perApp,
         session'[c.batch.key].refs = session[c.batch.key].refs
  PROVE  Orderly(c)'
BY DEF Orderly

LEMMA OneCallOrderly ==
  ASSUME OrderlyInv, NEW c \in calls, NEW n, Becomes(c, n), Orderly(n), UNCHANGED <<session, begun>>
  PROVE  OrderlyInv'
<1>1. \A x \in calls' : Orderly(x)
  BY DEF OrderlyInv, Becomes
<1> QED
  BY <1>1, OrderlyStays DEF OrderlyInv, Orderly

LEMMA CallKeys ==
  ASSUME TypeInv, NEW c \in calls
  PROVE  c.batch \in Batch /\ c.batch.key \in SessionKey
BY BatchEvents DEF TypeInv, Upsert

LEMMA SkipOrderly ==
  ASSUME TypeInv, OrderlyInv, NEW c \in calls, NEW d \in Dest, Skip(c, d)
  PROVE  OrderlyInv'
<1>1. PICK n : NextCall(c, n, c.todo \ {d}, {}, c.newRefs, c.failed \cup {d}, c.merged)
  BY SkipCall
<1>2. Orderly(n)
  BY <1>1 DEF OrderlyInv, Orderly, NextCall
<1> QED
  BY <1>1, <1>2, SkipCall, OneCallOrderly DEF NextCall

LEMMA SendOrderly ==
  ASSUME TypeInv, OrderlyInv, NEW c \in calls, NEW d \in Dest, Send(c, d)
  PROVE  OrderlyInv'
<1>1. PICK n, ref :
        /\ NextCall(c, n, c.todo \ {d}, {[dest |-> d, ref |-> ref, done |-> FALSE]},
                    c.newRefs, c.failed, c.merged)
        /\ ref # 0 => d \in DOMAIN c.refs /\ ref = c.refs[d]
        /\ Edits(d) /\ d \in DOMAIN c.refs => ref = c.refs[d]
  BY SendCall
<1>2. Orderly(c) /\ d \in c.todo /\ UNCHANGED <<session, begun>>
  BY SendCall DEF OrderlyInv
<1>3. Orderly(n)
  BY <1>1, <1>2 DEF Orderly, NextCall
<1> QED
  BY <1>1, <1>2, <1>3, OneCallOrderly DEF NextCall

\* A message that is there is edited.
LEMMA OrderlyEdits ==
  ASSUME RefsInv, OrderlyInv, NEW c \in calls, NEW s \in c.sent,
         Edits(s.dest), s.dest \in DOMAIN c.refs
  PROVE  IsEdit(s.dest, s.ref) /\ Written(s.dest, s.ref) = c.refs[s.dest]
<1>1. s.ref = c.refs[s.dest] /\ c.refs[s.dest] \in DOMAIN channel[s.dest]
  BY DEF OrderlyInv, Orderly, RefsInv, CallOwns, Owned, PostedBy
<1> QED
  BY <1>1 DEF IsEdit, Edits, Written

LEMMA ApplyOrderly ==
  ASSUME TypeInv, RefsInv, OrderlyInv, NEW c \in calls, Apply(c)
  PROVE  OrderlyInv'
<1>1. PICK s \in c.sent : \E n, out :
        /\ NextCall(c, n, c.todo, {out}, c.newRefs, c.failed, c.merged)
        /\ out.dest = s.dest /\ out.ref = Written(s.dest, s.ref) /\ out.done
        /\ UNCHANGED <<session, begun>>
  BY ApplyCall
<1>2. PICK n, out :
        /\ NextCall(c, n, c.todo, {out}, c.newRefs, c.failed, c.merged)
        /\ out.dest = s.dest /\ out.ref = Written(s.dest, s.ref) /\ out.done
  BY <1>1
<1>3. Edits(s.dest) /\ s.dest \in DOMAIN c.refs => out.ref = c.refs[s.dest]
  BY <1>2, OrderlyEdits
<1>4. Orderly(n)
  BY <1>2, <1>3 DEF OrderlyInv, Orderly, NextCall
<1> QED
  BY <1>1, <1>2, <1>4, OneCallOrderly DEF NextCall

\* What the references of a call are after an answer.
LEMMA AnswerRefs ==
  ASSUME TypeInv, OrderlyInv, NEW c \in calls, NEW s \in c.sent, s.done
  PROVE  LET refs == RefsOnAnswer(c, s) IN
         /\ refs \in RefMap
         /\ DOMAIN refs \subseteq DOMAIN c.newRefs \cup {s.dest} /\ DOMAIN c.newRefs \subseteq DOMAIN refs
         /\ \A d \in DOMAIN c.newRefs : d # s.dest /\ refs[d] = c.newRefs[d]
         /\ s.dest \in DOMAIN refs => refs[s.dest] = s.ref
         /\ Edits(s.dest) /\ s.dest \notin DOMAIN refs => s.dest \in DOMAIN c.refs
<1> DEFINE refs == RefsOnAnswer(c, s)
           single == [d \in {s.dest} |-> s.ref]
<1>1. s \in Pending /\ c.newRefs \in RefMap /\ c.refs \in RefMap /\ s.dest \notin DOMAIN c.newRefs
  BY DEF TypeInv, Upsert, OrderlyInv, Orderly
<1>2. single \in RefMap /\ DOMAIN single = {s.dest} /\ single[s.dest] = s.ref
  BY <1>1, SingleRef
<1>3. refs = IF RefKept(c, s.dest) THEN Merged(c.newRefs, single) ELSE c.newRefs
  BY DEF RefsOnAnswer
<1>4. Edits(s.dest) /\ ~ RefKept(c, s.dest) => s.dest \in DOMAIN c.refs
  BY <1>1, RefForEntries DEF RefKept, Edits
<1> HIDE DEF single, refs
<1>5. CASE RefKept(c, s.dest)
  <2>1. PICK former \in RefMap, added \in RefMap : former = c.newRefs /\ added = single
    BY <1>1, <1>2
  <2>2. /\ Merged(former, added) \in RefMap
        /\ DOMAIN Merged(former, added) = DOMAIN former \cup DOMAIN added
    BY MergedEntries
  <2>3. \A d \in DOMAIN Merged(former, added) :
          Merged(former, added)[d] = IF d \in DOMAIN added THEN added[d] ELSE former[d]
    BY MergedEntries
  <2>4. refs = Merged(former, added)
    BY <1>3, <1>5, <2>1
  <2>5. /\ refs \in RefMap /\ DOMAIN refs = DOMAIN c.newRefs \cup {s.dest}
        /\ \A d \in DOMAIN refs : refs[d] = IF d \in {s.dest} THEN single[d] ELSE c.newRefs[d]
    BY <1>2, <2>1, <2>2, <2>3, <2>4
  <2> QED
    BY <1>1, <1>2, <2>5 DEF refs
<1>6. CASE ~ RefKept(c, s.dest)
  BY <1>1, <1>3, <1>4, <1>6 DEF refs
<1> QED
  BY <1>5, <1>6

LEMMA AnswerOrderly ==
  ASSUME TypeInv, OrderlyInv, NEW c \in calls, Answer(c)
  PROVE  OrderlyInv'
<1>1. PICK s \in c.sent : \E n :
        /\ NextCall(c, n, c.todo, {}, RefsOnAnswer(c, s), c.failed, c.merged)
        /\ s.done /\ UNCHANGED <<session, begun>>
  BY AnswerCall
<1>2. PICK n : NextCall(c, n, c.todo, {}, RefsOnAnswer(c, s), c.failed, c.merged)
  BY <1>1
<1>3. PICK refs : refs = RefsOnAnswer(c, s)
  OBVIOUS
<1>4. /\ DOMAIN refs \subseteq DOMAIN c.newRefs \cup {s.dest}
      /\ \A d \in DOMAIN c.newRefs : refs[d] = c.newRefs[d]
      /\ s.dest \in DOMAIN refs => refs[s.dest] = s.ref
  BY <1>1, <1>3, AnswerRefs
<1>5. Orderly(c)
  BY DEF OrderlyInv
<1>6. /\ \A d \in c.todo : d \notin DOMAIN refs
      /\ \A d \in DOMAIN refs : Edits(d) /\ d \in DOMAIN c.refs => refs[d] = c.refs[d]
  BY <1>4, <1>5 DEF Orderly
<1>7. Orderly(n)
  BY <1>2, <1>3, <1>5, <1>6 DEF Orderly, NextCall
<1> QED
  BY <1>1, <1>2, <1>7, OneCallOrderly DEF NextCall

LEMMA FailOrderly ==
  ASSUME TypeInv, OrderlyInv, NEW c \in calls, Fail(c)
  PROVE  OrderlyInv'
<1>1. PICK s \in c.sent : \E n :
        /\ NextCall(c, n, c.todo, {}, c.newRefs, c.failed \cup {s.dest}, c.merged)
        /\ UNCHANGED <<session, begun>>
  BY FailCall
<1>2. PICK n : NextCall(c, n, c.todo, {}, c.newRefs, c.failed \cup {s.dest}, c.merged)
  BY <1>1
<1>3. Orderly(n)
  BY <1>2 DEF OrderlyInv, Orderly, NextCall
<1> QED
  BY <1>1, <1>2, <1>3, OneCallOrderly DEF NextCall

LEMMA MergeRefsOrderly ==
  ASSUME TypeInv, OrderlyInv, Apart, NEW c \in calls, MergeRefs(c)
  PROVE  OrderlyInv'
<1>1. PICK n : NextCall(c, n, {}, {}, c.newRefs, c.failed, TRUE)
  BY MergeRefsCall
<1>2. /\ UNCHANGED begun
      /\ \A k \in SessionKey :
           /\ session'[k].inc = session[k].inc /\ session'[k].perApp = session[k].perApp
           /\ k # c.batch.key => session'[k].refs = session[k].refs
  BY MergeRefsCall
<1>3. Orderly(n)'
  BY <1>1, <1>2, CallKeys DEF OrderlyInv, Orderly, NextCall
<1>4. ASSUME NEW x \in calls, x # c
      PROVE  Orderly(x)'
  <2>1. x.batch.key \in SessionKey /\ x.batch.key # c.batch.key
    BY <1>4, CallKeys DEF Apart
  <2> QED
    BY <1>2, <2>1, OrderlyStays DEF OrderlyInv, Orderly
<1> QED
  BY <1>1, <1>3, <1>4 DEF OrderlyInv, NextCall, Becomes

LEMMA ReplyOrderly ==
  ASSUME TypeInv, OrderlyInv, NEW c \in calls, NEW r \in c.replies, Reply(c, r)
  PROVE  OrderlyInv'
<1>1. PICK n : NextCall(c, n, c.todo, c.sent, c.newRefs, c.failed, c.merged)
  BY ReplyCall
<1>2. Orderly(n)
  BY <1>1 DEF OrderlyInv, Orderly, NextCall
<1> QED
  BY <1>1, <1>2, ReplyCall, OneCallOrderly DEF NextCall

\* The Upsert that begins is then the only one of its session; before, there
\* was none.
LEMMA BeginAlone ==
  ASSUME TypeInv, OrderlyInv, Apart', NEW b \in Batch, BeginUpsert(b)
  PROVE  /\ \A x \in calls' : x.batch.key = b.key => x = Started(b)
         /\ \A x \in calls : x.batch.key # b.key
<1>1. Started(b) \in calls' /\ Started(b).batch = b /\ calls' = calls \cup {Started(b)} /\ b \notin begun
  BY BeginTypes DEF Started, BeginUpsert
<1>2. PICK new : new = Started(b)
  OBVIOUS
<1>3. \A x \in calls' : x.batch.key = b.key => x = new
  BY <1>1, <1>2 DEF Apart
<1>4. \A x \in calls : x.batch # b
  BY <1>1 DEF OrderlyInv, Orderly
<1> QED
  BY <1>1, <1>2, <1>3, <1>4

LEMMA BeginOrderly ==
  ASSUME TypeInv, OrderlyInv, Apart', NEW b \in Batch, BeginUpsert(b)
  PROVE  OrderlyInv'
<1> DEFINE k == b.key
<1>1. /\ calls' = calls \cup {Started(b)} /\ begun' = begun \cup {b}
      /\ session'[k].inc = SessionFor(k).inc /\ session'[k].refs = SessionFor(k).refs
      /\ session'[k].perApp = LastWrite(SessionFor(k).perApp, b.events)
      /\ \A h \in SessionKey \ {k} : session'[h] = session[h]
  BY BeginTypes DEF BeginUpsert
<1>2. PICK new : new = Started(b)
  OBVIOUS
<1>3. /\ new.batch = b /\ new.inc = session'[k].inc /\ new.refs = session'[k].refs
      /\ new.apps = session'[k].perApp /\ new.newRefs = Empty /\ new.sent = {} /\ ~ new.merged
  BY <1>1, <1>2 DEF Started, Snapshot
<1>4. Orderly(new)'
  BY <1>1, <1>3, EmptyMap DEF Orderly
<1>5. \A x \in calls : x.batch.key \in SessionKey \ {k}
  BY CallKeys, BeginAlone
<1>6. \A x \in calls : Orderly(x)'
  BY <1>1, <1>5, OrderlyStays DEF OrderlyInv, Orderly
<1> QED
  BY <1>1, <1>2, <1>4, <1>6 DEF OrderlyInv

LEMMA TickSessions ==
  ASSUME TypeInv, Tick
  PROVE  /\ \A k \in SessionKey :
              /\ session'[k].inc = session[k].inc /\ session'[k].refs = session[k].refs
              /\ session'[k].perApp = session[k].perApp
         /\ UNCHANGED <<calls, late, channel, threads, begun, unsent>>
BY DEF Tick, AgedSessions, TypeInv, Session

LEMMA OrderlyStep ==
  ASSUME TypeInv, RefsInv, OrderlyInv, Apart, Apart', [Next]_vars
  PROVE  OrderlyInv'
<1>1. CASE Tick
  BY <1>1, TickSessions, CallKeys, OrderlyStays DEF OrderlyInv, Orderly
<1>2. ASSUME NEW c \in calls, Return(c)
      PROVE  OrderlyInv'
  BY <1>2 DEF Return, OrderlyInv, Orderly
<1>3. ASSUME NEW r \in late, ApplyLate(r)
      PROVE  OrderlyInv'
  BY <1>3 DEF ApplyLate, OrderlyInv, Orderly
<1>4. CASE UNCHANGED vars
  BY <1>4 DEF vars, OrderlyInv, Orderly
<1> QED
  BY <1>1, <1>2, <1>3, <1>4, BeginOrderly, SkipOrderly, SendOrderly, ApplyOrderly, AnswerOrderly,
     FailOrderly, MergeRefsOrderly, ReplyOrderly
     DEF Next

LEMMA OrderlyInvariant == Spec /\ []Apart => [](TypeInv /\ RefsInv /\ OrderlyInv)
<1>1. Init => OrderlyInv
  BY DEF Init, OrderlyInv
<1>2. TypeInv /\ RefsInv /\ OrderlyInv /\ Apart /\ Apart' /\ [Next]_vars => OrderlyInv'
  BY OrderlyStep
<1> QED
  BY <1>1, <1>2, RefsInvariant, PTL DEF Spec
-----------------------------------------------------------------------------
(* One live message.                                                       *)

\* c has posted message i at d and has it still to merge into the session.
Carries(c, d, i) ==
  /\ ~ c.merged
  /\ \/ d \in DOMAIN c.newRefs /\ i = c.newRefs[d]
     \/ \E s \in c.sent : s.dest = d /\ s.done /\ s.ref = i

\* The session refers to message i, or its Upsert has just posted it.
Reachable(k, d, i) ==
  \/ i = RefFor(session[k].refs, d)
  \/ /\ RefFor(session[k].refs, d) = 0
     /\ \E c \in calls : c.batch.key = k /\ Carries(c, d, i)

\* No message is of a session yet to come.
PastInv ==
  \A d \in Dest : \A i \in DOMAIN channel[d] :
    channel[d][i].inc <= session[channel[d][i].key].inc

ReachInv ==
  \A k \in SessionKey, d \in Dest : Edits(d) => \A i \in Messages(k, d) : Reachable(k, d, i)

LiveInv == late = {} /\ PastInv /\ ReachInv

\* A step that neither posts nor merges: what its call carried it still does.
LEMMA OneCallLive ==
  ASSUME LiveInv, NEW c \in calls, NEW n, Becomes(c, n), n.batch = c.batch,
         UNCHANGED <<session, channel, late>>,
         \A d, i : d \in Dest /\ Edits(d) /\ RefFor(session[c.batch.key].refs, d) = 0
                     /\ Carries(c, d, i) => Carries(n, d, i)
  PROVE  LiveInv'
<1>1. ASSUME NEW k \in SessionKey, NEW d \in Dest, Edits(d), NEW i \in Messages(k, d)
      PROVE  Reachable(k, d, i)'
  <2>1. Reachable(k, d, i)
    BY <1>1 DEF LiveInv, ReachInv
  <2>2. CASE i = RefFor(session[k].refs, d)
    BY <2>2 DEF Reachable
  <2>3. CASE i # RefFor(session[k].refs, d)
    <3>1. PICK x \in calls : x.batch.key = k /\ Carries(x, d, i) /\ RefFor(session[k].refs, d) = 0
      BY <2>1, <2>3 DEF Reachable
    <3>2. \E y \in calls' : y.batch.key = k /\ Carries(y, d, i)
      BY <1>1, <3>1 DEF Becomes
    <3> QED
      BY <3>1, <3>2 DEF Reachable, Carries
  <2> QED
    BY <2>2, <2>3
<1>2. ReachInv'
  BY <1>1 DEF ReachInv, Messages
<1> QED
  BY <1>2 DEF LiveInv, PastInv

LEMMA SkipLive ==
  ASSUME TypeInv, LiveInv, NEW c \in calls, NEW d \in Dest, Skip(c, d)
  PROVE  LiveInv'
<1>1. PICK n : NextCall(c, n, c.todo \ {d}, {}, c.newRefs, c.failed \cup {d}, c.merged)
  BY SkipCall
<1>2. c.sent = {} /\ UNCHANGED <<session, channel, late>>
  BY SkipCall
<1>3. \A e, i : Carries(c, e, i) => Carries(n, e, i)
  BY <1>1, <1>2 DEF Carries, NextCall
<1> QED
  BY <1>1, <1>2, <1>3, OneCallLive DEF NextCall

LEMMA SendLive ==
  ASSUME TypeInv, LiveInv, NEW c \in calls, NEW d \in Dest, Send(c, d)
  PROVE  LiveInv'
<1>1. PICK n, ref : NextCall(c, n, c.todo \ {d}, {[dest |-> d, ref |-> ref, done |-> FALSE]},
                             c.newRefs, c.failed, c.merged)
  BY SendCall
<1>2. c.sent = {} /\ UNCHANGED <<session, channel, late>>
  BY SendCall
<1>3. \A e, i : Carries(c, e, i) => Carries(n, e, i)
  BY <1>1, <1>2 DEF Carries, NextCall
<1> QED
  BY <1>1, <1>2, <1>3, OneCallLive DEF NextCall

LEMMA AnswerLive ==
  ASSUME TypeInv, OrderlyInv, LiveInv, NEW c \in calls, Answer(c)
  PROVE  LiveInv'
<1>1. PICK s \in c.sent : \E n :
        /\ NextCall(c, n, c.todo, {}, RefsOnAnswer(c, s), c.failed, c.merged)
        /\ s.done /\ UNCHANGED <<session, channel, late>>
  BY AnswerCall
<1>2. PICK n : NextCall(c, n, c.todo, {}, RefsOnAnswer(c, s), c.failed, c.merged)
  BY <1>1
<1>3. PICK refs : refs = RefsOnAnswer(c, s)
  OBVIOUS
<1>4. /\ DOMAIN c.newRefs \subseteq DOMAIN refs
      /\ \A d \in DOMAIN c.newRefs : refs[d] = c.newRefs[d]
      /\ s.dest \in DOMAIN refs => refs[s.dest] = s.ref
      /\ Edits(s.dest) /\ s.dest \notin DOMAIN refs => s.dest \in DOMAIN c.refs
  BY <1>1, <1>3, AnswerRefs
<1>5. Orderly(c) /\ c.refs \in RefMap
  BY DEF OrderlyInv, TypeInv, Upsert
<1>6. ASSUME NEW d, NEW i, d \in Dest, Edits(d), Carries(c, d, i),
             RefFor(session[c.batch.key].refs, d) = 0
      PROVE  Carries(n, d, i)
  <2>1. CASE d \in DOMAIN c.newRefs /\ i = c.newRefs[d]
    BY <1>2, <1>3, <1>4, <1>6, <2>1 DEF Carries, NextCall
  <2>2. CASE \E t \in c.sent : t.dest = d /\ t.done /\ t.ref = i
    <3>1. s.dest = d /\ s.ref = i
      BY <1>5, <2>2 DEF Orderly
    <3>2. d \notin DOMAIN c.refs
      BY <1>5, <1>6, RefForEntries DEF Orderly, Carries
    <3> QED
      BY <1>2, <1>3, <1>4, <1>6, <3>1, <3>2 DEF Carries, NextCall
  <2> QED
    BY <1>6, <2>1, <2>2 DEF Carries
<1> QED
  BY <1>1, <1>2, <1>6, OneCallLive DEF NextCall

LEMMA FailLive ==
  ASSUME TypeInv, OrderlyInv, LiveInv, Faults \cap {"lost", "late"} = {}, NEW c \in calls, Fail(c)
  PROVE  LiveInv'
<1>1. PICK s \in c.sent : \E n :
        /\ NextCall(c, n, c.todo, {}, c.newRefs, c.failed \cup {s.dest}, c.merged)
        /\ ~ s.done /\ UNCHANGED <<session, channel, late>>
  BY FailCall
<1>2. PICK n : NextCall(c, n, c.todo, {}, c.newRefs, c.failed \cup {s.dest}, c.merged)
  BY <1>1
<1>3. \A t \in c.sent : ~ t.done
  BY <1>1 DEF OrderlyInv, Orderly
<1>4. \A e, i : Carries(c, e, i) => Carries(n, e, i)
  BY <1>2, <1>3 DEF Carries, NextCall
<1> QED
  BY <1>1, <1>2, <1>4, OneCallLive DEF NextCall

LEMMA ReplyLive ==
  ASSUME TypeInv, LiveInv, NEW c \in calls, NEW r \in c.replies, Reply(c, r)
  PROVE  LiveInv'
<1>1. PICK n : NextCall(c, n, c.todo, c.sent, c.newRefs, c.failed, c.merged)
  BY ReplyCall
<1>2. \A e, i : Carries(c, e, i) => Carries(n, e, i)
  BY <1>1 DEF Carries, NextCall
<1> QED
  BY <1>1, <1>2, ReplyCall, OneCallLive DEF NextCall

LEMMA ReturnLive ==
  ASSUME LiveInv, NEW c \in calls, Return(c)
  PROVE  LiveInv'
<1>1. c.merged /\ calls' = calls \ {c} /\ UNCHANGED <<session, channel, late>>
  BY DEF Return
<1>2. ASSUME NEW k \in SessionKey, NEW d \in Dest, Edits(d), NEW i \in Messages(k, d)
      PROVE  Reachable(k, d, i)'
  <2>1. Reachable(k, d, i)
    BY <1>2 DEF LiveInv, ReachInv
  <2> QED
    BY <1>1, <2>1 DEF Reachable, Carries
<1>3. ReachInv'
  BY <1>1, <1>2 DEF ReachInv, Messages
<1> QED
  BY <1>1, <1>3 DEF LiveInv, PastInv

LEMMA PastKept ==
  ASSUME TypeInv, PastInv, UNCHANGED channel,
         \A k \in SessionKey : session'[k].inc = session[k].inc
  PROVE  PastInv'
BY PostedMessages DEF PastInv, Message

LEMMA TickLive ==
  ASSUME TypeInv, LiveInv, Tick
  PROVE  LiveInv'
<1>1. /\ UNCHANGED <<calls, channel, late>>
      /\ \A k \in SessionKey : session'[k].inc = session[k].inc /\ session'[k].refs = session[k].refs
  BY TickSessions
<1>2. ReachInv'
  <2> SUFFICES ASSUME NEW k \in SessionKey, NEW d \in Dest, Edits(d), NEW i \in Messages(k, d)'
               PROVE  Reachable(k, d, i)'
    BY DEF ReachInv
  <2>1. Reachable(k, d, i)
    BY <1>1 DEF LiveInv, ReachInv, Messages
  <2> QED
    BY <1>1, <2>1 DEF Reachable, Carries
<1> QED
  BY <1>1, <1>2, PastKept DEF LiveInv

\* A message of the channel was there before, of the same session, or it is
\* the one that c has posted.
LEMMA Posts ==
  ASSUME TypeInv, NEW c \in calls, NEW d \in Dest, NEW ref \in Nat,
         CarryOut(d, ref, MessageFor(c, d)), NEW e \in Dest, NEW i \in DOMAIN channel'[e]
  PROVE  \/ /\ i \in DOMAIN channel[e]
            /\ channel'[e][i].key = channel[e][i].key /\ channel'[e][i].inc = channel[e][i].inc
         \/ /\ e = d /\ i = Written(d, ref) /\ ~ IsEdit(d, ref)
            /\ channel'[e][i].key = c.batch.key /\ channel'[e][i].inc = c.inc
<1>1. PICK w : w = Written(d, ref)
  OBVIOUS
<1>2. /\ Grows
      /\ ~ IsEdit(d, ref) => channel'[d][w] = MessageFor(c, d)
      /\ e # d \/ i # w => i \in DOMAIN channel[e] /\ channel'[e][i] = channel[e][i]
  BY <1>1, MessageForType, CarryOutWrites DEF TypeInv
<1>3. CASE e # d \/ i # w
  BY <1>2, <1>3
<1>4. CASE e = d /\ i = w /\ IsEdit(d, ref)
  <2>1. w \in DOMAIN channel[d]
    BY <1>1, <1>4 DEF IsEdit, Written
  <2> QED
    BY <1>2, <1>4, <2>1 DEF Grows
<1>5. CASE e = d /\ i = w /\ ~ IsEdit(d, ref)
  BY <1>1, <1>2, <1>5, MessageForType
<1> QED
  BY <1>3, <1>4, <1>5

LEMMA ApplyLive ==
  ASSUME TypeInv, RefsInv, OrderlyInv, LiveInv, NEW c \in calls, Apply(c)
  PROVE  LiveInv'
<1>1. PICK s \in c.sent : \E n, out :
        /\ NextCall(c, n, c.todo, {out}, c.newRefs, c.failed, c.merged)
        /\ out.dest = s.dest /\ out.ref = Written(s.dest, s.ref) /\ out.done
        /\ ~ s.done /\ CarryOut(s.dest, s.ref, MessageFor(c, s.dest))
        /\ s.dest \in Dest /\ s.ref \in Nat /\ UNCHANGED <<session, late>>
  BY ApplyCall
<1>2. PICK n, out :
        /\ NextCall(c, n, c.todo, {out}, c.newRefs, c.failed, c.merged)
        /\ out.dest = s.dest /\ out.ref = Written(s.dest, s.ref) /\ out.done
  BY <1>1
<1>3. PICK d, w : d = s.dest /\ w = Written(s.dest, s.ref)
  OBVIOUS
<1>4. Orderly(c) /\ c.inc \in Nat /\ c.refs \in RefMap /\ ~ c.merged
  BY DEF OrderlyInv, Orderly, TypeInv, Upsert
<1>5. ASSUME NEW e \in Dest, NEW i \in DOMAIN channel'[e]
      PROVE  \/ /\ i \in DOMAIN channel[e]
                /\ channel'[e][i].key = channel[e][i].key /\ channel'[e][i].inc = channel[e][i].inc
             \/ /\ e = d /\ i = w /\ ~ IsEdit(d, s.ref)
                /\ channel'[e][i].key = c.batch.key /\ channel'[e][i].inc = c.inc
  BY <1>1, <1>3, Posts
<1>6. PastInv'
  <2> SUFFICES ASSUME NEW e \in Dest, NEW i \in DOMAIN channel'[e]
               PROVE  channel'[e][i].inc <= session[channel'[e][i].key].inc
    BY <1>1 DEF PastInv
  <2>1. c.inc = session[c.batch.key].inc
    BY <1>4 DEF Orderly
  <2> QED
    BY <1>4, <1>5, <2>1 DEF LiveInv, PastInv
<1>7. n \in calls' /\ \A x \in calls : x # c => x \in calls'
  BY <1>2 DEF Becomes, NextCall
<1>8. ASSUME NEW k \in SessionKey, NEW e \in Dest, Edits(e), NEW i \in Messages(k, e)'
      PROVE  Reachable(k, e, i)'
  <2>1. /\ i \in DOMAIN channel'[e] /\ channel'[e][i].key = k
        /\ channel'[e][i].inc = session[k].inc
    BY <1>1, <1>8 DEF Messages
  <2>2. CASE i \in Messages(k, e)
    <3>1. Reachable(k, e, i)
      BY <1>8, <2>2 DEF LiveInv, ReachInv
    <3>2. CASE i = RefFor(session[k].refs, e)
      BY <1>1, <3>2 DEF Reachable
    <3>3. CASE i # RefFor(session[k].refs, e)
      <4>1. PICK x \in calls : x.batch.key = k /\ Carries(x, e, i) /\ RefFor(session[k].refs, e) = 0
        BY <3>1, <3>3 DEF Reachable
      <4>2. x = c => Carries(n, e, i)
        BY <1>1, <1>2, <1>4, <4>1 DEF Carries, Orderly, NextCall
      <4>3. \E y \in calls' : y.batch.key = k /\ Carries(y, e, i)
        BY <1>2, <1>7, <4>1, <4>2 DEF NextCall
      <4> QED
        BY <1>1, <4>1, <4>3 DEF Reachable, Carries
    <3> QED
      BY <3>2, <3>3
  <2>3. CASE i \notin Messages(k, e)
    <3>1. e = d /\ i = w /\ ~ IsEdit(d, s.ref) /\ k = c.batch.key
      BY <1>5, <1>8, <2>1, <2>3 DEF Messages
    <3>2. d \notin DOMAIN c.refs
      BY <1>3, <1>8, <3>1, OrderlyEdits
    <3>3. RefFor(session[k].refs, d) = 0
      BY <1>4, <3>1, <3>2, RefForEntries DEF Orderly
    <3>4. Carries(n, e, i)
      BY <1>2, <1>3, <1>4, <3>1 DEF Carries, NextCall
    <3> QED
      BY <1>1, <1>2, <1>7, <3>1, <3>3, <3>4 DEF Reachable, Carries, NextCall
  <2> QED
    BY <2>2, <2>3
<1>9. ReachInv'
  BY <1>8 DEF ReachInv
<1> QED
  BY <1>1, <1>6, <1>9 DEF LiveInv

LEMMA MergeRefsLive ==
  ASSUME TypeInv, OrderlyInv, LiveInv, Apart, NEW c \in calls, MergeRefs(c)
  PROVE  LiveInv'
<1>1. PICK n : NextCall(c, n, {}, {}, c.newRefs, c.failed, TRUE)
  BY MergeRefsCall
<1>2. PICK k \in SessionKey : k = c.batch.key
  BY CallKeys
<1>3. /\ c.sent = {} /\ ~ c.merged /\ UNCHANGED <<channel, late>>
      /\ \A h \in SessionKey : session'[h].inc = session[h].inc
      /\ \A h \in SessionKey \ {k} : session'[h].refs = session[h].refs
  BY <1>2, MergeRefsCall
<1>4. Orderly(c) /\ c.newRefs \in RefMap /\ session[k].refs \in RefMap
  BY <1>2 DEF OrderlyInv, TypeInv, Session, Upsert
<1>5. PICK former \in RefMap, added \in RefMap, refs \in RefMap :
        former = session[k].refs /\ added = c.newRefs /\ refs = Merged(former, added)
  <2>1. Merged(session[k].refs, c.newRefs) \in RefMap
    BY <1>4, MergedEntries
  <2> QED
    BY <1>4, <2>1
<1>6. session'[k].refs = refs
  BY <1>2, <1>4, <1>5, MergeRefsCall DEF Orderly
<1>7. /\ DOMAIN refs = DOMAIN session[k].refs \cup DOMAIN c.newRefs
      /\ \A e \in DOMAIN refs :
           refs[e] = IF e \in DOMAIN c.newRefs THEN c.newRefs[e] ELSE session[k].refs[e]
  <2>1. DOMAIN Merged(former, added) = DOMAIN former \cup DOMAIN added
    BY MergedEntries
  <2>2. \A e \in DOMAIN Merged(former, added) :
           Merged(former, added)[e] = IF e \in DOMAIN added THEN added[e] ELSE former[e]
    BY MergedEntries
  <2>3. /\ DOMAIN refs = DOMAIN former \cup DOMAIN added
        /\ \A e \in DOMAIN refs : refs[e] = IF e \in DOMAIN added THEN added[e] ELSE former[e]
    BY <1>5, <2>1, <2>2
  <2> QED
    BY <1>5, <2>3
<1>8. ASSUME NEW h \in SessionKey, NEW d \in Dest, Edits(d), NEW i \in Messages(h, d)'
      PROVE  Reachable(h, d, i)'
  <2>1. i \in Messages(h, d) /\ i \in DOMAIN channel[d]
    BY <1>3, <1>8 DEF Messages
  <2>2. Reachable(h, d, i)
    BY <1>8, <2>1 DEF LiveInv, ReachInv
  <2>3. CASE h # k
    <3>1. session'[h].refs = session[h].refs /\ \A x \in calls : x.batch.key = h => x \in calls'
      BY <1>1, <1>2, <1>3, <2>3 DEF NextCall, Becomes
    <3> QED
      BY <2>2, <3>1 DEF Reachable, Carries
  <2>4. CASE h = k
    <3>1. d \in DOMAIN refs /\ refs[d] = i
      <4>1. CASE i = RefFor(session[k].refs, d)
        <5>1. d \in DOMAIN session[k].refs /\ i = session[k].refs[d]
          BY <2>1, <4>1, PostedMessages DEF RefFor
        <5> QED
          BY <1>2, <1>3, <1>4, <1>7, <1>8, <5>1 DEF Orderly
      <4>2. CASE i # RefFor(session[k].refs, d)
        <5>1. PICK x \in calls : x.batch.key = k /\ Carries(x, d, i)
          BY <2>2, <2>4, <4>2 DEF Reachable
        <5>2. x = c
          BY <1>2, <5>1 DEF Apart
        <5>3. d \in DOMAIN c.newRefs /\ i = c.newRefs[d]
          BY <1>3, <5>1, <5>2 DEF Carries
        <5> QED
          BY <1>7, <5>3
      <4> QED
        BY <4>1, <4>2
    <3> QED
      BY <1>6, <2>4, <3>1 DEF Reachable, RefFor
  <2> QED
    BY <2>3, <2>4
<1>9. ReachInv'
  BY <1>8 DEF ReachInv
<1> QED
  BY <1>3, <1>9, PastKept DEF LiveInv

LEMMA BeginLive ==
  ASSUME TypeInv, OrderlyInv, LiveInv, Apart', NEW b \in Batch, BeginUpsert(b)
  PROVE  LiveInv'
<1> DEFINE k == b.key
<1>1. k \in SessionKey /\ SessionFor(k).inc \in Nat /\ session[k].inc \in Nat
  BY BatchEvents, SessionForType DEF TypeInv, Session
<1>2. /\ calls' = calls \cup {Started(b)} /\ UNCHANGED <<channel, late>>
      /\ session'[k].inc = SessionFor(k).inc /\ session'[k].refs = SessionFor(k).refs
      /\ \A h \in SessionKey \ {k} : session'[h] = session[h]
  BY BeginTypes DEF BeginUpsert
<1>3. \A h \in SessionKey : session[h].inc \in Nat /\ session[h].inc <= session'[h].inc
  <2>1. session[k].inc <= SessionFor(k).inc
    BY <1>1, SessionForType
  <2> QED
    BY <1>2, <2>1 DEF TypeInv, Session
<1>4. PastInv'
  <2> SUFFICES ASSUME NEW d \in Dest, NEW i \in DOMAIN channel[d]
               PROVE  channel[d][i].inc <= session'[channel[d][i].key].inc
    BY <1>2 DEF PastInv
  <2>1. channel[d][i].key \in SessionKey /\ channel[d][i].inc \in Nat
    BY PostedMessages DEF Message
  <2>2. session'[channel[d][i].key].inc \in Nat
    BY <1>1, <1>2, <1>3, <2>1
  <2> QED
    BY <1>3, <2>1, <2>2 DEF LiveInv, PastInv
<1>5. ASSUME NEW h \in SessionKey, NEW d \in Dest, Edits(d), NEW i \in Messages(h, d)'
      PROVE  Reachable(h, d, i)'
  <2>1. i \in DOMAIN channel[d] /\ channel[d][i].key = h /\ channel[d][i].inc = session'[h].inc
    BY <1>2, <1>5 DEF Messages
  <2>2. CASE h # k
    <3>1. session'[h] = session[h]
      BY <1>2, <2>2
    <3>2. i \in Messages(h, d)
      BY <2>1, <3>1 DEF Messages
    <3>3. Reachable(h, d, i)
      BY <1>5, <3>2 DEF LiveInv, ReachInv
    <3> QED
      BY <1>2, <3>1, <3>3 DEF Reachable, Carries
  <2>3. CASE h = k /\ Expired(k)
    <3>1. session'[k].inc = session[k].inc + 1
      BY <1>1, <1>2, <2>3, SessionForType
    <3>2. channel[d][i].inc <= session[k].inc
      BY <2>1, <2>3 DEF LiveInv, PastInv
    <3> QED
      BY <1>1, <2>1, <2>3, <3>1, <3>2
  <2>4. CASE h = k /\ ~ Expired(k)
    <3>1. session'[k].inc = session[k].inc /\ session'[k].refs = session[k].refs
      BY <1>1, <1>2, <2>4, SessionForType
    <3>2. i \in Messages(k, d)
      BY <2>1, <2>4, <3>1 DEF Messages
    <3>3. i = RefFor(session[k].refs, d)
      BY <1>1, <1>5, <3>2, BeginAlone DEF LiveInv, ReachInv, Reachable
    <3> QED
      BY <2>4, <3>1, <3>3 DEF Reachable
  <2> QED
    BY <2>2, <2>3, <2>4
<1>6. ReachInv'
  BY <1>5 DEF ReachInv
<1> QED
  BY <1>2, <1>4, <1>6 DEF LiveInv

LEMMA LiveStep ==
  ASSUME TypeInv, RefsInv, OrderlyInv, LiveInv, Apart, Apart',
         Faults \cap {"lost", "late"} = {}, [Next]_vars
  PROVE  LiveInv'
<1>1. CASE UNCHANGED vars
  BY <1>1 DEF vars, LiveInv, PastInv, ReachInv, Reachable, Carries, Messages
<1>2. ~ \E r \in late : ApplyLate(r)
  BY DEF LiveInv
<1> QED
  BY <1>1, <1>2, BeginLive, TickLive, SkipLive, SendLive, ApplyLive, AnswerLive, FailLive,
     MergeRefsLive, ReplyLive, ReturnLive
     DEF Next

LEMMA LiveInit == Init => LiveInv
BY DEF Init, LiveInv, PastInv, ReachInv, Messages

\* Two messages of a session that it can both reach are one.
LEMMA ReachableOnce ==
  ASSUME TypeInv, OrderlyInv, LiveInv, Apart, NEW k \in SessionKey, NEW d \in Dest, Edits(d),
         NEW i \in Messages(k, d), NEW j \in Messages(k, d)
  PROVE  i = j
<1>1. Reachable(k, d, i) /\ Reachable(k, d, j) /\ i # 0 /\ j # 0
  BY PostedMessages DEF LiveInv, ReachInv, Messages
<1>2. CASE RefFor(session[k].refs, d) # 0
  BY <1>1, <1>2 DEF Reachable
<1>3. CASE RefFor(session[k].refs, d) = 0
  <2>1. PICK x \in calls : x.batch.key = k /\ Carries(x, d, i)
    BY <1>1, <1>3 DEF Reachable
  <2>2. PICK y \in calls : y.batch.key = k /\ Carries(y, d, j)
    BY <1>1, <1>3 DEF Reachable
  <2>3. x = y /\ Orderly(x)
    BY <2>1, <2>2 DEF Apart, OrderlyInv
  <2> QED
    BY <2>1, <2>2, <2>3 DEF Carries, Orderly
<1> QED
  BY <1>2, <1>3

LEMMA OneLiveStep ==
  ASSUME TypeInv, OrderlyInv, LiveInv, Apart
  PROVE  OneLiveMessage
<1> SUFFICES ASSUME NEW k \in SessionKey, NEW d \in Dest, Edits(d)
             PROVE  Cardinality(Messages(k, d)) <= 1
  BY DEF OneLiveMessage
<1>1. CASE Messages(k, d) = {}
  BY <1>1, FS_EmptySet
<1>2. CASE Messages(k, d) # {}
  <2>1. PICK i \in Messages(k, d) : TRUE
    BY <1>2
  <2>2. Messages(k, d) = {i}
    BY <2>1, ReachableOnce
  <2> QED
    BY <2>2, FS_Singleton
<1> QED
  BY <1>1, <1>2

\* While no two Upserts of one session overlap, and unless a backend posts a
\* message and its answer does not arrive, a session never has two messages
\* at a destination that can be edited: whatever is refused or unresolved,
\* whichever sessions expire, and however many are at work at a time.
THEOREM OneLiveMessageHolds ==
  ASSUME Faults \cap {"lost", "late"} = {}
  PROVE  Spec /\ []Apart => []OneLiveMessage
<1>1. TypeInv /\ RefsInv /\ OrderlyInv /\ LiveInv /\ Apart /\ Apart' /\ [Next]_vars => LiveInv'
  BY LiveStep
<1>2. TypeInv /\ OrderlyInv /\ LiveInv /\ Apart => OneLiveMessage
  BY OneLiveStep
<1> QED
  BY <1>1, <1>2, LiveInit, OrderlyInvariant, PTL DEF Spec

-----------------------------------------------------------------------------
(* Repair by a flush that changes the session.                             *)

\* c has still to hear from d.
Due(c, d) == d \in c.todo \/ \E s \in c.sent : s.dest = d

\* The failed calls of its session that a changing flush has not made up for
\* are those it has still to make, and its own.
Repairing(c) ==
  c.changed => \A d \in unsent[c.batch.key] \cap Dests(c.apps) : Due(c, d) \/ d \in c.failed

RepairInv == \A c \in calls : Repairing(c)

LEMMA OneCallRepairs ==
  ASSUME TypeInv, Apart, RepairInv, NEW c \in calls, NEW n, Becomes(c, n), Repairing(n)',
         \A k \in SessionKey \ {c.batch.key} : unsent'[k] = unsent[k]
  PROVE  RepairInv'
<1>1. ASSUME NEW x \in calls, x # c
      PROVE  Repairing(x)'
  <2>1. x.batch.key \in SessionKey \ {c.batch.key}
    BY <1>1, CallKeys DEF Apart
  <2> QED
    BY <1>1, <2>1 DEF RepairInv, Repairing, Due
<1> QED
  BY <1>1 DEF RepairInv, Becomes

\* A failed call is noted for its session only.
LEMMA FailureNoted ==
  ASSUME TypeInv, NEW c \in calls, NEW d, NoteFailure(c, d)
  PROVE  /\ unsent'[c.batch.key] \subseteq unsent[c.batch.key] \cup {d}
         /\ \A k \in SessionKey \ {c.batch.key} : unsent'[k] = unsent[k]
BY CallKeys DEF NoteFailure, TypeInv

LEMMA SkipRepairs ==
  ASSUME TypeInv, Apart, RepairInv, NEW c \in calls, NEW d \in Dest, Skip(c, d)
  PROVE  RepairInv'
<1>1. PICK n : NextCall(c, n, c.todo \ {d}, {}, c.newRefs, c.failed \cup {d}, c.merged)
  BY SkipCall
<1>2. /\ unsent'[c.batch.key] \subseteq unsent[c.batch.key] \cup {d} /\ c.sent = {}
      /\ \A k \in SessionKey \ {c.batch.key} : unsent'[k] = unsent[k]
  BY SkipCall, FailureNoted
<1>3. Repairing(n)'
  BY <1>1, <1>2 DEF RepairInv, Repairing, Due, NextCall
<1> QED
  BY <1>1, <1>2, <1>3, OneCallRepairs DEF NextCall

LEMMA SendRepairs ==
  ASSUME TypeInv, Apart, RepairInv, NEW c \in calls, NEW d \in Dest, Send(c, d)
  PROVE  RepairInv'
<1>1. PICK n, ref : NextCall(c, n, c.todo \ {d}, {[dest |-> d, ref |-> ref, done |-> FALSE]},
                             c.newRefs, c.failed, c.merged)
  BY SendCall
<1>2. UNCHANGED unsent /\ c.sent = {}
  BY SendCall
<1>3. \A e : Due(c, e) => Due(n, e)
  BY <1>1, <1>2 DEF Due, NextCall
<1>4. Repairing(n)'
  BY <1>1, <1>2, <1>3 DEF RepairInv, Repairing, Due, NextCall
<1> QED
  BY <1>1, <1>2, <1>4, OneCallRepairs DEF NextCall

LEMMA ApplyRepairs ==
  ASSUME TypeInv, Apart, OrderlyInv, RepairInv, NEW c \in calls, Apply(c)
  PROVE  RepairInv'
<1>1. PICK s \in c.sent : \E n, out :
        NextCall(c, n, c.todo, {out}, c.newRefs, c.failed, c.merged) /\ out.dest = s.dest /\ UNCHANGED unsent
  BY ApplyCall
<1>2. PICK n, out : NextCall(c, n, c.todo, {out}, c.newRefs, c.failed, c.merged) /\ out.dest = s.dest
  BY <1>1
<1>3. \A e : Due(c, e) => Due(n, e)
  BY <1>2 DEF OrderlyInv, Orderly, Due, NextCall
<1>4. Repairing(n)'
  BY <1>1, <1>2, <1>3 DEF RepairInv, Repairing, Due, NextCall
<1> QED
  BY <1>1, <1>2, <1>4, OneCallRepairs DEF NextCall

LEMMA AnswerRepairs ==
  ASSUME TypeInv, Apart, OrderlyInv, RepairInv, NEW c \in calls, Answer(c)
  PROVE  RepairInv'
<1>1. PICK s \in c.sent : \E n :
        /\ NextCall(c, n, c.todo, {}, RefsOnAnswer(c, s), c.failed, c.merged)
        /\ unsent' = IF session[c.batch.key].inc = c.inc
                     THEN [unsent EXCEPT ![c.batch.key] = @ \ {s.dest}] ELSE unsent
  BY AnswerCall
<1>2. PICK n : NextCall(c, n, c.todo, {}, RefsOnAnswer(c, s), c.failed, c.merged)
  BY <1>1
<1>3. /\ unsent'[c.batch.key] = unsent[c.batch.key] \ {s.dest}
      /\ \A k \in SessionKey \ {c.batch.key} : unsent'[k] = unsent[k]
  BY <1>1, CallKeys DEF OrderlyInv, Orderly, TypeInv
<1>4. \A e : e # s.dest /\ Due(c, e) => Due(n, e)
  BY <1>2 DEF OrderlyInv, Orderly, Due, NextCall
<1>5. Repairing(n)'
  BY <1>2, <1>3, <1>4 DEF RepairInv, Repairing, Due, NextCall
<1> QED
  BY <1>2, <1>3, <1>5, OneCallRepairs DEF NextCall

LEMMA FailRepairs ==
  ASSUME TypeInv, Apart, OrderlyInv, RepairInv, NEW c \in calls, Fail(c)
  PROVE  RepairInv'
<1>1. PICK s \in c.sent : \E n :
        /\ NextCall(c, n, c.todo, {}, c.newRefs, c.failed \cup {s.dest}, c.merged)
        /\ NoteFailure(c, s.dest)
  BY FailCall
<1>2. PICK n : NextCall(c, n, c.todo, {}, c.newRefs, c.failed \cup {s.dest}, c.merged)
  BY <1>1
<1>3. /\ unsent'[c.batch.key] \subseteq unsent[c.batch.key] \cup {s.dest}
      /\ \A k \in SessionKey \ {c.batch.key} : unsent'[k] = unsent[k]
  BY <1>1, FailureNoted
<1>4. \A e : e # s.dest /\ Due(c, e) => Due(n, e)
  BY <1>2 DEF OrderlyInv, Orderly, Due, NextCall
<1>5. Repairing(n)'
  BY <1>2, <1>3, <1>4 DEF RepairInv, Repairing, Due, NextCall
<1> QED
  BY <1>2, <1>3, <1>5, OneCallRepairs DEF NextCall

LEMMA MergeRefsRepairs ==
  ASSUME TypeInv, Apart, RepairInv, NEW c \in calls, MergeRefs(c)
  PROVE  RepairInv'
<1>1. PICK n : NextCall(c, n, {}, {}, c.newRefs, c.failed, TRUE)
  BY MergeRefsCall
<1>2. UNCHANGED unsent /\ c.todo = {} /\ c.sent = {}
  BY MergeRefsCall
<1>3. Repairing(n)'
  BY <1>1, <1>2 DEF RepairInv, Repairing, Due, NextCall
<1> QED
  BY <1>1, <1>2, <1>3, OneCallRepairs DEF NextCall

LEMMA ReplyRepairs ==
  ASSUME TypeInv, Apart, RepairInv, NEW c \in calls, NEW r \in c.replies, Reply(c, r)
  PROVE  RepairInv'
<1>1. PICK n : NextCall(c, n, c.todo, c.sent, c.newRefs, c.failed, c.merged)
  BY ReplyCall
<1>2. UNCHANGED unsent
  BY ReplyCall
<1>3. Repairing(n)'
  BY <1>1, <1>2 DEF RepairInv, Repairing, Due, NextCall
<1> QED
  BY <1>1, <1>2, <1>3, OneCallRepairs DEF NextCall

LEMMA BeginRepairs ==
  ASSUME TypeInv, OrderlyInv, Apart', RepairInv, NEW b \in Batch, BeginUpsert(b)
  PROVE  RepairInv'
<1>1. calls' = calls \cup {Started(b)} /\ \A x \in calls : x.batch.key \in SessionKey \ {b.key}
  BY BeginTypes, BeginAlone, CallKeys
<1>2. \A k \in SessionKey \ {b.key} : unsent'[k] = unsent[k]
  BY DEF BeginUpsert, TypeInv
<1>3. PICK new : new = Started(b)
  OBVIOUS
<1>4. new.changed => new.todo = Dests(new.apps)
  BY <1>3 DEF Started, DestsToRefresh, Snapshot
<1>5. Repairing(new)'
  BY <1>4 DEF Repairing, Due
<1>6. \A x \in calls : Repairing(x)'
  BY <1>1, <1>2 DEF RepairInv, Repairing, Due
<1> QED
  BY <1>1, <1>3, <1>5, <1>6 DEF RepairInv

LEMMA RepairStep ==
  ASSUME TypeInv, OrderlyInv, Apart, Apart', RepairInv, [Next]_vars
  PROVE  RepairInv'
<1>1. CASE Tick \/ (\E r \in late : ApplyLate(r)) \/ UNCHANGED vars
  BY <1>1 DEF Tick, ApplyLate, vars, RepairInv, Repairing, Due
<1>2. ASSUME NEW c \in calls, Return(c)
      PROVE  RepairInv'
  BY <1>2 DEF Return, RepairInv, Repairing, Due
<1> QED
  BY <1>1, <1>2, BeginRepairs, SkipRepairs, SendRepairs, ApplyRepairs, AnswerRepairs, FailRepairs,
     MergeRefsRepairs, ReplyRepairs DEF Next

\* While no two Upserts of one session overlap, a flush that changes the
\* session and meets no error leaves none of its destinations with a failed
\* call, whatever failed before and in whatever way.
THEOREM ChangedFlushRepairsHolds == Spec /\ []Apart => []ChangedFlushRepairs
<1>1. Init => RepairInv
  BY DEF Init, RepairInv
<1>2. TypeInv /\ OrderlyInv /\ Apart /\ Apart' /\ RepairInv /\ [Next]_vars => RepairInv'
  BY RepairStep
<1>3. ASSUME TypeInv, OrderlyInv, RepairInv
      PROVE  ChangedFlushRepairs
  <2> SUFFICES ASSUME NEW c \in calls, c.merged, c.changed, c.failed = {},
                      NEW d \in unsent[c.batch.key] \cap Dests(session[c.batch.key].perApp)
               PROVE  FALSE
    BY DEF ChangedFlushRepairs
  <2>1. Orderly(c) /\ Repairing(c)
    BY <1>3 DEF OrderlyInv, RepairInv
  <2> QED
    BY <2>1 DEF Orderly, Repairing, Due
<1> QED
  BY <1>1, <1>2, <1>3, OrderlyInvariant, PTL DEF Spec

-----------------------------------------------------------------------------
(* The message shows the current state.                                    *)

\* Incarnation inc of session k shows apps at d: in message ref, or where
\* nothing can be edited in any message it posted there.
Shown(ref, k, inc, d, apps) ==
  IF Edits(d) THEN ref \in DOMAIN channel[d] /\ channel[d][ref].apps = apps
  ELSE \E i \in DOMAIN channel[d] : PostedBy(d, i, k, inc) /\ channel[d][i].apps = apps

\* Until it merges its references, a call has shown the state of its session
\* wherever it is not still due and no call failed.
CallCurrent(c) ==
  /\ \A s \in c.sent : s.done =>
       s.ref \in DOMAIN channel[s.dest] /\ channel[s.dest][s.ref].apps = AppsAt(c.apps, s.dest)
  /\ ~ c.merged => \A d \in Dests(c.apps) \ unsent[c.batch.key] :
       \/ Due(c, d)
       \/ Shown(RefFor(Merged(c.refs, c.newRefs), d), c.batch.key, c.inc, d, AppsAt(c.apps, d))

\* MessageCurrent as soon as the references are merged.
RestCurrent(k) ==
  (\A c \in calls : c.batch.key = k => c.merged) =>
    \A d \in Dests(session[k].perApp) \ unsent[k] :
      Shown(RefFor(session[k].refs, d), k, session[k].inc, d, AppsAt(session[k].perApp, d))

CurrentInv ==
  /\ late = {}
  /\ \A c \in calls : CallCurrent(c)
  /\ \A k \in SessionKey : RestCurrent(k)

LEMMA MergedRef ==
  ASSUME NEW refs, NEW newRefs, NEW d
  PROVE  RefFor(Merged(refs, newRefs), d) = IF d \in DOMAIN newRefs THEN newRefs[d] ELSE RefFor(refs, d)
BY DEF RefFor, Merged

\* A batch of duplicates leaves the session as it is.
LEMMA NothingWritten ==
  ASSUME NEW perApp \in PerApp, NEW b \in Batch, Duplicates(perApp, b.events) = DOMAIN b.events
  PROVE  LastWrite(perApp, b.events) = perApp
<1>1. DOMAIN perApp \cup {b.events[i].app : i \in DOMAIN b.events} = DOMAIN perApp
  BY NewAppIsWritten
<1>2. \A a : {i \in DOMAIN b.events \ Duplicates(perApp, b.events) : b.events[i].app = a} = {}
  OBVIOUS
<1>3. LastWrite(perApp, b.events) = [a \in DOMAIN perApp |-> perApp[a]]
  BY <1>1, <1>2 DEF LastWrite
<1>4. perApp = [a \in DOMAIN perApp |-> perApp[a]]
  BY DEF PerApp
<1> QED
  BY <1>3, <1>4

\* A step of a call that leaves the channel and what was merged as they are.
LEMMA OneCallCurrent ==
  ASSUME TypeInv, Apart, CurrentInv, NEW c \in calls, NEW n, Becomes(c, n), n.batch = c.batch,
         n.merged = c.merged, CallCurrent(n)', UNCHANGED <<session, channel, late>>,
         \A k \in SessionKey \ {c.batch.key} : unsent'[k] = unsent[k],
         c.merged => UNCHANGED unsent
  PROVE  CurrentInv'
<1>1. ASSUME NEW x \in calls, x # c
      PROVE  CallCurrent(x)'
  <2>1. x.batch.key \in SessionKey \ {c.batch.key}
    BY <1>1, CallKeys DEF Apart
  <2>2. CallCurrent(x) /\ unsent'[x.batch.key] = unsent[x.batch.key]
    BY <2>1 DEF CurrentInv
  <2> QED
    BY <2>2 DEF CallCurrent, Due, Shown, PostedBy
<1>2. ASSUME NEW k \in SessionKey
      PROVE  RestCurrent(k)'
  <2> SUFFICES ASSUME \A x \in calls' : x.batch.key = k => x.merged,
                      NEW d \in Dests(session[k].perApp) \ unsent'[k]
               PROVE  Shown(RefFor(session[k].refs, d), k, session[k].inc, d,
                            AppsAt(session[k].perApp, d))'
    BY DEF RestCurrent
  <2>1. \A x \in calls : x.batch.key = k => x.merged
    BY DEF Becomes
  <2>2. unsent'[k] = unsent[k]
    BY <2>1
  <2>3. Shown(RefFor(session[k].refs, d), k, session[k].inc, d, AppsAt(session[k].perApp, d))
    BY <2>1, <2>2 DEF CurrentInv, RestCurrent
  <2> QED
    BY <2>3 DEF Shown, PostedBy
<1>3. \A x \in calls' : CallCurrent(x)'
  BY <1>1 DEF Becomes
<1> QED
  BY <1>2, <1>3 DEF CurrentInv

LEMMA FailureExcused ==
  ASSUME TypeInv, OrderlyInv, NEW c \in calls, NEW d, NoteFailure(c, d)
  PROVE  /\ unsent'[c.batch.key] = unsent[c.batch.key] \cup {d}
         /\ \A k \in SessionKey \ {c.batch.key} : unsent'[k] = unsent[k]
BY CallKeys DEF NoteFailure, TypeInv, OrderlyInv, Orderly

\* A call that gives up on d, or has nothing to give up.
LEMMA CallExcused ==
  ASSUME TypeInv, CurrentInv, NEW c \in calls, NEW n, NEW d, UNCHANGED channel, ~ c.merged,
         n.batch = c.batch, n.inc = c.inc, n.apps = c.apps, n.refs = c.refs, n.newRefs = c.newRefs,
         \A s \in n.sent : ~ s.done, \A e : e # d /\ Due(c, e) => Due(n, e),
         d \in unsent'[c.batch.key] \/ Due(n, d), unsent[c.batch.key] \subseteq unsent'[c.batch.key]
  PROVE  CallCurrent(n)'
<1> SUFFICES ASSUME NEW e \in Dests(c.apps) \ unsent'[c.batch.key], ~ Due(n, e)
             PROVE  Shown(RefFor(Merged(c.refs, c.newRefs), e), c.batch.key, c.inc, e, AppsAt(c.apps, e))'
  BY DEF CallCurrent, Due
<1>1. e \notin unsent[c.batch.key] /\ ~ Due(c, e)
  OBVIOUS
<1>2. Shown(RefFor(Merged(c.refs, c.newRefs), e), c.batch.key, c.inc, e, AppsAt(c.apps, e))
  BY <1>1 DEF CurrentInv, CallCurrent
<1> QED
  BY <1>2 DEF Shown, PostedBy

LEMMA SkipCurrent ==
  ASSUME TypeInv, Apart, OrderlyInv, CurrentInv, NEW c \in calls, NEW d \in Dest, Skip(c, d)
  PROVE  CurrentInv'
<1>1. PICK n : NextCall(c, n, c.todo \ {d}, {}, c.newRefs, c.failed \cup {d}, c.merged)
  BY SkipCall
<1>2. /\ c.sent = {} /\ ~ c.merged /\ UNCHANGED <<session, channel, late>>
      /\ unsent'[c.batch.key] = unsent[c.batch.key] \cup {d}
      /\ \A k \in SessionKey \ {c.batch.key} : unsent'[k] = unsent[k]
  BY SkipCall, FailureExcused DEF OrderlyInv, Orderly
<1>3. \A e : e # d /\ Due(c, e) => Due(n, e)
  BY <1>1, <1>2 DEF Due, NextCall
<1>4. CallCurrent(n)'
  BY <1>1, <1>2, <1>3, CallExcused DEF NextCall
<1> QED
  BY <1>1, <1>2, <1>4, OneCallCurrent DEF NextCall

LEMMA SendCurrent ==
  ASSUME TypeInv, Apart, OrderlyInv, CurrentInv, NEW c \in calls, NEW d \in Dest, Send(c, d)
  PROVE  CurrentInv'
<1>1. PICK n, ref : NextCall(c, n, c.todo \ {d}, {[dest |-> d, ref |-> ref, done |-> FALSE]},
                             c.newRefs, c.failed, c.merged)
  BY SendCall
<1>2. c.sent = {} /\ ~ c.merged /\ UNCHANGED <<session, channel, late, unsent>>
  BY SendCall DEF OrderlyInv, Orderly
<1>3. Due(n, d) /\ (\A s \in n.sent : ~ s.done) /\ \A e : e # d /\ Due(c, e) => Due(n, e)
  BY <1>1, <1>2 DEF Due, NextCall
<1>4. CallCurrent(n)'
  BY <1>1, <1>2, <1>3, CallExcused DEF NextCall
<1> QED
  BY <1>1, <1>2, <1>4, OneCallCurrent DEF NextCall

LEMMA FailCurrent ==
  ASSUME TypeInv, Apart, OrderlyInv, CurrentInv, "late" \notin Faults, NEW c \in calls, Fail(c)
  PROVE  CurrentInv'
<1>1. PICK s \in c.sent : \E n :
        /\ NextCall(c, n, c.todo, {}, c.newRefs, c.failed \cup {s.dest}, c.merged)
        /\ NoteFailure(c, s.dest) /\ UNCHANGED <<session, channel, late>>
  BY FailCall
<1>2. PICK n : NextCall(c, n, c.todo, {}, c.newRefs, c.failed \cup {s.dest}, c.merged)
  BY <1>1
<1>3. PICK d : d = s.dest
  OBVIOUS
<1>4. /\ ~ c.merged /\ unsent'[c.batch.key] = unsent[c.batch.key] \cup {d}
      /\ \A k \in SessionKey \ {c.batch.key} : unsent'[k] = unsent[k]
  BY <1>1, <1>3, FailureExcused DEF OrderlyInv, Orderly
<1>5. \A e : e # d /\ Due(c, e) => Due(n, e)
  BY <1>2, <1>3 DEF OrderlyInv, Orderly, Due, NextCall
<1>6. CallCurrent(n)'
  BY <1>1, <1>2, <1>4, <1>5, CallExcused DEF NextCall
<1> QED
  BY <1>1, <1>2, <1>4, <1>6, OneCallCurrent DEF NextCall

\* After the answer of d, d shows what the call sent there.
LEMMA AnswerCurrent ==
  ASSUME TypeInv, RefsInv, Apart, OrderlyInv, CurrentInv, NEW c \in calls, Answer(c)
  PROVE  CurrentInv'
<1>1. PICK s \in c.sent : \E n :
        /\ NextCall(c, n, c.todo, {}, RefsOnAnswer(c, s), c.failed, c.merged)
        /\ s.done /\ s \in Pending /\ s.dest \in Dest
        /\ unsent' = IF session[c.batch.key].inc = c.inc
                     THEN [unsent EXCEPT ![c.batch.key] = @ \ {s.dest}] ELSE unsent
        /\ UNCHANGED <<session, late, channel>>
  BY AnswerCall
<1>2. PICK n : NextCall(c, n, c.todo, {}, RefsOnAnswer(c, s), c.failed, c.merged)
  BY <1>1
<1>3. PICK refs : refs = RefsOnAnswer(c, s)
  OBVIOUS
<1>4. PICK d, ref : d = s.dest /\ ref = s.ref
  OBVIOUS
<1>5. Orderly(c) /\ CallCurrent(c) /\ ~ c.merged /\ c.refs \in RefMap
  BY <1>1 DEF OrderlyInv, Orderly, CurrentInv, TypeInv, Upsert
<1>6. /\ unsent'[c.batch.key] = unsent[c.batch.key] \ {d}
      /\ \A k \in SessionKey \ {c.batch.key} : unsent'[k] = unsent[k]
  BY <1>1, <1>4, <1>5, CallKeys DEF Orderly, TypeInv
<1>7. /\ DOMAIN refs \subseteq DOMAIN c.newRefs \cup {d} /\ DOMAIN c.newRefs \subseteq DOMAIN refs
      /\ \A e \in DOMAIN c.newRefs : refs[e] = c.newRefs[e]
      /\ d \in DOMAIN refs => refs[d] = ref
      /\ Edits(d) /\ d \notin DOMAIN refs => d \in DOMAIN c.refs
  BY <1>1, <1>3, <1>4, AnswerRefs
<1>8. PostedBy(d, ref, c.batch.key, c.inc) /\ channel[d][ref].apps = AppsAt(c.apps, d)
  BY <1>1, <1>4, <1>5 DEF RefsInv, CallOwns, Pending, CallCurrent
<1>9. Edits(d) => RefFor(Merged(c.refs, refs), d) = ref
  BY <1>4, <1>5, <1>7, MergedRef, RefForEntries DEF Orderly
<1>10. Shown(RefFor(Merged(c.refs, refs), d), c.batch.key, c.inc, d, AppsAt(c.apps, d))
  BY <1>8, <1>9 DEF Shown, PostedBy
<1>11. ASSUME NEW e \in Dests(c.apps) \ unsent'[c.batch.key], ~ Due(n, e)
       PROVE  Shown(RefFor(Merged(c.refs, refs), e), c.batch.key, c.inc, e, AppsAt(c.apps, e))
  <2>1. CASE e # d
    <3>1. ~ Due(c, e)
      BY <1>2, <1>4, <1>5, <1>11, <2>1 DEF Orderly, Due, NextCall
    <3>2. Shown(RefFor(Merged(c.refs, c.newRefs), e), c.batch.key, c.inc, e, AppsAt(c.apps, e))
      BY <1>5, <1>6, <1>11, <2>1, <3>1 DEF CallCurrent
    <3>3. RefFor(Merged(c.refs, refs), e) = RefFor(Merged(c.refs, c.newRefs), e)
      BY <1>7, <2>1, MergedRef
    <3> QED
      BY <3>2, <3>3
  <2> QED
    BY <1>10, <2>1
<1>12. CallCurrent(n)'
  <2>1. /\ n.sent = {} /\ n.batch = c.batch /\ n.inc = c.inc /\ n.apps = c.apps /\ n.refs = c.refs
        /\ n.newRefs = refs
    BY <1>2, <1>3 DEF NextCall
  <2>2. \A e \in Dests(c.apps) \ unsent'[c.batch.key] :
          \/ Due(n, e)
          \/ Shown(RefFor(Merged(c.refs, refs), e), c.batch.key, c.inc, e, AppsAt(c.apps, e))'
    BY <1>1, <1>11 DEF Shown, PostedBy
  <2> QED
    BY <2>1, <2>2 DEF CallCurrent, Due
<1> QED
  BY <1>1, <1>2, <1>5, <1>6, <1>12, OneCallCurrent DEF NextCall

LEMMA ReplyCurrent ==
  ASSUME TypeInv, Apart, CurrentInv, NEW c \in calls, NEW r \in c.replies, Reply(c, r)
  PROVE  CurrentInv'
<1>1. PICK n : NextCall(c, n, c.todo, c.sent, c.newRefs, c.failed, c.merged)
  BY ReplyCall
<1>2. UNCHANGED <<session, channel, late, unsent>>
  BY ReplyCall
<1>3. CallCurrent(c)
  BY DEF CurrentInv
<1>4. CallCurrent(n)'
  BY <1>1, <1>2, <1>3 DEF CallCurrent, Due, Shown, PostedBy, NextCall
<1> QED
  BY <1>1, <1>2, <1>4, OneCallCurrent DEF NextCall


Kept(d, i) == i \in DOMAIN channel'[d] /\ channel'[d][i] = channel[d][i]

\* A call writes to no message of another session, at no other destination,
\* and to none that is there where nothing can be edited.
LEMMA MessageKept ==
  ASSUME TypeInv, RefsInv, NEW c \in calls, NEW s \in c.sent, s.dest \in Dest, s.ref \in Nat,
         CarryOut(s.dest, s.ref, MessageFor(c, s.dest)), NEW e \in Dest, NEW i \in DOMAIN channel[e],
         \/ e # s.dest
         \/ channel[e][i].key # c.batch.key
         \/ ~ Edits(e)
  PROVE  Kept(e, i)
<1>1. PICK d, w : d = s.dest /\ w = Written(s.dest, s.ref)
  OBVIOUS
<1>2. /\ Grows
      /\ ~ IsEdit(d, s.ref) => w \notin DOMAIN channel[d]
      /\ \A j \in DOMAIN channel'[e] : e # d \/ j # w => channel'[e][j] = channel[e][j]
  BY <1>1, MessageForType, CarryOutWrites DEF TypeInv
<1>3. i \in DOMAIN channel'[e]
  BY <1>2 DEF Grows
<1>4. e # d \/ i # w
  <2> SUFFICES ASSUME e = d, i = w
               PROVE  FALSE
    OBVIOUS
  <2>1. IsEdit(d, s.ref) /\ i = s.ref
    BY <1>1, <1>2 DEF Written
  <2>2. Edits(d) /\ i # 0
    BY <2>1, PostedMessages DEF IsEdit, Edits
  <2>3. channel[d][i].key = c.batch.key
    BY <1>1, <2>1, <2>2 DEF RefsInv, CallOwns, PostedBy
  <2> QED
    BY <1>1, <2>2, <2>3
<1> QED
  BY <1>2, <1>3, <1>4 DEF Kept

LEMMA ShownStays ==
  ASSUME NEW d \in Dest, NEW ref, NEW k, NEW inc, NEW apps, Shown(ref, k, inc, d, apps),
         \A i \in DOMAIN channel[d] :
           (IF Edits(d) THEN i = ref ELSE PostedBy(d, i, k, inc)) => Kept(d, i)
  PROVE  Shown(ref, k, inc, d, apps)'
BY DEF Shown, Kept, PostedBy

\* What is shown elsewhere or for another session stays shown.
LEMMA ApplyKeepsShown ==
  ASSUME TypeInv, RefsInv, NEW c \in calls, NEW s \in c.sent, s.dest \in Dest, s.ref \in Nat,
         CarryOut(s.dest, s.ref, MessageFor(c, s.dest)),
         NEW refs \in RefMap, NEW k, NEW inc, Owned(refs, k, inc), NEW e \in Dest, NEW apps,
         e # s.dest \/ k # c.batch.key, Shown(RefFor(refs, e), k, inc, e, apps)
  PROVE  Shown(RefFor(refs, e), k, inc, e, apps)'
<1>1. PICK ref : ref = RefFor(refs, e)
  OBVIOUS
<1>2. ASSUME NEW i \in DOMAIN channel[e], IF Edits(e) THEN i = ref ELSE PostedBy(e, i, k, inc)
      PROVE  Kept(e, i)
  <2>1. PostedBy(e, i, k, inc)
    BY <1>1, <1>2, RefForEntries, PostedMessages DEF Owned
  <2>2. e # s.dest \/ channel[e][i].key # c.batch.key
    BY <2>1 DEF PostedBy
  <2> QED
    BY <2>2, MessageKept
<1>3. Shown(ref, k, inc, e, apps)'
  BY <1>1, <1>2, ShownStays
<1> QED
  BY <1>1, <1>3

LEMMA ApplyCurrent ==
  ASSUME TypeInv, RefsInv, Apart, OrderlyInv, CurrentInv, NEW c \in calls, Apply(c)
  PROVE  CurrentInv'
<1>1. PICK s \in c.sent : \E n, out :
        /\ NextCall(c, n, c.todo, {out}, c.newRefs, c.failed, c.merged)
        /\ out.dest = s.dest /\ out.ref = Written(s.dest, s.ref) /\ out.done
        /\ CarryOut(s.dest, s.ref, MessageFor(c, s.dest))
        /\ s.dest \in Dest /\ s.ref \in Nat /\ UNCHANGED <<session, late, unsent>>
  BY ApplyCall
<1>2. PICK n, out :
        /\ NextCall(c, n, c.todo, {out}, c.newRefs, c.failed, c.merged)
        /\ out.dest = s.dest /\ out.ref = Written(s.dest, s.ref) /\ out.done
  BY <1>1
<1>3. Orderly(c) /\ CallCurrent(c) /\ ~ c.merged /\ c.apps \in PerApp
  BY <1>1 DEF OrderlyInv, Orderly, CurrentInv, TypeInv, Upsert
<1>4. ASSUME NEW refs \in RefMap, NEW k, NEW inc, Owned(refs, k, inc), NEW e \in Dest, NEW apps,
             e # s.dest \/ k # c.batch.key, Shown(RefFor(refs, e), k, inc, e, apps)
      PROVE  Shown(RefFor(refs, e), k, inc, e, apps)'
  BY <1>1, <1>4, ApplyKeepsShown
<1>5. ASSUME NEW x \in calls, NEW e \in Dest, e # s.dest \/ x.batch.key # c.batch.key,
             Shown(RefFor(Merged(x.refs, x.newRefs), e), x.batch.key, x.inc, e, AppsAt(x.apps, e))
      PROVE  Shown(RefFor(Merged(x.refs, x.newRefs), e), x.batch.key, x.inc, e, AppsAt(x.apps, e))'
  <2>1. x.refs \in RefMap /\ x.newRefs \in RefMap
    BY DEF TypeInv, Upsert
  <2>2. PICK refs : refs = Merged(x.refs, x.newRefs)
    OBVIOUS
  <2>3. refs \in RefMap /\ Owned(refs, x.batch.key, x.inc)
    BY <2>1, <2>2, MergedEntries, MergedOwned DEF RefsInv, CallOwns
  <2> QED
    BY <1>4, <1>5, <2>2, <2>3
<1>6. CallCurrent(n)'
  <2>1. out.ref \in DOMAIN channel'[out.dest] /\ channel'[out.dest][out.ref].apps = AppsAt(c.apps, out.dest)
    BY <1>1, <1>2, MessageForType, CarryOutWrites DEF TypeInv
  <2>2. ASSUME NEW e \in Dests(c.apps) \ unsent[c.batch.key], ~ Due(n, e)
        PROVE  Shown(RefFor(Merged(c.refs, c.newRefs), e), c.batch.key, c.inc, e, AppsAt(c.apps, e))'
    <3>1. e \in Dest /\ e # s.dest /\ ~ Due(c, e)
      BY <1>2, <1>3, <2>2 DEF Orderly, Due, NextCall, Dests, DestsOf
    <3>2. Shown(RefFor(Merged(c.refs, c.newRefs), e), c.batch.key, c.inc, e, AppsAt(c.apps, e))
      BY <1>3, <2>2, <3>1 DEF CallCurrent
    <3> QED
      BY <1>5, <3>1, <3>2
  <2> QED
    BY <1>1, <1>2, <2>1, <2>2 DEF CallCurrent, NextCall, Due
<1>7. ASSUME NEW x \in calls, x # c
      PROVE  CallCurrent(x)'
  <2>1. x.batch.key # c.batch.key /\ CallCurrent(x) /\ x \in Upsert
    BY <1>7 DEF Apart, CurrentInv, TypeInv
  <2>2. ASSUME NEW t \in x.sent, t.done
        PROVE  t.ref \in DOMAIN channel'[t.dest] /\ channel'[t.dest][t.ref].apps = AppsAt(x.apps, t.dest)
    <3>1. t.dest \in Dest /\ t.ref # 0
      BY <2>1, <2>2 DEF Upsert, Pending
    <3>2. channel[t.dest][t.ref].key = x.batch.key /\ t.ref \in DOMAIN channel[t.dest]
      BY <3>1 DEF RefsInv, CallOwns, PostedBy
    <3>3. Kept(t.dest, t.ref)
      BY <1>1, <2>1, <3>1, <3>2, MessageKept
    <3> QED
      BY <2>1, <2>2, <3>3 DEF CallCurrent, Kept
  <2>3. ASSUME ~ x.merged, NEW e \in Dests(x.apps) \ unsent[x.batch.key], ~ Due(x, e)
        PROVE  Shown(RefFor(Merged(x.refs, x.newRefs), e), x.batch.key, x.inc, e, AppsAt(x.apps, e))'
    <3>1. e \in Dest
      BY DEF Dests, DestsOf
    <3>2. Shown(RefFor(Merged(x.refs, x.newRefs), e), x.batch.key, x.inc, e, AppsAt(x.apps, e))
      BY <2>1, <2>3 DEF CallCurrent
    <3> QED
      BY <1>5, <2>1, <3>1, <3>2
  <2> QED
    BY <1>1, <2>2, <2>3 DEF CallCurrent, Due
<1>8. ASSUME NEW k \in SessionKey
      PROVE  RestCurrent(k)'
  <2> SUFFICES ASSUME \A x \in calls' : x.batch.key = k => x.merged,
                      NEW d \in Dests(session[k].perApp) \ unsent[k]
               PROVE  Shown(RefFor(session[k].refs, d), k, session[k].inc, d,
                            AppsAt(session[k].perApp, d))'
    BY <1>1 DEF RestCurrent
  <2>1. k # c.batch.key /\ \A x \in calls : x.batch.key = k => x.merged
    BY <1>2, <1>3 DEF Becomes, NextCall
  <2>2. d \in Dest /\ session[k].refs \in RefMap
    BY DEF Dests, DestsOf, TypeInv, Session
  <2>3. PICK refs, inc, apps :
          refs = session[k].refs /\ inc = session[k].inc /\ apps = AppsAt(session[k].perApp, d)
    OBVIOUS
  <2>4. Shown(RefFor(refs, d), k, inc, d, apps)
    BY <2>1, <2>3 DEF CurrentInv, RestCurrent
  <2>5. Owned(refs, k, inc)
    BY <2>3 DEF RefsInv
  <2>6. Shown(RefFor(refs, d), k, inc, d, apps)'
    BY <1>4, <2>1, <2>2, <2>3, <2>4, <2>5
  <2> QED
    BY <1>1, <2>3, <2>6
<1>9. \A x \in calls' : CallCurrent(x)'
  BY <1>2, <1>6, <1>7 DEF Becomes, NextCall
<1> QED
  BY <1>1, <1>8, <1>9 DEF CurrentInv

LEMMA MergeRefsCurrent ==
  ASSUME TypeInv, OrderlyInv, CurrentInv, NEW c \in calls, MergeRefs(c)
  PROVE  CurrentInv'
<1>1. PICK n : NextCall(c, n, {}, {}, c.newRefs, c.failed, TRUE)
  BY MergeRefsCall
<1>2. /\ c.todo = {} /\ c.sent = {} /\ ~ c.merged /\ UNCHANGED <<late, channel, unsent>>
      /\ \A k \in SessionKey :
           /\ session'[k].inc = session[k].inc /\ session'[k].perApp = session[k].perApp
           /\ session'[k].refs = IF k = c.batch.key /\ session[k].inc = c.inc
                                 THEN Merged(session[k].refs, c.newRefs) ELSE session[k].refs
  BY MergeRefsCall
<1>3. CallCurrent(n)'
  BY <1>1 DEF CallCurrent, NextCall
<1>4. ASSUME NEW x \in calls
      PROVE  CallCurrent(x)'
  BY <1>2 DEF CurrentInv, CallCurrent, Due, Shown, PostedBy
<1>5. Orderly(c) /\ CallCurrent(c) /\ c.batch.key \in SessionKey
  BY CallKeys DEF OrderlyInv, CurrentInv
<1>6. ASSUME NEW k \in SessionKey
      PROVE  RestCurrent(k)'
  <2> SUFFICES ASSUME \A x \in calls' : x.batch.key = k => x.merged,
                      NEW d \in Dests(session[k].perApp) \ unsent[k]
               PROVE  Shown(RefFor(session'[k].refs, d), k, session[k].inc, d,
                            AppsAt(session[k].perApp, d))
    BY <1>2 DEF RestCurrent, Shown, PostedBy
  <2>1. CASE k = c.batch.key
    <3>1. Shown(RefFor(Merged(c.refs, c.newRefs), d), k, c.inc, d, AppsAt(c.apps, d))
      BY <1>2, <1>5, <2>1 DEF CallCurrent, Due, Orderly
    <3>2. session'[k].refs = Merged(c.refs, c.newRefs) /\ c.inc = session[k].inc
      BY <1>2, <1>5, <2>1 DEF Orderly
    <3> QED
      BY <1>5, <2>1, <3>1, <3>2 DEF Orderly
  <2>2. CASE k # c.batch.key
    <3>1. \A x \in calls : x.batch.key = k => x.merged
      BY <1>1, <2>2 DEF Becomes, NextCall
    <3> QED
      BY <1>2, <2>2, <3>1 DEF CurrentInv, RestCurrent
  <2> QED
    BY <2>1, <2>2
<1>7. \A x \in calls' : CallCurrent(x)'
  BY <1>1, <1>3, <1>4 DEF Becomes, NextCall
<1> QED
  BY <1>2, <1>6, <1>7 DEF CurrentInv


\* A batch of duplicates sends nothing: what the session showed it still does.
LEMMA BeginCurrent ==
  ASSUME TypeInv, OrderlyInv, Apart', CurrentInv, NEW b \in Batch, BeginUpsert(b)
  PROVE  CurrentInv'
<1>1. PICK k, new, st : k = b.key /\ new = Started(b) /\ st = SessionFor(b.key)
  OBVIOUS
<1>2. /\ k \in SessionKey /\ calls' = calls \cup {new} /\ UNCHANGED <<late, channel>>
      /\ \A x \in calls : x.batch.key \in SessionKey \ {k}
      /\ \A h \in SessionKey \ {k} : session'[h] = session[h] /\ unsent'[h] = unsent[h]
      /\ ~ Expired(k) => unsent'[k] = unsent[k]
  BY <1>1, BeginTypes, BeginAlone, CallKeys, BatchEvents DEF BeginUpsert, TypeInv
<1>3. /\ new.batch = b /\ new.inc = st.inc /\ new.refs = st.refs /\ new.newRefs = Empty
      /\ new.apps = LastWrite(st.perApp, b.events) /\ new.sent = {} /\ ~ new.merged
      /\ new.changed <=> Duplicates(st.perApp, b.events) # DOMAIN b.events
      /\ new.changed => new.todo = Dests(new.apps)
  BY <1>1 DEF Started, Snapshot, DestsToRefresh
<1>4. st \in Session /\ st.perApp \in PerApp
  BY <1>1, <1>2, SessionForType DEF Session
<1>5. ASSUME NEW d \in Dests(new.apps) \ unsent'[k], ~ Due(new, d)
      PROVE  Shown(RefFor(Merged(new.refs, new.newRefs), d), k, new.inc, d, AppsAt(new.apps, d))
  <2>1. new.apps = st.perApp
    BY <1>3, <1>4, <1>5, NothingWritten DEF Due
  <2>2. ~ Expired(k)
    BY <1>1, <1>2, <1>5, <2>1, SessionForType, EmptyMap DEF Dests
  <2>3. st = session[k] /\ unsent'[k] = unsent[k]
    BY <1>1, <1>2, <2>2, SessionForType
  <2>4. Shown(RefFor(session[k].refs, d), k, session[k].inc, d, AppsAt(session[k].perApp, d))
    BY <1>2, <1>5, <2>1, <2>3 DEF CurrentInv, RestCurrent
  <2>5. RefFor(Merged(new.refs, new.newRefs), d) = RefFor(session[k].refs, d)
    BY <1>3, <2>3, MergedRef, EmptyMap
  <2> QED
    BY <1>3, <2>1, <2>3, <2>4, <2>5
<1>6. CallCurrent(new)'
  <2>1. \A d \in Dests(new.apps) \ unsent'[k] :
          \/ Due(new, d)
          \/ Shown(RefFor(Merged(new.refs, new.newRefs), d), k, new.inc, d, AppsAt(new.apps, d))'
    BY <1>2, <1>5 DEF Shown, PostedBy
  <2> QED
    BY <1>1, <1>3, <2>1 DEF CallCurrent, Due
<1>7. ASSUME NEW x \in calls
      PROVE  CallCurrent(x)'
  <2>1. CallCurrent(x) /\ unsent'[x.batch.key] = unsent[x.batch.key]
    BY <1>2 DEF CurrentInv
  <2> QED
    BY <1>2, <2>1 DEF CallCurrent, Due, Shown, PostedBy
<1>8. ASSUME NEW h \in SessionKey
      PROVE  RestCurrent(h)'
  <2>1. CASE h = k
    BY <1>1, <1>2, <1>3, <2>1 DEF RestCurrent
  <2>2. CASE h # k
    <3>1. RestCurrent(h) /\ session'[h] = session[h] /\ unsent'[h] = unsent[h] /\ calls \subseteq calls'
      BY <1>2, <2>2 DEF CurrentInv
    <3> QED
      BY <1>2, <3>1 DEF RestCurrent, Shown, PostedBy
  <2> QED
    BY <2>1, <2>2
<1> QED
  BY <1>2, <1>6, <1>7, <1>8 DEF CurrentInv

LEMMA TickCurrent ==
  ASSUME TypeInv, CurrentInv, Tick
  PROVE  CurrentInv'
<1>1. /\ UNCHANGED <<calls, late, channel, unsent>>
      /\ \A k \in SessionKey :
           /\ session'[k].inc = session[k].inc /\ session'[k].refs = session[k].refs
           /\ session'[k].perApp = session[k].perApp
  BY TickSessions
<1>2. \A c \in calls : CallCurrent(c)'
  BY <1>1 DEF CurrentInv, CallCurrent, Due, Shown, PostedBy
<1>3. \A k \in SessionKey : RestCurrent(k)'
  BY <1>1 DEF CurrentInv, RestCurrent, Shown, PostedBy
<1> QED
  BY <1>1, <1>2, <1>3 DEF CurrentInv

LEMMA ReturnCurrent ==
  ASSUME CurrentInv, NEW c \in calls, Return(c)
  PROVE  CurrentInv'
<1>1. c.merged /\ calls' = calls \ {c} /\ UNCHANGED <<session, late, channel, unsent>>
  BY DEF Return
<1>2. \A x \in calls : CallCurrent(x)'
  BY <1>1 DEF CurrentInv, CallCurrent, Due, Shown, PostedBy
<1>3. ASSUME NEW k \in SessionKey
      PROVE  RestCurrent(k)'
  <2>1. (\A x \in calls' : x.batch.key = k => x.merged) => \A x \in calls : x.batch.key = k => x.merged
    BY <1>1
  <2> QED
    BY <1>1, <2>1 DEF CurrentInv, RestCurrent, Shown, PostedBy
<1> QED
  BY <1>1, <1>2, <1>3 DEF CurrentInv

LEMMA CurrentStep ==
  ASSUME TypeInv, RefsInv, OrderlyInv, Apart, Apart', "late" \notin Faults, CurrentInv, [Next]_vars
  PROVE  CurrentInv'
<1>1. CASE UNCHANGED vars
  BY <1>1 DEF vars, CurrentInv, CallCurrent, RestCurrent, Due, Shown, PostedBy
<1>2. ASSUME NEW r \in late, ApplyLate(r)
      PROVE  CurrentInv'
  BY DEF CurrentInv
<1> QED
  BY <1>1, <1>2, BeginCurrent, TickCurrent, SkipCurrent, SendCurrent, ApplyCurrent, AnswerCurrent,
     FailCurrent, MergeRefsCurrent, ReplyCurrent, ReturnCurrent DEF Next

LEMMA CurrentInit == Init => CurrentInv
<1> SUFFICES ASSUME Init
             PROVE  CurrentInv
  OBVIOUS
<1>1. \A k \in SessionKey : Dests(session[k].perApp) = {}
  BY EmptyMap DEF Init, Dests
<1> QED
  BY <1>1 DEF Init, CurrentInv, RestCurrent

\* While no two Upserts of one session overlap, and unless a backend carries
\* out a request that its caller has given up, a session at rest shows at
\* each destination whose latest call did not fail exactly the apps routed
\* there, as last reported.
THEOREM MessageCurrentHolds ==
  ASSUME "late" \notin Faults
  PROVE  Spec /\ []Apart => []MessageCurrent
<1>1. TypeInv /\ RefsInv /\ OrderlyInv /\ Apart /\ Apart' /\ CurrentInv /\ [Next]_vars => CurrentInv'
  BY CurrentStep
<1>2. ASSUME TypeInv, CurrentInv
      PROVE  MessageCurrent
  <2> SUFFICES ASSUME NEW k \in SessionKey, AtRest(k), NEW d \in Dests(session[k].perApp) \ unsent[k]
               PROVE  IF Edits(d)
                      THEN /\ RefFor(session[k].refs, d) \in DOMAIN channel[d]
                           /\ channel[d][RefFor(session[k].refs, d)].apps = AppsAt(session[k].perApp, d)
                      ELSE \E i \in Messages(k, d) : channel[d][i].apps = AppsAt(session[k].perApp, d)
    BY DEF MessageCurrent
  <2>1. Shown(RefFor(session[k].refs, d), k, session[k].inc, d, AppsAt(session[k].perApp, d))
    BY <1>2 DEF AtRest, CurrentInv, RestCurrent
  <2> QED
    BY <2>1 DEF Shown, PostedBy, Messages
<1> QED
  BY <1>1, <1>2, CurrentInit, OrderlyInvariant, PTL DEF Spec
=============================================================================
