----------------------------- MODULE SlackProofs -----------------------------
(***************************************************************************)
(* Proofs about the Slack backend's process: what crosses the wire, and    *)
(* the template in use, for all sessions of the core, all configurations,  *)
(* all mtimes and any number of writes to the file.                        *)
(***************************************************************************)
EXTENDS SlackProcess, SequenceLemmas, FiniteSetTheorems, TLAPS

(* The wire.                                                               *)

\* What arrives of an item of an event, and of what was built.
Received(e) == [f \in ItemFields |-> Marshalled(Item(e)[f])]

Arrived(perApp) ==
  LET names == Sorted(KnownApps(perApp)) IN
  [Summary |-> Summary(perApp), Items |-> [i \in DOMAIN names |-> Received(perApp[names[i]])]]

LEMMA EmptyText == Marshalled(<<>>) = <<>>
BY DEF Marshalled

\* Nil pointers come back as the empty value they stand for.
LEMMA WireItem ==
  ASSUME NEW e
  PROVE  FromWireItem(ToWireItem(Item(e))) = Received(e)
<1> DEFINE item == Item(e)
           wire == ToWireItem(item)
<1>1. SentFields = ItemFields /\ ReadFields = ItemFields /\ Required \subseteq ItemFields
  BY DEF SentFields, ReadFields, ItemFields, Required
<1>2. Received(e) = [f \in ItemFields |-> Marshalled(item[f])]
  BY DEF Received
<1>3. /\ DOMAIN wire = {f \in ItemFields : f \in Required \/ item[f] # <<>>}
      /\ \A f \in DOMAIN wire : wire[f] = Marshalled(item[f])
  BY <1>1 DEF ToWireItem
<1> HIDE DEF item, wire
<1>4. ASSUME NEW f \in ItemFields
      PROVE  (IF f \in ReadFields \cap DOMAIN wire THEN wire[f] ELSE <<>>) = Marshalled(item[f])
  BY <1>1, <1>3, EmptyText
<1>5. FromWireItem(wire) = [f \in ItemFields |-> Marshalled(item[f])]
  BY <1>4 DEF FromWireItem
<1> QED
  BY <1>2, <1>5 DEF item, wire

LEMMA WireNotification ==
  ASSUME NEW perApp
  PROVE  FromWire(ToWire(Build(perApp))) = Arrived(perApp)
<1> DEFINE names == Sorted(KnownApps(perApp))
           items == [i \in DOMAIN names |-> Item(perApp[names[i]])]
           n == [Summary |-> Summary(perApp), Items |-> items]
<1>1. Build(perApp) = n
  BY DEF Build
<1>2. ToWire(n) = [Summary |-> Summary(perApp),
                   Items |-> [i \in DOMAIN items |-> ToWireItem(items[i])]]
  <2>1. n.Items = items
    OBVIOUS
  <2> HIDE DEF items
  <2> QED
    BY <2>1 DEF ToWire
<1>3. FromWire(ToWire(n)) = [Summary |-> Summary(perApp),
                             Items |-> [i \in DOMAIN items |-> FromWireItem(ToWireItem(items[i]))]]
  BY <1>2 DEF FromWire
<1>4. \A i \in DOMAIN items : FromWireItem(ToWireItem(items[i])) = Received(perApp[names[i]])
  BY WireItem
<1>5. Arrived(perApp) = [Summary |-> Summary(perApp),
                         Items |-> [i \in DOMAIN names |-> Received(perApp[names[i]])]]
  BY DEF Arrived
<1> QED
  BY <1>1, <1>3, <1>4, <1>5

Carried ==
  /\ request.stage = "built" => request.n = Build(request.perApp)
  /\ request.stage \in {"handler", "rendering"} => request.n = Arrived(request.perApp)

LEMMA CarriedHolds == SlackSpec => []Carried
<1>1. SlackInit => Carried
  BY DEF SlackInit, NoRequest, Carried
<1>2. ASSUME Carried, [SlackNext]_slackVars
      PROVE  Carried'
  <2>1. CASE Notify
    BY <2>1 DEF Notify, NewRequest, Carried
  <2>2. CASE Receive
    <3>1. CASE Len(request.n.Items) > MaxItems
      BY <2>2, <3>1 DEF Receive, Carried
    <3>2. CASE ~ (Len(request.n.Items) > MaxItems)
      <4>1. request' = [request EXCEPT !.stage = "handler", !.n = FromWire(ToWire(@))]
        BY <2>2, <3>2 DEF Receive
      <4> QED
        BY <1>2, <2>2, <4>1, WireNotification DEF Carried, Receive
    <3> QED
      BY <3>1, <3>2
  <2>3. CASE PickRenderer
    BY <1>2, <2>3 DEF PickRenderer, Carried
  <2>5. CASE Render
    BY <2>5 DEF Render, Answered, Carried
  <2>4. CASE Start \/ Listen \/ Signal \/ Exit \/ Reload \/ File \/ UNCHANGED slackVars
    BY <1>2, <2>4 DEF Start, Listen, Signal, Exit, Reload, File, slackVars, Carried
  <2> QED
    BY <1>2, <2>1, <2>2, <2>3, <2>4, <2>5 DEF SlackNext
<1> QED
  BY <1>1, <1>2, PTL DEF SlackSpec

\* Every session the core can have arrives in the handler as it was built,
\* item for item and field for field, whatever its apps, triggers and texts
\* (toWireItem and fromWireItem).
THEOREM WireFaithfulHolds == SlackSpec => []WireFaithful
<1>1. ASSUME NEW perApp
      PROVE  /\ Arrived(perApp).Summary = Build(perApp).Summary
             /\ DOMAIN Arrived(perApp).Items = DOMAIN Build(perApp).Items
             /\ \A i \in DOMAIN Build(perApp).Items, f \in ItemFields :
                  Arrived(perApp).Items[i][f] = Marshalled(Build(perApp).Items[i][f])
  <2>1. PICK names : names = Sorted(KnownApps(perApp))
    OBVIOUS
  <2>2. /\ Build(perApp).Summary = Summary(perApp)
        /\ Build(perApp).Items = [i \in DOMAIN names |-> Item(perApp[names[i]])]
    BY <2>1 DEF Build
  <2>3. /\ Arrived(perApp).Summary = Summary(perApp)
        /\ Arrived(perApp).Items = [i \in DOMAIN names |-> Received(perApp[names[i]])]
    BY <2>1 DEF Arrived
  <2>4. \A i \in DOMAIN names, f \in ItemFields :
          Received(perApp[names[i]])[f] = Marshalled(Item(perApp[names[i]])[f])
    BY DEF Received
  <2> QED
    BY <2>2, <2>3, <2>4
<1>2. Carried => WireFaithful
  BY <1>1 DEF Carried, WireFaithful
<1> QED
  BY <1>2, CarriedHolds, PTL

-----------------------------------------------------------------------------
(* The template.                                                           *)

\* What the file holds, what a reload has read and what is in use are among
\* the versions that were written; and what is in use parses.
WatcherInvariant ==
  /\ DOMAIN writes \subseteq Version
  /\ file.version \in DOMAIN writes \cup {0}
  /\ reload.step = "parse" => reload.version \in DOMAIN writes
  /\ current # 0 => current \in DOMAIN writes /\ writes[current]

\* A write may add a version to those there are, and changes none.
LEMMA WriteAdds ==
  ASSUME WatcherInvariant, Write
  PROVE  /\ DOMAIN writes \subseteq DOMAIN writes' /\ DOMAIN writes' \subseteq Version
         /\ \A v \in DOMAIN writes : writes'[v] = writes[v]
         /\ file'.version \in DOMAIN writes'
<1>1. PICK v \in Version, parses \in BOOLEAN :
        /\ file'.version = v
        /\ writes' = [u \in DOMAIN writes \cup {v} |-> IF u \in DOMAIN writes THEN writes[u] ELSE parses]
  BY DEF Write
<1> QED
  BY <1>1 DEF WatcherInvariant

LEMMA WatcherStep ==
  ASSUME WatcherInvariant, [SlackNext]_slackVars
  PROVE  WatcherInvariant'
<1>1. CASE Write
  <2>1. UNCHANGED <<reload, current>>
    BY <1>1 DEF Write
  <2> QED
    BY <1>1, <2>1, WriteAdds DEF WatcherInvariant
<1>2. CASE RemoveFile
  BY <1>2 DEF RemoveFile, WatcherInvariant
<1>3. CASE Stat
  BY <1>3 DEF Stat, WatcherInvariant
<1>4. CASE Read
  BY <1>4 DEF Read, Waiting, WatcherInvariant
<1>5. CASE Load
  BY <1>5 DEF Load, Parses, KeepPrevious, Waiting, WatcherInvariant
<1>6. CASE UNCHANGED vars
  BY <1>6 DEF vars, WatcherInvariant
<1> QED
  BY <1>1, <1>2, <1>3, <1>4, <1>5, <1>6
     DEF SlackNext, Start, Listen, Signal, Exit, Reload, File, Notify, Receive, PickRenderer,
         Render, slackVars

LEMMA WatcherHolds == SlackSpec => []WatcherInvariant
<1>1. SlackInit => WatcherInvariant
  <2> SUFFICES ASSUME SlackInit
               PROVE  WatcherInvariant
    OBVIOUS
  <2>1. DOMAIN writes = {}
    BY DEF SlackInit, Init
  <2> QED
    BY <2>1 DEF SlackInit, Init, Waiting, WatcherInvariant
<1> QED
  BY <1>1, WatcherStep, PTL DEF SlackSpec

\* A template that was loaded is only ever replaced by one that parses, for
\* any number of contents and mtimes, in any order, and whatever else the
\* process does (Reload).
THEOREM KeepsGoodTemplateHolds == SlackSpec => KeepsGoodTemplate
<1>1. ASSUME WatcherInvariant, [SlackNext]_slackVars
      PROVE  [current # 0 => current' # 0 /\ writes[current']]_vars
  <2>1. CASE UNCHANGED current
    BY <1>1, <2>1 DEF WatcherInvariant
  <2>2. CASE Load
    <3>1. SUFFICES ASSUME Parses, current' = reload.version, current # 0
                   PROVE  current' # 0 /\ writes[current']
      BY <1>1, <2>2 DEF Load, KeepPrevious, WatcherInvariant
    <3>2. \A v \in DOMAIN writes : v # 0
      BY <1>1 DEF WatcherInvariant, Version
    <3>3. reload.version \in DOMAIN writes
      BY <1>1, <2>2 DEF Load, WatcherInvariant
    <3> QED
      BY <3>1, <3>2, <3>3 DEF Parses
  <2>3. CASE UNCHANGED vars
    BY <2>3
  <2> QED
    BY <1>1, <2>1, <2>2, <2>3
       DEF SlackNext, Start, Listen, Signal, Exit, Reload, File, Notify, Receive, PickRenderer,
           Render, slackVars, Write, RemoveFile, Stat, Read, vars
<1> QED
  BY <1>1, WatcherHolds, PTL DEF SlackSpec, KeepsGoodTemplate

\* For every configuration and any history of the file: a notification is
\* dropped only if the fallback is off and some template was good
\* (TemplateWatcher.Render, TemplateRenderer.Render).
THEOREM SentWhateverTheFileHolds == SlackSpec => []SentWhateverTheFile
<1> DEFINE Picked == request.renderer # 0 => \E v \in DOMAIN writes : writes[v]
<1>1. SlackInit => SentWhateverTheFile /\ Picked
  BY DEF SlackInit, NoRequest, NoAnswer, SentWhateverTheFile
<1>2. ASSUME WatcherInvariant, SentWhateverTheFile, Picked, [SlackNext]_slackVars
      PROVE  SentWhateverTheFile' /\ Picked'
  <2>1. CASE File
    <3>1. \A v \in DOMAIN writes : v \in DOMAIN writes' /\ writes'[v] = writes[v]
      <4>1. CASE Write
        BY <1>2, <4>1, WriteAdds
      <4>2. CASE RemoveFile
        BY <4>2 DEF RemoveFile
      <4> QED
        BY <2>1, <4>1, <4>2 DEF File
    <3>2. UNCHANGED <<request, config>>
      BY <2>1 DEF File
    <3> QED
      BY <1>2, <3>1, <3>2 DEF SentWhateverTheFile
  <2>2. CASE Render
    <3>1. PICK out \in IF request.renderer = 0 THEN {Builtin(request.n)} ELSE TemplateResults(request.n) :
            Answered(out)
      BY <2>2 DEF Render
    <3>2. UNCHANGED <<config, writes>> /\ request'.out = out /\ request'.renderer = request.renderer
      <4>1. UNCHANGED <<config, writes>>
        BY <2>2 DEF Render, vars
      <4>2. request'.out = out /\ request'.renderer = request.renderer
        BY <3>1 DEF Answered
      <4> QED
        BY <4>1, <4>2
    <3>3. out.kind = "dropped" => request.renderer # 0 /\ ~ config.Fallback
      BY <3>1 DEF Builtin, TemplateResults, AfterFailure
    <3> QED
      BY <1>2, <3>2, <3>3 DEF SentWhateverTheFile
  <2>6. CASE PickRenderer
    <3>1. UNCHANGED <<config, writes>> /\ request'.out = request.out /\ request'.renderer = current
      BY <2>6 DEF PickRenderer, vars
    <3> QED
      BY <1>2, <3>1 DEF SentWhateverTheFile, WatcherInvariant
  <2>3. CASE Notify
    <3>1. request'.out.kind = "none" /\ request'.renderer = 0
      BY <2>3 DEF Notify, NewRequest, NoAnswer
    <3> QED
      BY <3>1 DEF SentWhateverTheFile
  <2>4. CASE Receive
    <3>1. UNCHANGED <<config, writes>>
      BY <2>4 DEF Receive, vars
    <3>2. /\ request'.out.kind = "refused" \/ request'.out = request.out
          /\ request'.renderer = request.renderer
      BY <2>4 DEF Receive
    <3> QED
      BY <1>2, <3>1, <3>2 DEF SentWhateverTheFile
  <2>5. CASE Start \/ Listen \/ Signal \/ Exit \/ Reload \/ UNCHANGED slackVars
    <3>1. UNCHANGED <<config, writes, request>>
      BY <2>5 DEF Start, Listen, Signal, Exit, Reload, Stat, Read, Load, vars, slackVars
    <3> QED
      BY <1>2, <3>1 DEF SentWhateverTheFile
  <2> QED
    BY <1>2, <2>1, <2>2, <2>3, <2>4, <2>5, <2>6 DEF SlackNext
<1> QED
  BY <1>1, <1>2, WatcherHolds, PTL DEF SlackSpec

-----------------------------------------------------------------------------
(* Sorting: a finite set of numbers has an increasing enumeration.         *)

Increasing(s, S, n) ==
  s \in [1 .. n -> S] /\ \A i, j \in 1 .. n : i < j => s[i] < s[j]

LEMMA IncreasingMore ==
  ASSUME NEW n \in Nat, NEW S \in SUBSET Nat, NEW m \in S, \A x \in S : m <= x,
         NEW s, Increasing(s, S \ {m}, n)
  PROVE  \E t : Increasing(t, S, n + 1)
<1> DEFINE t == [i \in 1 .. n + 1 |-> IF i = 1 THEN m ELSE s[i - 1]]
<1>1. \A i \in 1 .. n + 1 : i # 1 => i - 1 \in 1 .. n /\ s[i - 1] \in S \ {m} /\ m < s[i - 1]
  <2>1. \A i \in 1 .. n : s[i] \in S \ {m}
    BY DEF Increasing
  <2>2. \A x \in S \ {m} : m < x
    OBVIOUS
  <2>3. \A i \in 1 .. n + 1 : i # 1 => i - 1 \in 1 .. n
    OBVIOUS
  <2> QED
    BY <2>1, <2>2, <2>3
<1>2. t \in [1 .. n + 1 -> S]
  BY <1>1
<1>3. ASSUME NEW i \in 1 .. n + 1, NEW j \in 1 .. n + 1, i < j
      PROVE  t[i] < t[j]
  <2>1. j # 1 /\ t[j] = s[j - 1]
    BY <1>3
  <2>2. CASE i = 1
    BY <1>1, <2>1, <2>2
  <2>3. CASE i # 1
    <3>1. i - 1 \in 1 .. n /\ j - 1 \in 1 .. n /\ i - 1 < j - 1 /\ t[i] = s[i - 1]
      BY <1>3, <2>1, <2>3
    <3> QED
      BY <2>1, <3>1 DEF Increasing
  <2> QED
    BY <2>2, <2>3
<1> HIDE DEF t
<1> QED
  BY <1>2, <1>3 DEF Increasing

LEMMA SortedIncreases ==
  ASSUME NEW S \in SUBSET Nat, IsFiniteSet(S)
  PROVE  Cardinality(S) \in Nat /\ Increasing(Sorted(S), S, Cardinality(S))
<1> DEFINE Good == {n \in Nat : \A T \in SUBSET Nat :
                      IsFiniteSet(T) /\ Cardinality(T) = n => \E s : Increasing(s, T, n)}
<1>1. 0 \in Good
  <2> SUFFICES ASSUME NEW T \in SUBSET Nat, IsFiniteSet(T), Cardinality(T) = 0
               PROVE  \E s : Increasing(s, T, 0)
    OBVIOUS
  <2>1. [i \in 1 .. 0 |-> i] \in [1 .. 0 -> T] /\ \A i \in 1 .. 0 : FALSE
    OBVIOUS
  <2> QED
    BY <2>1 DEF Increasing
<1>2. ASSUME NEW n \in Nat, n \in Good
      PROVE  n + 1 \in Good
  <2> SUFFICES ASSUME NEW T \in SUBSET Nat, IsFiniteSet(T), Cardinality(T) = n + 1
               PROVE  \E s : Increasing(s, T, n + 1)
    OBVIOUS
  <2>1. T # {}
    BY FS_EmptySet
  <2>2. PICK m \in T : \A x \in T : m <= x
    BY <2>1, LeastNatural
  <2>3. IsFiniteSet(T \ {m}) /\ Cardinality(T \ {m}) = n /\ T \ {m} \in SUBSET Nat
    BY FS_RemoveElement
  <2>4. PICK s : Increasing(s, T \ {m}, n)
    BY <1>2, <2>3
  <2> QED
    BY <2>2, <2>4, IncreasingMore
<1> HIDE DEF Good
<1>3. \A n \in Nat : n \in Good
  BY <1>1, <1>2, NatSetInduction
<1>4. Cardinality(S) \in Nat
  BY FS_CardinalityType
<1>5. PICK s : Increasing(s, S, Cardinality(S))
  BY <1>3, <1>4 DEF Good
<1>6. /\ s \in [1 .. Cardinality(S) -> S] /\ DOMAIN s = 1 .. Cardinality(S)
      /\ \A i, j \in DOMAIN s : i < j => s[i] < s[j]
  BY <1>5 DEF Increasing
<1>7. /\ Sorted(S) \in [1 .. Cardinality(S) -> S]
      /\ \A i, j \in DOMAIN Sorted(S) : i < j => Sorted(S)[i] < Sorted(S)[j]
  BY <1>6 DEF Sorted
<1> QED
  BY <1>4, <1>7 DEF Increasing

-----------------------------------------------------------------------------
(* What is shown.                                                          *)

\* What a layout shows the builder of its trigger has filled in.
LEMMA ShowsFilled ==
  ASSUME NEW t \in KnownTriggers
  PROVE  Shows(t) \subseteq Fills(t) \cap ItemFields /\ "AppName" \in Shows(t) /\ "Trigger" \in Fills(t)
<1>1. {"AppName", "Cluster", "Trigger", "TargetRevision"} \subseteq ItemFields
  BY DEF ItemFields
<1>2. CASE t = "on-created"
  BY <1>2 DEF Shows, Fills, ItemFields
<1>3. CASE t = "on-deleted"
  BY <1>3 DEF Shows, Fills, ItemFields
<1>4. CASE t = "on-deployed"
  BY <1>4 DEF Shows, Fills, ItemFields
<1>5. CASE t = "on-sync-failed"
  BY <1>5 DEF Shows, Fills, ItemFields
<1>6. CASE t = "on-sync-running"
  BY <1>6 DEF Shows, Fills, ItemFields
<1>7. CASE t = "on-sync-succeeded"
  BY <1>7 DEF Shows, Fills, ItemFields
<1>8. CASE t = "on-health-degraded" \/ t = "on-sync-status-unknown"
  BY <1>8 DEF Shows, Fills, ItemFields
<1> QED
  BY <1>2, <1>3, <1>4, <1>5, <1>6, <1>7, <1>8 DEF KnownTriggers

\* An attachment shows the values of its event.
Reports(att, e) ==
  /\ att.AppName = e.AppName
  /\ \A f \in DOMAIN att :
       att[f] = IF f = "Images" THEN OrDefault(Marshalled(e.Images), <<"none">>)
                ELSE Marshalled(Values(e)[f])

LEMMA AttachmentReports ==
  ASSUME NEW e, e.Trigger \in KnownTriggers, Marshalled(e.AppName) = e.AppName
  PROVE  /\ Received(e).Trigger[1] = e.Trigger
         /\ Reports(Attachment(Received(e)), e) /\ "more" \notin DOMAIN Attachment(Received(e))
<1>1. PICK t \in KnownTriggers : t = e.Trigger
  OBVIOUS
<1>2. Shows(t) \subseteq Fills(t) \cap ItemFields /\ "AppName" \in Shows(t) /\ "Trigger" \in Fills(t)
  BY ShowsFilled
<1>3. PICK item : item = Received(e)
  OBVIOUS
<1>4. \A f \in Fills(t) \cap ItemFields : item[f] = Marshalled(Values(e)[f])
  BY <1>1, <1>3 DEF Received, Item
<1>5. item.Trigger[1] = t
  <2>1. item.Trigger = Marshalled(<<t>>)
    BY <1>1, <1>2, <1>4 DEF Values, ItemFields
  <2>2. t \notin {RuneStart, RuneEnd}
    BY DEF KnownTriggers, RuneStart, RuneEnd
  <2>3. Marshalled(<<t>>)[1] = t
    BY <2>2 DEF Marshalled
  <2> QED
    BY <2>1, <2>3
<1>6. Values(e).AppName = e.AppName /\ Values(e).Images = e.Images
  BY DEF Values
<1>7. "more" \notin Shows(t)
  BY <1>2 DEF ItemFields
<1>8. PICK att : att = Attachment(item)
  OBVIOUS
<1>9. /\ DOMAIN att = Shows(t)
      /\ \A f \in Shows(t) : att[f] = IF f = "Images" THEN OrDefault(item.Images, <<"none">>) ELSE item[f]
  BY <1>5, <1>8 DEF Attachment
<1>10. "Images" \in Shows(t) => item.Images = Marshalled(e.Images)
  BY <1>2, <1>4, <1>6
<1>11. Reports(att, e)
  BY <1>2, <1>4, <1>6, <1>9, <1>10 DEF Reports
<1> QED
  BY <1>1, <1>3, <1>5, <1>7, <1>8, <1>9, <1>11


LEMMA FirstNaturals ==
  ASSUME NEW n \in Nat
  PROVE  IsFiniteSet(1 .. n) /\ Cardinality(1 .. n) = n
<1>1. 1 \in Int /\ n \in Int
  OBVIOUS
<1>2. IsFiniteSet(1 .. n) /\ Cardinality(1 .. n) = IF 1 > n THEN 0 ELSE n - 1 + 1
  BY <1>1, FS_Interval, Zenon
<1> QED
  BY <1>2

\* The attachments are those of k known apps, none twice.
Enumerates(app, k, perApp) ==
  /\ app \in [1 .. k -> KnownApps(perApp)]
  /\ \A i, j \in 1 .. k : i # j => app[i] # app[j]

LEMMA KnownAppsFinite ==
  ASSUME NEW perApp \in Sessions
  PROVE  /\ DOMAIN perApp \in SUBSET Nat /\ IsFiniteSet(DOMAIN perApp)
         /\ KnownApps(perApp) \in SUBSET Nat /\ IsFiniteSet(KnownApps(perApp))
         /\ KnownApps(perApp) \subseteq DOMAIN perApp
         /\ Cardinality(KnownApps(perApp)) \in Nat
<1>1. DOMAIN perApp \in SUBSET Nat /\ IsFiniteSet(DOMAIN perApp)
  BY SlackAssumption
<1>2. KnownApps(perApp) \subseteq DOMAIN perApp
  BY DEF KnownApps
<1>3. IsFiniteSet(KnownApps(perApp))
  BY <1>1, <1>2, FS_Subset
<1>4. Cardinality(KnownApps(perApp)) \in Nat
  BY <1>3, FS_CardinalityType
<1> QED
  BY <1>1, <1>2, <1>3, <1>4

\* An item of every known app, each with a layout.
Laid(known, app, k, perApp) == known = [j \in 1 .. k |-> Received(perApp[app[j]])]

LEMMA LayoutOfBuild ==
  ASSUME NEW perApp \in Sessions, NEW k, k = Cardinality(KnownApps(perApp)),
         NEW known, known = WithLayout(Arrived(perApp).Items)
  PROVE  \E app : Enumerates(app, k, perApp) /\ Laid(known, app, k, perApp)
<1>1. k \in Nat
  BY KnownAppsFinite
<1>2. PICK names : names = Sorted(KnownApps(perApp))
  OBVIOUS
<1>3. Increasing(names, KnownApps(perApp), k)
  BY <1>2, KnownAppsFinite, SortedIncreases
<1>4. names \in [1 .. k -> KnownApps(perApp)]
  BY <1>3 DEF Increasing
<1>5. PICK items : items = [i \in 1 .. k |-> Received(perApp[names[i]])]
  OBVIOUS
<1>6. Arrived(perApp).Items = items
  <2>1. Arrived(perApp).Items = [i \in DOMAIN names |-> Received(perApp[names[i]])]
    BY <1>2 DEF Arrived
  <2>2. DOMAIN names = 1 .. k
    BY <1>4
  <2> QED
    BY <1>5, <2>1, <2>2
<1>7. \A i \in 1 .. k : items[i].Trigger[1] \in KnownTriggers
  <2> SUFFICES ASSUME NEW i \in 1 .. k
               PROVE  items[i].Trigger[1] \in KnownTriggers
    OBVIOUS
  <2>1. PICK e : e = perApp[names[i]]
    OBVIOUS
  <2>2. e.Trigger \in KnownTriggers
    BY <1>4, <2>1 DEF KnownApps
  <2>3. items[i] = Received(e)
    BY <1>5, <2>1
  <2>4. Marshalled(e.AppName) = e.AppName
    BY <1>4, <2>1, SlackAssumption DEF KnownApps
  <2> QED
    BY <2>2, <2>3, <2>4, AttachmentReports
<1>8. {i \in DOMAIN items : items[i].Trigger[1] \in KnownTriggers} = 1 .. k
  BY <1>5, <1>7
<1>9. PICK positions : positions = Sorted(1 .. k)
  OBVIOUS
<1>10. Increasing(positions, 1 .. k, k)
  <2>1. IsFiniteSet(1 .. k) /\ Cardinality(1 .. k) = k
    BY <1>1, FirstNaturals
  <2>2. 1 .. k \in SUBSET Nat
    BY <1>1
  <2> QED
    BY <1>9, <2>1, <2>2, SortedIncreases
<1>11. positions \in [1 .. k -> 1 .. k]
  BY <1>10 DEF Increasing
<1>12. known = [j \in 1 .. k |-> items[positions[j]]]
  <2>1. known = [j \in DOMAIN positions |-> items[positions[j]]]
    BY <1>6, <1>8, <1>9 DEF WithLayout
  <2>2. DOMAIN positions = 1 .. k
    BY <1>11
  <2> QED
    BY <2>1, <2>2
<1>13. PICK app : app = [j \in 1 .. k |-> names[positions[j]]]
  OBVIOUS
<1>14. app \in [1 .. k -> KnownApps(perApp)]
  BY <1>4, <1>11, <1>13
<1>15. ASSUME NEW i \in 1 .. k, NEW j \in 1 .. k, i # j
       PROVE  app[i] # app[j]
  <2>1. ASSUME NEW x \in 1 .. k, NEW y \in 1 .. k, x < y
        PROVE  names[x] # names[y] /\ positions[x] # positions[y]
    <3>1. names[x] < names[y] /\ positions[x] < positions[y]
      BY <1>3, <1>10, <2>1 DEF Increasing
    <3>2. names[x] \in Nat /\ positions[x] \in Nat
      BY <1>4, <1>11, KnownAppsFinite
    <3> QED
      BY <3>1, <3>2
  <2>2. ASSUME NEW x \in 1 .. k, NEW y \in 1 .. k, x # y
        PROVE  names[x] # names[y] /\ positions[x] # positions[y]
    <3>1. x < y \/ y < x
      BY <1>1, <2>2
    <3> QED
      BY <2>1, <3>1
  <2>3. positions[i] # positions[j] /\ positions[i] \in 1 .. k /\ positions[j] \in 1 .. k
    BY <1>11, <1>15, <2>2
  <2> QED
    BY <1>13, <2>2, <2>3
<1>16. known = [j \in 1 .. k |-> Received(perApp[app[j]])]
  <2>1. \A j \in 1 .. k : items[positions[j]] = Received(perApp[app[j]])
    BY <1>5, <1>11, <1>13
  <2> QED
    BY <1>12, <2>1
<1> QED
  BY <1>14, <1>15, <1>16 DEF Enumerates, Laid

\* The first attachments are those of as many known apps; what more there
\* is, is counted by the last.
Rendered(out, app, k, perApp) ==
  /\ \A i \in 1 .. k : i <= MaxAttachments - 1 \/ k <= MaxAttachments =>
       out[i] = Attachment(Received(perApp[app[i]]))
  /\ k <= MaxAttachments => DOMAIN out = 1 .. k /\ Len(out) = k
  /\ k > MaxAttachments =>
       /\ DOMAIN out = 1 .. MaxAttachments /\ Len(out) = MaxAttachments
       /\ out[MaxAttachments] = More(k - (MaxAttachments - 1))

LEMMA RenderedBuild ==
  ASSUME NEW perApp \in Sessions, NEW k, k = Cardinality(KnownApps(perApp)),
         NEW out, out = renderNotification(Arrived(perApp))
  PROVE  k \in Nat /\ \E app : Enumerates(app, k, perApp) /\ Rendered(out, app, k, perApp)
<1>1. k \in Nat
  BY KnownAppsFinite
<1>2. PICK known : known = WithLayout(Arrived(perApp).Items)
  OBVIOUS
<1>3. PICK app : Enumerates(app, k, perApp) /\ Laid(known, app, k, perApp)
  BY <1>2, LayoutOfBuild
<1>4. PICK all : all = [j \in 1 .. k |-> Attachment(known[j])]
  OBVIOUS
<1>5. DOMAIN known = 1 .. k /\ Len(known) = k
  BY <1>1, <1>3 DEF Laid
<1>6. \A j \in 1 .. k : all[j] = Attachment(Received(perApp[app[j]]))
  BY <1>3, <1>4 DEF Laid
<1>7. out = IF k > MaxAttachments
            THEN SubSeq(all, 1, MaxAttachments - 1) \o <<More(k - (MaxAttachments - 1))>>
            ELSE all
  BY <1>2, <1>4, <1>5 DEF renderNotification, Overflow
<1>8. PICK S : S = {all[j] : j \in 1 .. k}
  OBVIOUS
<1>9. all \in Seq(S) /\ Len(all) = k /\ DOMAIN all = 1 .. k
  <2>1. all \in [1 .. k -> S]
    BY <1>4, <1>8
  <2> QED
    BY <1>1, <2>1
<1>10. CASE k <= MaxAttachments
  <2>1. out = all
    BY <1>1, <1>7, <1>10, LimitsAssumption
  <2> QED
    BY <1>1, <1>3, <1>6, <1>9, <1>10, <2>1, LimitsAssumption DEF Rendered
<1>11. CASE k > MaxAttachments
  <2>1. PICK m \in Nat : m = MaxAttachments - 1
    BY LimitsAssumption
  <2>2. m <= k /\ m + 1 = MaxAttachments /\ MaxAttachments \in Nat
    BY <1>1, <1>11, <2>1, LimitsAssumption
  <2>3. PICK first : first = SubSeq(all, 1, m)
    OBVIOUS
  <2>4. first \in Seq(S) /\ Len(first) = m /\ \A i \in 1 .. m : first[i] = all[i]
    BY <1>1, <1>9, <2>2, <2>3, SubSeqProperties
  <2>5. PICK last : last = More(k - m)
    OBVIOUS
  <2>6. out = first \o <<last>>
    BY <1>7, <1>11, <2>1, <2>3, <2>5
  <2>7. PICK U : U = S \cup {last}
    OBVIOUS
  <2>8. /\ out \in Seq(U) /\ Len(out) = m + 1 /\ out[m + 1] = last
        /\ \A i \in 1 .. m : out[i] = first[i]
    <3>1. PICK rest : rest = <<last>>
      OBVIOUS
    <3>2. first \in Seq(U) /\ rest \in Seq(U) /\ Len(rest) = 1 /\ rest[1] = last
      BY <2>4, <2>7, <3>1
    <3>3. out = first \o rest
      BY <2>6, <3>1
    <3>4. /\ out \in Seq(U) /\ Len(out) = Len(first) + Len(rest)
          /\ \A i \in 1 .. Len(first) + Len(rest) :
               out[i] = IF i <= Len(first) THEN first[i] ELSE rest[i - Len(first)]
      BY <3>2, <3>3, ConcatProperties
    <3>5. m + 1 \in 1 .. m + 1 /\ ~ (m + 1 <= m) /\ (m + 1) - m = 1
      OBVIOUS
    <3> QED
      BY <2>4, <3>2, <3>4, <3>5
  <2>9. DOMAIN out = 1 .. MaxAttachments
    BY <2>2, <2>8, LenProperties
  <2>10. \A i \in 1 .. k : i <= MaxAttachments - 1 => out[i] = Attachment(Received(perApp[app[i]]))
    BY <1>1, <1>6, <2>1, <2>4, <2>8
  <2>11. ~ (k <= MaxAttachments)
    BY <1>1, <1>11, <2>2
  <2> QED
    BY <1>1, <1>3, <1>11, <2>1, <2>2, <2>5, <2>8, <2>9, <2>10, <2>11 DEF Rendered
<1> QED
  BY <1>1, <1>10, <1>11, LimitsAssumption

\* What the answer of a request was made from.
Answer ==
  request.out.kind = "builtin" =>
    request.perApp \in Sessions /\ request.out = Builtin(Arrived(request.perApp))

\* A request that is on its way is one of a session, and has no answer.
OnItsWay ==
  request.stage \in {"built", "handler", "rendering"} =>
    request.perApp \in Sessions /\ request.out.kind # "builtin"

LEMMA AnswerHolds == SlackSpec => [](Carried /\ OnItsWay /\ Answer)
<1>1. SlackInit => OnItsWay /\ Answer
  BY DEF SlackInit, NoRequest, NoAnswer, OnItsWay, Answer
<1>2. ASSUME Carried, OnItsWay, Answer, [SlackNext]_slackVars
      PROVE  OnItsWay' /\ Answer'
  <2>1. CASE Notify
    <3>1. PICK perApp \in Sessions : request' = NewRequest(perApp)
      BY <2>1 DEF Notify
    <3>2. request'.perApp \in Sessions /\ request'.out.kind = "none"
      BY <3>1 DEF NewRequest, NoAnswer
    <3> QED
      BY <3>2 DEF OnItsWay, Answer
  <2>2. CASE Receive
    <3>1. request.stage = "built"
      BY <2>2 DEF Receive
    <3>2. request.perApp \in Sessions /\ request.out.kind # "builtin"
      BY <1>2, <3>1 DEF OnItsWay
    <3>3. /\ request'.perApp = request.perApp \/ request'.out.kind = "refused"
          /\ \/ request'.stage = "done" /\ request'.out.kind = "refused"
             \/ request'.perApp = request.perApp /\ request'.out = request.out
      BY <2>2 DEF Receive
    <3> QED
      BY <3>2, <3>3 DEF OnItsWay, Answer
  <2>3. CASE Render
    <3>1. request.stage = "rendering"
      BY <2>3 DEF Render
    <3>2. request.perApp \in Sessions /\ request.n = Arrived(request.perApp)
      BY <1>2, <3>1 DEF OnItsWay, Carried
    <3>3. PICK out \in IF request.renderer = 0 THEN {Builtin(request.n)} ELSE TemplateResults(request.n) :
            Answered(out)
      BY <2>3 DEF Render
    <3>4. out.kind = "builtin" => out = Builtin(request.n)
      BY <3>3 DEF TemplateResults, AfterFailure
    <3>5. request'.stage = "done" /\ request'.out = out /\ request'.perApp = request.perApp
      BY <3>3 DEF Answered
    <3> QED
      BY <3>2, <3>4, <3>5 DEF OnItsWay, Answer
  <2>5. CASE PickRenderer
    BY <1>2, <2>5 DEF PickRenderer, OnItsWay, Answer
  <2>4. CASE Start \/ Listen \/ Signal \/ Exit \/ Reload \/ File \/ UNCHANGED slackVars
    <3>1. UNCHANGED request
      BY <2>4 DEF Start, Listen, Signal, Exit, Reload, File, slackVars
    <3> QED
      BY <1>2, <3>1 DEF OnItsWay, Answer
  <2> QED
    BY <1>2, <2>1, <2>2, <2>3, <2>4, <2>5 DEF SlackNext
<1> QED
  BY <1>1, <1>2, CarriedHolds, PTL DEF SlackSpec

LEMMA MoreIsRest ==
  ASSUME NEW n
  PROVE  "more" \in DOMAIN More(n) /\ More(n).more = n
BY DEF More

\* For every session: an attachment shows what its app's latest event says
\* (build.go, convert.go, render.go).
THEOREM ShownAsReportedHolds == SlackSpec => []ShownAsReported
<1>1. ASSUME Answer, request.out.kind = "builtin", NEW i \in DOMAIN Attachments \ Rest
      PROVE  \E a \in KnownApps(request.perApp) : Reports(Attachments[i], request.perApp[a])
  <2>1. PICK perApp \in Sessions : perApp = request.perApp
    BY <1>1 DEF Answer
  <2>2. PICK k : k = Cardinality(KnownApps(perApp))
    OBVIOUS
  <2>3. PICK out : out = renderNotification(Arrived(perApp))
    OBVIOUS
  <2>4. Attachments = out
    BY <1>1, <2>1, <2>3 DEF Answer, Builtin, Attachments
  <2>5. PICK app : k \in Nat /\ Enumerates(app, k, perApp) /\ Rendered(out, app, k, perApp)
    BY <2>2, <2>3, RenderedBuild
  <2>6. i \in DOMAIN out /\ "more" \notin DOMAIN out[i]
    BY <1>1, <2>4 DEF Rest
  <2>7. i \in 1 .. k /\ (i <= MaxAttachments - 1 \/ k <= MaxAttachments)
    <3>1. CASE k <= MaxAttachments
      BY <2>5, <2>6, <3>1 DEF Rendered
    <3>2. CASE k > MaxAttachments
      <4>1. i \in 1 .. MaxAttachments /\ i # MaxAttachments
        BY <2>5, <2>6, <3>2, MoreIsRest DEF Rendered
      <4> QED
        BY <2>5, <3>2, <4>1, LimitsAssumption
    <3> QED
      BY <2>5, <3>1, <3>2, LimitsAssumption
  <2>8. out[i] = Attachment(Received(perApp[app[i]])) /\ app[i] \in KnownApps(perApp)
    BY <2>5, <2>7 DEF Rendered, Enumerates
  <2>9. /\ perApp[app[i]].Trigger \in KnownTriggers
        /\ Marshalled(perApp[app[i]].AppName) = perApp[app[i]].AppName
    BY <2>8, SlackAssumption DEF KnownApps
  <2>10. Reports(out[i], perApp[app[i]])
    BY <2>8, <2>9, AttachmentReports
  <2> QED
    BY <2>1, <2>4, <2>8, <2>10
<1>2. Answer => ShownAsReported
  BY <1>1 DEF ShownAsReported, Reports
<1> QED
  BY <1>2, AnswerHolds, PTL

-----------------------------------------------------------------------------
(* The sum of a function over a finite set.                                *)

SumTo(f, g, s) ==
  IF s = {} THEN 0 ELSE LET x == CHOOSE y \in s : TRUE IN f[x] + g[s \ {x}]

\* The function that MapThenSumSet recurs by exists.
LEMMA SumRecursion ==
  ASSUME NEW f, NEW S, IsFiniteSet(S)
  PROVE  \E g : g = [s \in SUBSET S |-> SumTo(f, g, s)]
<1> DEFINE Good == {n \in Nat : \E g : \A s \in SUBSET S :
                      Cardinality(s) <= n => g[s] = SumTo(f, g, s)}
<1>1. \A s \in SUBSET S :
        /\ Cardinality(s) \in Nat /\ (Cardinality(s) = 0 <=> s = {})
        /\ \A x \in s : s \ {x} \in SUBSET S /\ Cardinality(s \ {x}) = Cardinality(s) - 1
  <2> SUFFICES ASSUME NEW s \in SUBSET S
               PROVE  /\ Cardinality(s) \in Nat /\ (Cardinality(s) = 0 <=> s = {})
                      /\ \A x \in s : s \ {x} \in SUBSET S /\ Cardinality(s \ {x}) = Cardinality(s) - 1
    OBVIOUS
  <2>1. IsFiniteSet(s)
    BY FS_Subset
  <2> QED
    BY <2>1, FS_CardinalityType, FS_EmptySet, FS_RemoveElement
<1>2. \A s \in SUBSET S : s # {} => (CHOOSE x \in s : TRUE) \in s
  OBVIOUS
<1>3. 0 \in Good
  <2> DEFINE g == [s \in SUBSET S |-> 0]
  <2>1. ASSUME NEW s \in SUBSET S, Cardinality(s) <= 0
        PROVE  g[s] = SumTo(f, g, s)
    <3>1. s = {}
      BY <1>1, <2>1
    <3> QED
      BY <3>1 DEF SumTo
  <2> HIDE DEF g
  <2> QED
    BY <2>1
<1>4. ASSUME NEW n \in Nat, n \in Good
      PROVE  n + 1 \in Good
  <2>1. PICK g : \A s \in SUBSET S : Cardinality(s) <= n => g[s] = SumTo(f, g, s)
    BY <1>4
  <2> DEFINE h == [s \in SUBSET S |-> IF Cardinality(s) <= n THEN g[s] ELSE SumTo(f, g, s)]
  <2>2. ASSUME NEW s \in SUBSET S, Cardinality(s) <= n + 1
        PROVE  h[s] = SumTo(f, h, s)
    <3>1. h[s] = SumTo(f, g, s)
      BY <2>1
    <3>2. PICK x : x = CHOOSE y \in s : TRUE
      OBVIOUS
    <3>3. s # {} => h[s \ {x}] = g[s \ {x}]
      BY <1>1, <1>2, <2>2, <3>2
    <3> HIDE DEF h
    <3> QED
      BY <3>1, <3>2, <3>3 DEF SumTo
  <2> HIDE DEF h
  <2> QED
    BY <2>2
<1> HIDE DEF Good
<1>5. \A n \in Nat : n \in Good
  BY <1>3, <1>4, NatSetInduction
<1>6. Cardinality(S) \in Nat /\ \A s \in SUBSET S : Cardinality(s) <= Cardinality(S)
  BY FS_CardinalityType, FS_Subset
<1>7. Cardinality(S) \in Good
  BY <1>5, <1>6
<1>8. PICK g : \A s \in SUBSET S : g[s] = SumTo(f, g, s)
  BY <1>6, <1>7 DEF Good
<1> DEFINE h == [s \in SUBSET S |-> g[s]]
<1>9. ASSUME NEW s \in SUBSET S
      PROVE  h[s] = SumTo(f, h, s)
  <2>1. PICK x : x = CHOOSE y \in s : TRUE
    OBVIOUS
  <2>2. s # {} => h[s \ {x}] = g[s \ {x}]
    BY <1>2, <2>1
  <2>3. h[s] = SumTo(f, g, s)
    BY <1>8
  <2> HIDE DEF h
  <2> QED
    BY <2>1, <2>2, <2>3 DEF SumTo
<1>10. h = [s \in SUBSET S |-> h[s]]
  OBVIOUS
<1> HIDE DEF h
<1> QED
  BY <1>9, <1>10

LEMMA TotalRecursion ==
  ASSUME NEW f, IsFiniteSet(DOMAIN f)
  PROVE  \E g : Total(f) = g[DOMAIN f] /\ \A s \in SUBSET DOMAIN f : g[s] = SumTo(f, g, s)
<1> DEFINE g == CHOOSE h : h = [s \in SUBSET DOMAIN f |-> SumTo(f, h, s)]
<1>1. Total(f) = g[DOMAIN f]
  BY DEF Total, MapThenSumSet, MapThenFoldSet, SumTo
<1>2. g = [s \in SUBSET DOMAIN f |-> SumTo(f, g, s)]
  BY SumRecursion
<1> HIDE DEF g
<1>3. \A s \in SUBSET DOMAIN f : g[s] = SumTo(f, g, s)
  BY <1>2
<1> QED
  BY <1>1, <1>3

LEMMA TotalOfNone ==
  ASSUME NEW f, DOMAIN f = {}
  PROVE  Total(f) = 0
<1>1. IsFiniteSet(DOMAIN f)
  BY FS_EmptySet
<1>2. PICK g : Total(f) = g[{}] /\ g[{}] = SumTo(f, g, {})
  BY <1>1, TotalRecursion
<1> QED
  BY <1>2 DEF SumTo

LEMMA TotalOfOne ==
  ASSUME NEW f, NEW x, DOMAIN f = {x}, f[x] \in Nat
  PROVE  Total(f) = f[x]
<1>1. IsFiniteSet(DOMAIN f)
  BY FS_Singleton
<1>2. PICK g : /\ Total(f) = g[{x}]
               /\ g[{x}] = SumTo(f, g, {x}) /\ g[{}] = SumTo(f, g, {})
  BY <1>1, TotalRecursion
<1>3. (CHOOSE y \in {x} : TRUE) = x /\ {x} \ {x} = {} /\ {x} # {}
  OBVIOUS
<1>4. g[{}] = 0 /\ g[{x}] = f[x] + g[{}]
  BY <1>2, <1>3 DEF SumTo
<1> QED
  BY <1>2, <1>4

\* If f counts, by what v says of them, the members of D, it counts them all.
LEMMA TotalOfCounts ==
  ASSUME NEW D, IsFiniteSet(D), NEW v, NEW f, DOMAIN f = {v[a] : a \in D},
         \A t \in DOMAIN f : f[t] = Cardinality({a \in D : v[a] = t})
  PROVE  Total(f) = Cardinality(D)
<1> DEFINE S == DOMAIN f
           Of(s) == {a \in D : v[a] \in s}
<1>1. IsFiniteSet(S)
  <2> DEFINE w == [a \in D |-> v[a]]
  <2>1. w \in Surjection(D, S)
    BY DEF Surjection
  <2> HIDE DEF w, S
  <2> QED
    BY <2>1, FS_Surjection
<1>2. PICK g : Total(f) = g[S] /\ \A s \in SUBSET S : g[s] = SumTo(f, g, s)
  BY <1>1, TotalRecursion
<1> DEFINE Good == {n \in Nat : \A s \in SUBSET S :
                      Cardinality(s) = n => g[s] = Cardinality(Of(s))}
<1>3. \A s \in SUBSET S : IsFiniteSet(s) /\ Cardinality(s) \in Nat
  <2> SUFFICES ASSUME NEW s \in SUBSET S
               PROVE  IsFiniteSet(s) /\ Cardinality(s) \in Nat
    OBVIOUS
  <2>1. IsFiniteSet(s)
    BY <1>1, FS_Subset
  <2> QED
    BY <2>1, FS_CardinalityType
<1>4. \A s : IsFiniteSet(Of(s)) /\ Cardinality(Of(s)) \in Nat
  <2> SUFFICES ASSUME NEW s
               PROVE  IsFiniteSet(Of(s)) /\ Cardinality(Of(s)) \in Nat
    OBVIOUS
  <2>1. Of(s) \in SUBSET D
    OBVIOUS
  <2>2. IsFiniteSet(Of(s))
    BY <2>1, FS_Subset
  <2> QED
    BY <2>2, FS_CardinalityType
<1>5. 0 \in Good
  <2> SUFFICES ASSUME NEW s \in SUBSET S, Cardinality(s) = 0
               PROVE  g[s] = Cardinality(Of(s))
    OBVIOUS
  <2>1. s = {}
    BY <1>3, FS_EmptySet
  <2>2. Of(s) = {}
    BY <2>1
  <2> QED
    BY <1>2, <2>1, <2>2, FS_EmptySet DEF SumTo
<1>6. ASSUME NEW n \in Nat, n \in Good
      PROVE  n + 1 \in Good
  <2> SUFFICES ASSUME NEW s \in SUBSET S, Cardinality(s) = n + 1
               PROVE  g[s] = Cardinality(Of(s))
    OBVIOUS
  <2>1. s # {}
    BY FS_EmptySet
  <2>2. PICK x : x = CHOOSE y \in s : TRUE
    OBVIOUS
  <2>3. x \in s /\ x \in S
    BY <2>1, <2>2
  <2>4. s \ {x} \in SUBSET S /\ Cardinality(s \ {x}) = n
    BY <1>3, <2>3, FS_RemoveElement
  <2>5. g[s \ {x}] = Cardinality(Of(s \ {x}))
    BY <1>6, <2>4
  <2>6. g[s] = f[x] + g[s \ {x}]
    BY <1>2, <2>1, <2>2 DEF SumTo
  <2>7. f[x] = Cardinality(Of({x}))
    <3>1. Of({x}) = {a \in D : v[a] = x}
      OBVIOUS
    <3> QED
      BY <2>3, <3>1
  <2>8. Of(s) = Of({x}) \cup Of(s \ {x}) /\ Of({x}) \cap Of(s \ {x}) = {}
    BY <2>3
  <2> HIDE DEF Of
  <2>9. Cardinality(Of(s)) = Cardinality(Of({x})) + Cardinality(Of(s \ {x}))
    <3>1. PICK A, B : A = Of({x}) /\ B = Of(s \ {x})
      OBVIOUS
    <3>2. /\ IsFiniteSet(A) /\ Cardinality(A) \in Nat
          /\ IsFiniteSet(B) /\ Cardinality(B) \in Nat
      BY <1>4, <3>1
    <3>3. Cardinality(A \cup B) = Cardinality(A) + Cardinality(B) - Cardinality(A \cap B)
      BY <3>2, FS_Union
    <3>4. Cardinality(A \cap B) = 0
      BY <2>8, <3>1, FS_EmptySet
    <3>5. Cardinality(A \cup B) = Cardinality(A) + Cardinality(B)
      BY <3>2, <3>3, <3>4
    <3>6. Of(s) = A \cup B
      BY <2>8, <3>1
    <3> QED
      BY <3>1, <3>5, <3>6
  <2> QED
    BY <1>4, <2>5, <2>6, <2>7, <2>9
<1>7. Of(S) = D
  OBVIOUS
<1> HIDE DEF Good, Of
<1>8. \A n \in Nat : n \in Good
  BY <1>5, <1>6, NatSetInduction
<1>9. g[S] = Cardinality(Of(S))
  BY <1>3, <1>8 DEF Good
<1> QED
  BY <1>2, <1>7, <1>9

-----------------------------------------------------------------------------
(* Every app.                                                              *)

\* The first s attachments are of as many apps, for these differ in name.
LEMMA AppsOfFirst ==
  ASSUME NEW perApp \in Sessions, NEW k \in Nat, NEW app, Enumerates(app, k, perApp),
         NEW out, NEW s \in Nat, s <= k,
         \A i \in 1 .. s : out[i] = Attachment(Received(perApp[app[i]]))
  PROVE  /\ Cardinality({out[i].AppName : i \in 1 .. s}) = s
         /\ \A i \in 1 .. s : "more" \notin DOMAIN out[i]
<1> DEFINE T == {out[i].AppName : i \in 1 .. s}
           f == [i \in 1 .. s |-> out[i].AppName]
<1>1. \A i \in 1 .. s : /\ app[i] \in KnownApps(perApp)
                        /\ out[i].AppName = perApp[app[i]].AppName
                        /\ "more" \notin DOMAIN out[i]
  <2> SUFFICES ASSUME NEW i \in 1 .. s
               PROVE  /\ app[i] \in KnownApps(perApp)
                      /\ out[i].AppName = perApp[app[i]].AppName
                      /\ "more" \notin DOMAIN out[i]
    OBVIOUS
  <2>1. i \in 1 .. k
    OBVIOUS
  <2>2. app[i] \in KnownApps(perApp)
    BY <2>1 DEF Enumerates
  <2>3. /\ perApp[app[i]].Trigger \in KnownTriggers
        /\ Marshalled(perApp[app[i]].AppName) = perApp[app[i]].AppName
    BY <2>2, SlackAssumption DEF KnownApps
  <2>4. PICK att : att = Attachment(Received(perApp[app[i]]))
    OBVIOUS
  <2>5. att.AppName = perApp[app[i]].AppName /\ "more" \notin DOMAIN att
    BY <2>3, <2>4, AttachmentReports DEF Reports
  <2> QED
    BY <2>2, <2>4, <2>5
<1>2. ASSUME NEW i \in 1 .. s, NEW j \in 1 .. s, out[i].AppName = out[j].AppName
      PROVE  i = j
  <2>1. app[i] = app[j]
    BY <1>1, <1>2, SlackAssumption, KnownAppsFinite
  <2>2. i \in 1 .. k /\ j \in 1 .. k
    OBVIOUS
  <2> QED
    BY <2>1, <2>2 DEF Enumerates
<1>3. f \in [1 .. s -> T] /\ \A t \in T : \E i \in 1 .. s : f[i] = t
  OBVIOUS
<1>4. f \in Injection(1 .. s, T)
  BY <1>2, <1>3 DEF Injection, IsInjective
<1>5. f \in Surjection(1 .. s, T)
  BY <1>3 DEF Surjection
<1> HIDE DEF f, T
<1>6. ExistsBijection(1 .. s, T)
  BY <1>4, <1>5 DEF ExistsBijection, Bijection
<1>7. Cardinality(T) = s
  BY <1>6, FS_CountingElements
<1> QED
  BY <1>1, <1>7 DEF T

\* The summary counts the apps of a session, each once.
LEMMA SummaryCounts ==
  ASSUME NEW perApp \in Sessions
  PROVE  Total(Summary(perApp)) = Cardinality(DOMAIN perApp)
<1>1. PICK D : D = DOMAIN perApp
  OBVIOUS
<1>2. PICK v : v = [a \in D |-> perApp[a].Trigger]
  OBVIOUS
<1>3. PICK f : f = Summary(perApp)
  OBVIOUS
<1>4. IsFiniteSet(D)
  BY <1>1, KnownAppsFinite
<1>5. f = [t \in {perApp[a].Trigger : a \in D} |-> Cardinality({a \in D : perApp[a].Trigger = t})]
  BY <1>1, <1>3 DEF Summary
<1>6. DOMAIN f = {v[a] : a \in D}
  BY <1>2, <1>5
<1>7. ASSUME NEW t \in DOMAIN f
      PROVE  f[t] = Cardinality({a \in D : v[a] = t})
  <2>1. {a \in D : v[a] = t} = {a \in D : perApp[a].Trigger = t}
    BY <1>2
  <2> QED
    BY <1>5, <2>1
<1>8. Total(f) = Cardinality(D)
  BY <1>4, <1>6, <1>7, TotalOfCounts
<1> QED
  BY <1>1, <1>3, <1>8

\* For every session: the summary counts every event, every app whose
\* trigger is known has an attachment or is counted by the last one, and
\* Slack's limit is kept (Build, renderNotification).
THEOREM EveryAppAccountedHolds == SlackSpec => []EveryAppAccounted
<1>1. ASSUME Answer, request.out.kind = "builtin"
      PROVE  /\ Len(Attachments) <= MaxAttachments
             /\ Cardinality(ShownApps) + Total([i \in Rest |-> Attachments[i].more])
                  = Cardinality(KnownApps(request.perApp))
             /\ Total(request.out.summary) = Cardinality(DOMAIN request.perApp)
  <2>1. PICK perApp \in Sessions : perApp = request.perApp
    BY <1>1 DEF Answer
  <2>2. PICK k : k = Cardinality(KnownApps(perApp))
    OBVIOUS
  <2>3. PICK out : out = renderNotification(Arrived(perApp))
    OBVIOUS
  <2>4. Attachments = out
    BY <1>1, <2>1, <2>3 DEF Answer, Builtin, Attachments
  <2>5. PICK app : k \in Nat /\ Enumerates(app, k, perApp) /\ Rendered(out, app, k, perApp)
    BY <2>2, <2>3, RenderedBuild
  <2>6. request.out.summary = Summary(perApp)
    BY <1>1, <2>1 DEF Answer, Builtin, Arrived
  <2>7. PICK rest : rest = [i \in Rest |-> out[i].more]
    OBVIOUS
  <2>8. DOMAIN rest = {i \in DOMAIN out : "more" \in DOMAIN out[i]}
    BY <2>4, <2>7 DEF Rest
  <2>9. ShownApps = {out[i].AppName : i \in DOMAIN out \ DOMAIN rest}
    BY <2>4, <2>7 DEF ShownApps
  <2>10. Len(out) <= MaxAttachments /\ Cardinality(ShownApps) + Total(rest) = k
    <3>1. CASE k <= MaxAttachments
      <4>1. DOMAIN out = 1 .. k /\ Len(out) = k
        BY <2>5, <3>1 DEF Rendered
      <4>2. /\ Cardinality({out[i].AppName : i \in 1 .. k}) = k
            /\ \A i \in 1 .. k : "more" \notin DOMAIN out[i]
        <5>1. \A i \in 1 .. k : out[i] = Attachment(Received(perApp[app[i]]))
          BY <2>5, <3>1 DEF Rendered
        <5>2. k <= k
          BY <2>5
        <5> QED
          BY <2>5, <5>1, <5>2, AppsOfFirst
      <4>3. DOMAIN rest = {}
        BY <2>8, <4>1, <4>2
      <4>4. DOMAIN out \ DOMAIN rest = 1 .. k
        BY <4>1, <4>3
      <4>5. Total(rest) = 0
        BY <4>3, TotalOfNone
      <4>6. ShownApps = {out[i].AppName : i \in 1 .. k}
        BY <2>9, <4>4
      <4> QED
        BY <2>5, <3>1, <4>1, <4>2, <4>5, <4>6
    <3>2. CASE k > MaxAttachments
      <4>1. PICK m \in Nat : m = MaxAttachments - 1 /\ m + 1 = MaxAttachments /\ m <= k /\ k - m \in Nat
        BY <2>5, <3>2, LimitsAssumption
      <4>2. DOMAIN out = 1 .. m + 1 /\ Len(out) = m + 1 /\ out[m + 1] = More(k - m)
        BY <2>5, <3>2, <4>1 DEF Rendered
      <4>3. /\ Cardinality({out[i].AppName : i \in 1 .. m}) = m
            /\ \A i \in 1 .. m : "more" \notin DOMAIN out[i]
        <5>1. \A i \in 1 .. m : out[i] = Attachment(Received(perApp[app[i]]))
          BY <2>5, <4>1 DEF Rendered
        <5>2. k \in Nat /\ Enumerates(app, k, perApp) /\ m <= k
          BY <2>5, <4>1
        <5> QED
          BY <5>1, <5>2, AppsOfFirst
      <4>4. DOMAIN rest = {m + 1}
        BY <2>8, <4>2, <4>3, MoreIsRest
      <4>5. DOMAIN out \ DOMAIN rest = 1 .. m
        BY <4>2, <4>4
      <4>6. rest[m + 1] = k - m
        BY <2>7, <4>2, <4>4, MoreIsRest
      <4>7. Total(rest) = k - m
        BY <4>1, <4>4, <4>6, TotalOfOne
      <4>8. ShownApps = {out[i].AppName : i \in 1 .. m}
        BY <2>9, <4>5
      <4> QED
        BY <2>5, <4>1, <4>2, <4>3, <4>7, <4>8
    <3> QED
      BY <2>5, <3>1, <3>2, LimitsAssumption
  <2> QED
    BY <2>1, <2>2, <2>4, <2>6, <2>7, <2>10, SummaryCounts
<1>2. Answer => EveryAppAccounted
  BY <1>1 DEF EveryAppAccounted
<1> QED
  BY <1>2, AnswerHolds, PTL
=============================================================================
