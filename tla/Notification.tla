---------------------------- MODULE Notification ----------------------------
(***************************************************************************)
(* What becomes of the events of one destination: notification.Build makes *)
(* an item of each app (internal/notification/build.go), the item crosses  *)
(* the wire to the backend (internal/remotebackend/backend.go,             *)
(* internal/slackbackend/convert.go), and the built-in layout of the Slack *)
(* backend makes an attachment of it (internal/slack/render.go).  The      *)
(* tables of builders and of layouts are kept apart in the code, in two    *)
(* processes, with a field-by-field copy between them in each direction.   *)
(*                                                                         *)
(* A text is a sequence of parts, <<>> the empty string; a part is a byte  *)
(* or a few that no cut separates.  Apps are numbers in the order of their *)
(* names.  RepoURL and ArgoCDURL stand for what is   *)
(* left of them without ".git" and trailing slashes, which the code strips *)
(* before it appends a path.                                               *)
(***************************************************************************)
EXTENDS Integers, FiniteSets, Sequences

CONSTANTS
  MaxAttachments,   \* render.go: maxAttachments
  MaxSHA,           \* build.go: bytes of a commit SHA that are kept
  MaxDetail         \* build.go: bytes of an operation message that are kept

ASSUME LimitsAssumption ==
  MaxAttachments \in Nat \ {0} /\ MaxSHA \in Nat \ {0} /\ MaxDetail \in Nat

-----------------------------------------------------------------------------
(* notification.Build.                                                     *)

OrDefault(s, default) == IF s = <<>> THEN default ELSE s

\* Counts bytes: a rune of several may lose its end.
Cut(s, n) == IF Len(s) > n THEN SubSeq(s, 1, n) ELSE s

Truncate(s, n) == IF Len(s) > n THEN Cut(s, n) \o <<"...">> ELSE s

CommitURL(e) ==
  IF e.RepoURL = <<>> \/ e.Revision = <<>> THEN <<>>
  ELSE e.RepoURL \o <<"/commit/">> \o e.Revision

CommitSHA(e) == OrDefault(Cut(e.Revision, MaxSHA), <<"?">>)

ArgoCDLink(e) == e.ArgoCDURL \o <<"/applications/">> \o e.AppName

\* Label and value of the entry that a builder puts into Item.Fields.
FieldsOf(e) ==
  CASE e.Trigger = "on-sync-failed"         -> <<"Phase">> \o e.SyncPhase
    [] e.Trigger = "on-health-degraded"     -> <<"Health", "Degraded">>
    [] e.Trigger = "on-sync-status-unknown" -> <<"Sync Status">> \o OrDefault(e.SyncStatus, <<"Unknown">>)
    [] OTHER -> <<>>

Values(e) ==
  [AppName |-> e.AppName, Cluster |-> OrDefault(e.Target, <<"?">>), Trigger |-> <<e.Trigger>>,
   TargetRevision |-> e.TargetRevision, CommitURL |-> CommitURL(e), CommitSHA |-> CommitSHA(e),
   TriggeredBy |-> OrDefault(e.InitiatedBy, <<"auto-sync">>), Images |-> e.Images,
   Fields |-> FieldsOf(e), DetailText |-> Truncate(e.OperationMsg, MaxDetail),
   Link |-> ArgoCDLink(e)]

ItemFields == {"AppName", "Cluster", "Trigger", "TargetRevision", "CommitURL", "CommitSHA",
               "TriggeredBy", "Images", "Fields", "DetailText", "Link"}

\* triggerBuilders: what the builder of each trigger fills in.
Fills(trigger) ==
  {"AppName", "Cluster", "Trigger", "TargetRevision"} \cup
  CASE trigger = "on-deleted"         -> {}
    [] trigger = "on-created"         -> {"Link"}
    [] trigger = "on-deployed"        -> {"Link", "CommitURL", "CommitSHA", "TriggeredBy", "Images"}
    [] trigger = "on-sync-running"    -> {"Link", "CommitURL", "CommitSHA", "TriggeredBy"}
    [] trigger = "on-sync-succeeded"  -> {"Link", "CommitURL", "CommitSHA"}
    [] trigger = "on-sync-failed"     -> {"Link", "Fields", "DetailText"}
    [] trigger \in {"on-health-degraded", "on-sync-status-unknown"} -> {"Link", "Fields"}

KnownTriggers ==
  {"on-created", "on-deleted", "on-deployed", "on-health-degraded", "on-sync-failed",
   "on-sync-running", "on-sync-status-unknown", "on-sync-succeeded"}

Item(e) == [f \in ItemFields |-> IF f \in Fills(e.Trigger) THEN Values(e)[f] ELSE <<>>]

\* sort.Strings.
Sorted(S) ==
  CHOOSE s \in [1 .. Cardinality(S) -> S] : \A i, j \in DOMAIN s : i < j => s[i] < s[j]

KnownApps(perApp) == {a \in DOMAIN perApp : perApp[a].Trigger \in KnownTriggers}

\* Counts all triggers, also those no builder knows.
Summary(perApp) ==
  [t \in {perApp[a].Trigger : a \in DOMAIN perApp} |->
     Cardinality({a \in DOMAIN perApp : perApp[a].Trigger = t})]

\* Never called with an empty perApp: SessionPublisher groups what it has.
Build(perApp) ==
  LET names == Sorted(KnownApps(perApp)) IN
  [Summary |-> Summary(perApp), Items |-> [i \in DOMAIN names |-> Item(perApp[names[i]])]]

-----------------------------------------------------------------------------
(* The wire: optional fields are pointers, nil where there is nothing, and *)
(* texts are JSON.                                                         *)

\* The two bytes of one rune.
RuneStart == "rune_start"
RuneEnd == "rune_end"

InRune(s, i) ==
  \/ s[i] = RuneStart /\ i + 1 \in DOMAIN s /\ s[i + 1] = RuneEnd
  \/ s[i] = RuneEnd /\ i - 1 \in DOMAIN s /\ s[i - 1] = RuneStart

\* json.Marshal: U+FFFD in the place of a byte that belongs to no rune.
Marshalled(s) ==
  [i \in DOMAIN s |-> IF s[i] \in {RuneStart, RuneEnd} /\ ~ InRune(s, i) THEN "replaced" ELSE s[i]]

Required == {"AppName", "Cluster", "Trigger"}

SentFields == Required \cup {"CommitSHA", "CommitURL", "TargetRevision", "DetailText", "Link",
                             "TriggeredBy", "Images", "Fields"}

ToWireItem(item) ==
  [f \in {g \in SentFields : g \in Required \/ item[g] # <<>>} |-> Marshalled(item[f])]

\* Mutant: a field that the receiving side forgets to copy.
AllButTargetRevision == SentFields \ {"TargetRevision"}

ReadFields == Required \cup {"CommitSHA", "CommitURL", "TargetRevision", "DetailText", "Link",
                             "TriggeredBy", "Images", "Fields"}

FromWireItem(wire) ==
  [f \in ItemFields |-> IF f \in ReadFields \cap DOMAIN wire THEN wire[f] ELSE <<>>]

ToWire(n) == [n EXCEPT !.Items = [i \in DOMAIN n.Items |-> ToWireItem(n.Items[i])]]
FromWire(n) == [n EXCEPT !.Items = [i \in DOMAIN n.Items |-> FromWireItem(n.Items[i])]]

-----------------------------------------------------------------------------
(* DefaultRenderer.                                                        *)

\* Mutant: the layout of on-created for a deleted app, button included.
ShowsButtonAlways(trigger) ==
  {"AppName", "Cluster", "Link"} \cup (Fills(trigger) \ {"Trigger", "TargetRevision"})

\* triggerRenderers: what the layout of each trigger shows.
Shows(trigger) ==
  {"AppName", "Cluster"} \cup
  CASE trigger = "on-created"        -> {"Link"}
    [] trigger = "on-deleted"        -> {}
    [] trigger = "on-deployed"       -> {"CommitURL", "CommitSHA", "TriggeredBy", "Images", "Link"}
    [] trigger = "on-sync-failed"    -> {"Fields", "DetailText", "Link"}
    [] trigger = "on-sync-running"   -> {"CommitURL", "CommitSHA", "TriggeredBy", "Link"}
    [] trigger = "on-sync-succeeded" -> {"CommitURL", "CommitSHA", "Link"}
    [] trigger \in {"on-health-degraded", "on-sync-status-unknown"} -> {"Fields", "Link"}

\* formatImages; commitText shows the SHA alone where there is no URL.
Attachment(item) ==
  [f \in Shows(item.Trigger[1]) |->
     IF f = "Images" THEN OrDefault(item.Images, <<"none">>) ELSE item[f]]

\* Mutant: the attachment that makes room for the rest is not counted.
OverflowOfRest(n) == n - MaxAttachments

Overflow(n) == n - (MaxAttachments - 1)

More(n) == [more |-> n]

\* The items whose trigger has a layout, in their order.
WithLayout(items) ==
  LET positions == Sorted({i \in DOMAIN items : items[i].Trigger[1] \in KnownTriggers})
  IN  [j \in DOMAIN positions |-> items[positions[j]]]

renderNotification(n) ==
  LET known == WithLayout(n.Items)
      attachments == [i \in DOMAIN known |-> Attachment(known[i])] IN
  IF Len(known) > MaxAttachments
  THEN SubSeq(attachments, 1, MaxAttachments - 1) \o <<More(Overflow(Len(known)))>>
  ELSE attachments
=============================================================================
