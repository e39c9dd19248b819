------------------------- MODULE MCSessionPublisher -------------------------
(* Small instances of SessionPublisher for TLC. *)
EXTENDS SessionPublisher

Dst(b, r) == [backend |-> b, recipient |-> r]

Ev(id, a, t, s, b, rs) ==
  [id |-> id, app |-> a, trigger |-> t, revision |-> "r1", status |-> s,
   backend |-> b, recipients |-> rs]

Up(id, k, evs) == [id |-> id, key |-> k, events |-> evs]

\* Backends that share the recipient "ops".
TwoDests == {Dst("slack", "ops"), Dst("pager", "ops")}

FourDests == TwoDests \cup {Dst("mail", "ops"), Dst("none", "ops")}

\* Between them, the two instances have a backend of every shape.
Mixed == [slack |-> "notifier", pager |-> "updater", mail |-> "poster", none |-> "neither"]

EditorAndReposter == [slack |-> "notifier", pager |-> "reposter"]

\* One rollout of apps on different backends: it starts; two of the apps
\* finish; one of these is reported again, twice; and the app has a session
\* of the same backend under another key.
Rollout ==
  {Up(1, "k1", <<Ev(1, "web", "on-sync-running", "Running", "slack", {"ops"}),
                 Ev(2, "api", "on-sync-running", "Running", "pager", {"ops"}),
                 Ev(3, "job", "on-sync-running", "Running", "mail", {"ops"}),
                 Ev(4, "db", "on-sync-running", "Running", "none", {"ops"})>>),
   Up(2, "k1", <<Ev(5, "web", "on-deployed", "Healthy", "slack", {"ops"}),
                 Ev(6, "job", "on-deployed", "Healthy", "mail", {"ops"})>>),
   Up(3, "k1", <<Ev(7, "web", "on-deployed", "Healthy", "slack", {"ops"}),
                 Ev(8, "web", "on-deployed", "Healthy", "slack", {"ops"})>>),
   Up(4, "k2", <<Ev(9, "web", "on-deployed", "Healthy", "slack", {"ops"})>>)}

\* Three batches of one session of two apps, whose Upserts may overlap.
OneSession ==
  {Up(1, "k1", <<Ev(1, "web", "on-sync-running", "Running", "slack", {"ops"}),
                 Ev(2, "api", "on-sync-running", "Running", "pager", {"ops"})>>),
   Up(2, "k1", <<Ev(3, "web", "on-deployed", "Healthy", "slack", {"ops"})>>),
   Up(3, "k1", <<Ev(4, "web", "on-deployed", "Healthy", "slack", {"ops"}),
                 Ev(5, "web", "on-deployed", "Healthy", "slack", {"ops"})>>)}
=============================================================================
