---------------------------- MODULE MCAggregator ----------------------------
(* Small instances of Aggregator for TLC. *)
EXTENDS Aggregator

Delivery(id, t, a, s) ==
  [id |-> id, group |-> "shop", trigger |-> t, revision |-> "r1", app |-> a, status |-> s,
   backend |-> "slack", recipients |-> {"ops"}]

\* One rollout of one app: it starts, is reported again, and is reported with
\* another status by the same trigger.
OneApp ==
  {Delivery(1, "on-sync-running", "web", "Running"),
   Delivery(2, "on-sync-running", "web", "Running"),
   Delivery(3, "on-sync-running", "web", "Retrying")}

\* Two triggers report on the app, one of them to another channel as well.
Rollout ==
  {Delivery(1, "on-sync-running", "web", "Running"),
   [Delivery(2, "on-deployed", "web", "Synced") EXCEPT !.recipients = {"ops", "dev"}]}

OneDest == {[backend |-> "slack", recipient |-> "ops"]}
TwoDests == OneDest \cup {[backend |-> "slack", recipient |-> "dev"]}

Editor == [slack |-> "notifier"]
=============================================================================
