------------------------------ MODULE MCEngine ------------------------------
(* Small instances of Engine for TLC. *)
EXTENDS Engine

Delivery(id, g, t, r, a) ==
  [id |-> id, group |-> g, trigger |-> t, revision |-> r, app |-> a]

\* One group and one app: two triggers report it, one of them twice, and one
\* event belongs to another revision.
OneGroup ==
  {Delivery(1, "shop", "running", "r1", "web"),
   Delivery(2, "shop", "deployed", "r1", "web"),
   Delivery(3, "shop", "running", "r2", "web"),
   Delivery(4, "shop", "running", "r1", "web")}

\* Two groups whose timers share the clock and e.mu; the batch of the first
\* may hold two session keys.
TwoGroups ==
  {Delivery(1, "shop", "running", "r1", "web"),
   Delivery(2, "shop", "running", "r2", "web"),
   Delivery(3, "pay", "deployed", "r1", "card")}
=============================================================================
