------------------------------ MODULE Batching ------------------------------
(***************************************************************************)
(* What the debounce engine promises, without timers, generations, locks   *)
(* or orders: accepted events wait in one open batch per group, a batch is *)
(* sealed whole, and a sealed batch leaves in parts, one for each session  *)
(* key that occurs in it, each part whole and once.                        *)
(***************************************************************************)
CONSTANTS Group, Event,
          KeyOf(_)     \* the session key of an event

VARIABLES open,        \* group -> events of its open batch
          sealed,      \* what is left to deliver of each sealed batch
          delivered    \* the parts that were delivered

vars == <<open, sealed, delivered>>

Known == (UNION {open[g] : g \in Group}) \cup (UNION sealed) \cup (UNION delivered)

Init ==
  /\ open = [g \in Group |-> {}]
  /\ sealed = {}
  /\ delivered = {}

Accept(g, ev) ==
  /\ ev.group = g
  /\ ev \notin Known
  /\ open' = [open EXCEPT ![g] = @ \cup {ev}]
  /\ UNCHANGED <<sealed, delivered>>

Seal(g) ==
  /\ open[g] # {}
  /\ sealed' = sealed \cup {open[g]}
  /\ open' = [open EXCEPT ![g] = {}]
  /\ UNCHANGED delivered

\* The part of a batch that belongs to the session of ev.
Part(batch, ev) == {e \in batch : KeyOf(e) = KeyOf(ev)}

Deliver(batch, ev) ==
  LET part == Part(batch, ev) IN
  /\ delivered' = delivered \cup {part}
  /\ sealed' = (sealed \ {batch}) \cup ({batch \ part} \ {{}})
  /\ UNCHANGED open

DeliverSome(g) ==
  \E batch \in sealed : \E ev \in batch : ev.group = g /\ Deliver(batch, ev)

Next ==
  \/ \E g \in Group, ev \in Event : Accept(g, ev)
  \/ \E g \in Group : Seal(g) \/ DeliverSome(g)

\* An open batch is sealed and a sealed one is delivered, eventually.
Spec ==
  /\ Init
  /\ [][Next]_vars
  /\ \A g \in Group : WF_vars(Seal(g)) /\ WF_vars(DeliverSome(g))
=============================================================================
