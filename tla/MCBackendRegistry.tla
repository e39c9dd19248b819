------------------------- MODULE MCBackendRegistry -------------------------
(* Small instances of BackendRegistry for TLC. *)
EXTENDS BackendRegistry

Proc(n, u, t) == [name |-> n, url |-> u, threads |-> t]

\* A rollout of one backend, from a version with thread replies to one
\* without, next to another backend.
Replaced == {Proc("slack", "old", TRUE), Proc("slack", "new", FALSE), Proc("pager", "p", FALSE)}
=============================================================================
