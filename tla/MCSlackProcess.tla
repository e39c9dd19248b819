--------------------------- MODULE MCSlackProcess ---------------------------
(* Small instances of SlackProcess for TLC. *)
EXTENDS SlackProcess

Names == <<"app1", "app2", "app3", "app4", "app5">>

Full(a, t) ==
  [AppName |-> <<Names[a]>>, Trigger |-> t, Target |-> <<"dev">>, Revision |-> <<"abc", "def">>,
   RepoURL |-> <<"repo">>, InitiatedBy |-> <<"alice">>, Images |-> <<"img">>,
   SyncPhase |-> <<"Error">>, SyncStatus |-> <<"OutOfSync">>, OperationMsg |-> <<"m", RuneStart, RuneEnd>>,
   TargetRevision |-> <<RuneStart, RuneEnd>>, ArgoCDURL |-> <<"argocd">>]

\* Only what Event.Validate requires.
Bare(a, t) ==
  [f \in DOMAIN Full(a, t) |-> IF f \in {"AppName", "Trigger", "Revision"} THEN Full(a, t)[f] ELSE <<>>]

\* Every trigger with all its fields, some with none of the optional ones; an
\* operation message that is cut within a rune, and runes that stay whole; as
\* many apps as there may be attachments, one more, and more than the body
\* has room for, with and without a trigger that no builder knows.
AllSessions ==
  {<<Full(1, "on-created"), Full(2, "on-deleted"), Full(3, "on-deployed")>>,
   <<Full(1, "on-sync-failed"), Full(2, "on-sync-running"), Full(3, "on-sync-succeeded")>>,
   <<Full(1, "on-health-degraded"), Full(2, "on-sync-status-unknown"), Bare(3, "on-deleted")>>,
   <<Bare(1, "on-deployed"), Bare(2, "on-custom"), Bare(3, "on-sync-status-unknown")>>,
   <<Full(1, "on-custom"), Bare(2, "on-created"), Full(3, "on-created"), Bare(4, "on-sync-failed")>>,
   [a \in 1 .. 4 |-> Full(a, "on-deployed")],
   [a \in 1 .. 5 |-> Full(a, "on-deployed")]}

Environment(complete, register, interval, path, fallback) ==
  [complete |-> complete, RegisterInterval |-> register, ReloadInterval |-> interval,
   MessageTemplatePath |-> path, Fallback |-> fallback]

Environments ==
  {Environment(TRUE, 1, 1, path, fallback) : path, fallback \in BOOLEAN} \cup
  {Environment(FALSE, 1, 1, TRUE, FALSE), Environment(TRUE, 0, 1, TRUE, FALSE),
   Environment(TRUE, 1, 0, TRUE, FALSE), Environment(TRUE, 1, 0, FALSE, FALSE)}
=============================================================================
