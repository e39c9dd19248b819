--------------------------- MODULE MCCoreProcess ---------------------------
(* Small instances of CoreProcess for TLC. *)
EXTENDS CoreProcess

Deliveries ==
  {[id |-> 1, group |-> "prod", app |-> "web", revision |-> "r1"],
   [id |-> 2, group |-> "prod", app |-> "web", revision |-> "r2"],
   [id |-> 3, group |-> "dev", app |-> "api", revision |-> "r1"]}

Session(d) == <<d.group, d.revision>>

Defaults ==
  [ListenAddr |-> ":8080", IngestQueueSize |-> 2, WorkerCount |-> 2, GroupLabel |-> "env",
   IdleWindow |-> 1, MaxWait |-> 2, SessionTTL |-> 3, DuplicateAction |-> "drop",
   BackendRegistryTTL |-> 3, RemoteBackendRequestTimeout |-> 1, LogFormat |-> "json",
   LeaderElectionEnabled |-> FALSE, LeaderElectionNamespace |-> "", LeaseDuration |-> 0,
   RenewDeadline |-> 0, RetryPeriod |-> 0, PodNamespace |-> "", LeaderProxyRequestTimeout |-> 1,
   PprofEnabled |-> FALSE, PprofAddr |-> ":8080"]

Elected ==
  [Defaults EXCEPT !.LeaderElectionEnabled = TRUE, !.LeaderElectionNamespace = "ns",
     !.PodNamespace = "ns", !.LeaseDuration = 3, !.RenewDeadline = 2, !.RetryPeriod = 1,
     !.WorkerCount = 1, !.LogFormat = "JSON", !.DuplicateAction = "Thread"]

\* One environment of each outcome, and those at the boundaries.
Environments ==
  {Defaults, Elected, [Defaults EXCEPT !.WorkerCount = 0], [Elected EXCEPT !.IngestQueueSize = 0],
   [Defaults EXCEPT !.IngestQueueSize = -1], [Defaults EXCEPT !.GroupLabel = ""],
   [Defaults EXCEPT !.IdleWindow = 2], [Defaults EXCEPT !.MaxWait = 3],
   [Defaults EXCEPT !.LogFormat = "xml"], [Defaults EXCEPT !.DuplicateAction = "edit"],
   [Defaults EXCEPT !.PprofEnabled = TRUE], [Defaults EXCEPT !.BackendRegistryTTL = 0],
   [Defaults EXCEPT !.RemoteBackendRequestTimeout = 0],
   [Defaults EXCEPT !.LeaderProxyRequestTimeout = 0],
   [Elected EXCEPT !.LeaderElectionNamespace = ""], [Elected EXCEPT !.PodNamespace = ""],
   [Elected EXCEPT !.LeaseDuration = 2], [Elected EXCEPT !.RetryPeriod = 2]}
=============================================================================
