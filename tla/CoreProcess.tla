----------------------------- MODULE CoreProcess -----------------------------
(***************************************************************************)
(* The process of the core (cmd/argocd-notifier/main.go): configuration,   *)
(* the goroutines main starts, the way of an event from the webhook to the *)
(* publisher, and shutdown.  The receiver is that of Receiver; the engine  *)
(* is represented by what it promises, Batching, which Engine implements.  *)
(* A process that has ended keeps its last state: what is in a queue or a  *)
(* batch there is lost, for nothing is persisted.                          *)
(***************************************************************************)
EXTENDS Receiver

CONSTANTS
  Configs,         \* environments the process is started in
  SessionOf(_)     \* the session key of an event

\* envconfig takes any integer for the queue and the workers.
ASSUME CoreAssumption ==
  /\ IsFiniteSet(Worker)
  /\ \A c \in Configs : c.IngestQueueSize \in Int /\ c.WorkerCount <= Cardinality(Worker)

VARIABLES
  config,      \* config.Config
  phase,       \* where main is
  open,        \* the engine: events of the open batch of each group
  sealed,      \* what is left to deliver of each sealed batch
  delivered    \* the parts of batches the publisher has got

engineVars == <<open, sealed, delivered>>
coreVars == <<vars, config, phase, engineVars>>

Group == {d.group : d \in Delivery}

E == INSTANCE Batching WITH Event <- Delivery, KeyOf <- SessionOf

CoreInit ==
  /\ config \in Configs
  /\ capacity = IF config.IngestQueueSize < 0 THEN 0 ELSE config.IngestQueueSize
  /\ phase = "loading"
  /\ Init
  /\ E!Init

-----------------------------------------------------------------------------
(* main.                                                                   *)

\* strings.ToLower, for the spellings that occur.
Lower(s) == CASE s = "JSON" -> "json" [] s = "Thread" -> "thread" [] OTHER -> s

\* The errors of Validate.
Violations(c) ==
  LET errs ==
        [IdleWindowTooLong |-> c.IdleWindow >= c.MaxWait,
         MaxWaitTooLong |-> c.MaxWait >= c.SessionTTL,
         InvalidLogFormat |-> Lower(c.LogFormat) \notin {"json", "text"},
         InvalidDuplicateAction |-> Lower(c.DuplicateAction) \notin {"drop", "thread"},
         MissingLeaderElectionNamespace |-> c.LeaderElectionEnabled /\ c.LeaderElectionNamespace = "",
         LeaseDurationTooShort |-> c.LeaderElectionEnabled /\ c.LeaseDuration <= c.RenewDeadline,
         RenewDeadlineTooShort |-> c.LeaderElectionEnabled /\ c.RenewDeadline <= c.RetryPeriod,
         MissingPodNamespace |-> c.LeaderElectionEnabled /\ c.PodNamespace = "",
         InvalidLeaderProxyTimeout |-> c.LeaderProxyRequestTimeout <= 0,
         PprofAddrConflict |-> c.PprofEnabled /\ c.PprofAddr = c.ListenAddr,
         InvalidBackendRegistryTTL |-> c.BackendRegistryTTL <= 0,
         InvalidRemoteBackendTimeout |-> c.RemoteBackendRequestTimeout <= 0]
  IN {e \in DOMAIN errs : errs[e]}

\* envconfig finds no GROUP_LABEL, or Validate objects.
Refused(c) == c.GroupLabel = "" \/ Violations(c) # {}

\* RunWorkers: "for range n" does nothing unless n is positive.
Workers(c) ==
  CHOOSE W \in SUBSET Worker :
    Cardinality(W) = IF c.WorkerCount > 0 THEN c.WorkerCount ELSE 0

\* NewSessionPublisher gets DuplicateAction as it was spelled.
RepliesInThread(c) == c.DuplicateAction = "thread"

\* Load, NewHandler (make panics on a negative size) and RunWorkers.
Start ==
  /\ phase = "loading"
  /\ IF Refused(config) \/ config.IngestQueueSize < 0
     THEN /\ phase' = "exited"
          /\ UNCHANGED stopped
     ELSE /\ phase' = "started"
          /\ stopped' = Worker \ Workers(config)
  /\ UNCHANGED <<pending, status, queue, capacity, holds, canceled, accepted, ingested, config,
                 engineVars>>

\* startLeaderElection exits the process if there is no cluster to talk to or
\* client-go refuses the durations.
ElectionFailures == IF config.LeaderElectionEnabled THEN {"exited"} ELSE {}

\* ListenAndServe returns at once when the address is taken: that is logged,
\* and main goes on to wait for a signal.
Listen ==
  /\ phase = "started"
  /\ phase' \in {"serving", "deaf"} \cup ElectionFailures
  /\ UNCHANGED <<vars, config, engineVars>>

\* SIGTERM cancels ctx, which all goroutines share.  Requests still come.
Signal ==
  /\ phase \in {"started", "serving", "deaf"}
  /\ Cancel
  /\ UNCHANGED <<config, phase, engineVars>>

\* main has seen ctx.Done(): Shutdown closes the listener and waits for the
\* requests that are in a handler.
Shutdown ==
  /\ canceled
  /\ phase \in {"started", "serving", "deaf"}
  /\ phase' = "draining"
  /\ UNCHANGED <<vars, config, engineVars>>

\* Shutdown returns when no request is left, or after ten seconds: nothing
\* waits for workers, timers or flushes.
Exit ==
  /\ phase = "draining"
  /\ phase' = "exited"
  /\ UNCHANGED <<vars, config, engineVars>>

Running == phase \in {"started", "serving", "deaf", "draining"}

-----------------------------------------------------------------------------
(* The way of an event.                                                    *)

SubmitEvent(d) == phase = "serving" /\ Arrive(d) /\ UNCHANGED <<config, phase, engineVars>>

Handle(d) ==
  /\ Running
  /\ Reject(d) \/ Enqueue(d) \/ Acknowledge(d) \/ QueueFull(d)
  /\ UNCHANGED <<config, phase, engineVars>>

Work(w) ==
  /\ Running
  /\ Take(w) \/ Return(w)
  /\ UNCHANGED <<config, phase, engineVars>>

\* A worker calls engine.Ingest.
Feed(w) ==
  /\ Running
  /\ Ingest(w)
  /\ E!Accept(holds[w].group, holds[w])
  /\ UNCHANGED <<config, phase>>

\* The engine's timers and flushes know nothing of ctx.
Flush(g) ==
  /\ Running
  /\ E!Seal(g) \/ E!DeliverSome(g)
  /\ UNCHANGED <<vars, config, phase>>

CoreNext ==
  \/ Start \/ Listen \/ Signal \/ Shutdown \/ Exit
  \/ \E d \in Delivery : SubmitEvent(d) \/ Handle(d)
  \/ \E w \in Worker : Work(w) \/ Feed(w)
  \/ \E g \in Group : Flush(g)

CoreSpec == CoreInit /\ [][CoreNext]_coreVars

\* The goroutines are scheduled: HTTP handlers once the body is there, workers
\* (Ingest takes a lock that is held for map operations only) and, as Engine
\* shows, timers and flushes.  Nothing makes a request come or the process
\* stop, and a worker need not see that ctx is done while events are there.
CoreFairSpec ==
  /\ CoreSpec
  /\ WF_coreVars(Start) /\ WF_coreVars(Listen)
  /\ \A d \in Delivery :
       WF_coreVars(/\ Running /\ (Enqueue(d) \/ Acknowledge(d) \/ QueueFull(d))
                   /\ UNCHANGED <<config, phase, engineVars>>)
  /\ \A w \in Worker :
       WF_coreVars(Running /\ Take(w) /\ UNCHANGED <<config, phase, engineVars>>)
       /\ WF_coreVars(Feed(w))
  /\ \A g \in Group :
       /\ WF_coreVars(Running /\ E!Seal(g) /\ UNCHANGED <<vars, config, phase>>)
       /\ WF_coreVars(Running /\ E!DeliverSome(g) /\ UNCHANGED <<vars, config, phase>>)

-----------------------------------------------------------------------------
(* Properties.                                                             *)

\* Where an event is.
Places(d) ==
  {<<"queue", i>> : i \in {j \in DOMAIN queue : queue[j] = d}}
    \cup {<<"worker", w>> : w \in {v \in Worker : holds[v] = d}}
    \cup {<<"open", g>> : g \in {h \in Group : d \in open[h]}}
    \cup {<<"sealed", batch>> : batch \in {b \in sealed : d \in b}}
    \cup {<<"delivered", part>> : part \in {p \in delivered : d \in p}}

\* An event that was sent to the channel, whether its 202 is out yet or not,
\* and no other, is in exactly one place between ServeHTTP and the publisher:
\* in the channel, at a worker, in a batch or delivered.  No event is lost or
\* doubled on the way before the process ends, however workers, flushes, a
\* full queue, requests accepted during the shutdown and workers that have
\* left get in each other's way; what a process that has ended holds anywhere
\* but in delivered is lost.
AccountedFor ==
  \A d \in Delivery :
    IF status[d] = 202 THEN \E place \in Places(d) : Places(d) = {place}
                       ELSE Places(d) = {}

\* api/core/openapi.yaml: the event is "enqueued for debounced aggregation -
\* never blocks on downstream backend delivery": every request is answered,
\* also after the workers have left a full channel behind in a shutdown,
\* unless the process ends before (ServeHTTP, Shutdown).
NeverBlocks == \A d \in Delivery : d \in pending ~> d \notin pending \/ phase = "exited"

\* An accepted event reaches the publisher unless the process is told to
\* stop, whatever other events are refused or overtake it (RunWorkers, flush);
\* it takes a worker, and Validate does not ask for one.
ReachesPublisher ==
  \A d \in Delivery :
    status[d] = 202 /\ config.WorkerCount > 0 ~> d \in UNION delivered \/ canceled

-----------------------------------------------------------------------------
(* What the code does not keep: the README describes the counterexample,   *)
(* and no passing run checks this.                                         *)

\* Whoever asks for replies in any spelling that Validate accepts gets them
\* (config.Validate against main, which passes the raw string on).
DuplicatesAsConfigured ==
  phase = "serving" => (RepliesInThread(config) <=> Lower(config.DuplicateAction) = "thread")
=============================================================================
