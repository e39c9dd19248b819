------------------------------- MODULE Elector -------------------------------
(***************************************************************************)
(* Leader election between the replicas (internal/leader/elector.go): the  *)
(* three callbacks the code registers, and around them the election loop   *)
(* of client-go (external): LeaderElector.Run acquires the lease, renews   *)
(* it until the renew deadline passes, releases it (ReleaseOnCancel),      *)
(* calls OnStoppedLeading and returns.  OnStartedLeading and OnNewLeader   *)
(* run in goroutines of their own.                                         *)
(*                                                                         *)
(* Timing assumption: goroutines are launched, and a release is answered,  *)
(* within one tick.  Only renewals can fail for long.                      *)
(***************************************************************************)
EXTENDS Integers, FiniteSets

CONSTANTS
  Replica,        \* pod names, which are the lease identities
  NoLeader,       \* an empty holder, and a currentLeader that was never stored
  RenewDeadline,  \* cfg.RenewDeadline in ticks
  LeaseDuration,  \* cfg.LeaseDuration in ticks
  MaxExits        \* bound: process exits, each followed by a restart

\* config.Validate refuses LeaseDuration <= RenewDeadline.
ASSUME LeaseAssumption ==
  /\ RenewDeadline \in Nat \ {0}
  /\ LeaseDuration \in Nat
  /\ RenewDeadline < LeaseDuration

ASSUME ReplicaAssumption ==
  /\ NoLeader \notin Replica
  /\ IsFiniteSet(Replica)
  /\ MaxExits \in Nat

VARIABLES
  holder,         \* HolderIdentity of the Lease object
  leaseAge,       \* ticks since the lease was acquired or renewed
  stage,          \* where the replica's LeaderElector.Run is
  leading,        \* Elector.leading
  currentLeader,  \* Elector.currentLeader
  reported,       \* client-go: the holder it last reported a transition to
  launched,       \* callback goroutines that have not run yet
  canceled,       \* replicas that got SIGTERM: ctx is canceled
  exits           \* process exits so far

electorVars == <<holder, leaseAge, stage, leading, currentLeader, reported,
                 launched, canceled, exits>>

Stages == {"campaigning", "renewing", "releasing", "stopping", "returned"}

TypeOK ==
  /\ holder \in Replica \cup {NoLeader}
  /\ leaseAge \in 0 .. LeaseDuration
  /\ stage \in [Replica -> Stages]
  /\ leading \in [Replica -> BOOLEAN]
  /\ currentLeader \in [Replica -> Replica \cup {NoLeader}]
  /\ reported \in [Replica -> Replica \cup {NoLeader}]
  /\ launched \subseteq [kind : {"started", "new"}, replica : Replica,
                         identity : Replica \cup {NoLeader}]
  /\ canceled \subseteq {r \in Replica : stage[r] \in {"releasing", "stopping", "returned"}}
  /\ exits \in 0 .. MaxExits

Init ==
  /\ holder = NoLeader
  /\ leaseAge = 0
  /\ stage = [r \in Replica |-> "campaigning"]
  /\ leading = [r \in Replica |-> FALSE]
  /\ currentLeader = [r \in Replica |-> NoLeader]
  /\ reported = [r \in Replica |-> NoLeader]
  /\ launched = {}
  /\ canceled = {}
  /\ exits = 0

-----------------------------------------------------------------------------
(* The election loop of client-go.                                         *)

LaunchedAt(r) == {c \in launched : c.replica = r}

\* go OnNewLeader(id), when id differs from the last one reported.
NewLeaderCallback(r, id) ==
  IF reported[r] = id THEN {}
  ELSE {[kind |-> "new", replica |-> r, identity |-> id]}

StartedCallback(r) == [kind |-> "started", replica |-> r, identity |-> r]

\* The lease is free, has lapsed, or names this pod from before a restart.
MayAcquire(r) == holder \in {NoLeader, r} \/ leaseAge = LeaseDuration

\* tryAcquireOrRenew succeeds.  Attempts are RetryPeriod apart, so the
\* callbacks of the previous one have run.
Acquire(r) ==
  /\ stage[r] = "campaigning"
  /\ LaunchedAt(r) = {}
  /\ MayAcquire(r)
  /\ holder' = r
  /\ leaseAge' = 0
  /\ stage' = [stage EXCEPT ![r] = "renewing"]
  /\ reported' = [reported EXCEPT ![r] = r]
  /\ launched' = launched \cup NewLeaderCallback(r, r) \cup {StartedCallback(r)}
  /\ UNCHANGED <<leading, currentLeader, canceled, exits>>

\* tryAcquireOrRenew reads the record and does not get the lease.
Observe(r) ==
  /\ stage[r] = "campaigning"
  /\ LaunchedAt(r) = {}
  /\ reported[r] # holder
  /\ reported' = [reported EXCEPT ![r] = holder]
  /\ launched' = launched \cup NewLeaderCallback(r, holder)
  /\ UNCHANGED <<holder, leaseAge, stage, leading, currentLeader, canceled, exits>>

Renew(r) ==
  /\ stage[r] = "renewing"
  /\ holder = r
  /\ leaseAge > 0
  /\ leaseAge' = 0
  /\ UNCHANGED <<holder, stage, leading, currentLeader, reported, launched,
                 canceled, exits>>

\* No renewal succeeded within RenewDeadline.
GiveUp(r) ==
  /\ stage[r] = "renewing"
  /\ leaseAge >= RenewDeadline
  /\ stage' = [stage EXCEPT ![r] = "releasing"]
  /\ UNCHANGED <<holder, leaseAge, leading, currentLeader, reported, launched,
                 canceled, exits>>

\* ReleaseOnCancel: empty the record before Run returns; the call may fail.
Release(r) ==
  /\ stage[r] = "releasing"
  /\ holder' \in {holder, IF holder = r THEN NoLeader ELSE holder}
  /\ stage' = [stage EXCEPT ![r] = "stopping"]
  /\ UNCHANGED <<leaseAge, leading, currentLeader, reported, launched,
                 canceled, exits>>

\* The lease ages.  A renewing replica gives up at its deadline, not later.
Tick ==
  /\ leaseAge < LeaseDuration
  /\ launched = {}
  /\ \A r \in Replica : stage[r] \notin {"releasing", "stopping"}
  /\ ~ \E r \in Replica : stage[r] = "renewing" /\ leaseAge >= RenewDeadline
  /\ leaseAge' = leaseAge + 1
  /\ UNCHANGED <<holder, stage, leading, currentLeader, reported, launched,
                 canceled, exits>>

-----------------------------------------------------------------------------
(* The callbacks of New, and the process around the Elector.               *)

OnStartedLeading(r) ==
  /\ StartedCallback(r) \in launched
  /\ leading' = [leading EXCEPT ![r] = TRUE]
  /\ launched' = launched \ {StartedCallback(r)}
  /\ UNCHANGED <<holder, leaseAge, stage, currentLeader, reported, canceled, exits>>

\* Mutant: only the identity of another replica is stored.
StoreUnlessSelf(r, id) ==
  IF id = r THEN currentLeader ELSE [currentLeader EXCEPT ![r] = id]

\* e.currentLeader.Store(&identity), after the log line for other replicas.
StoreLeader(r, id) == [currentLeader EXCEPT ![r] = id]

OnNewLeader(r) ==
  \E c \in LaunchedAt(r) :
    /\ c.kind = "new"
    /\ currentLeader' = StoreLeader(r, c.identity)
    /\ launched' = launched \ {c}
    /\ UNCHANGED <<holder, leaseAge, stage, leading, reported, canceled, exits>>

\* Mutant: the flag stays up.
StillLeading(r) == leading

StoppedLeading(r) == [leading EXCEPT ![r] = FALSE]

\* Deferred by Run, which then returns for good: nothing calls it again.
OnStoppedLeading(r) ==
  /\ stage[r] = "stopping"
  /\ leading' = StoppedLeading(r)
  /\ stage' = [stage EXCEPT ![r] = "returned"]
  /\ UNCHANGED <<holder, leaseAge, currentLeader, reported, launched, canceled, exits>>

MayExit == exits + Cardinality(canceled) < MaxExits

\* Mutant: Run is given a context of its own.
RunGoesOn(r) == stage[r]

StageAfterCancel(r) ==
  CASE stage[r] = "campaigning" -> "stopping"
    [] stage[r] = "renewing" -> "releasing"
    [] OTHER -> stage[r]

\* SIGTERM cancels the context of main, and so that of Run.
Cancel(r) ==
  /\ r \notin canceled
  /\ MayExit
  /\ canceled' = canceled \cup {r}
  /\ stage' = [stage EXCEPT ![r] = StageAfterCancel(r)]
  /\ UNCHANGED <<holder, leaseAge, leading, currentLeader, reported, launched, exits>>

\* A crash, or the end of a shutdown.  The kubelet starts the process again
\* under the same pod name.
Exit(r) ==
  /\ r \in canceled \/ MayExit
  /\ exits' = exits + 1
  /\ canceled' = canceled \ {r}
  /\ stage' = [stage EXCEPT ![r] = "campaigning"]
  /\ leading' = [leading EXCEPT ![r] = FALSE]
  /\ currentLeader' = [currentLeader EXCEPT ![r] = NoLeader]
  /\ reported' = [reported EXCEPT ![r] = NoLeader]
  /\ launched' = launched \ LaunchedAt(r)
  /\ UNCHANGED <<holder, leaseAge>>

ElectorStep(r) ==
  \/ Acquire(r) \/ Observe(r) \/ Renew(r) \/ GiveUp(r) \/ Release(r)
  \/ OnStartedLeading(r) \/ OnNewLeader(r) \/ OnStoppedLeading(r)
  \/ Cancel(r)

Next == Tick \/ \E r \in Replica : ElectorStep(r) \/ Exit(r)

Spec == Init /\ [][Next]_electorVars

\* The loop and its goroutines are scheduled, a canceled process ends, time
\* passes.  Nothing makes a renewal succeed, and nothing makes a process
\* that was not canceled exit.
Fairness ==
  /\ WF_electorVars(Tick)
  /\ \A r \in Replica :
       /\ WF_electorVars(Acquire(r))
       /\ WF_electorVars(Observe(r))
       /\ WF_electorVars(GiveUp(r))
       /\ WF_electorVars(Release(r))
       /\ WF_electorVars(OnStartedLeading(r))
       /\ WF_electorVars(OnNewLeader(r))
       /\ WF_electorVars(OnStoppedLeading(r))
       /\ WF_electorVars(r \in canceled /\ Exit(r))

FairSpec == Spec /\ Fairness

-----------------------------------------------------------------------------
(* Properties.                                                             *)

\* A running replica serves requests as leader only while the lease names it
\* or while Run is on its way out (elector.go New): the flag never survives
\* the loss of the lease, whichever way the loss came about.
LeadingBacked ==
  \A r \in Replica \ canceled :
    leading[r] => holder = r \/ stage[r] \in {"releasing", "stopping"}

\* Once one replica keeps the lease for good, it and every replica that
\* campaigns know it as the leader (CurrentLeader).
LeaderKnown ==
  \A r \in Replica :
    <>[](holder = r /\ stage[r] = "renewing") =>
      <>[](\A s \in Replica : stage[s] \in {"campaigning", "renewing"} =>
                                currentLeader[s] = r)

-----------------------------------------------------------------------------
(* What the documents say and the code does not keep: counterexamples are  *)
(* described in the README, and no passing run checks these.               *)

\* README.md: "Leader election makes sure that only one replica is active".
OneLeader == Cardinality({r \in Replica : leading[r]}) <= 1

\* elector.go: Run keeps "repeatedly campaigning for leadership", so there
\* is a leader again and again.
LeadershipRecovers == []<>(\E r \in Replica : leading[r])
=============================================================================
