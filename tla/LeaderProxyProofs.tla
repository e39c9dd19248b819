-------------------------- MODULE LeaderProxyProofs --------------------------
(***************************************************************************)
(* Proofs about the election and the routing between the replicas, for     *)
(* every set of replicas, every pair of deadlines config.Validate accepts  *)
(* and any number of requests, tries and process exits.                    *)
(***************************************************************************)
EXTENDS LeaderProxy, FiniteSetTheorems, TLAPS

(* The election.                                                           *)

\* A replica that renews holds the lease and has not passed its deadline; a
\* leader's flag and the callback that raises it belong to such a replica,
\* or to one that is on its way out.
LeaseInv ==
  /\ \A r \in Replica :
       stage[r] = "renewing" => holder = r /\ leaseAge <= RenewDeadline
  /\ \A r \in Replica \ canceled :
       /\ StartedCallback(r) \in launched => stage[r] = "renewing" /\ leaseAge = 0
       /\ leading[r] => stage[r] \in {"renewing", "releasing", "stopping"}

ExitsInv == exits + Cardinality(canceled) <= MaxExits

ElectorInv == TypeOK /\ LeaseInv /\ ExitsInv

LEMMA CanceledFinite ==
  ASSUME TypeOK
  PROVE  IsFiniteSet(canceled) /\ Cardinality(canceled) \in Nat
<1>1. canceled \in SUBSET Replica
  BY DEF TypeOK
<1> QED
  BY <1>1, ReplicaAssumption, FS_Subset, FS_CardinalityType

LEMMA InitElector == Init => ElectorInv
<1> SUFFICES ASSUME Init PROVE ElectorInv
  OBVIOUS
<1>1. TypeOK
  BY LeaseAssumption, ReplicaAssumption DEF Init, TypeOK, Stages
<1>2. LeaseInv
  BY DEF Init, LeaseInv
<1>3. ExitsInv
  BY ReplicaAssumption, FS_EmptySet DEF Init, ExitsInv
<1> QED
  BY <1>1, <1>2, <1>3 DEF ElectorInv

\* A replica gets the lease from nobody who still renews: the lease is free,
\* or it has outlived every renew deadline.
LEMMA AcquireKeeps ==
  ASSUME ElectorInv, NEW r \in Replica, Acquire(r)
  PROVE  ElectorInv'
<1> USE DEF ElectorInv
<1>1. TypeOK'
  BY LeaseAssumption, ReplicaAssumption DEF Acquire, TypeOK, Stages, NewLeaderCallback, StartedCallback
<1>2. \A s \in Replica : stage[s] # "renewing"
  BY LeaseAssumption, ReplicaAssumption DEF Acquire, MayAcquire, TypeOK, LeaseInv
<1>3. r \notin canceled
  BY DEF Acquire, TypeOK
<1>4. \A s \in Replica : StartedCallback(s) \in launched' => s = r \/ StartedCallback(s) \in launched
  BY DEF Acquire, StartedCallback, NewLeaderCallback
<1>5. LeaseInv'
  BY <1>2, <1>3, <1>4, LeaseAssumption DEF Acquire, TypeOK, LeaseInv, StartedCallback
<1>6. ExitsInv'
  BY DEF Acquire, ExitsInv
<1> QED
  BY <1>1, <1>5, <1>6

LEMMA ObserveKeeps ==
  ASSUME ElectorInv, NEW r \in Replica, Observe(r)
  PROVE  ElectorInv'
<1> USE DEF ElectorInv
<1>1. TypeOK'
  BY DEF Observe, TypeOK, NewLeaderCallback
<1>2. \A s \in Replica : StartedCallback(s) \in launched' => StartedCallback(s) \in launched
  BY DEF Observe, StartedCallback, NewLeaderCallback
<1>3. LeaseInv'
  BY <1>2 DEF Observe, LeaseInv, StartedCallback
<1>4. ExitsInv'
  BY DEF Observe, ExitsInv
<1> QED
  BY <1>1, <1>3, <1>4

LEMMA RenewKeeps ==
  ASSUME ElectorInv, NEW r \in Replica, Renew(r)
  PROVE  ElectorInv'
<1> USE DEF ElectorInv
<1>1. TypeOK'
  BY LeaseAssumption DEF Renew, TypeOK
<1>2. LeaseInv'
  BY LeaseAssumption DEF Renew, LeaseInv, StartedCallback
<1>3. ExitsInv'
  BY DEF Renew, ExitsInv
<1> QED
  BY <1>1, <1>2, <1>3

\* The callback that raises the flag has run when a deadline passes: it is
\* pending only while the lease is fresh.
LEMMA GiveUpKeeps ==
  ASSUME ElectorInv, NEW r \in Replica, GiveUp(r)
  PROVE  ElectorInv'
<1> USE DEF ElectorInv
<1>1. TypeOK'
  BY DEF GiveUp, TypeOK, Stages
<1>2. StartedCallback(r) \in launched => r \in canceled
  BY LeaseAssumption DEF GiveUp, TypeOK, LeaseInv
<1>3. LeaseInv'
  BY <1>2 DEF GiveUp, TypeOK, LeaseInv, StartedCallback
<1>4. ExitsInv'
  BY DEF GiveUp, ExitsInv
<1> QED
  BY <1>1, <1>3, <1>4

LEMMA ReleaseKeeps ==
  ASSUME ElectorInv, NEW r \in Replica, Release(r)
  PROVE  ElectorInv'
<1> USE DEF ElectorInv
<1>1. TypeOK'
  BY DEF Release, TypeOK, Stages
<1>2. LeaseInv'
  BY DEF Release, TypeOK, LeaseInv, StartedCallback
<1>3. ExitsInv'
  BY DEF Release, ExitsInv
<1> QED
  BY <1>1, <1>2, <1>3

LEMMA TickKeeps ==
  ASSUME ElectorInv, Tick
  PROVE  ElectorInv'
<1> USE DEF ElectorInv
<1>1. TypeOK'
  BY LeaseAssumption DEF Tick, TypeOK
<1>2. LeaseInv'
  BY LeaseAssumption DEF Tick, TypeOK, LeaseInv, StartedCallback
<1>3. ExitsInv'
  BY DEF Tick, ExitsInv
<1> QED
  BY <1>1, <1>2, <1>3

LEMMA CallbackKeeps ==
  ASSUME ElectorInv, NEW r \in Replica, OnStartedLeading(r) \/ OnNewLeader(r)
  PROVE  ElectorInv'
<1> USE DEF ElectorInv
<1>1. CASE OnStartedLeading(r)
  <2>1. TypeOK'
    BY <1>1 DEF OnStartedLeading, TypeOK
  <2>2. LeaseInv'
    BY <1>1 DEF OnStartedLeading, TypeOK, LeaseInv, StartedCallback
  <2>3. ExitsInv'
    BY <1>1 DEF OnStartedLeading, ExitsInv
  <2> QED
    BY <2>1, <2>2, <2>3
<1>2. CASE OnNewLeader(r)
  <2>1. TypeOK'
    BY <1>2 DEF OnNewLeader, TypeOK, LaunchedAt, StoreLeader
  <2>2. LeaseInv'
    BY <1>2 DEF OnNewLeader, TypeOK, LeaseInv, StartedCallback
  <2>3. ExitsInv'
    BY <1>2 DEF OnNewLeader, ExitsInv
  <2> QED
    BY <2>1, <2>2, <2>3
<1> QED
  BY <1>1, <1>2

LEMMA OnStoppedLeadingKeeps ==
  ASSUME ElectorInv, NEW r \in Replica, OnStoppedLeading(r)
  PROVE  ElectorInv'
<1> USE DEF ElectorInv
<1>1. TypeOK'
  BY DEF OnStoppedLeading, StoppedLeading, TypeOK, Stages
<1>2. LeaseInv'
  BY DEF OnStoppedLeading, StoppedLeading, TypeOK, LeaseInv, StartedCallback
<1>3. ExitsInv'
  BY DEF OnStoppedLeading, ExitsInv
<1> QED
  BY <1>1, <1>2, <1>3

LEMMA CancelKeeps ==
  ASSUME ElectorInv, NEW r \in Replica, Cancel(r)
  PROVE  ElectorInv'
<1> USE DEF ElectorInv
<1>1. StageAfterCancel(r) \in {"releasing", "stopping", "returned"}
  BY DEF StageAfterCancel, TypeOK, Stages
<1>2. TypeOK'
  BY <1>1 DEF Cancel, TypeOK, Stages
<1>3. LeaseInv'
  BY <1>1 DEF Cancel, TypeOK, LeaseInv, StartedCallback
<1>4. ExitsInv'
  <2>1. IsFiniteSet(canceled) /\ Cardinality(canceled) \in Nat
    BY CanceledFinite
  <2>2. canceled' = canceled \cup {r} /\ exits' = exits /\ r \notin canceled
    BY DEF Cancel
  <2>3. Cardinality(canceled') = Cardinality(canceled) + 1
    BY <2>1, <2>2, FS_AddElement
  <2> QED
    BY <2>1, <2>2, <2>3, ReplicaAssumption DEF Cancel, TypeOK, ExitsInv, MayExit
<1> QED
  BY <1>2, <1>3, <1>4

LEMMA ExitKeeps ==
  ASSUME ElectorInv, NEW r \in Replica, Exit(r)
  PROVE  ElectorInv'
<1> USE DEF ElectorInv
<1>1. /\ Cardinality(canceled') \in Nat
      /\ exits' + Cardinality(canceled') <= MaxExits
  <2>1. IsFiniteSet(canceled) /\ Cardinality(canceled) \in Nat
    BY CanceledFinite
  <2>2. canceled' = canceled \ {r} /\ exits' = exits + 1
    BY DEF Exit
  <2>3. Cardinality(canceled') =
          IF r \in canceled THEN Cardinality(canceled) - 1 ELSE Cardinality(canceled)
    BY <2>1, <2>2, FS_RemoveElement
  <2>4. Cardinality(canceled') \in Nat
    BY <2>1, <2>2, FS_RemoveElement, FS_CardinalityType
  <2> QED
    BY <2>1, <2>2, <2>3, <2>4, ReplicaAssumption DEF Exit, TypeOK, ExitsInv, MayExit
<1>2. exits' \in 0 .. MaxExits
  BY <1>1, ReplicaAssumption DEF Exit, TypeOK
<1>3. TypeOK'
  BY <1>2 DEF Exit, TypeOK, Stages
<1>4. LeaseInv'
  <2>1. /\ stage' = [stage EXCEPT ![r] = "campaigning"]
        /\ leading' = [leading EXCEPT ![r] = FALSE]
        /\ canceled' = canceled \ {r}
        /\ UNCHANGED <<holder, leaseAge>>
    BY DEF Exit
  <2>2. StartedCallback(r) \notin launched'
    BY DEF Exit, StartedCallback, LaunchedAt, TypeOK
  <2>3. \A s \in Replica : StartedCallback(s) \in launched' => StartedCallback(s) \in launched
    BY DEF Exit, StartedCallback
  <2> QED
    BY <2>1, <2>2, <2>3 DEF TypeOK, LeaseInv, StartedCallback
<1>5. ExitsInv'
  BY <1>1 DEF ExitsInv
<1> QED
  BY <1>3, <1>4, <1>5

LEMMA NextKeeps ==
  ASSUME ElectorInv, [Next]_electorVars
  PROVE  ElectorInv'
<1>1. CASE Tick
  BY <1>1, TickKeeps
<1>2. ASSUME NEW r \in Replica, ElectorStep(r)
      PROVE  ElectorInv'
  BY <1>2, AcquireKeeps, ObserveKeeps, RenewKeeps, GiveUpKeeps, ReleaseKeeps,
     CallbackKeeps, OnStoppedLeadingKeeps, CancelKeeps DEF ElectorStep
<1>3. ASSUME NEW r \in Replica, Exit(r)
      PROVE  ElectorInv'
  BY <1>3, ExitKeeps
<1>4. CASE UNCHANGED electorVars
  BY <1>4 DEF electorVars, ElectorInv, TypeOK, LeaseInv, ExitsInv, StartedCallback
<1> QED
  BY <1>1, <1>2, <1>3, <1>4 DEF Next

LEMMA ElectorInvariant == Spec => []ElectorInv
BY InitElector, NextKeeps, PTL DEF Spec

\* The types of the election's state (leader.Elector and client-go), and at
\* most MaxExits exits.
THEOREM ElectorTypeCorrect == Spec => []TypeOK
<1>1. ElectorInv => TypeOK
  BY DEF ElectorInv
<1> QED
  BY <1>1, ElectorInvariant, PTL

\* The flag that routing reads is never up on a running replica that lost
\* the lease, however the lease was lost (elector.go New).
THEOREM LeadingBackedHolds == Spec => []LeadingBacked
<1>1. ElectorInv => LeadingBacked
  BY DEF ElectorInv, LeaseInv, LeadingBacked
<1> QED
  BY <1>1, ElectorInvariant, PTL
-----------------------------------------------------------------------------
(* Types of the routing.                                                   *)

\* The routing never interferes with the election: seen through the state of
\* the electors, every routing step is a step of the election or none (main.go
\* gives leaderproxy the two read-only methods IsLeader and CurrentLeader).
THEOREM RoutingImplementsElection == RoutingSpec => Spec
<1>1. RoutingInit => Init
  BY DEF RoutingInit
<1>2. ASSUME [RoutingNext]_vars
      PROVE  [Next]_electorVars
  <2>1. ASSUME NEW q \in Request, NEW r \in Replica, Submit(q, r)
        PROVE  UNCHANGED electorVars
    BY <2>1 DEF Submit
  <2>2. ASSUME NEW a \in inFlight, Route(a) \/ Rewrite(a) \/ Serve(a) \/ Decline(a) \/ Timeout(a)
        PROVE  UNCHANGED electorVars
    BY <2>2 DEF Route, Rewrite, Serve, Decline, Timeout
  <2>3. ASSUME NEW r \in Replica, Publish(r)
        PROVE  UNCHANGED electorVars
    BY <2>3 DEF Publish
  <2>4. ASSUME NEW r \in Replica, ExitAll(r)
        PROVE  Next
    BY <2>4 DEF ExitAll, Next
  <2>5. ASSUME Tick \/ \E r \in Replica : ElectorStep(r)
        PROVE  Next
    BY <2>5 DEF Next
  <2>6. CASE UNCHANGED vars
    BY <2>6 DEF vars
  <2> QED
    BY <1>2, <2>1, <2>2, <2>3, <2>4, <2>5, <2>6 DEF RoutingNext
<1> QED
  BY <1>1, <1>2, PTL DEF RoutingSpec, Spec

LEMMA ElectorInvariantOfRouting == RoutingSpec => []ElectorInv
BY RoutingImplementsElection, ElectorInvariant, PTL

Try == [request : Request, path : Seq(Replica), step : Steps, open : BOOLEAN]

TriesOK ==
  /\ inFlight \subseteq Try
  /\ \A a \in inFlight : Len(a.path) \in 1 .. MaxHops

AnswersOK ==
  /\ attempts \in [Request -> 0 .. MaxAttempts]
  /\ answers \in [Request -> SUBSET {202, 400, 502, 503, NoAnswer}]

StateOK ==
  /\ cached \in [Replica -> Replica \cup {NoLeader}]
  /\ memory \in [Replica -> SUBSET Request]
  /\ processed \subseteq Request \X Replica

RoutingInv == TriesOK /\ AnswersOK /\ StateOK

LEMMA VisitedReplicas ==
  ASSUME TriesOK, NEW a \in inFlight
  PROVE  /\ a \in Try
         /\ At(a) \in Replica
         /\ Contains(a.path, At(a))
BY DEF TriesOK, Try, At, Contains

LEMMA AnswerTypes ==
  ASSUME AnswersOK, NEW a \in Try, NEW code \in {202, 400, 502, 503, NoAnswer}, Answer(a, code)
  PROVE  answers' \in [Request -> SUBSET {202, 400, 502, 503, NoAnswer}]
BY DEF AnswersOK, Try, Answer

LEMMA RouteTypes ==
  ASSUME RoutingInv, TypeOK, NEW a \in inFlight, Route(a)
  PROVE  RoutingInv'
<1> USE DEF RoutingInv
<1>1. a \in Try /\ At(a) \in Replica
  BY VisitedReplicas
<1>2. TriesOK'
  BY <1>1 DEF Route, Proceed, NoLeaderKnown, Finish, TriesOK, Try, Steps
<1>3. answers' \in [Request -> SUBSET {202, 400, 502, 503, NoAnswer}]
  BY <1>1, AnswerTypes DEF Route, Proceed, NoLeaderKnown, Finish, AnswersOK
<1>4. AnswersOK'
  BY <1>3 DEF Route, AnswersOK
<1>5. StateOK'
  BY <1>1 DEF Route, CacheAfterResolve, StateOK, TypeOK
<1> QED
  BY <1>2, <1>4, <1>5

LEMMA RewriteTypes ==
  ASSUME RoutingInv, TypeOK, NEW a \in inFlight, Rewrite(a)
  PROVE  RoutingInv'
<1> USE DEF RoutingInv
<1>1. a \in Try /\ At(a) \in Replica /\ Len(a.path) \in 1 .. MaxHops
  BY VisitedReplicas DEF TriesOK
<1>2. TriesOK'
  <2>1. CASE inFlight' = inFlight \ {a}
    BY <2>1 DEF TriesOK
  <2> DEFINE target == currentLeader[At(a)]
             b == [a EXCEPT !.path = Append(@, target), !.step = "arrived"]
  <2>2. CASE /\ Resolves(At(a))
             /\ Len(a.path) < MaxHops
             /\ inFlight' = (inFlight \ {a}) \cup {b}
    <3>1. target \in Replica
      BY <1>1, <2>2 DEF Resolves, TypeOK
    <3>2. Append(a.path, target) \in Seq(Replica) /\ Len(Append(a.path, target)) \in 1 .. MaxHops
      BY <1>1, <2>2, <3>1, RequestAssumption DEF Try
    <3>3. b \in Try /\ b.path = Append(a.path, target)
      BY <1>1, <3>2 DEF Try, Steps
    <3> QED
      BY <2>2, <3>2, <3>3 DEF TriesOK
  <2> QED
    BY <2>1, <2>2 DEF Rewrite, Finish, Proceed
<1>3. answers' \in [Request -> SUBSET {202, 400, 502, 503, NoAnswer}]
  BY <1>1, AnswerTypes DEF Rewrite, Proceed, Finish, ProxyError, AnswersOK
<1>4. AnswersOK'
  BY <1>3 DEF Rewrite, AnswersOK
<1>5. StateOK'
  BY <1>1 DEF Rewrite, CacheAfterResolve, StateOK, TypeOK
<1> QED
  BY <1>2, <1>4, <1>5

LEMMA EndTypes ==
  ASSUME RoutingInv, NEW a \in inFlight, Serve(a) \/ Decline(a) \/ Timeout(a)
  PROVE  RoutingInv'
<1> USE DEF RoutingInv
<1>1. a \in Try /\ At(a) \in Replica
  BY VisitedReplicas
<1>2. TriesOK'
  BY <1>1 DEF Serve, Decline, Timeout, Finish, TriesOK, Try
<1>3. answers' \in [Request -> SUBSET {202, 400, 502, 503, NoAnswer}]
  BY <1>1, AnswerTypes DEF Serve, Decline, Timeout, Finish, ProxyError
<1>4. AnswersOK'
  BY <1>3 DEF Serve, Decline, Timeout, AnswersOK
<1>5. StateOK'
  BY <1>1 DEF Serve, Decline, Timeout, StateOK, Try
<1> QED
  BY <1>2, <1>4, <1>5

LEMMA SubmitTypes ==
  ASSUME RoutingInv, NEW q \in Request, NEW r \in Replica, Submit(q, r)
  PROVE  RoutingInv'
<1> USE DEF RoutingInv
<1>1. TriesOK'
  <2> DEFINE try == [request |-> q, path |-> <<r>>, step |-> "arrived", open |-> TRUE]
  <2>1. try \in Try /\ Len(try.path) = 1
    BY DEF Try, Steps
  <2>2. inFlight' = inFlight \cup {try}
    BY DEF Submit
  <2> HIDE DEF try
  <2>3. 1 \in 1 .. MaxHops
    BY RequestAssumption
  <2> QED
    BY <2>1, <2>2, <2>3 DEF TriesOK
<1>2. AnswersOK'
  BY RequestAssumption DEF Submit, AnswersOK
<1>3. StateOK'
  BY DEF Submit, StateOK
<1> QED
  BY <1>1, <1>2, <1>3

LEMMA ExitTypes ==
  ASSUME RoutingInv, NEW r \in Replica, ExitAll(r)
  PROVE  RoutingInv'
<1> USE DEF RoutingInv
<1>1. TriesOK'
  BY DEF ExitAll, TriesOK
<1>2. AnswersOK'
  BY DEF ExitAll, AnswersOK, ProxyError
<1>3. StateOK'
  BY DEF ExitAll, StateOK
<1> QED
  BY <1>1, <1>2, <1>3

LEMMA RoutingInvariant == RoutingSpec => []RoutingInv
<1>1. RoutingInit => RoutingInv
  BY RequestAssumption DEF RoutingInit, RoutingInv, TriesOK, AnswersOK, StateOK
<1>2. ASSUME RoutingInv, ElectorInv, [RoutingNext]_vars
      PROVE  RoutingInv'
  <2>1. ASSUME NEW r \in Replica, Publish(r)
        PROVE  RoutingInv'
    BY <1>2, <2>1 DEF Publish, RoutingInv, TriesOK, AnswersOK, StateOK
  <2>2. CASE UNCHANGED routingVars
    BY <1>2, <2>2 DEF routingVars, RoutingInv, TriesOK, AnswersOK, StateOK
  <2>3. ASSUME NEW q \in Request, NEW r \in Replica, Submit(q, r)
        PROVE  RoutingInv'
    BY <1>2, <2>3, SubmitTypes
  <2>4. ASSUME NEW a \in inFlight, Route(a) \/ Rewrite(a) \/ Serve(a) \/ Decline(a) \/ Timeout(a)
        PROVE  RoutingInv'
    BY <1>2, <2>4, RouteTypes, RewriteTypes, EndTypes DEF ElectorInv
  <2>5. ASSUME NEW r \in Replica, ExitAll(r)
        PROVE  RoutingInv'
    BY <1>2, <2>5, ExitTypes
  <2>6. CASE UNCHANGED vars
    BY <2>2, <2>6 DEF vars
  <2> QED
    BY <1>2, <2>1, <2>2, <2>3, <2>4, <2>5, <2>6 DEF RoutingNext
<1> QED
  BY <1>1, <1>2, ElectorInvariantOfRouting, PTL DEF RoutingSpec

\* The types of the routing's state, and a bound on every path: no try visits
\* more than MaxHops replicas.
THEOREM RoutingTypeCorrect == RoutingSpec => []RoutingTypeOK
<1>1. ElectorInv /\ RoutingInv => RoutingTypeOK
  BY DEF ElectorInv, RoutingInv, TriesOK, AnswersOK, StateOK, Try, RoutingTypeOK
<1> QED
  BY <1>1, ElectorInvariantOfRouting, RoutingInvariant, PTL
-----------------------------------------------------------------------------
(* Where the in-memory state is.                                           *)

\* A try that a replica has taken for its own, and what is left of it in
\* memory, are gone before the process campaigns again.
StateInv ==
  /\ \A a \in inFlight : a.step = "local" => stage[At(a)] # "campaigning"
  /\ StateOnlyOnLeaders

LEMMA OnlyExitCampaigns ==
  ASSUME TypeOK, NEW r \in Replica, NEW s \in Replica, ElectorStep(r),
         stage'[s] = "campaigning"
  PROVE  stage[s] = "campaigning"
<1> USE DEF TypeOK
<1>1. CASE Acquire(r) \/ Observe(r) \/ Renew(r) \/ GiveUp(r) \/ Release(r)
  BY <1>1 DEF Acquire, Observe, Renew, GiveUp, Release
<1>2. CASE OnStartedLeading(r) \/ OnNewLeader(r) \/ OnStoppedLeading(r)
  BY <1>2 DEF OnStartedLeading, OnNewLeader, OnStoppedLeading
<1>3. CASE Cancel(r)
  BY <1>3 DEF Cancel, StageAfterCancel, Stages
<1> QED
  BY <1>1, <1>2, <1>3 DEF ElectorStep

LEMMA LeadersCampaignNoMore ==
  ASSUME ElectorInv, NEW r \in Replica, leading[r]
  PROVE  stage[r] # "campaigning"
BY DEF ElectorInv, TypeOK, LeaseInv

\* A replica has aggregation state only after it won an election, and a
\* restarted one starts without any (leaderproxy ServeHTTP: the local handler
\* is called by the leader only).
THEOREM StateOnlyOnLeadersHolds == RoutingSpec => []StateOnlyOnLeaders
<1>1. RoutingInit => StateInv
  BY DEF RoutingInit, StateInv, StateOnlyOnLeaders
<1>2. ASSUME StateInv, ElectorInv, RoutingInv, [RoutingNext]_vars
      PROVE  StateInv'
  <2> USE <1>2 DEF StateInv, StateOnlyOnLeaders
  <2>0. TriesOK /\ TypeOK
    BY DEF ElectorInv, RoutingInv
  <2>1. ASSUME NEW q \in Request, NEW r \in Replica, Submit(q, r)
        PROVE  StateInv'
    BY <2>1 DEF Submit, electorVars, At
  <2>2. ASSUME NEW a \in inFlight, Route(a)
        PROVE  StateInv'
    <3>1. At(a) \in Replica
      BY <2>0, VisitedReplicas
    <3>2. \A b \in inFlight' \ inFlight : b.step = "local" => leading[At(a)] /\ At(b) = At(a)
      BY <2>0, <2>2, VisitedReplicas DEF Route, Proceed, NoLeaderKnown, Finish, IsLeader, At, Try
    <3>3. stage' = stage /\ memory' = memory
      BY <2>2 DEF Route, electorVars
    <3> QED
      BY <3>1, <3>2, <3>3, LeadersCampaignNoMore DEF At
  <2>3. ASSUME NEW a \in inFlight, Rewrite(a)
        PROVE  StateInv'
    <3>1. \A b \in inFlight' \ inFlight : b.step = "arrived"
      BY <2>0, <2>3, VisitedReplicas DEF Rewrite, Proceed, Finish, Try
    <3>2. stage' = stage /\ memory' = memory
      BY <2>3 DEF Rewrite, electorVars
    <3> QED
      BY <3>1, <3>2 DEF At
  <2>4. ASSUME NEW a \in inFlight, Serve(a)
        PROVE  StateInv'
    <3>1. At(a) \in Replica /\ a \in Try
      BY <2>0, VisitedReplicas
    <3>2. /\ a.step = "local" /\ inFlight' = inFlight \ {a} /\ stage' = stage
          /\ memory' = [memory EXCEPT ![At(a)] = @ \cup {a.request}]
      BY <2>4 DEF Serve, Finish, electorVars
    <3> QED
      BY <3>1, <3>2 DEF At, RoutingInv, StateOK
  <2>11. ASSUME NEW a \in inFlight, Decline(a)
        PROVE  StateInv'
    BY <2>11 DEF Decline, Finish, electorVars, At
  <2>5. ASSUME NEW a \in inFlight, Timeout(a)
        PROVE  StateInv'
    <3>1. \A b \in inFlight' \ inFlight : b.step = a.step /\ At(b) = At(a)
      BY <2>0, <2>5, VisitedReplicas DEF Timeout, Try, At
    <3>2. stage' = stage /\ memory' = memory
      BY <2>5 DEF Timeout, electorVars
    <3> QED
      BY <3>1, <3>2 DEF At
  <2>6. ASSUME NEW r \in Replica, Publish(r)
        PROVE  StateInv'
    BY <2>6 DEF Publish, electorVars, At, RoutingInv, StateOK
  <2>7. ASSUME NEW r \in Replica, ExitAll(r)
        PROVE  StateInv'
    <3>1. \A b \in inFlight' : b \in inFlight /\ At(b) \in Replica /\ At(b) # r
      BY <2>0, <2>7, VisitedReplicas DEF ExitAll, Broken
    <3>2. /\ stage' = [stage EXCEPT ![r] = "campaigning"]
          /\ memory' = [memory EXCEPT ![r] = {}]
      BY <2>7 DEF ExitAll, Exit
    <3> QED
      BY <2>0, <3>1, <3>2 DEF TypeOK, At, RoutingInv, StateOK
  <2>8. ASSUME UNCHANGED routingVars, NEW r \in Replica, ElectorStep(r)
        PROVE  StateInv'
    BY <2>0, <2>8, OnlyExitCampaigns, VisitedReplicas DEF routingVars, At
  <2>9. CASE UNCHANGED routingVars /\ Tick
    BY <2>9 DEF routingVars, Tick, At
  <2>10. CASE UNCHANGED vars
    BY <2>10 DEF vars, routingVars, electorVars, At
  <2> QED
    BY <2>1, <2>2, <2>3, <2>4, <2>5, <2>6, <2>7, <2>8, <2>9, <2>10, <2>11 DEF RoutingNext
<1>3. StateInv => StateOnlyOnLeaders
  BY DEF StateInv
<1> QED
  BY <1>1, <1>2, <1>3, ElectorInvariantOfRouting, RoutingInvariant, PTL DEF RoutingSpec
-----------------------------------------------------------------------------
(* Requests processed twice.                                               *)

NoDoubt(q) == answers[q] \cap {502, NoAnswer} = {}

\* As long as a client has no reason to doubt, it has one try at most, which
\* it waits for, and none once a replica has processed the request.
OneTry(q) ==
  /\ \A a \in inFlight : a.request = q => a.open /\ 202 \notin answers[q]
  /\ \A a, b \in inFlight : a.request = q /\ b.request = q => a = b
  /\ \A r \in Replica : <<q, r>> \in processed => 202 \in answers[q]
  /\ \A r, s \in Replica : <<q, r>> \in processed /\ <<q, s>> \in processed => r = s

TwiceInv == \A q \in Request : NoDoubt(q) => OneTry(q)

\* A try that ends is answered, if its client still waits.
LEMMA AnswersGrow ==
  ASSUME RoutingInv, NEW a \in inFlight, NEW code \in {202, 400, 502, 503, NoAnswer},
         Answer(a, code), NEW q \in Request
  PROVE  /\ answers[q] \subseteq answers'[q]
         /\ q # a.request => answers'[q] = answers[q]
         /\ q = a.request /\ a.open => answers'[q] = answers[q] \cup {code}
BY DEF RoutingInv, TriesOK, AnswersOK, Try, Answer

\* What happens to a try leaves the other requests alone.
LEMMA EndKeepsOneTry ==
  ASSUME RoutingInv, TwiceInv, NEW a \in inFlight, NEW code \in {400, 502, 503, NoAnswer},
         Finish(a, code), processed' = processed,
         NEW q \in Request, NoDoubt(q)'
  PROVE  OneTry(q)'
<1>1. answers[q] \subseteq answers'[q] /\ inFlight' = inFlight \ {a}
  BY AnswersGrow DEF Finish
<1>2. OneTry(q)
  BY <1>1 DEF NoDoubt, TwiceInv
<1>3. 202 \in answers'[q] => 202 \in answers[q]
  BY DEF RoutingInv, TriesOK, AnswersOK, Try, Finish, Answer, NoAnswer
<1> QED
  BY <1>1, <1>2, <1>3 DEF OneTry

LEMMA MoveKeepsOneTry ==
  ASSUME RoutingInv, TwiceInv, NEW a \in inFlight,
         NEW b, b.request = a.request, b.open = a.open,
         Proceed(a, b), processed' = processed,
         NEW q \in Request, NoDoubt(q)'
  PROVE  OneTry(q)'
<1>1. answers' = answers /\ inFlight' = (inFlight \ {a}) \cup {b}
  BY DEF Proceed
<1>2. OneTry(q)
  BY <1>1 DEF NoDoubt, TwiceInv
<1> QED
  BY <1>1, <1>2 DEF OneTry

LEMMA ServeKeepsOneTry ==
  ASSUME RoutingInv, TwiceInv, NEW a \in inFlight, Serve(a),
         NEW q \in Request, NoDoubt(q)'
  PROVE  OneTry(q)'
<1>1. /\ inFlight' = inFlight \ {a}
      /\ processed' = processed \cup {<<a.request, At(a)>>}
      /\ Answer(a, 202)
  BY DEF Serve, Finish
<1>2. OneTry(q)
  BY <1>1, AnswersGrow DEF NoDoubt, TwiceInv
<1>3. CASE q = a.request
  <2>1. a.open /\ 202 \notin answers[q] /\ \A r \in Replica : <<q, r>> \notin processed
    BY <1>2, <1>3 DEF OneTry
  <2>2. 202 \in answers'[q]
    BY <1>1, <1>3, <2>1, AnswersGrow
  <2>3. \A b \in inFlight' : b.request # q
    BY <1>1, <1>2, <1>3 DEF OneTry
  <2> QED
    BY <1>1, <2>1, <2>2, <2>3 DEF OneTry
<1>4. CASE q # a.request
  <2>1. answers'[q] = answers[q]
    BY <1>1, <1>4, AnswersGrow
  <2> QED
    BY <1>1, <1>2, <1>4, <2>1 DEF OneTry
<1> QED
  BY <1>3, <1>4

\* The 502 of a timeout puts the request in doubt: its try may still be
\* processed.
LEMMA TimeoutKeepsOneTry ==
  ASSUME RoutingInv, TwiceInv, NEW a \in inFlight, Timeout(a),
         NEW q \in Request, NoDoubt(q)'
  PROVE  OneTry(q)'
<1>1. /\ inFlight' = (inFlight \ {a}) \cup {[a EXCEPT !.open = FALSE]}
      /\ processed' = processed
      /\ Answer(a, 502)
      /\ a.open
  BY DEF Timeout, ProxyError
<1>2. OneTry(q)
  BY <1>1, AnswersGrow DEF NoDoubt, TwiceInv
<1>3. q # a.request
  BY <1>1, AnswersGrow DEF NoDoubt
<1>4. answers'[q] = answers[q]
  BY <1>1, <1>3, AnswersGrow
<1>5. [a EXCEPT !.open = FALSE].request = a.request
  BY VisitedReplicas DEF RoutingInv, Try
<1> QED
  BY <1>1, <1>2, <1>3, <1>4, <1>5 DEF OneTry

LEMMA SubmitKeepsOneTry ==
  ASSUME RoutingInv, TwiceInv, NEW p \in Request, NEW r \in Replica, Submit(p, r),
         NEW q \in Request, NoDoubt(q)'
  PROVE  OneTry(q)'
<1> DEFINE a == [request |-> p, path |-> <<r>>, step |-> "arrived", open |-> TRUE]
<1>1. /\ inFlight' = inFlight \cup {a}
      /\ answers' = answers /\ processed' = processed
      /\ OpenTries(p) = {} /\ 202 \notin answers[p]
  BY DEF Submit
<1>2. OneTry(q)
  BY <1>1 DEF NoDoubt, TwiceInv
<1>3. a.request = p /\ a.open
  OBVIOUS
<1> HIDE DEF a
<1>4. q = p => \A b \in inFlight : b.request # q
  BY <1>1, <1>2 DEF OneTry, OpenTries
<1> QED
  BY <1>1, <1>2, <1>3, <1>4 DEF OneTry

\* The tries on a process that ends leave their clients without an answer, or
\* with the 502 of the proxy before it.
LEMMA ExitKeepsOneTry ==
  ASSUME RoutingInv, TwiceInv, NEW r \in Replica, ExitAll(r),
         NEW q \in Request, NoDoubt(q)'
  PROVE  OneTry(q)'
<1> DEFINE lost == {IF a.path[1] = r THEN NoAnswer ELSE ProxyError :
                      a \in {b \in Broken(r) : b.request = q /\ b.open}}
<1>1. /\ inFlight' = inFlight \ Broken(r)
      /\ answers'[q] = answers[q] \cup lost
      /\ processed' = processed
  BY DEF ExitAll
<1>2. OneTry(q)
  BY <1>1 DEF NoDoubt, TwiceInv
<1>3. lost = {}
  BY <1>1 DEF NoDoubt, ProxyError
<1> HIDE DEF lost
<1> QED
  BY <1>1, <1>2, <1>3 DEF OneTry

\* Only a client that got a 502, or lost its connection, can cause a request
\* to be processed by two replicas: a 503 is a clean refusal, and a 202 ends
\* the retries (leaderproxy ServeHTTP).
THEOREM TwiceOnlyInDoubtHolds == RoutingSpec => []TwiceOnlyInDoubt
<1>1. RoutingInit => TwiceInv
  BY DEF RoutingInit, TwiceInv, OneTry
<1>2. ASSUME TwiceInv, RoutingInv, [RoutingNext]_vars
      PROVE  TwiceInv'
  <2> SUFFICES ASSUME NEW q \in Request, NoDoubt(q)'
               PROVE  OneTry(q)'
    BY DEF TwiceInv
  <2>1. ASSUME NEW p \in Request, NEW r \in Replica, Submit(p, r)
        PROVE  OneTry(q)'
    BY <1>2, <2>1, SubmitKeepsOneTry
  <2>2. ASSUME NEW a \in inFlight, Route(a)
        PROVE  OneTry(q)'
    <3>1. processed' = processed
      BY <2>2 DEF Route
    <3>2. CASE NoLeaderKnown(a)
      BY <1>2, <3>1, <3>2, EndKeepsOneTry DEF NoLeaderKnown
    <3>3. ASSUME NEW step \in Steps, Proceed(a, [a EXCEPT !.step = step])
          PROVE  OneTry(q)'
      <4>1. [a EXCEPT !.step = step].request = a.request /\ [a EXCEPT !.step = step].open = a.open
        BY <1>2, VisitedReplicas DEF RoutingInv, Try
      <4> QED
        BY <1>2, <3>1, <3>3, <4>1, MoveKeepsOneTry
    <3> QED
      BY <2>2, <3>2, <3>3 DEF Route, Steps
  <2>3. ASSUME NEW a \in inFlight, Rewrite(a)
        PROVE  OneTry(q)'
    <3> DEFINE b == [a EXCEPT !.path = Append(@, currentLeader[At(a)]), !.step = "arrived"]
    <3>1. processed' = processed
      BY <2>3 DEF Rewrite
    <3>2. CASE Finish(a, ProxyError)
      BY <1>2, <3>1, <3>2, EndKeepsOneTry DEF ProxyError
    <3>3. CASE Proceed(a, b)
      <4>1. b.request = a.request /\ b.open = a.open
        BY <1>2, VisitedReplicas DEF RoutingInv, Try
      <4> HIDE DEF b
      <4> QED
        BY <1>2, <3>1, <3>3, <4>1, MoveKeepsOneTry
    <3> QED
      BY <2>3, <3>2, <3>3 DEF Rewrite
  <2>4. ASSUME NEW a \in inFlight, Serve(a) \/ Decline(a) \/ Timeout(a)
        PROVE  OneTry(q)'
    <3>1. CASE Decline(a)
      <4>1. PICK code \in {400, 503} : Finish(a, code) /\ processed' = processed
        BY <3>1 DEF Decline
      <4> QED
        BY <1>2, <4>1, EndKeepsOneTry
    <3> QED
      BY <1>2, <2>4, <3>1, ServeKeepsOneTry, TimeoutKeepsOneTry
  <2>5. ASSUME NEW r \in Replica, ExitAll(r)
        PROVE  OneTry(q)'
    BY <1>2, <2>5, ExitKeepsOneTry
  <2>6. ASSUME NEW r \in Replica, Publish(r)
        PROVE  OneTry(q)'
    BY <1>2, <2>6 DEF Publish, TwiceInv, NoDoubt, OneTry
  <2>7. CASE UNCHANGED routingVars
    BY <1>2, <2>7 DEF routingVars, TwiceInv, NoDoubt, OneTry
  <2>8. CASE UNCHANGED vars
    BY <2>7, <2>8 DEF vars
  <2> QED
    BY <1>2, <2>1, <2>2, <2>3, <2>4, <2>5, <2>6, <2>7, <2>8 DEF RoutingNext
<1>3. ASSUME TwiceInv, RoutingInv
      PROVE  TwiceOnlyInDoubt
  <2> SUFFICES ASSUME NEW q \in Request, NoDoubt(q)
               PROVE  ~ (Cardinality({r \in Replica : <<q, r>> \in processed}) > 1)
    BY DEF TwiceOnlyInDoubt, NoDoubt
  <2> DEFINE served == {r \in Replica : <<q, r>> \in processed}
  <2>1. served = {} \/ \E r \in Replica : served = {r}
    BY <1>3 DEF TwiceInv, OneTry
  <2> HIDE DEF served
  <2>2. Cardinality(served) = 0 \/ Cardinality(served) = 1
    BY <2>1, FS_EmptySet, FS_Singleton
  <2> QED
    BY <2>2 DEF served
<1> QED
  BY <1>1, <1>2, <1>3, RoutingInvariant, PTL DEF RoutingSpec
=============================================================================
