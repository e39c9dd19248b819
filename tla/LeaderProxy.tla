----------------------------- MODULE LeaderProxy -----------------------------
(***************************************************************************)
(* Request routing between the replicas (internal/leaderproxy/handler.go,  *)
(* leader/pod_resolver.go and the wiring of main.go) on top of Elector.    *)
(*                                                                         *)
(* A request reaches any replica.  The leader serves it, any other replica *)
(* proxies it to the leader it knows, looking the address up twice: once   *)
(* in ServeHTTP and again in the proxy's Rewrite.  The webhook client      *)
(* (external) tries again after a 5xx.  A pod keeps its IP for its life,   *)
(* so an address is identified with the pod's name.                        *)
(***************************************************************************)
EXTENDS Elector, Sequences, SequencesExt

CONSTANTS
  Request,      \* deliveries of the webhook client
  MaxAttempts,  \* bound: tries of one request
  MaxHops       \* bound: replicas one try may visit

ASSUME RequestAssumption ==
  /\ MaxAttempts \in Nat \ {0}
  /\ MaxHops \in Nat \ {0}

VARIABLES
  inFlight,   \* tries being served: request, replicas visited, next step,
              \* and whether the client still waits for the answer
  attempts,   \* tries of each request so far
  answers,    \* status codes the client has got for each request
  cached,     \* PodAddressResolver: the identity whose address is cached
  memory,     \* requests in the replica's in-memory state, not yet published
  processed   \* history: <<request, replica>> for every local ServeHTTP

routingVars == <<inFlight, attempts, answers, cached, memory, processed>>
vars == <<electorVars, routingVars>>

Steps == {"arrived", "local", "forward"}

\* What a client sees of a broken connection.
NoAnswer == 0

\* Mutant: an ErrorHandler that answers like the refusal does.
ProxyErrorAs503 == 503

\* The default ErrorHandler of httputil.ReverseProxy.
ProxyError == 502

RoutingTypeOK ==
  /\ TypeOK
  /\ \A a \in inFlight : /\ a.request \in Request
                         /\ a.path \in Seq(Replica) /\ Len(a.path) \in 1 .. MaxHops
                         /\ a.step \in Steps
                         /\ a.open \in BOOLEAN
  /\ attempts \in [Request -> 0 .. MaxAttempts]
  /\ answers \in [Request -> SUBSET {202, 400, 502, 503, NoAnswer}]
  /\ cached \in [Replica -> Replica \cup {NoLeader}]
  /\ memory \in [Replica -> SUBSET Request]
  /\ processed \subseteq Request \X Replica

RoutingInit ==
  /\ Init
  /\ inFlight = {}
  /\ attempts = [q \in Request |-> 0]
  /\ answers = [q \in Request |-> {}]
  /\ cached = [r \in Replica |-> NoLeader]
  /\ memory = [r \in Replica |-> {}]
  /\ processed = {}

-----------------------------------------------------------------------------
(* Tries and their answers.                                                *)

At(a) == a.path[Len(a.path)]

OpenTries(q) == {a \in inFlight : a.request = q /\ a.open}

\* The answer travels back along the path, if anybody still waits for it.
Answer(a, status) ==
  answers' = IF a.open THEN [answers EXCEPT ![a.request] = @ \cup {status}]
                       ELSE answers

\* The try ends here.
Finish(a, status) ==
  /\ Answer(a, status)
  /\ inFlight' = inFlight \ {a}

Proceed(a, b) ==
  /\ inFlight' = (inFlight \ {a}) \cup {b}
  /\ UNCHANGED answers

\* The Service sends the try to some replica; one that shuts down listens no
\* more.  The client tries again unless it got a 202 or a 400.
Submit(q, r) ==
  /\ r \notin canceled
  /\ OpenTries(q) = {}
  /\ answers[q] \cap {202, 400} = {}
  /\ attempts[q] < MaxAttempts
  /\ attempts' = [attempts EXCEPT ![q] = @ + 1]
  /\ inFlight' = inFlight \cup {[request |-> q, path |-> <<r>>, step |-> "arrived", open |-> TRUE]}
  /\ UNCHANGED <<answers, cached, memory, processed, electorVars>>

-----------------------------------------------------------------------------
(* leaderAddr of main.go: CurrentLeader, then PodAddressResolver.Resolve.  *)

\* Pods.Get is spared when the address of this identity is cached; it may
\* fail, and does for the empty identity.
Resolves(r) == currentLeader[r] # NoLeader
ResolveFails(r) == currentLeader[r] = NoLeader \/ cached[r] # currentLeader[r]

CacheAfterResolve(r) == [cached EXCEPT ![r] = currentLeader[r]]

-----------------------------------------------------------------------------
(* ServeHTTP of leaderproxy.                                               *)

NoLeaderKnown(a) == Finish(a, 503)

\* Mutant: any replica that knows a leader takes itself for one.
KnowsLeader(r) == currentLeader[r] # NoLeader

IsLeader(r) == leading[r]

Route(a) ==
  LET r == At(a) IN
    /\ a.step = "arrived"
    /\ \/ /\ IsLeader(r)
          /\ Proceed(a, [a EXCEPT !.step = "local"])
          /\ UNCHANGED cached
       \/ /\ ~ IsLeader(r)
          /\ ResolveFails(r)
          /\ NoLeaderKnown(a)
          /\ UNCHANGED cached
       \/ /\ ~ IsLeader(r)
          /\ Resolves(r)
          /\ Proceed(a, [a EXCEPT !.step = "forward"])
          /\ cached' = CacheAfterResolve(r)
    /\ UNCHANGED <<attempts, memory, processed, electorVars>>

\* The target of the proxy is looked up again.  Without an address, or when
\* the target refuses connections, the proxy answers 502; so it does when
\* its own caller is gone, which cancels the round trip.
Rewrite(a) ==
  LET r == At(a)
      target == currentLeader[r] IN
    /\ a.step = "forward"
    /\ \/ /\ ResolveFails(r)
          /\ Finish(a, ProxyError)
          /\ UNCHANGED cached
       \/ /\ Resolves(r)
          /\ target \in canceled \/ ~ a.open
          /\ Finish(a, ProxyError)
          /\ cached' = CacheAfterResolve(r)
       \/ /\ Resolves(r)
          /\ target \notin canceled
          /\ a.open
          /\ Len(a.path) < MaxHops
          /\ Proceed(a, [a EXCEPT !.path = Append(@, target), !.step = "arrived"])
          /\ cached' = CacheAfterResolve(r)
    /\ UNCHANGED <<attempts, memory, processed, electorVars>>

\* The local handler takes the request into the state of this replica.
Serve(a) ==
  LET r == At(a) IN
    /\ a.step = "local"
    /\ Finish(a, 202)
    /\ memory' = [memory EXCEPT ![r] = @ \cup {a.request}]
    /\ processed' = processed \cup {<<a.request, r>>}
    /\ UNCHANGED <<attempts, cached, electorVars>>

\* The local handler finds the request invalid or its queue full.
Decline(a) ==
  /\ a.step = "local"
  /\ \E status \in {400, 503} : Finish(a, status)
  /\ UNCHANGED <<attempts, cached, memory, processed, electorVars>>

\* Mutant: a Transport without ResponseHeaderTimeout.
NeverTimesOut(a) == FALSE

TimesOut(a) == Len(a.path) > 1

\* ResponseHeaderTimeout: a proxy on the path answers 502 and drops its
\* connection.  The handler at the end of the path runs on.
Timeout(a) ==
  /\ a.open
  /\ TimesOut(a)
  /\ Answer(a, ProxyError)
  /\ inFlight' = (inFlight \ {a}) \cup {[a EXCEPT !.open = FALSE]}
  /\ UNCHANGED <<attempts, cached, memory, processed, electorVars>>

\* The engine publishes and forgets.  It runs on the context of the process
\* and knows nothing of leadership.
Publish(r) ==
  /\ memory[r] # {}
  /\ memory' = [memory EXCEPT ![r] = {}]
  /\ UNCHANGED <<inFlight, attempts, answers, cached, processed, electorVars>>

\* The process ends with everything in it: the tries on it break.
Broken(r) == {a \in inFlight : Contains(a.path, r)}

ExitAll(r) ==
  /\ Exit(r)
  /\ inFlight' = inFlight \ Broken(r)
  /\ answers' = [q \in Request |-> answers[q] \cup
                   {IF a.path[1] = r THEN NoAnswer ELSE ProxyError :
                      a \in {b \in Broken(r) : b.request = q /\ b.open}}]
  /\ cached' = [cached EXCEPT ![r] = NoLeader]
  /\ memory' = [memory EXCEPT ![r] = {}]
  /\ UNCHANGED <<attempts, processed>>

RoutingNext ==
  \/ \E q \in Request, r \in Replica : Submit(q, r)
  \/ \E a \in inFlight : Route(a) \/ Rewrite(a) \/ Serve(a) \/ Decline(a) \/ Timeout(a)
  \/ \E r \in Replica : Publish(r) \/ ExitAll(r)
  \/ UNCHANGED routingVars /\ (Tick \/ \E r \in Replica : ElectorStep(r))

RoutingSpec == RoutingInit /\ [][RoutingNext]_vars

\* Each HTTP goroutine is scheduled, each header timeout fires, and the
\* election is as fair as in Elector: nothing makes a renewal succeed.
RoutingFairness ==
  /\ WF_vars(\E a \in inFlight : Route(a))
  /\ WF_vars(\E a \in inFlight : Rewrite(a))
  /\ WF_vars(\E a \in inFlight : Serve(a) \/ Decline(a))
  /\ WF_vars(\E a \in inFlight : Timeout(a))
  /\ WF_vars(UNCHANGED routingVars /\ Tick)
  /\ \A r \in Replica :
       /\ WF_vars(UNCHANGED routingVars /\
                  (Acquire(r) \/ Observe(r) \/ GiveUp(r) \/ Release(r) \/ OnStoppedLeading(r)))
       /\ WF_vars(UNCHANGED routingVars /\ (OnStartedLeading(r) \/ OnNewLeader(r)))
       /\ WF_vars(r \in canceled /\ ExitAll(r))

RoutingFairSpec == RoutingSpec /\ RoutingFairness

-----------------------------------------------------------------------------
(* Properties.                                                             *)

\* A 503 is a clean refusal that a client may retry: only a
\* request that once got a 502, or lost its connection, can be processed
\* twice (leaderproxy ServeHTTP).
TwiceOnlyInDoubt ==
  \A q \in Request :
    Cardinality({r \in Replica : <<q, r>> \in processed}) > 1 =>
      answers[q] \cap {502, NoAnswer} # {}

\* The in-memory state exists only where leadership was won: a replica that
\* still campaigns has none (leaderproxy ServeHTTP, and the empty state of a
\* restarted process).
StateOnlyOnLeaders ==
  \A r \in Replica : memory[r] # {} => stage[r] # "campaigning"

\* Every try is answered, also one that is sent around in circles: the
\* header timeout of a proxy ends it (leaderproxy New).
EveryTryAnswered ==
  \A q \in Request : OpenTries(q) # {} ~> OpenTries(q) = {}

-----------------------------------------------------------------------------
(* What the documents say and the code does not keep: counterexamples are  *)
(* described in the README, and no passing run checks these.               *)

\* leaderproxy/handler.go: every replica may be an endpoint "while still
\* guaranteeing exactly one instance ever actually processes a request".
ProcessedByOne ==
  \A q \in Request : Cardinality({r \in Replica : <<q, r>> \in processed}) <= 1

\* docs/design.md: "Exactly one replica is active at any time": the state of
\* the aggregation lives in one replica.
OneActive == Cardinality({r \in Replica : memory[r] # {}}) <= 1

\* docs/design.md: "A non-leader forwards the request through a reverse proxy
\* to the replica that holds the lease": never back to itself without it.
ForwardsOnlyToHolder ==
  [][\A a \in inFlight' \ inFlight :
       Len(a.path) > 1 /\ a.step = "arrived" =>
         a.path[Len(a.path)] # a.path[Len(a.path) - 1] \/ holder = At(a)]_vars
=============================================================================
