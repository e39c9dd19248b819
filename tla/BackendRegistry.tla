-------------------------- MODULE BackendRegistry --------------------------
(***************************************************************************)
(* How the core knows its remote backends: backend processes register      *)
(* themselves and repeat it as a heartbeat (internal/slackbackend/         *)
(* registrar.go), the registry keeps the latest registration of each name  *)
(* and ignores it once it is older than the TTL (internal/registry), and   *)
(* every call of the publisher looks its backend up twice, when it is      *)
(* resolved and when the request is sent (internal/remotebackend).         *)
(*                                                                         *)
(* A process that is replaced may leave a registration on its way to the   *)
(* core that arrives after its successor's.                                *)
(***************************************************************************)
EXTENDS Integers, FiniteSets

CONSTANTS
  Process,    \* backend processes: [name, url, threads]; each starts once
  Caller,     \* goroutines of the publisher that call backends
  TTL,        \* cfg.BackendRegistryTTL in ticks
  Interval,   \* RegisterInterval in ticks
  MaxDelay,   \* bound: ticks until a registration is answered
  MaxLost,    \* bound: failed registrations of a process in a row
  MaxRestarts \* bound: restarts and failovers of the core

ASSUME TimeAssumption ==
  /\ TTL \in Nat \ {0}          \* config.Validate
  /\ Interval \in Nat \ {0}     \* slackbackend's Config.Validate
  /\ MaxDelay \in Nat /\ MaxLost \in Nat /\ MaxRestarts \in Nat

ASSUME ProcessAssumption ==
  /\ Process # {}
  /\ \A p \in Process : p.threads \in BOOLEAN

VARIABLES
  backends,    \* registry.backends: name -> the entry of the name, or none
  registrar,   \* Registrar.Run of each process
  wire,        \* registrations sent and not answered
  call,        \* what each caller is doing
  restarts     \* restarts of the core so far

vars == <<backends, registrar, wire, call, restarts>>

Name == {p.name : p \in Process}

Entry == [url : {p.url : p \in Process}, threads : BOOLEAN, idle : 0 .. TTL + 1]

-----------------------------------------------------------------------------
TypeOK ==
  /\ backends \in [Name -> SUBSET Entry]
  /\ \A n \in Name : Cardinality(backends[n]) <= 1
  /\ registrar \in [Process -> [phase : {"new", "calling", "waiting", "down"},
                                ticker : BOOLEAN, next : 0 .. Interval, due : BOOLEAN,
                                lost : 0 .. MaxLost, registered : BOOLEAN]]
  /\ wire \subseteq [from : Process, left : 0 .. MaxDelay, arrived : BOOLEAN]
  /\ call \in [Caller -> [phase : {"idle", "resolved", "found", "sent"}, name : Name,
                          reply : BOOLEAN,
                          target : SUBSET [url : {p.url : p \in Process}, threads : BOOLEAN]]]
  /\ restarts \in 0 .. MaxRestarts

NewRegistrar ==
  [phase |-> "new", ticker |-> FALSE, next |-> 0, due |-> FALSE, lost |-> 0, registered |-> FALSE]

NoCall == [phase |-> "idle", name |-> CHOOSE n \in Name : TRUE, reply |-> FALSE, target |-> {}]

Init ==
  /\ backends = [n \in Name |-> {}]
  /\ registrar = [p \in Process |-> NewRegistrar]
  /\ wire = {}
  /\ call = [c \in Caller |-> NoCall]
  /\ restarts = 0

-----------------------------------------------------------------------------
(* The registry.                                                           *)

\* Mutant: an entry is stale at the TTL already.
StaleAtTTL(b) == b.idle >= TTL

IsStale(b) == b.idle > TTL

Lookup(n) == {b \in backends[n] : ~IsStale(b)}

\* Mutant: the test is inverted.
PrunedLive(n) == {b \in backends[n] : IsStale(b)}

\* pruneLocked: what is left of the entry of a name other than the new one.
Pruned(n) == {b \in backends[n] : ~IsStale(b)}

\* Mutants: the new entry joins the live one; a live entry is only refreshed.
EntryAdded(p) == Lookup(p.name) \cup {[url |-> p.url, threads |-> p.threads, idle |-> 0]}
EntryRefreshed(p) ==
  IF Lookup(p.name) # {} THEN {[b EXCEPT !.idle = 0] : b \in backends[p.name]}
  ELSE {[url |-> p.url, threads |-> p.threads, idle |-> 0]}

\* A registration replaces whatever the name had.
EntryOf(p) == {[url |-> p.url, threads |-> p.threads, idle |-> 0]}

Register(p) ==
  backends' = [n \in Name |-> IF n = p.name THEN EntryOf(p) ELSE Pruned(n)]

-----------------------------------------------------------------------------
(* Registrar.Run, one goroutine per process.                               *)

Request(p) == [from |-> p, left |-> MaxDelay, arrived |-> FALSE]

\* Run registers at once, before there is a ticker.
Start(p) ==
  /\ registrar[p].phase = "new"
  /\ registrar' = [registrar EXCEPT ![p].phase = "calling"]
  /\ wire' = wire \cup {Request(p)}
  /\ UNCHANGED <<backends, call, restarts>>

Heartbeat(p) ==
  /\ registrar[p].phase = "waiting" /\ registrar[p].due
  /\ registrar' = [registrar EXCEPT ![p].phase = "calling", ![p].due = FALSE]
  /\ wire' = wire \cup {Request(p)}
  /\ UNCHANGED <<backends, call, restarts>>

\* The core executes Register; the answer is on its way, if the process that
\* waited for it still runs.
Arrive(m) ==
  /\ ~m.arrived
  /\ Register(m.from)
  /\ wire' = (wire \ {m}) \cup
              (IF registrar[m.from].phase = "calling" THEN {[m EXCEPT !.arrived = TRUE]} ELSE {})
  /\ UNCHANGED <<registrar, call, restarts>>

\* register returns and Run goes back to its ticker, which NewTicker has
\* started when the first call returned.
Waiting(r) ==
  [r EXCEPT !.phase = "waiting", !.ticker = TRUE, !.next = IF r.ticker THEN @ ELSE Interval]

\* What an answer, or the lack of one, leaves behind.
Succeeded(r) == [Waiting(r) EXCEPT !.lost = 0, !.registered = TRUE]
LostOne(r) == [Waiting(r) EXCEPT !.lost = r.lost + 1]

Answered(m) ==
  LET p == m.from IN
  /\ m.arrived
  /\ wire' = wire \ {m}
  /\ registrar' = [registrar EXCEPT ![p] = Succeeded(@)]
  /\ UNCHANGED <<backends, call, restarts>>

\* The core refuses, cannot be reached, or its answer is lost.
Failed(m) ==
  LET p == m.from IN
  /\ registrar[p].phase = "calling" => registrar[p].lost < MaxLost
  /\ wire' = wire \ {m}
  /\ registrar' = IF registrar[p].phase = "calling"
                  THEN [registrar EXCEPT ![p] = LostOne(@)]
                  ELSE registrar
  /\ UNCHANGED <<backends, call, restarts>>

\* The process ends; what it has sent may still arrive.
Stop(p) ==
  /\ registrar[p].phase \in {"calling", "waiting"}
  /\ registrar' = [registrar EXCEPT ![p] =
       [NewRegistrar EXCEPT !.phase = "down"]]
  /\ wire' = {m \in wire : m.from = p => ~m.arrived}
  /\ UNCHANGED <<backends, call, restarts>>

\* The ticker's channel holds one tick; a tick nobody has taken is dropped.
Ticked(r) ==
  IF ~r.ticker THEN r
  ELSE IF r.next = 1 THEN [r EXCEPT !.next = Interval, !.due = TRUE]
  ELSE [r EXCEPT !.next = @ - 1]

\* Registrars take their ticks at once and requests meet their bound.
Tick ==
  /\ \A p \in Process : registrar[p].phase = "waiting" => ~registrar[p].due
  /\ \A m \in wire : m.left > 0
  /\ registrar' = [p \in Process |-> Ticked(registrar[p])]
  /\ wire' = {[m EXCEPT !.left = @ - 1] : m \in wire}
  /\ backends' = [n \in Name |->
       {[b EXCEPT !.idle = IF b.idle > TTL THEN b.idle ELSE b.idle + 1] : b \in backends[n]}]
  /\ UNCHANGED <<call, restarts>>

-----------------------------------------------------------------------------
(* Resolver and adapter.                                                   *)

\* What a call takes from an entry: its URL and whether it has threads.
Targets(entries) == {[url |-> b.url, threads |-> b.threads] : b \in entries}

\* Resolve gives the caller an adapter for the name, when the name has a live
\* entry.  What it saw is recorded here; the adapter does not hold it.
Resolve(c, n) ==
  /\ call[c].phase = "idle" /\ Lookup(n) # {}
  /\ call' = [call EXCEPT ![c] =
       [NoCall EXCEPT !.phase = "resolved", !.name = n, !.target = Targets(Lookup(n))]]
  /\ UNCHANGED <<backends, registrar, wire, restarts>>

\* Mutant: whether there are threads is known from Resolve.
ThreadsOfResolve(c) ==
  {[url |-> b.url, threads |-> \E t \in call[c].target : t.threads] : b \in Lookup(call[c].name)}

\* Notify and PostThreadReply look the name up again.
TargetOf(c) == Targets(Lookup(call[c].name))

\* A thread reply is for a backend that has declared threads.  Without a
\* target, Notify and PostThreadReply return an error.
Find(c) ==
  /\ call[c].phase = "resolved"
  /\ \E reply \in BOOLEAN :
       LET target == {b \in TargetOf(c) : reply => b.threads} IN
       call' = [call EXCEPT ![c] =
         IF target = {} THEN NoCall
         ELSE [phase |-> "found", name |-> call[c].name, reply |-> reply, target |-> target]]
  /\ UNCHANGED <<backends, registrar, wire, restarts>>

\* The request, after the lock of the registry was given up: by now the name
\* may have another entry, or none.
Send(c) ==
  /\ call[c].phase = "found"
  /\ call' = [call EXCEPT ![c].phase = "sent"]
  /\ UNCHANGED <<backends, registrar, wire, restarts>>

Complete(c) ==
  /\ call[c].phase = "sent"
  /\ call' = [call EXCEPT ![c] = NoCall]
  /\ UNCHANGED <<backends, registrar, wire, restarts>>

-----------------------------------------------------------------------------
\* The core starts again, or another replica becomes leader: the registry is
\* in memory and starts empty (NewRegistry), and the callers are gone.
Restart ==
  /\ restarts < MaxRestarts
  /\ restarts' = restarts + 1
  /\ backends' = [n \in Name |-> {}]
  /\ call' = [c \in Caller |-> NoCall]
  /\ UNCHANGED <<registrar, wire>>

Next ==
  \/ \E p \in Process : Start(p) \/ Heartbeat(p) \/ Stop(p)
  \/ \E m \in wire : Arrive(m) \/ Answered(m) \/ Failed(m)
  \/ Tick \/ Restart
  \/ \E c \in Caller :
       \/ \E n \in Name : Resolve(c, n)
       \/ Find(c) \/ Send(c) \/ Complete(c)

Spec == Init /\ [][Next]_vars

\* Time passes, requests are answered within their bound, registrars run.
\* Processes need not start or stop, nor the core restart.
FairSpec ==
  /\ Spec
  /\ WF_vars(Tick)
  /\ \A p \in Process :
       /\ WF_vars(Heartbeat(p))
       /\ WF_vars(\E m \in wire : m.from = p /\ (Arrive(m) \/ Answered(m) \/ Failed(m)))

-----------------------------------------------------------------------------
(* Properties.                                                             *)

Up(p) == registrar[p].phase \in {"calling", "waiting"}

\* A backend that runs, has registered and has its name to itself is known to
\* the core at every moment: heartbeats meet the TTL in spite of the slow and
\* the lost ones, whatever entries other registrations prune.
\* Until the first restart of the core.
LiveBackendKnown ==
  restarts = 0 => \A p \in Process :
    /\ Up(p) /\ registrar[p].registered
    /\ \A q \in Process \ {p} : q.name = p.name => registrar[q].phase = "new"
    => \E b \in Lookup(p.name) : b.url = p.url

\* A request under a name reaches a process that has registered under it, and
\* a thread reply one that has declared threads, whatever registers, expires
\* and is pruned between Resolve, the second look-up and the request: what a
\* caller knows of a backend is never put together from two registrations.
CallsReachDeclared ==
  \A c \in Caller : call[c].phase = "sent" =>
    \A t \in call[c].target : \E p \in Process :
      /\ registrar[p].phase # "new"
      /\ p.name = call[c].name /\ p.url = t.url
      /\ call[c].reply => p.threads

\* When a process is the last one of its name, the core ends up with its URL,
\* although registrations of its predecessors may arrive after its own and the
\* core may lose its registry in a restart or failover (the comment on
\* Registrar).
Converges ==
  \A p \in Process :
    <>[](/\ Up(p) /\ registrar[p].registered
         /\ \A q \in Process \ {p} : q.name = p.name => ~Up(q))
    => <>[](\E b \in Lookup(p.name) : b.url = p.url)
=============================================================================
