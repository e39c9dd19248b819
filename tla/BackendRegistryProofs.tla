------------------------ MODULE BackendRegistryProofs ------------------------
(***************************************************************************)
(* Proofs about the registry of the backends and their heartbeats, for any *)
(* processes and callers, any TTL and any interval.                        *)
(***************************************************************************)
EXTENDS BackendRegistry, FiniteSetTheorems, TLAPS

RegistrarType == [phase : {"new", "calling", "waiting", "down"}, ticker : BOOLEAN,
                  next : 0 .. Interval, due : BOOLEAN, lost : 0 .. MaxLost,
                  registered : BOOLEAN]
MessageType == [from : Process, left : 0 .. MaxDelay, arrived : BOOLEAN]
CallType == [phase : {"idle", "resolved", "found", "sent"}, name : Name, reply : BOOLEAN,
             target : SUBSET [url : {p.url : p \in Process}, threads : BOOLEAN]]

\* A name has one entry at most: a registration replaces, it does not add.
BackendsInv ==
  /\ backends \in [Name -> SUBSET Entry]
  /\ \A n \in Name : \A b, d \in backends[n] : b = d

\* A ticker that runs has its next tick ahead.
RegistrarInv ==
  /\ registrar \in [Process -> RegistrarType]
  /\ \A p \in Process : registrar[p].ticker => registrar[p].next # 0

WireOK == wire \subseteq MessageType
CallOK == call \in [Caller -> CallType]
RestartsOK == restarts \in 0 .. MaxRestarts

TypeInv == BackendsInv /\ RegistrarInv /\ WireOK /\ CallOK /\ RestartsOK

\* What is on the wire of a process that runs: the registration it waits for.
WireInv ==
  /\ \A m, o \in wire : m.from = o.from => m = o
  /\ \A m \in wire : /\ registrar[m.from].phase \in {"calling", "down"}
                     /\ m.arrived => registrar[m.from].phase = "calling"
  /\ \A p \in Process :
       registrar[p].phase = "calling" => \E m \in wire : m.from = p

\* A heartbeat is sent a period after the last one, or when that one is over.
Period == IF MaxDelay > Interval THEN MaxDelay ELSE Interval

\* How old an entry is at most when its process, having lost l registrations
\* in a row, sends the next one.
Budget(l) == MaxDelay + Interval + l * Period

\* What an operator has to configure: the TTL outlives as many lost heartbeats
\* in a row as can happen, each as slow as it can be.
HeartbeatsMeetTTL == Budget(MaxLost) + MaxDelay <= TTL

Alone(p) == \A q \in Process \ {p} : q.name = p.name => registrar[q].phase = "new"

UntilDue(p) == IF registrar[p].due THEN 0 ELSE registrar[p].next

\* There is an entry with this URL, and when so many more ticks have passed
\* it is not older than the bound.
KnownIn(entries, url, ticks, bound) ==
  \E b \in entries : b.url = url /\ b.idle + ticks <= bound

Known(p, ticks, bound) == KnownIn(backends[p.name], p.url, ticks, bound)

\* A registration under way.
CallingInv(p, m) ==
  IF m.arrived THEN Known(p, m.left, MaxDelay)
  ELSE registrar[p].registered =>
    /\ Known(p, m.left, Budget(registrar[p].lost) + MaxDelay)
    /\ ~ registrar[p].due /\ registrar[p].lost < MaxLost =>
         Known(p, registrar[p].next, Budget(registrar[p].lost) + Interval)

KnownAt(p) ==
  /\ registrar[p].phase = "calling" => \A m \in wire : m.from = p => CallingInv(p, m)
  /\ registrar[p].phase = "waiting" /\ registrar[p].registered
       => Known(p, UntilDue(p), Budget(registrar[p].lost))
  /\ registrar[p].registered => registrar[p].ticker /\ registrar[p].phase # "new"

KnownInv == restarts = 0 => \A p \in Process : Alone(p) => KnownAt(p)
-----------------------------------------------------------------------------
(* Types.                                                                  *)

LEMMA SmallNumbers ==
  /\ Interval \in 0 .. Interval /\ 0 \in 0 .. Interval /\ Interval # 0
  /\ 0 \in 0 .. MaxLost
  /\ MaxDelay \in 0 .. MaxDelay
BY TimeAssumption

LEMMA WaitingType ==
  ASSUME NEW r \in RegistrarType, r.ticker => r.next # 0
  PROVE  /\ Waiting(r) \in RegistrarType
         /\ Waiting(r).phase = "waiting" /\ Waiting(r).ticker /\ Waiting(r).next # 0
         /\ Waiting(r).next = IF r.ticker THEN r.next ELSE Interval
         /\ Waiting(r).due = r.due /\ Waiting(r).lost = r.lost
         /\ Waiting(r).registered = r.registered
<1>1. (IF r.ticker THEN r.next ELSE Interval) \in 0 .. Interval
  BY SmallNumbers DEF RegistrarType
<1>2. Waiting(r) = [r EXCEPT !.phase = "waiting", !.ticker = TRUE,
                            !.next = IF r.ticker THEN r.next ELSE Interval]
  BY DEF Waiting
<1>3. Waiting(r) \in RegistrarType
  BY <1>1, <1>2 DEF RegistrarType
<1> QED
  BY <1>2, <1>3, SmallNumbers DEF RegistrarType

LEMMA TickedType ==
  ASSUME NEW r \in RegistrarType, r.ticker => r.next # 0
  PROVE  /\ Ticked(r) \in RegistrarType
         /\ Ticked(r).phase = r.phase /\ Ticked(r).ticker = r.ticker
         /\ Ticked(r).lost = r.lost /\ Ticked(r).registered = r.registered
         /\ r.ticker => /\ Ticked(r).next # 0
                        /\ r.next = 1 => Ticked(r).due
                        /\ r.next # 1 => Ticked(r).due = r.due /\ Ticked(r).next = r.next - 1
<1>1. CASE ~ r.ticker
  BY <1>1 DEF Ticked
<1>2. CASE r.ticker /\ r.next = 1
  <2>1. Ticked(r) = [r EXCEPT !.next = Interval, !.due = TRUE]
    BY <1>2 DEF Ticked
  <2> QED
    BY <1>2, <2>1, SmallNumbers DEF RegistrarType
<1>3. CASE r.ticker /\ r.next # 1
  <2>1. Ticked(r) = [r EXCEPT !.next = r.next - 1]
    BY <1>3 DEF Ticked
  <2>2. r.next - 1 \in 0 .. Interval /\ r.next - 1 # 0
    BY <1>3, TimeAssumption DEF RegistrarType
  <2> QED
    BY <1>3, <2>1, <2>2 DEF RegistrarType
<1> QED
  BY <1>1, <1>2, <1>3

LEMMA NameOf ==
  /\ \A p \in Process : p.name \in Name
  /\ NoCall \in CallType /\ NoCall.phase = "idle"
<1>1. \E n : n \in Name
  BY ProcessAssumption DEF Name
<1>2. (CHOOSE n \in Name : TRUE) \in Name
  BY <1>1
<1> QED
  BY <1>2 DEF Name, NoCall, CallType

LEMMA StartTypes ==
  ASSUME TypeInv, NEW p \in Process, Start(p) \/ Heartbeat(p)
  PROVE  TypeInv'
<1> USE DEF TypeInv
<1>1. RegistrarInv'
  BY DEF Start, Heartbeat, RegistrarInv, RegistrarType
<1>2. WireOK'
  <2>1. Request(p) \in MessageType
    BY SmallNumbers DEF Request, MessageType
  <2> QED
    BY <2>1 DEF Start, Heartbeat, WireOK
<1>3. BackendsInv' /\ CallOK' /\ RestartsOK'
  BY DEF Start, Heartbeat, BackendsInv, CallOK, RestartsOK
<1> QED
  BY <1>1, <1>2, <1>3

LEMMA StopTypes ==
  ASSUME TypeInv, NEW p \in Process, Stop(p)
  PROVE  TypeInv'
<1> USE DEF TypeInv
<1>1. RegistrarInv'
  <2>1. [NewRegistrar EXCEPT !.phase = "down"] \in RegistrarType
    BY SmallNumbers DEF NewRegistrar, RegistrarType
  <2>2. ~ [NewRegistrar EXCEPT !.phase = "down"].ticker
    BY DEF NewRegistrar
  <2> QED
    BY <2>1, <2>2 DEF Stop, RegistrarInv
<1>2. WireOK'
  BY DEF Stop, WireOK
<1>3. BackendsInv' /\ CallOK' /\ RestartsOK'
  BY DEF Stop, BackendsInv, CallOK, RestartsOK
<1> QED
  BY <1>1, <1>2, <1>3

\* Register replaces the entry of one name and prunes the others.
LEMMA RegisterKeepsOne ==
  ASSUME BackendsInv, NEW p \in Process, Register(p)
  PROVE  BackendsInv'
<1>1. \A n \in Name : backends'[n] = EntryOf(p) \/ backends'[n] \subseteq backends[n]
  BY DEF Register, Pruned
<1>2. EntryOf(p) \in SUBSET Entry /\ \A b, d \in EntryOf(p) : b = d
  BY ProcessAssumption, TimeAssumption DEF EntryOf, Entry
<1>3. \A n \in Name : backends'[n] \in SUBSET Entry
  BY <1>1, <1>2 DEF BackendsInv
<1>4. \A n \in Name : \A b, d \in backends'[n] : b = d
  BY <1>1, <1>2 DEF BackendsInv
<1>5. backends' = [n \in Name |-> backends'[n]]
  BY DEF Register
<1> QED
  BY <1>3, <1>4, <1>5 DEF BackendsInv

LEMMA ArriveTypes ==
  ASSUME TypeInv, NEW m \in wire, Arrive(m)
  PROVE  TypeInv'
<1> USE DEF TypeInv
<1>1. m \in MessageType
  BY DEF WireOK
<1>2. BackendsInv'
  BY <1>1, RegisterKeepsOne DEF Arrive, MessageType
<1>3. WireOK'
  <2>1. [m EXCEPT !.arrived = TRUE] \in MessageType
    BY <1>1 DEF MessageType
  <2> QED
    BY <2>1 DEF Arrive, WireOK
<1>4. RegistrarInv' /\ CallOK' /\ RestartsOK'
  BY DEF Arrive, RegistrarInv, CallOK, RestartsOK
<1> QED
  BY <1>2, <1>3, <1>4

\* A registrar after an answered call, and after a lost one.
LEMMA OutcomeType ==
  ASSUME NEW r \in RegistrarType, r.ticker => r.next # 0
  PROVE  /\ Succeeded(r) \in RegistrarType
         /\ r.lost < MaxLost => LostOne(r) \in RegistrarType
         /\ \A s \in {Succeeded(r), LostOne(r)} :
              /\ s.phase = "waiting" /\ s.ticker /\ s.next # 0 /\ s.due = r.due
              /\ s.next = IF r.ticker THEN r.next ELSE Interval
         /\ Succeeded(r).lost = 0
         /\ LostOne(r).lost = r.lost + 1 /\ LostOne(r).registered = r.registered
<1> DEFINE w == Waiting(r)
<1>1. /\ w \in RegistrarType
      /\ w.phase = "waiting" /\ w.ticker /\ w.next # 0 /\ w.due = r.due
      /\ w.next = IF r.ticker THEN r.next ELSE Interval
      /\ w.registered = r.registered
  BY WaitingType
<1>2. /\ Succeeded(r) = [w EXCEPT !.lost = 0, !.registered = TRUE]
      /\ LostOne(r) = [w EXCEPT !.lost = r.lost + 1]
  BY DEF Succeeded, LostOne
<1> HIDE DEF w
<1>3. Succeeded(r) \in RegistrarType
  BY <1>1, <1>2, SmallNumbers DEF RegistrarType
<1>4. ASSUME r.lost < MaxLost
      PROVE  LostOne(r) \in RegistrarType
  <2>1. r.lost + 1 \in 0 .. MaxLost
    BY <1>4, TimeAssumption DEF RegistrarType
  <2> QED
    BY <1>1, <1>2, <2>1 DEF RegistrarType
<1> QED
  BY <1>1, <1>2, <1>3, <1>4 DEF RegistrarType

LEMMA AnsweredTypes ==
  ASSUME TypeInv, NEW m \in wire, Answered(m) \/ Failed(m)
  PROVE  TypeInv'
<1> USE DEF TypeInv
<1>1. m.from \in Process
  BY DEF WireOK, MessageType
<1>2. RegistrarInv'
  <2>1. registrar[m.from] \in RegistrarType /\ (registrar[m.from].ticker => registrar[m.from].next # 0)
    BY <1>1 DEF RegistrarInv
  <2>2. PICK s : /\ s \in RegistrarType /\ (s.ticker => s.next # 0)
                 /\ registrar' = [registrar EXCEPT ![m.from] = s]
    <3>1. CASE Answered(m)
      BY <2>1, <3>1, OutcomeType DEF Answered
    <3>2. CASE Failed(m) /\ registrar[m.from].phase = "calling"
      <4>1. /\ registrar[m.from].lost < MaxLost
            /\ registrar' = [registrar EXCEPT ![m.from] = LostOne(registrar[m.from])]
        BY <3>2 DEF Failed
      <4> QED
        BY <2>1, <4>1, OutcomeType
    <3>3. CASE Failed(m) /\ registrar[m.from].phase # "calling"
      <4>1. registrar' = [registrar EXCEPT ![m.from] = registrar[m.from]]
        BY <3>3 DEF Failed, RegistrarInv
      <4> QED
        BY <2>1, <4>1
    <3> QED
      BY <3>1, <3>2, <3>3
  <2> QED
    BY <1>1, <2>2 DEF RegistrarInv
<1>3. WireOK'
  BY DEF Answered, Failed, WireOK
<1>4. BackendsInv' /\ CallOK' /\ RestartsOK'
  BY DEF Answered, Failed, BackendsInv, CallOK, RestartsOK
<1> QED
  BY <1>2, <1>3, <1>4

Older(b) == [b EXCEPT !.idle = IF b.idle > TTL THEN b.idle ELSE b.idle + 1]

LEMMA OlderType ==
  ASSUME NEW b \in Entry
  PROVE  /\ Older(b) \in Entry /\ Older(b).url = b.url
         /\ b.idle <= TTL => Older(b).idle = b.idle + 1
BY TimeAssumption DEF Older, Entry

LEMMA TickTypes ==
  ASSUME TypeInv, Tick
  PROVE  TypeInv'
<1> USE DEF TypeInv
<1>1. RegistrarInv'
  <2>1. registrar' = [p \in Process |-> Ticked(registrar[p])]
    BY DEF Tick
  <2> QED
    BY <2>1, TickedType DEF RegistrarInv
<1>2. WireOK'
  <2>1. \A m \in wire : [m EXCEPT !.left = @ - 1] \in MessageType
    BY TimeAssumption DEF Tick, WireOK, MessageType
  <2> QED
    BY <2>1 DEF Tick, WireOK
<1>3. BackendsInv'
  <2>1. backends' = [n \in Name |-> {Older(b) : b \in backends[n]}]
    BY DEF Tick, Older
  <2>2. \A n \in Name : {Older(b) : b \in backends[n]} \subseteq Entry
    BY OlderType DEF BackendsInv
  <2>3. \A n \in Name : \A b, d \in {Older(e) : e \in backends[n]} : b = d
    BY DEF BackendsInv
  <2> QED
    BY <2>1, <2>2, <2>3 DEF BackendsInv
<1>4. CallOK' /\ RestartsOK'
  BY DEF Tick, CallOK, RestartsOK
<1> QED
  BY <1>1, <1>2, <1>3, <1>4

LEMMA TargetTypes ==
  ASSUME BackendsInv, NEW n \in Name
  PROVE  Targets(Lookup(n)) \subseteq [url : {p.url : p \in Process}, threads : BOOLEAN]
BY DEF BackendsInv, Targets, Lookup, Entry

LEMMA CallerTypes ==
  ASSUME TypeInv, NEW c \in Caller,
         (\E n \in Name : Resolve(c, n)) \/ Find(c) \/ Send(c) \/ Complete(c)
  PROVE  TypeInv'
<1> USE DEF TypeInv
<1>1. BackendsInv' /\ RegistrarInv' /\ WireOK' /\ RestartsOK'
  BY DEF Resolve, Find, Send, Complete, BackendsInv, RegistrarInv, WireOK, RestartsOK
<1>2. \E v \in CallType : call' = [call EXCEPT ![c] = v]
  <2>1. ASSUME NEW n \in Name, Resolve(c, n)
        PROVE  \E v \in CallType : call' = [call EXCEPT ![c] = v]
    BY <2>1, TargetTypes, NameOf DEF Resolve, CallType, NoCall
  <2>2. CASE Find(c)
    <3>1. PICK reply \in BOOLEAN :
            LET target == {b \in TargetOf(c) : reply => b.threads} IN
            call' = [call EXCEPT ![c] =
              IF target = {} THEN NoCall
              ELSE [phase |-> "found", name |-> call[c].name, reply |-> reply, target |-> target]]
      BY <2>2 DEF Find
    <3>2. call[c] \in CallType
      BY DEF CallOK
    <3>3. TargetOf(c) \subseteq [url : {p.url : p \in Process}, threads : BOOLEAN]
      BY <3>2, TargetTypes DEF TargetOf, CallType
    <3> DEFINE target == {b \in TargetOf(c) : reply => b.threads}
               found == [phase |-> "found", name |-> call[c].name, reply |-> reply, target |-> target]
    <3>4. found \in CallType
      BY <3>2, <3>3 DEF CallType
    <3> HIDE DEF target
    <3>5. call' = [call EXCEPT ![c] = IF target = {} THEN NoCall ELSE found]
      BY <3>1 DEF target
    <3> HIDE DEF found
    <3> QED
      BY <3>4, <3>5, NameOf
  <2>4. CASE Send(c)
    <3>1. PICK sent : sent = [call[c] EXCEPT !.phase = "sent"]
      OBVIOUS
    <3>2. sent \in CallType /\ call' = [call EXCEPT ![c] = sent]
      BY <2>4, <3>1 DEF Send, CallOK, CallType
    <3> QED
      BY <3>2
  <2>3. CASE Complete(c)
    BY <2>3, NameOf DEF Complete
  <2> QED
    BY <2>1, <2>2, <2>3, <2>4
<1>3. CallOK'
  BY <1>2 DEF CallOK
<1> QED
  BY <1>1, <1>3

LEMMA RestartTypes ==
  ASSUME TypeInv, Restart
  PROVE  TypeInv'
<1> USE DEF TypeInv
<1>1. BackendsInv' /\ RegistrarInv' /\ WireOK'
  BY DEF Restart, BackendsInv, RegistrarInv, WireOK
<1>2. CallOK'
  BY NameOf DEF Restart, CallOK
<1>3. RestartsOK'
  BY TimeAssumption DEF Restart, RestartsOK
<1> QED
  BY <1>1, <1>2, <1>3

LEMMA TypeInvariant == Spec => []TypeInv
<1>1. ASSUME Init
      PROVE  TypeInv
  <2>1. BackendsInv
    BY <1>1 DEF Init, BackendsInv
  <2>2. RegistrarInv
    BY <1>1, TimeAssumption DEF Init, RegistrarInv, RegistrarType, NewRegistrar
  <2>3. WireOK /\ RestartsOK
    BY <1>1, TimeAssumption DEF Init, WireOK, RestartsOK
  <2>4. CallOK
    BY <1>1, NameOf DEF Init, CallOK
  <2> QED
    BY <2>1, <2>2, <2>3, <2>4 DEF TypeInv
<1>2. ASSUME TypeInv, [Next]_vars
      PROVE  TypeInv'
  <2>1. ASSUME NEW p \in Process, Start(p) \/ Heartbeat(p) \/ Stop(p)
        PROVE  TypeInv'
    BY <1>2, <2>1, StartTypes, StopTypes
  <2>2. ASSUME NEW m \in wire, Arrive(m) \/ Answered(m) \/ Failed(m)
        PROVE  TypeInv'
    BY <1>2, <2>2, ArriveTypes, AnsweredTypes
  <2>3. ASSUME NEW c \in Caller, (\E n \in Name : Resolve(c, n)) \/ Find(c) \/ Send(c) \/ Complete(c)
        PROVE  TypeInv'
    BY <1>2, <2>3, CallerTypes
  <2>4. CASE Tick \/ Restart
    BY <1>2, <2>4, TickTypes, RestartTypes
  <2>5. CASE UNCHANGED vars
    BY <1>2, <2>5 DEF vars, TypeInv, BackendsInv, RegistrarInv, WireOK, CallOK, RestartsOK
  <2> QED
    BY <1>2, <2>1, <2>2, <2>3, <2>4, <2>5 DEF Next
<1> QED
  BY <1>1, <1>2, PTL DEF Spec

\* The types of registry, registrars and callers; a name never has two
\* entries (Registry.Register replaces).
THEOREM RegistryTypeCorrect == Spec => []TypeOK
<1>1. ASSUME BackendsInv, NEW n \in Name
      PROVE  Cardinality(backends[n]) <= 1
  <2>1. backends[n] = {} \/ \E b : backends[n] = {b}
    BY <1>1 DEF BackendsInv
  <2>2. Cardinality(backends[n]) = 0 \/ Cardinality(backends[n]) = 1
    BY <2>1, FS_EmptySet, FS_Singleton
  <2> QED
    BY <2>2
<1>2. TypeInv => TypeOK
  BY <1>1 DEF TypeInv, BackendsInv, RegistrarInv, RegistrarType, WireOK, MessageType,
     CallOK, CallType, RestartsOK, TypeOK
<1> QED
  BY <1>2, TypeInvariant, PTL

-----------------------------------------------------------------------------
(* Live backends.                                                          *)

LEMMA StartWire ==
  ASSUME TypeInv, WireInv, NEW p \in Process, Start(p) \/ Heartbeat(p)
  PROVE  WireInv'
<1> DEFINE new == Request(p)
<1>1. /\ registrar[p].phase \in {"new", "waiting"}
      /\ registrar'[p].phase = "calling"
      /\ \A q \in Process \ {p} : registrar'[q] = registrar[q]
      /\ wire' = wire \cup {new} /\ new.from = p /\ ~ new.arrived
  BY DEF Start, Heartbeat, Request, TypeInv, RegistrarInv, RegistrarType
<1>2. \A m \in wire : m.from \in Process /\ m.from # p
  BY <1>1 DEF WireInv, TypeInv, WireOK, MessageType
<1> HIDE DEF new
<1> QED
  BY <1>1, <1>2 DEF WireInv

LEMMA StopWire ==
  ASSUME TypeInv, WireInv, NEW p \in Process, Stop(p)
  PROVE  WireInv'
<1>1. /\ registrar'[p].phase = "down"
      /\ \A q \in Process \ {p} : registrar'[q] = registrar[q]
      /\ wire' = {m \in wire : m.from = p => ~ m.arrived}
  BY DEF Stop, NewRegistrar, TypeInv, RegistrarInv
<1> QED
  BY <1>1 DEF WireInv, TypeInv, WireOK, MessageType

LEMMA ArriveWire ==
  ASSUME TypeInv, WireInv, NEW m \in wire, Arrive(m)
  PROVE  WireInv'
<1> DEFINE new == [m EXCEPT !.arrived = TRUE]
<1>1. /\ registrar' = registrar
      /\ wire' = (wire \ {m}) \cup
                  (IF registrar[m.from].phase = "calling" THEN {new} ELSE {})
  BY DEF Arrive
<1>2. m.from \in Process /\ new.from = m.from
  BY DEF TypeInv, WireOK, MessageType
<1> HIDE DEF new
<1> QED
  BY <1>1, <1>2 DEF WireInv

LEMMA AnsweredWire ==
  ASSUME TypeInv, WireInv, NEW m \in wire, Answered(m) \/ Failed(m)
  PROVE  WireInv'
<1>1. m.from \in Process /\ wire' = wire \ {m}
  BY DEF Answered, Failed, TypeInv, WireOK, MessageType
<1>2. \A q \in Process \ {m.from} : registrar'[q] = registrar[q]
  BY <1>1 DEF Answered, Failed, TypeInv, RegistrarInv
<1>3. registrar'[m.from].phase # "calling"
  BY <1>1, OutcomeType DEF Answered, Failed, TypeInv, RegistrarInv, WireInv
<1>4. \A o \in wire' : o.from # m.from
  BY <1>1 DEF WireInv
<1> QED
  BY <1>1, <1>2, <1>3, <1>4 DEF WireInv, TypeInv, WireOK, MessageType

Later(m) == [m EXCEPT !.left = m.left - 1]

LEMMA LaterFacts ==
  ASSUME TypeInv, Tick
  PROVE  /\ wire' = {Later(m) : m \in wire}
         /\ \A m \in wire : /\ m.from \in Process
                            /\ Later(m).from = m.from /\ Later(m).arrived = m.arrived
                            /\ Later(m).left = m.left - 1 /\ m.left > 0
<1>1. wire' = {Later(m) : m \in wire}
  BY DEF Tick, Later
<1>2. \A m \in wire : m \in MessageType /\ m.left > 0
  BY DEF TypeInv, WireOK, Tick
<1> QED
  BY <1>1, <1>2 DEF MessageType, Later

LEMMA TickWire ==
  ASSUME TypeInv, WireInv, Tick
  PROVE  WireInv'
<1>1. \A p \in Process : registrar'[p].phase = registrar[p].phase
  BY TickedType DEF Tick, TypeInv, RegistrarInv
<1>2. \A o \in wire' : \E m \in wire : /\ o = Later(m) /\ m.from \in Process
                                     /\ o.from = m.from /\ o.arrived = m.arrived
  BY LaterFacts
<1>3. \A m \in wire : Later(m) \in wire' /\ Later(m).from = m.from
  BY LaterFacts
<1>4. \A m, o \in wire' : m.from = o.from => m = o
  BY <1>2 DEF WireInv
<1>5. \A m \in wire' : /\ registrar'[m.from].phase \in {"calling", "down"}
                       /\ m.arrived => registrar'[m.from].phase = "calling"
  BY <1>1, <1>2 DEF WireInv
<1>6. \A p \in Process :
        registrar'[p].phase = "calling" => \E m \in wire' : m.from = p
  BY <1>1, <1>3 DEF WireInv
<1> QED
  BY <1>4, <1>5, <1>6 DEF WireInv

LEMMA WireInvariant == Spec => []WireInv
<1>1. Init => WireInv
  BY DEF Init, WireInv, NewRegistrar
<1>2. ASSUME TypeInv, WireInv, [Next]_vars
      PROVE  WireInv'
  <2>1. ASSUME NEW p \in Process, Start(p) \/ Heartbeat(p) \/ Stop(p)
        PROVE  WireInv'
    BY <1>2, <2>1, StartWire, StopWire
  <2>2. ASSUME NEW m \in wire, Arrive(m) \/ Answered(m) \/ Failed(m)
        PROVE  WireInv'
    BY <1>2, <2>2, ArriveWire, AnsweredWire
  <2>3. CASE Tick
    BY <1>2, <2>3, TickWire
  <2>4. CASE UNCHANGED <<registrar, wire>>
    BY <1>2, <2>4 DEF WireInv
  <2>5. ASSUME NEW c \in Caller, (\E n \in Name : Resolve(c, n)) \/ Find(c) \/ Send(c) \/ Complete(c)
        PROVE  UNCHANGED <<registrar, wire>>
    BY <2>5 DEF Resolve, Find, Send, Complete
  <2>6. CASE Restart \/ UNCHANGED vars
    BY <2>4, <2>6 DEF Restart, vars
  <2> QED
    BY <1>2, <2>1, <2>2, <2>3, <2>4, <2>5, <2>6 DEF Next
<1> QED
  BY <1>1, <1>2, TypeInvariant, PTL DEF Spec

LEMMA BudgetFacts ==
  ASSUME HeartbeatsMeetTTL, NEW l \in 0 .. MaxLost
  PROVE  /\ Budget(l) \in Nat /\ Budget(l) + MaxDelay <= TTL /\ MaxDelay + Interval <= Budget(l)
         /\ MaxDelay <= Period /\ Interval <= Period /\ Period \in Nat
         /\ l < MaxLost => Budget(l + 1) = Budget(l) + Period /\ Budget(l) + Interval <= TTL
<1> USE TimeAssumption
<1>1. MaxDelay <= Period /\ Interval <= Period /\ Period \in Nat
  BY DEF Period
<1> HIDE DEF Period
<1>2. /\ l * Period \in Nat /\ (MaxLost - l) * Period \in Nat
      /\ MaxLost * Period = l * Period + (MaxLost - l) * Period
  BY <1>1
<1>3. Budget(l) \in Nat /\ MaxDelay + Interval <= Budget(l)
  BY <1>2 DEF Budget
<1>4. Budget(MaxLost) = Budget(l) + (MaxLost - l) * Period
  BY <1>2 DEF Budget
<1>5. ASSUME l < MaxLost
      PROVE  Budget(l + 1) = Budget(l) + Period /\ Budget(l) + Interval <= TTL
  <2>1. (l + 1) * Period = l * Period + Period
    BY <1>1
  <2>2. (MaxLost - l) * Period = Period + (MaxLost - l - 1) * Period
    BY <1>1
  <2>3. (MaxLost - l - 1) * Period \in Nat
    BY <1>1, <1>5
  <2> QED
    BY <1>1, <1>2, <1>3, <1>4, <2>1, <2>2, <2>3 DEF Budget, HeartbeatsMeetTTL
<1> QED
  BY <1>1, <1>2, <1>3, <1>4, <1>5 DEF HeartbeatsMeetTTL

LEMMA KnownWeaker ==
  ASSUME NEW entries \in SUBSET Entry, NEW url,
         NEW t \in Int, NEW bound \in Int, NEW u \in Int, NEW wider \in Int,
         KnownIn(entries, url, t, bound), u - wider <= t - bound
  PROVE  KnownIn(entries, url, u, wider)
BY TimeAssumption DEF KnownIn, Entry

\* Pruning takes stale entries only.
LEMMA KnownPruned ==
  ASSUME NEW n, NEW url, NEW t \in Nat, NEW bound \in Nat, bound <= TTL,
         backends[n] \in SUBSET Entry, KnownIn(backends[n], url, t, bound)
  PROVE  KnownIn(Pruned(n), url, t, bound)
BY TimeAssumption DEF KnownIn, Pruned, IsStale, Entry

LEMMA KnownOlder ==
  ASSUME NEW entries \in SUBSET Entry, NEW url, NEW t \in Nat, NEW bound \in Nat,
         t > 0, bound <= TTL, KnownIn(entries, url, t, bound)
  PROVE  KnownIn({Older(b) : b \in entries}, url, t - 1, bound)
<1>1. PICK b \in entries : b.url = url /\ b.idle + t <= bound
  BY DEF KnownIn
<1>2. b \in Entry /\ b.idle \in Nat /\ b.idle <= TTL
  BY <1>1, TimeAssumption DEF Entry
<1>3. Older(b).url = url /\ Older(b).idle = b.idle + 1
  BY <1>1, <1>2, OlderType
<1>4. Older(b).idle + (t - 1) <= bound
  BY <1>1, <1>2, <1>3
<1> QED
  BY <1>1, <1>3, <1>4 DEF KnownIn

LEMMA Measures ==
  ASSUME TypeInv, NEW p \in Process
  PROVE  /\ registrar[p].lost \in 0 .. MaxLost
         /\ registrar[p].next \in Nat /\ registrar[p].next <= Interval
         /\ UntilDue(p) \in Nat /\ UntilDue(p) <= Interval
         /\ \A m \in wire : m.left \in Nat /\ m.left <= MaxDelay
         /\ p.name \in Name /\ backends[p.name] \in SUBSET Entry
BY TimeAssumption, NameOf
   DEF TypeInv, RegistrarInv, RegistrarType, WireOK, MessageType, BackendsInv, UntilDue

\* What others do leaves what is known of p as it is: an entry that they prune
\* is not the one of p.
LEMMA OthersKeepKnown ==
  ASSUME HeartbeatsMeetTTL, TypeInv, NEW p \in Process, KnownAt(p),
         registrar'[p] = registrar[p], \A m \in wire' : m.from = p => m \in wire,
         backends'[p.name] \in {backends[p.name], Pruned(p.name)}
  PROVE  KnownAt(p)'
<1>1. ASSUME NEW t \in Nat, NEW bound \in Nat, bound <= TTL, Known(p, t, bound)
      PROVE  KnownIn(backends'[p.name], p.url, t, bound)
  BY <1>1, Measures, KnownPruned DEF Known
<1>2. /\ MaxDelay \in Nat /\ Interval \in Nat /\ MaxDelay <= TTL
      /\ Budget(registrar[p].lost) \in Nat
      /\ Budget(registrar[p].lost) + MaxDelay <= TTL
      /\ registrar[p].lost < MaxLost => Budget(registrar[p].lost) + Interval <= TTL
  BY Measures, BudgetFacts, TimeAssumption
<1>3. \A m \in wire : m.from = p /\ CallingInv(p, m) =>
        IF m.arrived THEN KnownIn(backends'[p.name], p.url, m.left, MaxDelay)
        ELSE registrar[p].registered =>
          /\ KnownIn(backends'[p.name], p.url, m.left, Budget(registrar[p].lost) + MaxDelay)
          /\ ~ registrar[p].due /\ registrar[p].lost < MaxLost =>
               KnownIn(backends'[p.name], p.url, registrar[p].next,
                       Budget(registrar[p].lost) + Interval)
  BY <1>1, <1>2, Measures DEF CallingInv
<1>4. Known(p, UntilDue(p), Budget(registrar[p].lost)) =>
        KnownIn(backends'[p.name], p.url, UntilDue(p), Budget(registrar[p].lost))
  <2>1. UntilDue(p) \in Nat /\ Budget(registrar[p].lost) \in Nat
        /\ Budget(registrar[p].lost) <= TTL
    BY <1>2, Measures, TimeAssumption
  <2> QED
    BY <1>1, <2>1
<1> QED
  BY <1>3, <1>4 DEF KnownAt, CallingInv, Known, UntilDue

LEMMA StartKnown ==
  ASSUME HeartbeatsMeetTTL, TypeInv, WireInv, NEW p \in Process, KnownAt(p),
         Start(p) \/ Heartbeat(p)
  PROVE  KnownAt(p)'
<1> DEFINE new == Request(p)
<1>1. /\ backends' = backends /\ wire' = wire \cup {new}
      /\ new.from = p /\ ~ new.arrived /\ new.left = MaxDelay
      /\ registrar'[p].phase = "calling"
      /\ registrar'[p].lost = registrar[p].lost /\ registrar'[p].next = registrar[p].next
      /\ registrar'[p].registered = registrar[p].registered
      /\ registrar'[p].ticker = registrar[p].ticker
  BY DEF Start, Heartbeat, Request, TypeInv, RegistrarInv, RegistrarType
<1>2. \A m \in wire : m.from # p
  BY DEF Start, Heartbeat, WireInv
<1>3. ASSUME registrar[p].registered
      PROVE  Known(p, 0, Budget(registrar[p].lost))
  BY <1>3 DEF Start, Heartbeat, KnownAt, UntilDue
<1>4. ASSUME registrar[p].registered
      PROVE  /\ Known(p, MaxDelay, Budget(registrar[p].lost) + MaxDelay)
             /\ Known(p, registrar[p].next, Budget(registrar[p].lost) + Interval)
  BY <1>3, <1>4, KnownWeaker, Measures, BudgetFacts, TimeAssumption DEF Known
<1> HIDE DEF new
<1>5. CallingInv(p, new)'
  BY <1>1, <1>4 DEF CallingInv, Known
<1>6. \A m \in wire' : m.from = p => m = new
  BY <1>1, <1>2
<1> QED
  BY <1>1, <1>5, <1>6 DEF KnownAt

LEMMA ArriveKnown ==
  ASSUME HeartbeatsMeetTTL, TypeInv, WireInv, NEW p \in Process, Alone(p), KnownAt(p),
         NEW m \in wire, Arrive(m)
  PROVE  KnownAt(p)'
<1> DEFINE new == [m EXCEPT !.arrived = TRUE]
<1>1. /\ m.from \in Process /\ m.from.name \in Name
      /\ new.from = m.from /\ new.arrived /\ new.left = m.left
  BY NameOf DEF TypeInv, WireOK, MessageType
<1>2. /\ registrar' = registrar
      /\ backends' = [n \in Name |-> IF n = m.from.name THEN EntryOf(m.from) ELSE Pruned(n)]
      /\ wire' = (wire \ {m}) \cup
                  (IF registrar[m.from].phase = "calling" THEN {new} ELSE {})
  BY DEF Arrive, Register
<1> HIDE DEF new
<1>3. CASE m.from = p
  <2>1. \A o \in wire' : o.from = p => o = new
    BY <1>2, <1>3 DEF WireInv
  <2>2. KnownIn(backends'[p.name], p.url, m.left, MaxDelay)
    <3>1. backends'[p.name] = {[url |-> p.url, threads |-> p.threads, idle |-> 0]}
      BY <1>1, <1>2, <1>3 DEF EntryOf
    <3>2. 0 + m.left <= MaxDelay
      BY Measures, TimeAssumption
    <3> QED
      BY <3>1, <3>2 DEF KnownIn
  <2>3. CallingInv(p, new)'
    BY <1>1, <2>2 DEF CallingInv, Known
  <2>4. registrar[p].phase # "waiting"
    BY <1>3 DEF WireInv
  <2> QED
    BY <1>2, <2>1, <2>3, <2>4 DEF KnownAt
<1>4. CASE m.from # p
  <2>1. m.from.name # p.name
    BY <1>1, <1>4 DEF Alone, WireInv
  <2>2. backends'[p.name] = Pruned(p.name)
    BY <1>2, <2>1, NameOf
  <2>3. \A o \in wire' : o.from = p => o \in wire
    BY <1>1, <1>2, <1>4
  <2> QED
    BY <1>2, <2>2, <2>3, OthersKeepKnown
<1> QED
  BY <1>3, <1>4

LEMMA AnsweredKnown ==
  ASSUME HeartbeatsMeetTTL, TypeInv, WireInv, NEW p \in Process, KnownAt(p),
         NEW m \in wire, m.from = p, registrar[p].phase = "calling", Answered(m) \/ Failed(m)
  PROVE  KnownAt(p)'
<1> DEFINE r == registrar[p]
           l == registrar[p].lost
<1>1. r \in RegistrarType /\ (r.ticker => r.next # 0)
  BY DEF TypeInv, RegistrarInv
<1>2. /\ backends' = backends
      /\ registrar'[p] = IF Answered(m) THEN Succeeded(r) ELSE LostOne(r)
  <2>1. CASE Answered(m)
    BY <2>1 DEF Answered, TypeInv, RegistrarInv
  <2>2. CASE Failed(m) /\ ~ Answered(m)
    BY <2>2 DEF Failed, TypeInv, RegistrarInv
  <2> QED
    BY <2>1, <2>2
<1>3. /\ registrar'[p].phase = "waiting" /\ registrar'[p].ticker /\ registrar'[p].due = r.due
      /\ registrar'[p].next = IF r.ticker THEN r.next ELSE Interval
  BY <1>1, <1>2, OutcomeType
<1>4. CallingInv(p, m)
  BY DEF KnownAt
<1> DEFINE u == IF r.due THEN 0 ELSE IF r.ticker THEN r.next ELSE Interval
<1>5. UntilDue(p)' = u /\ u \in Nat /\ u <= Interval
  BY <1>3, Measures, TimeAssumption DEF UntilDue
<1>6. /\ l \in 0 .. MaxLost /\ 0 \in 0 .. MaxLost
      /\ m.left \in Nat /\ backends[p.name] \in SUBSET Entry /\ r.next \in Nat
  BY Measures, SmallNumbers
<1>7. Budget(0) \in Nat /\ MaxDelay + Interval <= Budget(0)
  BY <1>6, BudgetFacts
<1>8. CASE Answered(m)
  <2>1. registrar'[p].lost = 0 /\ m.arrived
    BY <1>1, <1>2, <1>8, OutcomeType DEF Answered
  <2>2. KnownIn(backends[p.name], p.url, m.left, MaxDelay)
    BY <1>4, <2>1 DEF CallingInv, Known
  <2>3. u - Budget(0) <= m.left - MaxDelay
    BY <1>5, <1>6, <1>7, TimeAssumption
  <2> HIDE DEF u
  <2>4. KnownIn(backends[p.name], p.url, u, Budget(0))
    BY <1>5, <1>6, <1>7, <2>2, <2>3, KnownWeaker, TimeAssumption
  <2> QED
    BY <1>2, <1>3, <1>5, <2>1, <2>4 DEF KnownAt, Known
<1>9. CASE ~ Answered(m)
  <2>1. /\ registrar'[p].lost = l + 1 /\ registrar'[p].registered = r.registered /\ l < MaxLost
    BY <1>1, <1>2, <1>9, OutcomeType DEF Failed
  <2>2. /\ Budget(l) \in Nat /\ Budget(l + 1) = Budget(l) + Period /\ Period \in Nat
        /\ MaxDelay <= Period /\ Interval <= Period /\ MaxDelay + Interval <= Budget(l)
    BY <1>6, <2>1, BudgetFacts
  <2>3. ASSUME r.registered
        PROVE  KnownIn(backends[p.name], p.url, u, Budget(l + 1))
    <3>1. CASE m.arrived
      <4>1. KnownIn(backends[p.name], p.url, m.left, MaxDelay)
        BY <1>4, <3>1 DEF CallingInv, Known
      <4>2. u - Budget(l + 1) <= m.left - MaxDelay
        BY <1>5, <1>6, <2>2, TimeAssumption
      <4> HIDE DEF u
      <4> QED
        BY <1>5, <1>6, <2>2, <4>1, <4>2, KnownWeaker, TimeAssumption
    <3>2. CASE ~ m.arrived /\ r.due
      <4>1. KnownIn(backends[p.name], p.url, m.left, Budget(l) + MaxDelay)
        BY <1>4, <2>3, <3>2 DEF CallingInv, Known
      <4>2. u - Budget(l + 1) <= m.left - (Budget(l) + MaxDelay)
        BY <1>6, <2>2, <3>2, TimeAssumption
      <4> HIDE DEF u
      <4> QED
        BY <1>5, <1>6, <2>2, <4>1, <4>2, KnownWeaker, TimeAssumption
    <3>3. CASE ~ m.arrived /\ ~ r.due
      <4>1. KnownIn(backends[p.name], p.url, r.next, Budget(l) + Interval)
        BY <1>4, <2>1, <2>3, <3>3 DEF CallingInv, Known
      <4>2. u = r.next
        BY <2>3, <3>3 DEF KnownAt
      <4>3. u - Budget(l + 1) <= r.next - (Budget(l) + Interval)
        BY <1>6, <2>2, <4>2, TimeAssumption
      <4> HIDE DEF u
      <4> QED
        BY <1>5, <1>6, <2>2, <4>1, <4>3, KnownWeaker, TimeAssumption
    <3> QED
      BY <3>1, <3>2, <3>3
  <2> QED
    BY <1>2, <1>3, <1>5, <2>1, <2>3 DEF KnownAt, Known
<1> QED
  BY <1>8, <1>9

\* A tick makes entries older and takes what they are waited for nearer.
LEMMA TickKnown ==
  ASSUME HeartbeatsMeetTTL, TypeInv, WireInv, Tick, NEW p \in Process, KnownAt(p)
  PROVE  KnownAt(p)'
<1> DEFINE r == registrar[p]
<1>1. r \in RegistrarType /\ (r.ticker => r.next # 0)
  BY DEF TypeInv, RegistrarInv
<1>2. /\ registrar'[p] = Ticked(r)
      /\ backends'[p.name] = {Older(b) : b \in backends[p.name]}
  BY NameOf DEF Tick, Older
<1>3. /\ registrar'[p].phase = r.phase /\ registrar'[p].ticker = r.ticker
      /\ registrar'[p].lost = r.lost /\ registrar'[p].registered = r.registered
      /\ r.ticker => /\ r.next = 1 => registrar'[p].due
                     /\ r.next # 1 => registrar'[p].due = r.due /\ registrar'[p].next = r.next - 1
  BY <1>1, <1>2, TickedType
<1>4. /\ r.lost \in 0 .. MaxLost /\ r.next \in Nat /\ r.due \in BOOLEAN
      /\ backends[p.name] \in SUBSET Entry
      /\ MaxDelay \in Nat /\ Interval \in Nat /\ MaxDelay <= TTL
      /\ Budget(r.lost) \in Nat /\ Budget(r.lost) <= TTL /\ Budget(r.lost) + MaxDelay <= TTL
      /\ r.lost < MaxLost => Budget(r.lost) + Interval <= TTL
  BY <1>1, Measures, BudgetFacts, TimeAssumption DEF RegistrarType
<1>5. ASSUME NEW t \in Nat, NEW bound \in Nat, t > 0, bound <= TTL, Known(p, t, bound)
      PROVE  KnownIn(backends'[p.name], p.url, t - 1, bound)
  <2>1. KnownIn(backends[p.name], p.url, t, bound)
    BY <1>5 DEF Known
  <2> HIDE DEF r
  <2>2. KnownIn({Older(b) : b \in backends[p.name]}, p.url, t - 1, bound)
    BY <1>4, <1>5, <2>1, KnownOlder
  <2> QED
    BY <1>2, <2>2
<1> HIDE DEF r
<1>6. ASSUME r.phase = "calling", NEW o \in wire', o.from = p
      PROVE  CallingInv(p, o)'
  <2>1. PICK m \in wire : /\ m.from = p /\ o.arrived = m.arrived
                          /\ o.left = m.left - 1 /\ m.left > 0
    BY <1>6, LaterFacts
  <2>2. CallingInv(p, m) /\ m.left \in Nat
    BY <1>6, <2>1, Measures DEF KnownAt, r
  <2>3. CASE m.arrived
    <3>1. KnownIn(backends'[p.name], p.url, m.left - 1, MaxDelay)
      BY <1>4, <1>5, <2>1, <2>2, <2>3 DEF CallingInv
    <3> QED
      BY <2>1, <2>3, <3>1 DEF CallingInv, Known
  <2>4. CASE ~ m.arrived
    <3>1. ASSUME r.registered
          PROVE  KnownIn(backends'[p.name], p.url, m.left - 1, Budget(r.lost) + MaxDelay)
      <4>1. Known(p, m.left, Budget(r.lost) + MaxDelay)
        BY <2>2, <2>4, <3>1 DEF CallingInv, r
      <4> QED
        BY <1>4, <1>5, <2>1, <2>2, <4>1
    <3>2. ASSUME r.registered, ~ registrar'[p].due, r.lost < MaxLost
          PROVE  KnownIn(backends'[p.name], p.url, registrar'[p].next, Budget(r.lost) + Interval)
      <4>1. /\ r.ticker /\ r.next # 0
            /\ r.next # 1 /\ ~ r.due /\ registrar'[p].next = r.next - 1
        BY <1>1, <1>3, <1>4, <3>2 DEF KnownAt, r
      <4>2. Known(p, r.next, Budget(r.lost) + Interval)
        BY <2>2, <2>4, <3>2, <4>1 DEF CallingInv, r
      <4> QED
        BY <1>4, <1>5, <3>2, <4>1, <4>2
    <3> QED
      BY <1>3, <2>1, <2>4, <3>1, <3>2 DEF CallingInv, Known
  <2> QED
    BY <2>3, <2>4
<1>7. ASSUME r.phase = "waiting", r.registered
      PROVE  Known(p, UntilDue(p), Budget(registrar[p].lost))'
  <2>1. ~ r.due /\ r.ticker /\ r.next # 0
    BY <1>1, <1>7 DEF Tick, KnownAt, r
  <2>2. Known(p, r.next, Budget(r.lost))
    BY <1>7, <2>1 DEF KnownAt, UntilDue, r
  <2>3. KnownIn(backends'[p.name], p.url, r.next - 1, Budget(r.lost))
    BY <1>4, <1>5, <2>1, <2>2
  <2>4. UntilDue(p)' = r.next - 1
    BY <1>3, <1>4, <2>1 DEF UntilDue
  <2> QED
    BY <1>3, <2>3, <2>4 DEF Known
<1>8. registrar'[p].registered => registrar'[p].ticker /\ registrar'[p].phase # "new"
  BY <1>3 DEF KnownAt, r
<1> QED
  BY <1>3, <1>6, <1>7, <1>8 DEF KnownAt

LEMMA StopKnown ==
  ASSUME TypeInv, NEW p \in Process, Stop(p)
  PROVE  KnownAt(p)'
<1>1. registrar'[p].phase = "down" /\ ~ registrar'[p].registered
  BY DEF Stop, NewRegistrar, TypeInv, RegistrarInv
<1> QED
  BY <1>1 DEF KnownAt

\* A process starts once.
LEMMA NeverNewAgain ==
  ASSUME TypeInv, Next, NEW p \in Process, registrar'[p].phase = "new"
  PROVE  registrar[p].phase = "new"
<1>1. ASSUME NEW q \in Process, Start(q) \/ Heartbeat(q) \/ Stop(q)
      PROVE  registrar[p].phase = "new"
  <2>1. registrar'[q].phase # "new"
    BY <1>1 DEF Start, Heartbeat, Stop, NewRegistrar, TypeInv, RegistrarInv, RegistrarType
  <2>2. q # p => registrar'[p] = registrar[p]
    BY <1>1 DEF Start, Heartbeat, Stop, TypeInv, RegistrarInv
  <2> QED
    BY <2>1, <2>2
<1>2. ASSUME NEW m \in wire, Arrive(m) \/ Answered(m) \/ Failed(m)
      PROVE  registrar[p].phase = "new"
  <2>1. m.from \in Process
    BY DEF TypeInv, WireOK, MessageType
  <2> QED
    BY <1>2, <2>1, OutcomeType DEF Arrive, Answered, Failed, TypeInv, RegistrarInv
<1>3. Tick => registrar[p].phase = "new"
  BY TickedType DEF Tick, TypeInv, RegistrarInv
<1>4. UNCHANGED registrar => registrar[p].phase = "new"
  OBVIOUS
<1>5. Restart \/ (\E c \in Caller : (\E n \in Name : Resolve(c, n)) \/ Find(c) \/ Send(c) \/ Complete(c))
        => UNCHANGED registrar
  BY DEF Restart, Resolve, Find, Send, Complete
<1> QED
  BY <1>1, <1>2, <1>3, <1>4, <1>5 DEF Next

\* Steps of another process, and those of the callers.
LEMMA OthersKnown ==
  ASSUME HeartbeatsMeetTTL, TypeInv, NEW p \in Process, KnownAt(p),
         \/ \E q \in Process \ {p} : Start(q) \/ Heartbeat(q) \/ Stop(q)
         \/ \E m \in wire : (m.from # p \/ registrar[p].phase # "calling") /\ Failed(m)
         \/ \E m \in wire : m.from # p /\ Answered(m)
         \/ \E c \in Caller :
              (\E n \in Name : Resolve(c, n)) \/ Find(c) \/ Send(c) \/ Complete(c)
         \/ UNCHANGED vars
  PROVE  KnownAt(p)'
<1>1. backends' = backends
  BY DEF Start, Heartbeat, Stop, Failed, Answered, Resolve, Find, Send, Complete, vars
<1>2. registrar'[p] = registrar[p]
  BY DEF Start, Heartbeat, Stop, Failed, Answered, Resolve, Find, Send, Complete, vars,
         TypeInv, RegistrarInv
<1>3. \A m \in wire' : m.from = p => m \in wire
  <2>1. ASSUME NEW q \in Process \ {p}, Start(q) \/ Heartbeat(q)
        PROVE  \A m \in wire' : m.from = p => m \in wire
    BY <2>1 DEF Start, Heartbeat, Request
  <2>2. ASSUME \/ \E q \in Process : Stop(q)
               \/ \E m \in wire : Answered(m) \/ Failed(m)
               \/ UNCHANGED wire
        PROVE  \A m \in wire' : m.from = p => m \in wire
    BY <2>2 DEF Stop, Answered, Failed
  <2>3. \A c \in Caller : (\E n \in Name : Resolve(c, n)) \/ Find(c) \/ Send(c) \/ Complete(c)
          => UNCHANGED wire
    BY DEF Resolve, Find, Send, Complete
  <2>4. UNCHANGED vars => UNCHANGED wire
    BY DEF vars
  <2> QED
    BY <2>1, <2>2, <2>3, <2>4
<1> QED
  BY <1>1, <1>2, <1>3, OthersKeepKnown

LEMMA KnownStep ==
  ASSUME HeartbeatsMeetTTL, TypeInv, WireInv, KnownInv, [Next]_vars
  PROVE  KnownInv'
<1> SUFFICES ASSUME restarts' = 0, NEW p \in Process, Alone(p)'
             PROVE  KnownAt(p)'
  BY DEF KnownInv
<1>1. CASE UNCHANGED vars
  <2>1. KnownAt(p)
    BY <1>1 DEF KnownInv, Alone, vars
  <2> QED
    BY <1>1, <2>1, OthersKnown
<1>2. CASE Restart
  BY <1>2, TimeAssumption DEF Restart, TypeInv, RestartsOK
<1>3. CASE Next /\ ~ Restart
  <2>1. restarts = 0
    BY <1>3 DEF Next, Start, Heartbeat, Stop, Arrive, Answered, Failed, Tick, Resolve,
                Find, Send, Complete
  <2>2. Alone(p)
    BY <1>3, NeverNewAgain DEF Alone
  <2>3. KnownAt(p)
    BY <2>1, <2>2 DEF KnownInv
  <2>4. ASSUME NEW q \in Process, Start(q) \/ Heartbeat(q) \/ Stop(q)
        PROVE  KnownAt(p)'
    <3>1. CASE q = p
      BY <2>3, <2>4, <3>1, StartKnown, StopKnown
    <3>2. CASE q # p
      BY <2>3, <2>4, <3>2, OthersKnown
    <3> QED
      BY <3>1, <3>2
  <2>5. ASSUME NEW m \in wire, Arrive(m) \/ Answered(m) \/ Failed(m)
        PROVE  KnownAt(p)'
    <3>1. CASE Arrive(m)
      BY <2>2, <2>3, <3>1, ArriveKnown
    <3>2. CASE m.from = p /\ registrar[p].phase = "calling" /\ (Answered(m) \/ Failed(m))
      BY <2>3, <3>2, AnsweredKnown
    <3>3. CASE (m.from # p \/ registrar[p].phase # "calling") /\ Failed(m)
      BY <2>3, <3>3, OthersKnown
    <3>4. CASE (m.from # p \/ registrar[p].phase # "calling") /\ Answered(m)
      <4>1. m.from # p
        BY <3>4 DEF Answered, WireInv
      <4> QED
        BY <2>3, <3>4, <4>1, OthersKnown
    <3> QED
      BY <2>5, <3>1, <3>2, <3>3, <3>4
  <2>6. CASE Tick
    BY <2>3, <2>6, TickKnown
  <2>7. ASSUME NEW c \in Caller, (\E n \in Name : Resolve(c, n)) \/ Find(c) \/ Send(c) \/ Complete(c)
        PROVE  KnownAt(p)'
    BY <2>3, <2>7, OthersKnown
  <2> QED
    BY <1>3, <2>4, <2>5, <2>6, <2>7 DEF Next
<1> QED
  BY <1>1, <1>2, <1>3

\* A backend that is alone in its name and runs is known whenever the TTL
\* outlives the heartbeats that can be lost in a row (Registrar.Run against
\* Registry.Lookup): two delays, an interval, and a period for each of them.
THEOREM LiveBackendKnownHolds ==
  ASSUME HeartbeatsMeetTTL
  PROVE  Spec => []LiveBackendKnown
<1>1. Init => KnownInv
  BY DEF Init, KnownInv, KnownAt, NewRegistrar
<1>2. TypeInv /\ WireInv /\ KnownInv /\ [Next]_vars => KnownInv'
  BY KnownStep
<1>3. ASSUME TypeInv, WireInv, KnownInv
      PROVE  LiveBackendKnown
  <2> SUFFICES ASSUME restarts = 0, NEW p \in Process, Up(p), registrar[p].registered, Alone(p)
               PROVE  \E b \in Lookup(p.name) : b.url = p.url
    BY DEF LiveBackendKnown, Alone
  <2>1. KnownAt(p)
    BY <1>3 DEF KnownInv
  <2>2. \E t, bound \in Nat : bound <= TTL /\ Known(p, t, bound)
    <3>1. /\ Budget(registrar[p].lost) \in Nat /\ Budget(registrar[p].lost) + MaxDelay \in Nat
          /\ Budget(registrar[p].lost) <= TTL /\ Budget(registrar[p].lost) + MaxDelay <= TTL
          /\ MaxDelay \in Nat /\ MaxDelay <= TTL
      BY <1>3, Measures, BudgetFacts, TimeAssumption
    <3>2. CASE registrar[p].phase = "waiting"
      BY <1>3, <2>1, <3>1, <3>2, Measures DEF KnownAt
    <3>3. CASE registrar[p].phase = "calling"
      <4>1. PICK m \in wire : m.from = p
        BY <1>3, <3>3 DEF WireInv
      <4>2. CallingInv(p, m) /\ m.left \in Nat
        BY <1>3, <2>1, <3>3, <4>1, Measures DEF KnownAt
      <4> QED
        BY <3>1, <4>2 DEF CallingInv
    <3> QED
      BY <3>2, <3>3 DEF Up
  <2>3. PICK t \in Nat, bound \in Nat : bound <= TTL /\ Known(p, t, bound)
    BY <2>2
  <2>4. PICK b \in backends[p.name] : b.url = p.url /\ b.idle + t <= bound
    BY <2>3 DEF Known, KnownIn
  <2>5. b.idle \in Nat
    BY <1>3, <2>4, Measures, TimeAssumption DEF Entry
  <2> QED
    BY <2>3, <2>4, <2>5, TimeAssumption DEF Lookup, IsStale
<1> QED
  BY <1>1, <1>2, <1>3, TypeInvariant, WireInvariant, PTL DEF Spec
-----------------------------------------------------------------------------
(* Calls.                                                                  *)

\* What a process of a name has registered.
Declared(n, t) ==
  \E p \in Process :
    registrar[p].phase # "new" /\ p.name = n /\ p.url = t.url /\ p.threads = t.threads

\* Entries and what callers have taken from them were declared as a whole; a
\* caller with a thread reply has found a target with threads.
DeclaredInv ==
  /\ \A n \in Name : \A b \in backends[n] : Declared(n, b)
  /\ \A c \in Caller : call[c].phase # "idle" => \A t \in call[c].target :
       Declared(call[c].name, t) /\ (call[c].reply => t.threads)

\* What was declared stays so: no process starts twice.
LEMMA DeclaredStays ==
  ASSUME TypeInv, Next, NEW n, NEW t, Declared(n, t)
  PROVE  Declared(n, t)'
BY NeverNewAgain DEF Declared

\* No entry is changed but for its age: it was there before, or it is that of
\* the registration that arrives.
LEMMA EntriesDeclared ==
  ASSUME TypeInv, WireInv, DeclaredInv, Next, NEW n \in Name, NEW b \in backends'[n]
  PROVE  Declared(n, b)
<1>1. CASE UNCHANGED backends
  BY <1>1 DEF DeclaredInv
<1>2. CASE Tick
  <2>1. PICK d \in backends[n] :
          b = [d EXCEPT !.idle = IF d.idle > TTL THEN d.idle ELSE d.idle + 1]
    BY <1>2 DEF Tick
  <2>2. d \in Entry
    BY DEF TypeInv, BackendsInv
  <2>3. b.url = d.url /\ b.threads = d.threads
    BY <2>1, <2>2 DEF Entry
  <2> QED
    BY <2>3 DEF DeclaredInv, Declared
<1>3. ASSUME NEW m \in wire, Arrive(m)
      PROVE  Declared(n, b)
  <2>1. m.from \in Process /\ registrar[m.from].phase # "new"
    BY DEF TypeInv, WireOK, MessageType, WireInv
  <2>2. CASE n = m.from.name
    <3>1. b.url = m.from.url /\ b.threads = m.from.threads
      BY <1>3, <2>2 DEF Arrive, Register, EntryOf
    <3> QED
      BY <2>1, <2>2, <3>1 DEF Declared
  <2>3. CASE n # m.from.name
    <3>1. b \in backends[n]
      BY <1>3, <2>3 DEF Arrive, Register, Pruned
    <3> QED
      BY <3>1 DEF DeclaredInv
  <2> QED
    BY <2>2, <2>3
<1>4. CASE Restart
  BY <1>4 DEF Restart
<1>5. ASSUME NEW p \in Process, Start(p) \/ Heartbeat(p) \/ Stop(p)
      PROVE  UNCHANGED backends
  BY <1>5 DEF Start, Heartbeat, Stop
<1>6. ASSUME NEW m \in wire, Answered(m) \/ Failed(m)
      PROVE  UNCHANGED backends
  BY <1>6 DEF Answered, Failed
<1>7. ASSUME NEW c \in Caller, (\E k \in Name : Resolve(c, k)) \/ Find(c) \/ Send(c) \/ Complete(c)
      PROVE  UNCHANGED backends
  BY <1>7 DEF Resolve, Find, Send, Complete
<1> QED
  BY <1>1, <1>2, <1>3, <1>4, <1>5, <1>6, <1>7 DEF Next

\* A caller takes its target from an entry as a whole.
LEMMA TargetsDeclared ==
  ASSUME DeclaredInv, NEW n \in Name, NEW t \in Targets(Lookup(n))
  PROVE  Declared(n, t)
<1>1. PICK b \in Lookup(n) : t = [url |-> b.url, threads |-> b.threads]
  BY DEF Targets
<1>2. Declared(n, b)
  BY <1>1 DEF DeclaredInv, Lookup
<1> QED
  BY <1>1, <1>2 DEF Declared

LEMMA CallsDeclared ==
  ASSUME TypeInv, DeclaredInv, Next, NEW c \in Caller, call'[c].phase # "idle",
         NEW t \in call'[c].target
  PROVE  Declared(call'[c].name, t) /\ (call'[c].reply => t.threads)
<1>1. CASE call'[c] = call[c]
  BY <1>1 DEF DeclaredInv
<1>2. ASSUME NEW n \in Name, Resolve(c, n)
      PROVE  Declared(call'[c].name, t) /\ (call'[c].reply => t.threads)
  <2>1. /\ call'[c].name = n /\ ~ call'[c].reply
        /\ call'[c].target = Targets(Lookup(n))
    BY <1>2 DEF Resolve, NoCall, TypeInv, CallOK
  <2> QED
    BY <2>1, TargetsDeclared
<1>3. CASE Find(c)
  <2>1. PICK reply \in BOOLEAN :
          LET target == {b \in TargetOf(c) : reply => b.threads} IN
          call' = [call EXCEPT ![c] =
            IF target = {} THEN NoCall
            ELSE [phase |-> "found", name |-> call[c].name, reply |-> reply, target |-> target]]
    BY <1>3 DEF Find
  <2> DEFINE target == {b \in TargetOf(c) : reply => b.threads}
  <2>2. call[c] \in CallType
    BY DEF TypeInv, CallOK
  <2>3. target # {}
    BY <2>1 DEF NoCall, TypeInv, CallOK
  <2>4. call'[c] = [phase |-> "found", name |-> call[c].name, reply |-> reply, target |-> target]
    BY <2>1, <2>3 DEF TypeInv, CallOK
  <2>5. call'[c].name = call[c].name /\ call'[c].reply = reply /\ call'[c].target = target
    BY <2>4
  <2>6. t \in Targets(Lookup(call[c].name)) /\ (reply => t.threads)
    BY <2>5 DEF TargetOf
  <2> QED
    BY <2>2, <2>5, <2>6, TargetsDeclared DEF CallType
<1>4. CASE Send(c)
  <2>1. /\ call[c].phase # "idle" /\ call'[c].name = call[c].name
        /\ call'[c].reply = call[c].reply /\ call'[c].target = call[c].target
    BY <1>4 DEF Send, TypeInv, CallOK, CallType
  <2> QED
    BY <2>1 DEF DeclaredInv
<1>5. CASE Complete(c) \/ Restart
  BY <1>5 DEF Complete, Restart, NoCall, TypeInv, CallOK
<1>6. ASSUME NEW d \in Caller \ {c}, (\E n \in Name : Resolve(d, n)) \/ Find(d) \/ Send(d) \/ Complete(d)
      PROVE  call'[c] = call[c]
  BY <1>6 DEF Resolve, Find, Send, Complete, TypeInv, CallOK
<1>7. CASE Tick
  BY <1>1, <1>7 DEF Tick
<1>8. ASSUME NEW p \in Process, Start(p) \/ Heartbeat(p) \/ Stop(p)
      PROVE  UNCHANGED call
  BY <1>8 DEF Start, Heartbeat, Stop
<1>9. ASSUME NEW m \in wire, Arrive(m) \/ Answered(m) \/ Failed(m)
      PROVE  UNCHANGED call
  BY <1>9 DEF Arrive, Answered, Failed
<1> QED
  BY <1>1, <1>2, <1>3, <1>4, <1>5, <1>6, <1>7, <1>8, <1>9 DEF Next

\* For all processes, names, callers and timings: a request reaches a process
\* that has registered under its name, and a thread reply one with threads
\* (Registry.Register, Notify, PostThreadReply).
THEOREM CallsReachDeclaredHolds == Spec => []CallsReachDeclared
<1>1. Init => DeclaredInv
  BY DEF Init, NoCall, DeclaredInv
<1>2. ASSUME TypeInv, WireInv, DeclaredInv, [Next]_vars
      PROVE  DeclaredInv'
  <2>1. CASE Next
    <3>1. ASSUME NEW n \in Name, NEW b \in backends'[n]
          PROVE  Declared(n, b)'
      BY <1>2, <2>1, <3>1, EntriesDeclared, DeclaredStays
    <3>2. ASSUME NEW c \in Caller, call'[c].phase # "idle", NEW t \in call'[c].target
          PROVE  (Declared(call[c].name, t))' /\ (call'[c].reply => t.threads)
      <4>1. PICK n : n = call'[c].name
        OBVIOUS
      <4>2. Declared(n, t) /\ (call'[c].reply => t.threads)
        BY <1>2, <2>1, <3>2, <4>1, CallsDeclared
      <4>3. Declared(n, t)'
        BY <1>2, <2>1, <4>2, DeclaredStays
      <4> QED
        BY <4>1, <4>2, <4>3 DEF Declared
    <3> QED
      BY <3>1, <3>2 DEF DeclaredInv
  <2>2. CASE UNCHANGED vars
    BY <1>2, <2>2 DEF vars, DeclaredInv, Declared
  <2> QED
    BY <1>2, <2>1, <2>2
<1>3. DeclaredInv => CallsReachDeclared
  BY DEF DeclaredInv, Declared, CallsReachDeclared
<1> QED
  BY <1>1, <1>2, <1>3, TypeInvariant, WireInvariant, PTL DEF Spec
=============================================================================
