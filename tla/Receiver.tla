------------------------------ MODULE Receiver ------------------------------
(***************************************************************************)
(* The webhook receiver (internal/receiver/handler.go): HTTP goroutines    *)
(* put valid events into a bounded channel, or refuse them when it is      *)
(* full; WorkerCount goroutines take them out and call Ingest.  A worker   *)
(* that has received an event and one that waits for the engine's lock     *)
(* look the same from outside: it holds the event.                         *)
(***************************************************************************)
EXTENDS Integers, FiniteSets, Sequences, SequencesExt

CONSTANTS
  Delivery,     \* webhook deliveries: id and app of the event
  Worker,       \* the goroutines of RunWorkers: WorkerCount of them
  Idle          \* a worker that holds no event

ASSUME ReceiverAssumption ==
  /\ IsFiniteSet(Delivery)
  /\ Idle \notin Delivery

VARIABLES
  pending,    \* requests in ServeHTTP: received, and not answered yet
  status,     \* how ServeHTTP answers each delivery, 0 while that is open
  queue,      \* the channel h.ch
  capacity,   \* its capacity, cfg.IngestQueueSize; 0 makes it a rendezvous
  holds,      \* the event each worker took and has not ingested yet
  stopped,    \* workers that have returned
  canceled,   \* ctx.Done() is closed
  accepted,   \* history: events in the order of their send to the channel
  ingested    \* history: events in the order of their Ingest calls

vars == <<pending, status, queue, capacity, holds, stopped, canceled, accepted, ingested>>

TypeOK ==
  /\ pending \subseteq Delivery
  /\ status \in [Delivery -> {0, 202, 400, 503}]
  /\ queue \in Seq(Delivery) /\ capacity \in Nat /\ Len(queue) <= capacity
  /\ holds \in [Worker -> Delivery \cup {Idle}]
  /\ stopped \subseteq {w \in Worker : holds[w] = Idle}
  /\ canceled \in BOOLEAN
  /\ accepted \in Seq(Delivery)
  /\ ingested \in Seq(Delivery)

Init ==
  /\ pending = {}
  /\ status = [d \in Delivery |-> 0]
  /\ queue = <<>>
  /\ capacity \in Nat
  /\ holds = [w \in Worker |-> Idle]
  /\ stopped = {}
  /\ canceled = FALSE
  /\ accepted = <<>>
  /\ ingested = <<>>

-----------------------------------------------------------------------------
(* ServeHTTP.                                                              *)

Arrive(d) ==
  /\ d \notin pending
  /\ status[d] = 0
  /\ pending' = pending \cup {d}
  /\ UNCHANGED <<status, queue, holds, stopped, canceled, accepted, ingested, capacity>>

\* No way to answer the request has been chosen.
Open(d) == d \in pending /\ status[d] = 0

Respond(d, code) ==
  /\ pending' = pending \ {d}
  /\ status' = [status EXCEPT ![d] = code]

\* Malformed JSON, a body that breaks off, or Validate finds a required field
\* missing.
Reject(d) ==
  /\ Open(d)
  /\ Respond(d, 400)
  /\ UNCHANGED <<queue, holds, stopped, canceled, accepted, ingested, capacity>>

\* Workers blocked in their select: the channel hands an event straight to
\* one of them when nothing is buffered.
Parked == {w \in Worker \ stopped : holds[w] = Idle}

Room == Len(queue) < capacity

\* The send to the channel succeeds.  The answer follows: others can see the
\* event before its sender knows that it was accepted.
Enqueue(d) ==
  /\ Open(d)
  /\ \/ /\ Room
        /\ queue' = Append(queue, d)
        /\ UNCHANGED holds
     \/ /\ queue = <<>>
        /\ \E w \in Parked : holds' = [holds EXCEPT ![w] = d]
        /\ UNCHANGED queue
  /\ status' = [status EXCEPT ![d] = 202]
  /\ accepted' = Append(accepted, d)
  /\ UNCHANGED <<pending, stopped, canceled, ingested, capacity>>

Acknowledge(d) ==
  /\ d \in pending
  /\ status[d] = 202
  /\ Respond(d, 202)
  /\ UNCHANGED <<queue, holds, stopped, canceled, accepted, ingested, capacity>>

\* Mutants: a send without the default case; a default case that answers
\* like the accepting one.
NoDefaultCase(d) == FALSE
AcceptedWhenFull(d) ==
  /\ ~ Room
  /\ Respond(d, 202)
  /\ accepted' = Append(accepted, d)

\* The select takes its default case.  With workers parked on an unbuffered
\* channel it does so as well, when they have not reached their select yet.
DefaultCase(d) ==
  /\ ~ Room
  /\ Respond(d, 503)
  /\ UNCHANGED accepted

QueueFull(d) ==
  /\ Open(d)
  /\ DefaultCase(d)
  /\ UNCHANGED <<queue, holds, stopped, canceled, ingested, capacity>>

-----------------------------------------------------------------------------
(* RunWorkers.                                                             *)

\* Mutant: the newest event first.
FromTheBack(q) == <<Last(q), Front(q)>>

\* The event received, and what stays in the channel.
ReceiveFrom(q) == <<Head(q), Tail(q)>>

\* The select of an idle worker receives, also when ctx is done: select
\* chooses at random between ready cases.
Take(w) ==
  /\ w \in Parked
  /\ queue # <<>>
  /\ LET received == ReceiveFrom(queue) IN
       /\ holds' = [holds EXCEPT ![w] = received[1]]
       /\ queue' = received[2]
  /\ UNCHANGED <<pending, status, stopped, canceled, accepted, ingested, capacity>>

\* Mutants: the event is ingested and kept, so that the loop ingests it
\* again; the goroutine ends after its first event.
HoldsStill(w) == holds
StoppedAfterOne(w) == stopped \cup {w}

HoldsAfterIngest(w) == [holds EXCEPT ![w] = Idle]
StoppedAfterIngest(w) == stopped

Ingest(w) ==
  /\ holds[w] # Idle
  /\ ingested' = Append(ingested, holds[w])
  /\ holds' = HoldsAfterIngest(w)
  /\ stopped' = StoppedAfterIngest(w)
  /\ UNCHANGED <<pending, status, queue, canceled, accepted, capacity>>

Cancel ==
  /\ ~ canceled
  /\ canceled' = TRUE
  /\ UNCHANGED <<pending, status, queue, holds, stopped, accepted, ingested, capacity>>

\* The select of an idle worker takes ctx.Done().
Return(w) ==
  /\ canceled
  /\ w \in Parked
  /\ stopped' = stopped \cup {w}
  /\ UNCHANGED <<pending, status, queue, holds, canceled, accepted, ingested, capacity>>

Next ==
  \/ \E d \in Delivery : Arrive(d) \/ Reject(d) \/ Enqueue(d) \/ Acknowledge(d) \/ QueueFull(d)
  \/ \E w \in Worker : Take(w) \/ Ingest(w) \/ Return(w)
  \/ Cancel

Spec == Init /\ [][Next]_vars

-----------------------------------------------------------------------------
(* Properties.                                                             *)

Held == {holds[w] : w \in Worker} \ {Idle}

\* An event is overtaken only by way of a worker that holds it: whatever was
\* accepted before an ingested event is ingested, or at a worker (RunWorkers).
OvertakenOnlyWhenHeld ==
  \A i, j \in DOMAIN accepted :
    i < j /\ accepted[j] \in ToSet(ingested) =>
      accepted[i] \in ToSet(ingested) \cup Held

-----------------------------------------------------------------------------
(* What the documents say and the code does not keep: counterexamples are  *)
(* described in the README, and no passing run checks these.               *)

\* docs/design.md: the session holds the latest known event of each app: the
\* engine gets the events of one app in the order in which they were accepted.
AppOrder ==
  \A i, j \in DOMAIN accepted : \A m, n \in DOMAIN ingested :
    /\ i < j
    /\ accepted[i].app = accepted[j].app
    /\ ingested[m] = accepted[i]
    /\ ingested[n] = accepted[j]
    => m < n
=============================================================================
