------------------------- MODULE SlackBackendProofs -------------------------
(***************************************************************************)
(* Proofs about the Slack backend's handlers and the retries of its        *)
(* client, for any finite set of calls and every SLACK_MAX_RETRIES.        *)
(***************************************************************************)
EXTENDS SlackBackend, FiniteSetTheorems, TLAPS

\* The goroutine of a call: it asks of Slack what the core asked of it, and a
\* round that is to come is one of the Rounds.
GoroutineInv ==
  /\ kind \in [Call -> Kinds]
  /\ method = kind
  /\ stage \in [Call -> {"new", "attempt", "waiting", "backoff", "done"}]
  /\ attempts \in [Call -> 0 .. Rounds]
  /\ answer \in [Call -> [code : {0, 200, 204, 500}, ref : Refs \cup {NoRef}]]
  /\ \A c \in Call : /\ stage[c] = "new" => attempts[c] = 0
                     /\ stage[c] \in {"attempt", "backoff"} => attempts[c] < Rounds

\* Slack and what is between it and the client.
SlackInv ==
  /\ sent \subseteq [call : Call, n : Nat, method : Kinds]
  /\ replies \subseteq [call : Call, n : Nat, ok : BOOLEAN, retryable : BOOLEAN,
                        ref : Refs \cup {NoRef}]
  /\ messages \subseteq [ref : Refs, thread : BOOLEAN, by : Call]
  /\ \A m, n \in messages : m.ref = n.ref => m = n
  /\ shown \subseteq Refs \X Call

CallersInv == canceled \subseteq Call /\ unheard \subseteq Call

Posted == {m \in messages : m.ref # Known}
Attempted == {t \in Call \X (1 .. Rounds) : t[2] <= attempts[t[1]]}

\* Every message was an attempt, and every attempt is counted.
CountInv ==
  /\ IsFiniteSet(sent) /\ IsFiniteSet(Posted)
  /\ Cardinality(sent) + Cardinality(Posted) <= Cardinality(Attempted)

TypeInv == GoroutineInv /\ SlackInv /\ CallersInv /\ CountInv

-----------------------------------------------------------------------------
(* The rounds of a call.                                                   *)

LEMMA RoundsType ==
  /\ Rounds \in Nat
  /\ \A n \in Nat : (~ n > MaxRetries) => n < Rounds
BY CallAssumption DEF Rounds

LEMMA RefsContain == Known \in Refs /\ NoRef \in Refs \cup {NoRef} /\ Cardinality(Call) \in Nat
<1>1. Cardinality(Call) \in Nat
  BY CallAssumption, FS_CardinalityType
<1>2. Cardinality(Call) * (Rounds + 1) \in Nat
  BY <1>1, RoundsType
<1> QED
  BY <1>1, <1>2 DEF Refs, Known

LEMMA FinishKeeps ==
  ASSUME GoroutineInv, NEW c \in Call,
         NEW a \in [code : {0, 200, 204, 500}, ref : Refs \cup {NoRef}],
         Finish(c, a), UNCHANGED kind
  PROVE  GoroutineInv'
BY DEF GoroutineInv, Finish

LEMMA FailKeeps ==
  ASSUME GoroutineInv, NEW c \in Call, Fail(c), UNCHANGED kind
  PROVE  GoroutineInv'
BY FinishKeeps DEF Fail

LEMMA NextRoundKeeps ==
  ASSUME GoroutineInv, NEW c \in Call, NextRound(c), UNCHANGED kind
  PROVE  GoroutineInv'
<1>1. CASE Fail(c)
  BY <1>1, FailKeeps
<1>2. CASE /\ ~ OutOfAttempts(c)
           /\ stage' = [stage EXCEPT ![c] = "backoff"]
           /\ UNCHANGED <<method, attempts, answer>>
  <2>1. attempts[c] < Rounds
    BY <1>2, RoundsType DEF GoroutineInv, OutOfAttempts
  <2> QED
    BY <1>2, <2>1 DEF GoroutineInv
<1> QED
  BY <1>1, <1>2 DEF NextRound

\* Only Attempt changes the number of attempts.
LEMMA CountsStay ==
  ASSUME GoroutineInv, CountInv,
         attempts' = attempts, sent' = sent, messages' = messages
  PROVE  CountInv'
BY DEF CountInv, Posted, Attempted

LEMMA NextRoundAttempts ==
  ASSUME NEW c \in Call, NextRound(c) \/ Fail(c)
  PROVE  attempts' = attempts
BY DEF NextRound, Fail, Finish

LEMMA StartKeeps ==
  ASSUME TypeInv, NEW c \in Call, Start(c), UNCHANGED kind
  PROVE  TypeInv'
<1> USE DEF TypeInv
<1>1. GoroutineInv'
  <2>1. CASE /\ ~ OutOfAttempts(c)
             /\ stage' = [stage EXCEPT ![c] = "attempt"]
             /\ UNCHANGED <<method, attempts, answer>>
    <3>1. attempts[c] < Rounds
      BY <2>1, RoundsType DEF GoroutineInv, OutOfAttempts
    <3> QED
      BY <2>1, <3>1 DEF GoroutineInv
  <2>2. CASE Finish(c, Success(c, RefFrom(c, NoRef)))
    <3>1. Success(c, RefFrom(c, NoRef)) \in [code : {0, 200, 204, 500}, ref : Refs \cup {NoRef}]
      BY RefsContain DEF Success, RefFrom
    <3> QED
      BY <2>2, <3>1, FinishKeeps
  <2> QED
    BY <2>1, <2>2, FailKeeps DEF Start
<1>2. SlackInv' /\ CallersInv'
  BY DEF Start, SlackInv, CallersInv
<1>3. attempts' = attempts
  BY DEF Start, Fail, Finish
<1>4. CountInv'
  BY <1>3, CountsStay DEF Start
<1> QED
  BY <1>1, <1>2, <1>4

LEMMA ReceiveKeeps ==
  ASSUME TypeInv, NEW c \in Call, Receive(c), UNCHANGED kind
  PROVE  TypeInv'
<1> USE DEF TypeInv
<1>1. PICK r \in replies :
        /\ r.call = c /\ stage[c] = "waiting" /\ r.n = attempts[c]
        /\ replies' = replies \ {r}
        /\ \/ r.ok /\ ReturnFirst(c, r)
           \/ ~ r.ok /\ r.retryable /\ NextRound(c)
           \/ ~ r.ok /\ ~ r.retryable /\ Fail(c)
        /\ UNCHANGED <<sent, messages, canceled, shown, unheard>>
  BY DEF Receive
<1>2. GoroutineInv'
  <2>1. CASE ReturnFirst(c, r)
    <3>1. RefFrom(c, r.ref) \in Refs \cup {NoRef}
      BY <1>1, RefsContain DEF RefFrom, SlackInv
    <3>2. Success(c, RefFrom(c, r.ref)) \in [code : {0, 200, 204, 500}, ref : Refs \cup {NoRef}]
      BY <3>1 DEF Success
    <3> QED
      BY <2>1, <3>2, FinishKeeps DEF ReturnFirst
  <2> QED
    BY <1>1, <2>1, FailKeeps, NextRoundKeeps
<1>3. SlackInv' /\ CallersInv'
  BY <1>1 DEF SlackInv, CallersInv
<1>4. attempts' = attempts
  BY <1>1 DEF ReturnFirst, NextRound, Fail, Finish
<1>5. CountInv'
  BY <1>1, <1>4, CountsStay
<1> QED
  BY <1>2, <1>3, <1>5

LEMMA LoseReplyKeeps ==
  ASSUME TypeInv, NEW c \in Call, LoseReply(c), UNCHANGED kind
  PROVE  TypeInv'
<1> USE DEF TypeInv
<1>1. GoroutineInv'
  BY NextRoundKeeps DEF LoseReply
<1>2. SlackInv' /\ CallersInv'
  BY DEF LoseReply, SlackInv, CallersInv
<1>3. CountInv'
  BY NextRoundAttempts, CountsStay DEF LoseReply
<1> QED
  BY <1>1, <1>2, <1>3

LEMMA BackoffKeeps ==
  ASSUME TypeInv, NEW c \in Call, Backoff(c), UNCHANGED kind
  PROVE  TypeInv'
<1> USE DEF TypeInv
<1>1. GoroutineInv'
  BY DEF Backoff, GoroutineInv
<1>2. SlackInv' /\ CallersInv'
  BY DEF Backoff, SlackInv, CallersInv
<1>3. CountInv'
  BY CountsStay DEF Backoff
<1> QED
  BY <1>1, <1>2, <1>3

LEMMA AbortKeeps ==
  ASSUME TypeInv, NEW c \in Call, Abort(c), UNCHANGED kind
  PROVE  TypeInv'
<1> USE DEF TypeInv
<1>1. GoroutineInv'
  BY FailKeeps DEF Abort
<1>2. SlackInv' /\ CallersInv'
  BY DEF Abort, SlackInv, CallersInv
<1>3. CountInv'
  BY NextRoundAttempts, CountsStay DEF Abort
<1> QED
  BY <1>1, <1>2, <1>3

LEMMA DisconnectKeeps ==
  ASSUME TypeInv, NEW c \in Call, Disconnect(c), UNCHANGED kind
  PROVE  TypeInv'
<1> USE DEF TypeInv
<1>1. GoroutineInv'
  BY DEF Disconnect, GoroutineInv
<1>2. SlackInv' /\ CallersInv'
  BY DEF Disconnect, SlackInv, CallersInv
<1>3. CountInv'
  BY CountsStay DEF Disconnect
<1> QED
  BY <1>1, <1>2, <1>3
-----------------------------------------------------------------------------
(* What Slack does with the attempts.                                      *)

LEMMA AttemptedBounded ==
  /\ IsFiniteSet(Attempted)
  /\ Cardinality(Attempted) \in Nat
  /\ Cardinality(Attempted) <= Cardinality(Call) * Rounds
<1> DEFINE all == Call \X (1 .. Rounds)
<1>1. IsFiniteSet(1 .. Rounds) /\ Cardinality(1 .. Rounds) = Rounds
  BY RoundsType, FS_Interval
<1>2. IsFiniteSet(all) /\ Cardinality(all) = Cardinality(Call) * Rounds
  BY <1>1, CallAssumption, FS_Product
<1>3. Attempted \in SUBSET all
  BY DEF Attempted
<1> HIDE DEF all
<1> QED
  BY <1>2, <1>3, FS_Subset, FS_CardinalityType

LEMMA OneMore ==
  ASSUME NEW S, NEW x, IsFiniteSet(S)
  PROVE  /\ IsFiniteSet(S \cup {x})
         /\ Cardinality(S) \in Nat /\ Cardinality(S \cup {x}) \in Nat
         /\ Cardinality(S \cup {x}) <= Cardinality(S) + 1
<1>1. /\ IsFiniteSet(S \cup {x})
      /\ Cardinality(S \cup {x}) = IF x \in S THEN Cardinality(S) ELSE Cardinality(S) + 1
  BY FS_AddElement
<1>2. Cardinality(S) \in Nat
  BY FS_CardinalityType
<1> QED
  BY <1>1, <1>2

LEMMA AttemptKeeps ==
  ASSUME TypeInv, NEW c \in Call, Attempt(c), UNCHANGED kind
  PROVE  TypeInv'
<1> USE DEF TypeInv
<1>1. attempts[c] \in Nat /\ attempts[c] < Rounds
  BY RoundsType DEF Attempt, GoroutineInv
<1>2. GoroutineInv'
  BY <1>1, RoundsType DEF Attempt, GoroutineInv
<1>3. SlackInv'
  BY <1>1 DEF Attempt, SlackInv, GoroutineInv
<1>4. CallersInv'
  BY DEF Attempt, CallersInv
<1>5. CountInv'
  <2> DEFINE round == <<c, attempts[c] + 1>>
             try == [call |-> c, n |-> attempts[c] + 1, method |-> method[c]]
  <2>1. round \notin Attempted
    BY <1>1 DEF Attempted
  <2>2. Attempted' = Attempted \cup {round}
    BY <1>1, RoundsType DEF Attempt, Attempted, GoroutineInv
  <2>3. sent' = sent \cup {try} /\ Posted' = Posted
    BY DEF Attempt, Posted
  <2> HIDE DEF round, try
  <2>4. Cardinality(Attempted') = Cardinality(Attempted) + 1
    BY <2>1, <2>2, AttemptedBounded, FS_AddElement
  <2>5. /\ IsFiniteSet(sent') /\ Cardinality(sent) \in Nat /\ Cardinality(sent') \in Nat
        /\ Cardinality(sent') <= Cardinality(sent) + 1
    BY <2>3, OneMore DEF CountInv
  <2>6. Cardinality(Posted) \in Nat
    BY FS_CardinalityType DEF CountInv
  <2> QED
    BY <2>3, <2>4, <2>5, <2>6, AttemptedBounded DEF CountInv
<1> QED
  BY <1>2, <1>3, <1>4, <1>5

LEMMA NewRefType ==
  ASSUME TypeInv, NEW a \in sent
  PROVE  NewRef \in Refs /\ NewRef # Known
<1> DEFINE calls == Cardinality(Call)
<1>1. Cardinality(Posted) \in Nat /\ Cardinality(sent) \in Nat /\ Cardinality(sent) # 0
  BY FS_CardinalityType, FS_EmptySet DEF TypeInv, CountInv
<1>2. 1 + Cardinality(Posted) <= Cardinality(Attempted)
  BY <1>1, AttemptedBounded DEF TypeInv, CountInv
<1>3. calls \in Nat /\ Rounds \in Nat
  BY RefsContain, RoundsType
<1>4. NewRef = 1 + Cardinality(Posted)
  BY DEF NewRef, Posted
<1> HIDE DEF calls
<1>5. calls * Rounds <= calls * (Rounds + 1)
  BY <1>3
<1>6. calls * Rounds \in Nat /\ calls * (Rounds + 1) \in Nat
  BY <1>3
<1>7. Cardinality(Attempted) \in Nat /\ Cardinality(Attempted) <= calls * Rounds
  BY AttemptedBounded DEF calls
<1>8. NewRef \in 0 .. calls * (Rounds + 1) /\ NewRef # 0
  BY <1>1, <1>2, <1>4, <1>5, <1>6, <1>7
<1> QED
  BY <1>8 DEF Refs, Known, calls

RefOf(a) == IF a.method = "update" THEN Known ELSE NewRef
MessageOf(a) == [ref |-> RefOf(a), thread |-> a.method = "reply", by |-> a.call]

LEMMA CarryOutEffect ==
  ASSUME TypeInv, NEW a \in sent, CarryOut(a)
  PROVE  /\ a.call \in Call /\ RefOf(a) \in Refs
         /\ sent' = sent \ {a}
         /\ messages' = {m \in messages : m.ref # RefOf(a)} \cup {MessageOf(a)}
         /\ shown' = shown \cup {<<RefOf(a), a.call>>}
         /\ \/ /\ replies' = replies \cup {ReplyTo(a, TRUE, FALSE, RefOf(a))}
               /\ UNCHANGED unheard
            \/ /\ \E b \in BOOLEAN : replies' = replies \cup {ReplyTo(a, FALSE, b, NoRef)}
               /\ unheard' = unheard \cup {a.call}
         /\ UNCHANGED <<stage, method, attempts, canceled, answer>>
BY NewRefType, RefsContain DEF CarryOut, RefOf, MessageOf, TypeInv, SlackInv

LEMMA CarryOutKeeps ==
  ASSUME TypeInv, NEW a \in sent, CarryOut(a), UNCHANGED kind
  PROVE  TypeInv'
<1> USE DEF TypeInv
<1> DEFINE new == MessageOf(a)
<1>1. GoroutineInv' /\ CallersInv'
  <2>1. /\ UNCHANGED <<stage, method, attempts, canceled, answer, kind>>
        /\ unheard' \subseteq unheard \cup {a.call} /\ a.call \in Call
    BY CarryOutEffect
  <2> QED
    BY <2>1 DEF GoroutineInv, CallersInv
<1>2. SlackInv'
  <2>1. new \in [ref : Refs, thread : BOOLEAN, by : Call] /\ new.ref = RefOf(a)
    BY CarryOutEffect DEF MessageOf
  <2>2. \A ok, b \in BOOLEAN : \A ref \in {RefOf(a), NoRef} : ReplyTo(a, ok, b, ref)
          \in [call : Call, n : Nat, ok : BOOLEAN, retryable : BOOLEAN, ref : Refs \cup {NoRef}]
    BY CarryOutEffect DEF ReplyTo, SlackInv
  <2> HIDE DEF new
  <2>3. /\ messages' \subseteq [ref : Refs, thread : BOOLEAN, by : Call]
        /\ \A m, n \in messages' : m.ref = n.ref => m = n
    BY <2>1, CarryOutEffect DEF SlackInv, new
  <2>4. sent' \subseteq [call : Call, n : Nat, method : Kinds]
    BY CarryOutEffect DEF SlackInv
  <2>5. shown' \subseteq Refs \X Call
    <3>1. shown' = shown \cup {<<RefOf(a), a.call>>} /\ <<RefOf(a), a.call>> \in Refs \X Call
      BY CarryOutEffect
    <3> QED
      BY <3>1 DEF SlackInv
  <2>6. replies' \subseteq [call : Call, n : Nat, ok : BOOLEAN, retryable : BOOLEAN,
                           ref : Refs \cup {NoRef}]
    <3>1. \E ok, b \in BOOLEAN : \E ref \in {RefOf(a), NoRef} :
            replies' = replies \cup {ReplyTo(a, ok, b, ref)}
      BY CarryOutEffect
    <3> QED
      BY <2>2, <3>1 DEF SlackInv
  <2> QED
    BY <2>3, <2>4, <2>5, <2>6 DEF SlackInv
<1>3. CountInv'
  <2>1. Attempted' = Attempted
    BY CarryOutEffect DEF Attempted
  <2>2. /\ IsFiniteSet(sent')
        /\ Cardinality(sent) \in Nat
        /\ Cardinality(sent') = Cardinality(sent) - 1
    <3>1. sent' = sent \ {a} /\ IsFiniteSet(sent)
      BY CarryOutEffect DEF CountInv
    <3> QED
      BY <3>1, FS_RemoveElement, FS_CardinalityType
  <2>3. Posted' \in SUBSET (Posted \cup {new})
    BY CarryOutEffect DEF Posted
  <2> HIDE DEF new
  <2>4. /\ IsFiniteSet(Posted \cup {new})
        /\ Cardinality(Posted \cup {new}) <= Cardinality(Posted) + 1
        /\ Cardinality(Posted) \in Nat
    BY OneMore DEF CountInv
  <2>5. /\ IsFiniteSet(Posted')
        /\ Cardinality(Posted') <= Cardinality(Posted \cup {new})
    BY <2>3, <2>4, FS_Subset
  <2>6. Cardinality(Posted') \in Nat /\ Cardinality(Posted \cup {new}) \in Nat
    BY <2>4, <2>5, FS_CardinalityType
  <2> QED
    BY <2>1, <2>2, <2>4, <2>5, <2>6, AttemptedBounded DEF CountInv
<1> QED
  BY <1>1, <1>2, <1>3

LEMMA RefuseKeeps ==
  ASSUME TypeInv, NEW a \in sent, Refuse(a), UNCHANGED kind
  PROVE  TypeInv'
<1> USE DEF TypeInv
<1>1. GoroutineInv' /\ CallersInv'
  BY DEF Refuse, GoroutineInv, CallersInv
<1>2. SlackInv'
  <2>1. sent' \subseteq [call : Call, n : Nat, method : Kinds]
    BY DEF Refuse, SlackInv
  <2>2. \A b \in BOOLEAN : ReplyTo(a, FALSE, b, NoRef)
          \in [call : Call, n : Nat, ok : BOOLEAN, retryable : BOOLEAN, ref : Refs \cup {NoRef}]
    BY DEF ReplyTo, SlackInv
  <2>3. replies' \subseteq [call : Call, n : Nat, ok : BOOLEAN, retryable : BOOLEAN,
                           ref : Refs \cup {NoRef}]
    BY <2>2 DEF Refuse, SlackInv
  <2> QED
    BY <2>1, <2>3 DEF Refuse, SlackInv
<1>3. CountInv'
  <2>1. Attempted' = Attempted /\ Posted' = Posted /\ sent' = sent \ {a}
    BY DEF Refuse, Attempted, Posted
  <2>2. /\ IsFiniteSet(sent')
        /\ Cardinality(sent) \in Nat
        /\ Cardinality(sent') = Cardinality(sent) - 1
    BY <2>1, FS_RemoveElement, FS_CardinalityType DEF CountInv
  <2>3. Cardinality(Posted) \in Nat
    BY FS_CardinalityType DEF CountInv
  <2> QED
    BY <2>1, <2>2, <2>3, AttemptedBounded DEF CountInv
<1> QED
  BY <1>1, <1>2, <1>3

LEMMA TypeInvariant == Spec => []TypeInv
<1>1. Init => TypeInv
  <2> SUFFICES ASSUME Init PROVE TypeInv
    OBVIOUS
  <2>1. GoroutineInv
    <3>1. 0 \in 0 .. Rounds /\ NoAnswer \in [code : {0, 200, 204, 500}, ref : Refs \cup {NoRef}]
      BY RoundsType DEF NoAnswer
    <3> QED
      BY <3>1 DEF Init, GoroutineInv
  <2>2. SlackInv /\ CallersInv
    BY DEF Init, SlackInv, CallersInv
  <2>3. sent = {} /\ Posted = {}
    BY DEF Init, Posted
  <2>4. CountInv
    BY <2>3, FS_EmptySet, AttemptedBounded DEF CountInv
  <2> QED
    BY <2>1, <2>2, <2>4 DEF TypeInv
<1>2. ASSUME TypeInv, [Next]_vars
      PROVE  TypeInv'
  <2>1. ASSUME NEW c \in Call, UNCHANGED kind,
               Start(c) \/ Attempt(c) \/ Receive(c) \/ LoseReply(c) \/ Backoff(c) \/ Abort(c)
                 \/ Disconnect(c)
        PROVE  TypeInv'
    BY <1>2, <2>1, StartKeeps, AttemptKeeps, ReceiveKeeps, LoseReplyKeeps, BackoffKeeps,
       AbortKeeps, DisconnectKeeps
  <2>2. ASSUME NEW a \in sent, UNCHANGED kind, CarryOut(a) \/ Refuse(a)
        PROVE  TypeInv'
    BY <1>2, <2>2, CarryOutKeeps, RefuseKeeps
  <2>3. CASE UNCHANGED vars
    BY <1>2, <2>3 DEF vars, TypeInv, GoroutineInv, SlackInv, CallersInv, CountInv, Posted, Attempted
  <2> QED
    BY <1>2, <2>1, <2>2, <2>3 DEF Next
<1> QED
  BY <1>1, <1>2, PTL DEF Spec

\* The types of the client's and Slack's state: at most MaxRetries + 1
\* attempts of each call, none when that is negative (Client.call), which bounds the messages they write.
THEOREM SlackTypeCorrect == Spec => []TypeOK
<1>1. TypeInv => TypeOK
  BY DEF TypeInv, GoroutineInv, SlackInv, CallersInv, TypeOK
<1> QED
  BY <1>1, TypeInvariant, PTL
-----------------------------------------------------------------------------
(* What success means.                                                     *)

\* An attempt asks for what its call asks for, and an answer of success is
\* about something that Slack has put on display.
DeliveredInv ==
  /\ \A a \in sent : a.method = kind[a.call]
  /\ \A r \in replies :
       r.ok => <<r.ref, r.call>> \in shown /\ (kind[r.call] = "update" => r.ref = Known)
  /\ MaxRetries >= 0 => SuccessMeansDelivered
  /\ KnownRefStays

\* The steps of a goroutine that neither send an attempt nor take an answer.
LEMMA QuietSteps ==
  ASSUME GoroutineInv, NEW c \in Call,
         Start(c) \/ LoseReply(c) \/ Backoff(c) \/ Abort(c) \/ Disconnect(c)
  PROVE  /\ sent' = sent /\ messages' = messages /\ shown' = shown
         /\ replies' \subseteq replies
         /\ MaxRetries >= 0 =>
              \A d \in Call : answer'[d] = answer[d] \/ answer'[d].code = 500
<1>0. CASE Start(c) /\ OutOfAttempts(c)
  <2>1. MaxRetries < 0
    BY <1>0, CallAssumption DEF Start, OutOfAttempts, GoroutineInv
  <2>2. sent' = sent /\ messages' = messages /\ shown' = shown /\ replies' = replies
    BY <1>0 DEF Start
  <2> QED
    BY <2>1, <2>2, CallAssumption
<1>1. CASE Fail(c)
  BY <1>1 DEF GoroutineInv, Fail, Finish, Start, LoseReply, Backoff, Abort, Disconnect
<1>2. CASE UNCHANGED answer
  BY <1>2 DEF Start, LoseReply, Backoff, Abort, Disconnect
<1> QED
  BY <1>0, <1>1, <1>2 DEF Start, LoseReply, NextRound, Backoff, Abort, Disconnect

LEMMA QuietDelivers ==
  ASSUME TypeInv, DeliveredInv, UNCHANGED kind, NEW c \in Call,
         Start(c) \/ LoseReply(c) \/ Backoff(c) \/ Abort(c) \/ Disconnect(c)
  PROVE  DeliveredInv'
<1>1. /\ sent' = sent /\ messages' = messages /\ shown' = shown
      /\ replies' \subseteq replies
      /\ MaxRetries >= 0 => \A d \in Call : answer'[d] = answer[d] \/ answer'[d].code = 500
  BY QuietSteps DEF TypeInv
<1>2. MaxRetries >= 0 => SuccessMeansDelivered'
  BY <1>1 DEF DeliveredInv, SuccessMeansDelivered
<1> QED
  BY <1>1, <1>2 DEF DeliveredInv, KnownRefStays

LEMMA ReceiveDelivers ==
  ASSUME TypeInv, DeliveredInv, UNCHANGED kind, NEW c \in Call, Receive(c)
  PROVE  DeliveredInv'
<1>1. PICK r \in replies :
        /\ r.call = c
        /\ replies' = replies \ {r}
        /\ (r.ok /\ ReturnFirst(c, r)) \/ NextRound(c) \/ Fail(c)
        /\ UNCHANGED <<sent, messages, canceled, shown, unheard>>
  BY DEF Receive
<1>2. CASE r.ok /\ ReturnFirst(c, r)
  <2>1. answer' = [answer EXCEPT ![c] = Success(c, RefFrom(c, r.ref))]
    BY <1>2 DEF ReturnFirst, Finish
  <2>2. <<r.ref, c>> \in shown /\ (kind[c] = "update" => r.ref = Known)
    BY <1>1, <1>2 DEF DeliveredInv
  <2>3. kind[c] # "reply" => Success(c, RefFrom(c, r.ref)).ref = r.ref
    BY <2>2 DEF Success, RefFrom, TypeInv, GoroutineInv, Kinds
  <2>4. MaxRetries >= 0 => SuccessMeansDelivered'
    BY <1>1, <2>1, <2>2, <2>3 DEF DeliveredInv, SuccessMeansDelivered, TypeInv, GoroutineInv
  <2> QED
    BY <1>1, <2>4 DEF DeliveredInv, KnownRefStays
<1>3. CASE NextRound(c) \/ Fail(c)
  <2>1. \A d \in Call : answer'[d] = answer[d] \/ answer'[d].code = 500
    BY <1>3 DEF NextRound, Fail, Finish, TypeInv, GoroutineInv
  <2>2. MaxRetries >= 0 => SuccessMeansDelivered'
    BY <1>1, <2>1 DEF DeliveredInv, SuccessMeansDelivered
  <2> QED
    BY <1>1, <2>2 DEF DeliveredInv, KnownRefStays
<1> QED
  BY <1>1, <1>2, <1>3

LEMMA AttemptDelivers ==
  ASSUME TypeInv, DeliveredInv, UNCHANGED kind, NEW c \in Call, Attempt(c)
  PROVE  DeliveredInv'
<1>1. \A a \in sent' : a.method = kind'[a.call]
  BY DEF Attempt, DeliveredInv, TypeInv, GoroutineInv
<1>2. MaxRetries >= 0 => SuccessMeansDelivered'
  BY DEF Attempt, DeliveredInv, SuccessMeansDelivered
<1> QED
  BY <1>1, <1>2 DEF Attempt, DeliveredInv, KnownRefStays

LEMMA CarryOutDelivers ==
  ASSUME TypeInv, DeliveredInv, UNCHANGED kind, NEW a \in sent, CarryOut(a)
  PROVE  DeliveredInv'
<1>1. /\ a.call \in Call /\ a.method = kind[a.call]
      /\ sent' = sent \ {a} /\ UNCHANGED answer
      /\ messages' = {m \in messages : m.ref # RefOf(a)} \cup {MessageOf(a)}
      /\ shown' = shown \cup {<<RefOf(a), a.call>>}
      /\ \E r : /\ r \in {ReplyTo(a, TRUE, FALSE, RefOf(a)), ReplyTo(a, FALSE, TRUE, NoRef),
                        ReplyTo(a, FALSE, FALSE, NoRef)}
               /\ replies' = replies \cup {r}
  BY CarryOutEffect DEF DeliveredInv
<1>2. MaxRetries >= 0 => SuccessMeansDelivered'
  BY <1>1 DEF DeliveredInv, SuccessMeansDelivered
<1>3. KnownRefStays'
  BY <1>1 DEF DeliveredInv, KnownRefStays, MessageOf, RefOf
<1>4. \A r \in replies' :
        r.ok => <<r.ref, r.call>> \in shown' /\ (kind'[r.call] = "update" => r.ref = Known)
  BY <1>1 DEF DeliveredInv, ReplyTo, RefOf
<1> QED
  BY <1>1, <1>2, <1>3, <1>4 DEF DeliveredInv

LEMMA RefuseDelivers ==
  ASSUME TypeInv, DeliveredInv, UNCHANGED kind, NEW a \in sent, Refuse(a)
  PROVE  DeliveredInv'
<1>1. \A r \in replies' : r.ok => r \in replies
  BY DEF Refuse, ReplyTo
<1>2. MaxRetries >= 0 => SuccessMeansDelivered'
  BY DEF Refuse, DeliveredInv, SuccessMeansDelivered
<1> QED
  BY <1>1, <1>2 DEF Refuse, DeliveredInv, KnownRefStays

LEMMA DeliveredInvariant == Spec => []DeliveredInv
<1>1. Init => DeliveredInv
  BY DEF Init, DeliveredInv, SuccessMeansDelivered, KnownRefStays, NoAnswer
<1>2. ASSUME TypeInv, DeliveredInv, [Next]_vars
      PROVE  DeliveredInv'
  <2>1. ASSUME NEW c \in Call, UNCHANGED kind,
               Start(c) \/ Attempt(c) \/ Receive(c) \/ LoseReply(c) \/ Backoff(c) \/ Abort(c)
                 \/ Disconnect(c)
        PROVE  DeliveredInv'
    BY <1>2, <2>1, QuietDelivers, ReceiveDelivers, AttemptDelivers
  <2>2. ASSUME NEW a \in sent, UNCHANGED kind, CarryOut(a) \/ Refuse(a)
        PROVE  DeliveredInv'
    BY <1>2, <2>2, CarryOutDelivers, RefuseDelivers
  <2>3. CASE UNCHANGED vars
    BY <1>2, <2>3 DEF vars, DeliveredInv, SuccessMeansDelivered, KnownRefStays
  <2> QED
    BY <1>2, <2>1, <2>2, <2>3 DEF Next
<1> QED
  BY <1>1, <1>2, TypeInvariant, PTL DEF Spec

NothingSent == sent = {} /\ messages = {} /\ shown = {}

\* Below zero no call ever reaches an attempt.
LEMMA NothingSentWithoutRounds == ASSUME MaxRetries < 0 PROVE Spec => []NothingSent
<1> DEFINE Idle == \A c \in Call : stage[c] \in {"new", "done"} /\ attempts[c] = 0
           I == NothingSent /\ Idle
<1>1. Init => I
  BY DEF Init, NothingSent
<1>2. ASSUME TypeInv, I, [Next]_vars
      PROVE  I'
  <2>1. ASSUME NEW c \in Call, Start(c)
        PROVE  I'
    <3>1. OutOfAttempts(c)
      BY <1>2, CallAssumption DEF OutOfAttempts
    <3>2. attempts' = attempts /\ stage' = [stage EXCEPT ![c] = "done"]
      BY <2>1, <3>1 DEF Start, Fail, Finish
    <3> QED
      BY <1>2, <2>1, <3>2 DEF Start, NothingSent, TypeInv, GoroutineInv
  <2>2. ASSUME NEW c \in Call
        PROVE  ~ (Attempt(c) \/ Receive(c) \/ LoseReply(c) \/ Backoff(c) \/ Abort(c)
                    \/ Disconnect(c))
    BY <1>2 DEF Attempt, Receive, LoseReply, Impatient, Backoff, Abort, Disconnect
  <2>3. CASE UNCHANGED vars
    BY <1>2, <2>3 DEF vars, NothingSent
  <2> QED
    BY <1>2, <2>1, <2>2, <2>3 DEF Next, NothingSent
<1> QED
  BY <1>1, <1>2, TypeInvariant, PTL DEF Spec

\* A 200 or 204 of the backend is never a lie: what the core asked for has
\* been on display, under the ref that it is given (Handler.Notify).  The one
\* exception is a negative SLACK_MAX_RETRIES, which nothing validates: then
\* nothing is ever sent to Slack, whatever is answered.
THEOREM SuccessMeansDeliveredHolds ==
  Spec => [](IF MaxRetries >= 0 THEN SuccessMeansDelivered ELSE NothingSent)
<1>1. CASE MaxRetries >= 0
  <2>1. DeliveredInv => IF MaxRetries >= 0 THEN SuccessMeansDelivered ELSE NothingSent
    BY <1>1 DEF DeliveredInv
  <2> QED
    BY <2>1, DeliveredInvariant, PTL
<1>2. CASE MaxRetries < 0
  <2>1. NothingSent => IF MaxRetries >= 0 THEN SuccessMeansDelivered ELSE NothingSent
    BY <1>2, CallAssumption
  <2> QED
    BY <1>2, <2>1, NothingSentWithoutRounds, PTL
<1> QED
  BY <1>1, <1>2, CallAssumption

\* However often its update fails, a notification for a known ref is never
\* posted as a message of its own (Handler.Notify).
THEOREM KnownRefStaysHolds == Spec => []KnownRefStays
BY DeliveredInvariant, PTL DEF DeliveredInv

-----------------------------------------------------------------------------
(* Duplicates.                                                             *)

\* While a call has got every answer, one thing of it is under way at most,
\* and it goes into another round only when Slack has refused the last one.
Heard(c) ==
  /\ \A a \in sent : a.call = c =>
       /\ stage[c] = "waiting"
       /\ \A r \in replies : r.call # c
       /\ \A m \in messages : m.by # c
  /\ \A r \in replies : r.call = c =>
       /\ stage[c] = "waiting"
       /\ ~ r.ok => \A m \in messages : m.by # c
  /\ \A a, b \in sent : a.call = c /\ b.call = c => a = b
  /\ \A q, r \in replies : q.call = c /\ r.call = c => q = r
  /\ \A m, n \in messages : m.by = c /\ n.by = c => m = n
  /\ \A m \in messages : m.by = c => stage[c] \in {"waiting", "done"}

HeardInv == \A c \in Call \ unheard : Heard(c)

LEMMA OwnStage ==
  ASSUME GoroutineInv, NEW c \in Call, NEW d \in Call \ {c},
         Start(c) \/ Attempt(c) \/ Receive(c) \/ LoseReply(c) \/ Backoff(c) \/ Abort(c) \/ Disconnect(c)
  PROVE  stage'[d] = stage[d]
<1> USE DEF GoroutineInv
<1>1. CASE Fail(c)
  BY <1>1 DEF Fail, Finish
<1>2. CASE NextRound(c)
  BY <1>1, <1>2 DEF NextRound
<1>3. ASSUME NEW a, Finish(c, a)
      PROVE  stage'[d] = stage[d]
  BY <1>3 DEF Finish
<1> QED
  BY <1>1, <1>2, <1>3 DEF ReturnFirst, Start, Attempt, Receive, LoseReply, Backoff, Abort, Disconnect

LEMMA StartHeard ==
  ASSUME TypeInv, HeardInv, NEW c \in Call,
         Start(c) \/ LoseReply(c) \/ Backoff(c) \/ Abort(c) \/ Disconnect(c)
  PROVE  HeardInv'
<1> SUFFICES ASSUME NEW d \in Call \ unheard'
             PROVE  Heard(d)'
  BY DEF HeardInv
<1>1. unheard \subseteq unheard' /\ Heard(d)
  BY DEF Start, LoseReply, Backoff, Abort, Disconnect, HeardInv
<1>2. /\ sent' = sent /\ messages' = messages
      /\ replies' \subseteq replies
  BY QuietSteps DEF TypeInv
<1>3. CASE d = c
  <2>1. ~ LoseReply(c)
    BY <1>3 DEF LoseReply
  <2>2. CASE Disconnect(c)
    BY <1>1, <1>2, <2>2 DEF Disconnect, Heard
  <2>3. CASE Start(c) \/ Backoff(c) \/ Abort(c)
    <3>1. stage[c] \notin {"waiting", "done"}
      BY <1>3, <2>3 DEF Start, Backoff, Abort, TypeInv, GoroutineInv
    <3> QED
      BY <1>1, <1>2, <1>3, <3>1 DEF Heard
  <2> QED
    BY <2>1, <2>2, <2>3
<1>4. CASE d # c
  BY <1>1, <1>2, <1>4, OwnStage DEF TypeInv, Heard
<1> QED
  BY <1>3, <1>4

LEMMA ReceiveHeard ==
  ASSUME TypeInv, HeardInv, NEW c \in Call, Receive(c)
  PROVE  HeardInv'
<1> SUFFICES ASSUME NEW d \in Call \ unheard'
             PROVE  Heard(d)'
  BY DEF HeardInv
<1>1. PICK r \in replies :
        /\ r.call = c
        /\ replies' = replies \ {r}
        /\ \/ r.ok /\ ReturnFirst(c, r)
           \/ ~ r.ok /\ r.retryable /\ NextRound(c)
           \/ ~ r.ok /\ ~ r.retryable /\ Fail(c)
        /\ UNCHANGED <<sent, messages, canceled, shown, unheard>>
  BY DEF Receive
<1>2. Heard(d)
  BY <1>1 DEF HeardInv
<1>3. CASE d = c
  <2>1. /\ \A a \in sent' : a.call # c
        /\ \A q \in replies' : q.call # c
        /\ ~ r.ok => \A m \in messages' : m.by # c
    BY <1>1, <1>2, <1>3 DEF Heard
  <2>2. r.ok => stage'[c] = "done"
    BY <1>1 DEF ReturnFirst, Finish, TypeInv, GoroutineInv
  <2> QED
    BY <1>1, <1>2, <1>3, <2>1, <2>2 DEF Heard
<1>4. CASE d # c
  <2>1. stage'[d] = stage[d]
    BY <1>4, OwnStage DEF TypeInv
  <2> QED
    BY <1>1, <1>2, <1>4, <2>1 DEF Heard
<1> QED
  BY <1>3, <1>4

LEMMA AttemptHeard ==
  ASSUME TypeInv, HeardInv, NEW c \in Call, Attempt(c)
  PROVE  HeardInv'
<1> SUFFICES ASSUME NEW d \in Call \ unheard'
             PROVE  Heard(d)'
  BY DEF HeardInv
<1> DEFINE try == [call |-> c, n |-> attempts[c] + 1, method |-> method[c]]
<1>1. /\ sent' = sent \cup {try} /\ try.call = c
      /\ stage[c] = "attempt" /\ stage'[c] = "waiting"
      /\ UNCHANGED <<replies, messages, unheard>>
  BY DEF Attempt, TypeInv, GoroutineInv
<1>2. Heard(d)
  BY <1>1 DEF HeardInv
<1> HIDE DEF try
<1>3. CASE d = c
  <2>1. /\ \A a \in sent : a.call # c
        /\ \A q \in replies : q.call # c
        /\ \A m \in messages : m.by # c
    BY <1>1, <1>2, <1>3 DEF Heard
  <2> QED
    BY <1>1, <1>3, <2>1 DEF Heard
<1>4. CASE d # c
  <2>1. stage'[d] = stage[d]
    BY <1>4, OwnStage DEF TypeInv
  <2> QED
    BY <1>1, <1>2, <1>4, <2>1 DEF Heard
<1> QED
  BY <1>3, <1>4

LEMMA SlackHeard ==
  ASSUME TypeInv, HeardInv, NEW a \in sent, CarryOut(a) \/ Refuse(a)
  PROVE  HeardInv'
<1> SUFFICES ASSUME NEW d \in Call \ unheard'
             PROVE  Heard(d)'
  BY DEF HeardInv
<1>1. Heard(d) /\ UNCHANGED stage
  BY DEF CarryOut, Refuse, HeardInv
<1>2. CASE CarryOut(a)
  <2> DEFINE new == MessageOf(a)
             reply == ReplyTo(a, TRUE, FALSE, RefOf(a))
  <2>1. /\ sent' = sent \ {a}
        /\ messages' \subseteq messages \cup {new} /\ new.by = a.call
        /\ \/ replies' = replies \cup {reply}
           \/ /\ d # a.call
              /\ \E b \in BOOLEAN : replies' = replies \cup {ReplyTo(a, FALSE, b, NoRef)}
        /\ reply.call = a.call /\ reply.ok
    BY <1>2, CarryOutEffect DEF MessageOf, ReplyTo
  <2>2. \A b : ReplyTo(a, FALSE, b, NoRef).call = a.call
    BY DEF ReplyTo
  <2> HIDE DEF new, reply
  <2> QED
    BY <1>1, <2>1, <2>2 DEF Heard
<1>3. CASE Refuse(a)
  <2>1. /\ sent' = sent \ {a} /\ messages' = messages
        /\ replies' = replies \/
             \E b \in BOOLEAN : replies' = replies \cup {ReplyTo(a, FALSE, b, NoRef)}
    BY <1>3 DEF Refuse
  <2>2. \A b : ReplyTo(a, FALSE, b, NoRef).call = a.call
    BY DEF ReplyTo
  <2> QED
    BY <1>1, <2>1, <2>2 DEF Heard
<1> QED
  BY <1>2, <1>3

\* Retries put a second message into the channel only if the answer to an
\* attempt was lost or denied what Slack had done: a truthful answer either
\* ends the rounds or means that nothing was posted (Client.call).
THEOREM DuplicatesOnlyUnheardHolds == Spec => []DuplicatesOnlyUnheard
<1>1. Init => HeardInv
  BY DEF Init, HeardInv, Heard
<1>2. ASSUME TypeInv, HeardInv, [Next]_vars
      PROVE  HeardInv'
  <2>1. ASSUME NEW c \in Call,
               Start(c) \/ Attempt(c) \/ Receive(c) \/ LoseReply(c) \/ Backoff(c) \/ Abort(c)
                 \/ Disconnect(c)
        PROVE  HeardInv'
    BY <1>2, <2>1, StartHeard, ReceiveHeard, AttemptHeard
  <2>2. ASSUME NEW a \in sent, CarryOut(a) \/ Refuse(a)
        PROVE  HeardInv'
    BY <1>2, <2>2, SlackHeard
  <2>3. CASE UNCHANGED vars
    BY <1>2, <2>3 DEF vars, HeardInv, Heard
  <2> QED
    BY <1>2, <2>1, <2>2, <2>3 DEF Next
<1>3. ASSUME HeardInv
      PROVE  DuplicatesOnlyUnheard
  <2> SUFFICES ASSUME NEW c \in Call, c \notin unheard
               PROVE  ~ (Cardinality({m \in messages : m.by = c}) > 1)
    BY DEF DuplicatesOnlyUnheard
  <2> DEFINE own == {m \in messages : m.by = c}
  <2>1. own = {} \/ \E m : own = {m}
    BY <1>3 DEF HeardInv, Heard
  <2> HIDE DEF own
  <2>2. Cardinality(own) = 0 \/ Cardinality(own) = 1
    BY <2>1, FS_EmptySet, FS_Singleton
  <2> QED
    BY <2>2 DEF own
<1> QED
  BY <1>1, <1>2, <1>3, TypeInvariant, PTL DEF Spec
=============================================================================
