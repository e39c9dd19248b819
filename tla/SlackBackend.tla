---------------------------- MODULE SlackBackend ----------------------------
(***************************************************************************)
(* The Slack backend process: the /notify and /thread-reply handlers       *)
(* (internal/slackbackend/handler.go) and the retries of the Slack client  *)
(* (internal/slack/client.go).  Slack and the core are external: Slack     *)
(* carries an attempt out or refuses it, at any time after it was sent,    *)
(* may report an error though it has carried the attempt out, and its      *)
(* answer may be lost.  When the core gives up, the request's context here *)
(* is canceled once the disconnect is noticed, which may be never.         *)
(***************************************************************************)
EXTENDS Integers, FiniteSets

CONSTANTS
  Call,        \* calls of the core
  MaxRetries   \* cfg.SlackMaxRetries

\* The code does not validate SLACK_MAX_RETRIES.
ASSUME CallAssumption == IsFiniteSet(Call) /\ MaxRetries \in Int

VARIABLES
  kind,       \* what the core asks for, see Kinds
  stage,      \* where the goroutine of each call is
  method,     \* what the call asks of Slack
  attempts,   \* attempts started for each call
  sent,       \* attempts on their way to Slack
  replies,    \* answers on their way back
  messages,   \* messages these calls have written: ref, thread and content
  canceled,   \* calls whose request context is canceled
  answer,     \* status and ref answered to the core; 0 while there is none
  shown,      \* history: <<ref, call>> for all that was ever on display
  unheard     \* history: calls that were not told what Slack did with an attempt

vars == <<kind, stage, method, attempts, sent, replies, messages, canceled, answer,
          shown, unheard>>

\* The handlers choose the kind: /notify without a ref, /notify with one
\* (slack.Client is an Updater), /thread-reply.
Kinds == {"post", "update", "reply"}

\* The most attempts of a call.
Rounds == IF MaxRetries < 0 THEN 0 ELSE MaxRetries + 1

\* The ref of the message that updates and thread replies are about, which
\* an earlier flush has posted.  NoRef is the "|" that encodeRef makes of two empty strings.
Known == 0
NoRef == -1
Refs == 0 .. Cardinality(Call) * (Rounds + 1)
NoAnswer == [code |-> 0, ref |-> NoRef]

TypeOK ==
  /\ kind \in [Call -> Kinds]
  /\ stage \in [Call -> {"new", "attempt", "waiting", "backoff", "done"}]
  /\ method \in [Call -> Kinds]
  /\ attempts \in [Call -> 0 .. Rounds]
  /\ sent \subseteq [call : Call, n : Nat, method : Kinds]
  /\ replies \subseteq [call : Call, n : Nat, ok : BOOLEAN, retryable : BOOLEAN,
                        ref : Refs \cup {NoRef}]
  /\ messages \subseteq [ref : Refs, thread : BOOLEAN, by : Call]
  /\ \A m, n \in messages : m.ref = n.ref => m = n
  /\ canceled \subseteq Call
  /\ answer \in [Call -> [code : {0, 200, 204, 500}, ref : Refs \cup {NoRef}]]
  /\ shown \subseteq Refs \X Call
  /\ unheard \subseteq Call

Init ==
  /\ kind \in [Call -> Kinds]
  /\ stage = [c \in Call |-> "new"]
  /\ method = kind
  /\ attempts = [c \in Call |-> 0]
  /\ sent = {}
  /\ replies = {}
  /\ messages = {}
  /\ canceled = {}
  /\ answer = [c \in Call |-> NoAnswer]
  /\ shown = {}
  /\ unheard = {}

-----------------------------------------------------------------------------
(* The handlers' answers.                                                  *)

Success(c, ref) == [code |-> IF kind[c] = "reply" THEN 204 ELSE 200, ref |-> ref]

Finish(c, a) ==
  /\ answer' = [answer EXCEPT ![c] = a]
  /\ stage' = [stage EXCEPT ![c] = "done"]
  /\ UNCHANGED <<method, attempts>>

\* Mutants: no "return" after a failed update, so that Notify goes on to
\* Post; the error is logged and success answered.
PostInstead(c) ==
  IF method[c] = "update"
  THEN /\ method' = [method EXCEPT ![c] = "post"]
       /\ stage' = [stage EXCEPT ![c] = "attempt"]
       /\ attempts' = [attempts EXCEPT ![c] = 0]
       /\ UNCHANGED answer
  ELSE Finish(c, [code |-> 500, ref |-> NoRef])
ErrorLogged(c) == Finish(c, Success(c, Known))

Fail(c) == Finish(c, [code |-> 500, ref |-> NoRef])

\* An update keeps the ref it was given; a post answers with the new one.
RefFrom(c, ref) == IF method[c] = "post" THEN ref ELSE Known

-----------------------------------------------------------------------------
(* Client.call.                                                            *)

\* Mutant: one round too many.
OutOfAttemptsLate(c) == attempts[c] > MaxRetries + 1

OutOfAttempts(c) == attempts[c] > MaxRetries

\* The body is rendered; a failure answers 500.  With MaxRetries < 0 the loop
\* has no round: there is no error and an empty response.
Start(c) ==
  /\ stage[c] = "new"
  /\ \/ /\ ~ OutOfAttempts(c)
        /\ stage' = [stage EXCEPT ![c] = "attempt"]
        /\ UNCHANGED <<method, attempts, answer>>
     \/ OutOfAttempts(c) /\ Finish(c, Success(c, RefFrom(c, NoRef)))
     \/ kind[c] # "reply" /\ Fail(c)
  /\ UNCHANGED <<sent, replies, messages, canceled, shown, unheard>>

Canceled(c) == c \in canceled

Attempt(c) ==
  /\ stage[c] = "attempt"
  /\ ~ Canceled(c)
  /\ stage' = [stage EXCEPT ![c] = "waiting"]
  /\ attempts' = [attempts EXCEPT ![c] = @ + 1]
  /\ sent' = sent \cup {[call |-> c, n |-> attempts[c] + 1, method |-> method[c]]}
  /\ UNCHANGED <<method, replies, messages, canceled, answer, shown, unheard>>

\* The loop goes on to the next round, or returns the last error.
NextRound(c) ==
  \/ OutOfAttempts(c) /\ Fail(c)
  \/ /\ ~ OutOfAttempts(c)
     /\ stage' = [stage EXCEPT ![c] = "backoff"]
     /\ UNCHANGED <<method, attempts, answer>>

\* Mutant: only an error ends the loop early.
RetryAfterSuccess(c, r) == NextRound(c)

ReturnFirst(c, r) == Finish(c, Success(c, RefFrom(c, r.ref)))

Receive(c) ==
  \E r \in replies :
    /\ r.call = c
    /\ stage[c] = "waiting"
    /\ r.n = attempts[c]
    /\ replies' = replies \ {r}
    /\ \/ r.ok /\ ReturnFirst(c, r)
       \/ ~ r.ok /\ r.retryable /\ NextRound(c)
       \/ ~ r.ok /\ ~ r.retryable /\ Fail(c)
    /\ UNCHANGED <<sent, messages, canceled, shown, unheard>>

\* Mutant: an http.Client without a timeout.
Patient(c) == FALSE

Impatient(c) == stage[c] = "waiting"

\* The client's timeout, a broken connection or a body that does not decode:
\* the answer is lost, whether or not Slack has acted or still will.
LoseReply(c) ==
  /\ Impatient(c)
  /\ replies' = {r \in replies : r.call # c}
  /\ unheard' = unheard \cup {c}
  /\ NextRound(c)
  /\ UNCHANGED <<sent, messages, canceled, shown>>

Backoff(c) ==
  /\ stage[c] = "backoff"
  /\ ~ Canceled(c)
  /\ stage' = [stage EXCEPT ![c] = "attempt"]
  /\ UNCHANGED <<method, attempts, sent, replies, messages, canceled, answer,
                 shown, unheard>>

\* The context ends the round trip as well as the wait between two.
Abort(c) ==
  /\ Canceled(c)
  /\ stage[c] \in {"attempt", "waiting", "backoff"}
  /\ unheard' = IF stage[c] = "waiting" THEN unheard \cup {c} ELSE unheard
  /\ Fail(c)
  /\ UNCHANGED <<sent, replies, messages, canceled, shown>>

-----------------------------------------------------------------------------
(* Slack and the core (external).                                          *)

ReplyTo(a, ok, retryable, ref) ==
  [call |-> a.call, n |-> a.n, ok |-> ok, retryable |-> retryable, ref |-> ref]

NewRef == 1 + Cardinality({m \in messages : m.ref # Known})

\* chat.postMessage and chat.update.  An error may be reported though the
\* attempt was carried out, a retryable 5xx among others.
CarryOut(a) ==
  LET ref == IF a.method = "update" THEN Known ELSE NewRef
      new == [ref |-> ref, thread |-> a.method = "reply", by |-> a.call] IN
    /\ sent' = sent \ {a}
    /\ messages' = {m \in messages : m.ref # ref} \cup {new}
    /\ shown' = shown \cup {<<ref, a.call>>}
    /\ \/ /\ replies' = replies \cup {ReplyTo(a, TRUE, FALSE, ref)}
          /\ UNCHANGED unheard
       \/ /\ \E retryable \in BOOLEAN :
               replies' = replies \cup {ReplyTo(a, FALSE, retryable, NoRef)}
          /\ unheard' = unheard \cup {a.call}
    /\ UNCHANGED <<stage, method, attempts, canceled, answer>>

\* 429, 5xx and "ratelimited" are retryable, any other error is not; the
\* request may also be lost on its way.
Refuse(a) ==
  /\ sent' = sent \ {a}
  /\ \/ \E retryable \in BOOLEAN :
          replies' = replies \cup {ReplyTo(a, FALSE, retryable, NoRef)}
     \/ UNCHANGED replies
  /\ UNCHANGED <<stage, method, attempts, messages, canceled, answer, shown, unheard>>

\* The core's client has closed the connection, at its timeout or because it
\* stops, and the server has noticed: any time after the core gave up, with
\* attempts started in between, or never.
Disconnect(c) ==
  /\ stage[c] \in {"attempt", "waiting", "backoff"}
  /\ c \notin canceled
  /\ canceled' = canceled \cup {c}
  /\ UNCHANGED <<stage, method, attempts, sent, replies, messages, answer, shown, unheard>>

Next ==
  /\ \/ \E c \in Call : \/ Start(c) \/ Attempt(c) \/ Receive(c) \/ LoseReply(c)
                        \/ Backoff(c) \/ Abort(c) \/ Disconnect(c)
     \/ \E a \in sent : CarryOut(a) \/ Refuse(a)
  /\ UNCHANGED kind

Spec == Init /\ [][Next]_vars

\* The goroutine of a call is scheduled and its timers fire.  Slack need not
\* answer and the core need not give up.
FairSpec ==
  /\ Spec
  /\ \A c \in Call :
       WF_vars(/\ Start(c) \/ Attempt(c) \/ Receive(c) \/ LoseReply(c) \/ Backoff(c) \/ Abort(c)
               /\ UNCHANGED kind)

-----------------------------------------------------------------------------
(* Properties.                                                             *)

\* api/backendapi/openapi.yaml: 200 means "Delivered": what was asked for is
\* or was on display under the ref that the core gets.  With MaxRetries < 0
\* the code does not keep this: see README section 6.
SuccessMeansDelivered ==
  \A c \in Call :
    answer[c].code \in {200, 204} =>
      \E s \in shown : s[2] = c /\ (kind[c] # "reply" => s[1] = answer[c].ref)

\* A call puts more than one message into the channel only if the answer to
\* one of its attempts was lost or denied what Slack had done (Client.call):
\* retries after a truthful answer never duplicate.
DuplicatesOnlyUnheard ==
  \A c \in Call : Cardinality({m \in messages : m.by = c}) > 1 => c \in unheard

\* A notification for a known ref never becomes a second message, also when
\* the update fails in every way (Handler.Notify).
KnownRefStays ==
  \A m \in messages : kind[m.by] = "update" => m.ref = Known

\* Every call comes to an end though Slack may never answer (Client.call).
EveryCallEnds == \A c \in Call : <>(stage[c] = "done")
=============================================================================
