---------------------------- MODULE SlackProcess ----------------------------
(***************************************************************************)
(* The process of the Slack backend (cmd/slack-backend/main.go) around one *)
(* /notify request at a time: configuration, the goroutine of the template *)
(* watcher, the request as the core builds and sends it, the choice of the *)
(* renderer (TemplateWatcher.Render) and what it makes of the request, and *)
(* shutdown.  The calls of Slack that follow are those of SlackBackend,    *)
(* registration and readiness those of BackendRegistry.                    *)
(***************************************************************************)
EXTENDS TemplateWatcher, Notification, FiniteSetsExt

CONSTANTS
  Configs,    \* environments the process is started in
  Sessions,   \* what the core has to tell: apps and their latest events
  MaxItems    \* items that fit into maxBodyBytes

\* A session is a finite map, of apps that differ in their names.  The names
\* came in as JSON: they hold no half of a rune.
ASSUME SlackAssumption ==
  /\ MaxItems \in Nat
  /\ \A perApp \in Sessions :
       /\ DOMAIN perApp \subseteq Nat /\ IsFiniteSet(DOMAIN perApp)
       /\ \A a, b \in DOMAIN perApp : perApp[a].AppName = perApp[b].AppName => a = b
       /\ \A a \in DOMAIN perApp : Marshalled(perApp[a].AppName) = perApp[a].AppName

VARIABLES
  config,     \* slackbackend.Config
  phase,      \* where main is
  request     \* the /notify request in the handler, or the last one

slackVars == <<vars, config, phase, request>>

NoAnswer == [kind |-> "none"]
NewRequest(perApp) ==
  [stage |-> "built", perApp |-> perApp, n |-> Build(perApp), renderer |-> 0, out |-> NoAnswer]
NoRequest == [stage |-> "none", perApp |-> <<>>, n |-> <<>>, renderer |-> 0, out |-> NoAnswer]

SlackInit ==
  /\ Init
  /\ config \in Configs
  /\ phase = "loading"
  /\ request = NoRequest

-----------------------------------------------------------------------------
(* Configuration and the goroutines of main.                               *)

\* envconfig finds a required variable missing, or Validate objects.
Refused(c) == ~ c.complete \/ c.RegisterInterval <= 0 \/ c.ReloadInterval <= 0

\* time.NewTicker panics unless its interval is positive: in Registrar.Run,
\* and in TemplateWatcher.Run, which is started if there is a path.
Panics(c) == c.RegisterInterval <= 0 \/ (c.MessageTemplatePath /\ c.ReloadInterval <= 0)

Start ==
  /\ phase = "loading"
  /\ phase' = IF Refused(config) THEN "refused"
              ELSE IF Panics(config) THEN "panicked" ELSE "started"
  /\ UNCHANGED <<vars, config, request>>

\* ListenAndServe returns at once when the address is taken: that is logged,
\* and main goes on to wait for a signal.
Listen ==
  /\ phase = "started"
  /\ phase' \in {"serving", "deaf"}
  /\ UNCHANGED <<vars, config, request>>

\* SIGTERM; Shutdown closes the listener and waits for the request.
Signal ==
  /\ phase \in {"started", "serving", "deaf"}
  /\ phase' = "draining"
  /\ UNCHANGED <<vars, config, request>>

\* Shutdown returns when no request is left, or after ten seconds.
Exit ==
  /\ phase = "draining"
  /\ phase' = "exited"
  /\ UNCHANGED <<vars, config, request>>

Running == phase \in {"started", "serving", "deaf", "draining"}

\* TemplateWatcher.Run, until the goroutine sees that ctx is done.
Reload ==
  /\ Running
  /\ config.MessageTemplatePath
  /\ Stat \/ Read \/ Load
  /\ UNCHANGED <<config, phase, request>>

File == (Write \/ RemoveFile) /\ UNCHANGED <<config, phase, request>>

-----------------------------------------------------------------------------
(* A request.                                                              *)

\* The core groups what a session holds for one destination, and builds.
Notify ==
  /\ request.stage \in {"none", "done"}
  /\ \E perApp \in Sessions : request' = NewRequest(perApp)
  /\ UNCHANGED <<vars, config, phase>>

\* Backend.Notify sends it and the handler decodes it: 400 if the body is
\* beyond maxBodyBytes.
Receive ==
  /\ phase = "serving"
  /\ request.stage = "built"
  /\ request' = IF Len(request.n.Items) > MaxItems
                THEN [request EXCEPT !.stage = "done", !.out = [kind |-> "refused"]]
                ELSE [request EXCEPT !.stage = "handler", !.n = FromWire(ToWire(@))]
  /\ UNCHANGED <<vars, config, phase>>

Answered(out) == request' = [request EXCEPT !.stage = "done", !.out = out]

\* DefaultRenderer.Render.
Builtin(n) ==
  [kind |-> "builtin", summary |-> n.Summary, attachments |-> renderNotification(n)]

\* Mutant: the settings of the fallback mixed up.
FallbackInverted(n) ==
  IF config.Fallback THEN [kind |-> "dropped"] ELSE Builtin(n)

\* The template failed on this notification.
AfterFailure(n) ==
  IF config.Fallback THEN Builtin(n) ELSE [kind |-> "dropped"]

\* TemplateWatcher.Render loads current, once: a reload may replace it while
\* the request is rendered.
PickRenderer ==
  /\ Running
  /\ request.stage = "handler"
  /\ request' = [request EXCEPT !.stage = "rendering", !.renderer = current]
  /\ UNCHANGED <<vars, config, phase>>

\* TemplateRenderer.Render: a template that parses may still fail on a
\* notification, or produce what is not JSON.
TemplateResults(n) == {[kind |-> "template", version |-> request.renderer], AfterFailure(n)}

Render ==
  /\ Running
  /\ request.stage = "rendering"
  /\ \E out \in IF request.renderer = 0 THEN {Builtin(request.n)} ELSE TemplateResults(request.n) :
       Answered(out)
  /\ UNCHANGED <<vars, config, phase>>

SlackNext ==
  \/ Start \/ Listen \/ Signal \/ Exit \/ Reload \/ File
  \/ Notify \/ Receive \/ PickRenderer \/ Render

SlackSpec == SlackInit /\ [][SlackNext]_slackVars

\* The goroutines of main and of the watcher are scheduled.  Nobody has to
\* touch the file, send a request or stop the process.
SlackFairSpec == SlackSpec /\ WF_slackVars(Start) /\ WF_slackVars(Reload)

-----------------------------------------------------------------------------
(* Properties.                                                             *)

Attachments == request.out.attachments
Rest == {i \in DOMAIN Attachments : "more" \in DOMAIN Attachments[i]}
ShownApps == {Attachments[i].AppName : i \in DOMAIN Attachments \ Rest}

Total(f) == MapThenSumSet(LAMBDA x : f[x], DOMAIN f)

\* docs/design.md: the summary counts every event; every app whose trigger
\* is known has an attachment of its own or is among the "+n more"; Slack's
\* limit is kept (Build, renderNotification).
EveryAppAccounted ==
  request.out.kind = "builtin" =>
    /\ Len(Attachments) <= MaxAttachments
    /\ Cardinality(ShownApps) + Total([i \in Rest |-> Attachments[i].more])
         = Cardinality(KnownApps(request.perApp))
    /\ Total(request.out.summary) = Cardinality(DOMAIN request.perApp)

\* What the layout of a trigger shows was filled in by its builder and came
\* over the wire: no attachment shows a blank that the event could have
\* filled, nor a button without a link (build.go against render.go); of a
\* rune that was cut, it shows that something is missing.
ShownAsReported ==
  request.out.kind = "builtin" =>
    \A i \in DOMAIN Attachments \ Rest : \E a \in KnownApps(request.perApp) :
      LET e == request.perApp[a] IN
      /\ Attachments[i].AppName = e.AppName
      /\ \A f \in DOMAIN Attachments[i] :
           Attachments[i][f] = IF f = "Images" THEN OrDefault(Marshalled(e.Images), <<"none">>)
                               ELSE Marshalled(Values(e)[f])

\* A template of the operator gets every item that the core has built, in
\* its order, with all its fields, though the two processes copy the fields
\* by hand (toWireItem and fromWireItem, "the mirror" of it); nothing but the
\* half of a rune is changed.
WireFaithful ==
  request.stage = "handler" =>
    LET built == Build(request.perApp) IN
    /\ request.n.Summary = built.Summary
    /\ DOMAIN request.n.Items = DOMAIN built.Items
    /\ \A i \in DOMAIN built.Items, f \in ItemFields :
         request.n.Items[i][f] = Marshalled(built.Items[i][f])

\* slackbackend.Config: with the fallback "the message still gets sent", and
\* without any template that was ever good nothing is dropped either,
\* whatever happens to the file while requests come in.
SentWhateverTheFile ==
  request.out.kind = "dropped" => ~ config.Fallback /\ \E v \in DOMAIN writes : writes[v]

\* Once the file is left alone with a template that parses, that template is
\* used, whatever was moved into place or back between the steps of a reload,
\* and also when the file returns to an earlier content with its mtime
\* (Reload).  The one exception is an mtime that the watcher still holds when
\* the file gets it: see the README for what is lost then.  It takes a process
\* that Validate refuses or that is stopped to prevent it: no configuration
\* that is accepted makes a goroutine of main panic.
PicksUpTemplate ==
  \A v \in Version, m \in Mtime :
    /\ config.MessageTemplatePath
    /\ <>[](file = [version |-> v, mtime |-> m] /\ writes[v] /\ ~ again)
    => <>[](current = v) \/ <>(phase \in {"refused", "draining"})
=============================================================================
