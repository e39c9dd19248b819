-------------------------- MODULE TemplateWatcher --------------------------
(***************************************************************************)
(* The hot reload of the message template (internal/slack/watcher.go).     *)
(* Run reloads on a ticker, in one goroutine; Reload stats the file, reads *)
(* it and parses what it read, and the file may change between the steps.  *)
(* Render uses whatever is current.                                        *)
(***************************************************************************)
EXTENDS Integers

CONSTANTS
  Mtime,        \* modification times that the file may have
  MaxVersions   \* bound: different contents of the file

ASSUME WatcherAssumption ==
  /\ Mtime \subseteq Nat \ {0}
  /\ MaxVersions \in Nat

VARIABLES
  file,      \* the file: version of its content (0: there is no file), mtime
  writes,    \* versions written so far, and whether each one parses
  again,     \* history: the watcher held the file's mtime when the file got it
  reload,    \* the Reload under way: its step, the mtime and version it saw
  modTime,   \* mtime of the last successful load
  current    \* version of the renderer in use; 0: DefaultRenderer

vars == <<file, writes, again, reload, modTime, current>>

Version == 1 .. MaxVersions
Waiting == [step |-> "waiting", mtime |-> 0, version |-> 0]

TypeOK ==
  /\ file \in [version : Version \cup {0}, mtime : Mtime \cup {0}]
  /\ writes \in UNION {[1 .. n -> BOOLEAN] : n \in 0 .. MaxVersions}
  /\ again \in BOOLEAN
  /\ reload \in [step : {"waiting", "read", "parse"}, mtime : Mtime \cup {0},
                 version : Version \cup {0}]
  /\ modTime \in Mtime \cup {0}
  /\ current \in DOMAIN writes \cup {0}
  /\ current = 0 <=> modTime = 0

Init ==
  /\ file = [version |-> 0, mtime |-> 0]
  /\ writes = [v \in {} |-> TRUE]
  /\ again = FALSE
  /\ reload = Waiting
  /\ modTime = 0
  /\ current = 0

-----------------------------------------------------------------------------
(* The operator and the kubelet change the file (external).                *)

Latest == IF writes = [v \in {} |-> TRUE] THEN 0
          ELSE CHOOSE v \in DOMAIN writes : v + 1 \notin DOMAIN writes

\* Mtimes that the watcher takes for known: of the last load, and of the
\* reload under way.
Held == {modTime, reload.mtime}

\* New content or an earlier one, under any mtime: a file that is moved into
\* place brings its own, one that is restored or moved back the one it had,
\* and two writes may fall into one tick of the clock.  A partial write is a
\* version of its own.
Write ==
  \E v \in Version \cap 1 .. Latest + 1, parses \in BOOLEAN, m \in Mtime :
    /\ file' = [version |-> v, mtime |-> m]
    /\ writes' = [u \in DOMAIN writes \cup {v} |-> IF u \in DOMAIN writes THEN writes[u] ELSE parses]
    /\ again' = (m \in Held)
    /\ UNCHANGED <<reload, modTime, current>>

RemoveFile ==
  /\ file.version # 0
  /\ file' = [version |-> 0, mtime |-> 0]
  /\ UNCHANGED <<writes, again, reload, modTime, current>>

-----------------------------------------------------------------------------
(* Reload.                                                                 *)

Changed == current = 0 \/ file.mtime # modTime

\* os.Stat fails on a missing file; an unchanged mtime ends the reload.
Stat ==
  /\ reload = Waiting
  /\ file.version # 0
  /\ Changed
  /\ reload' = [step |-> "read", mtime |-> file.mtime, version |-> 0]
  /\ UNCHANGED <<file, writes, again, modTime, current>>

\* os.ReadFile, of the file as it is by now.
Read ==
  /\ reload.step = "read"
  /\ reload' = IF file.version = 0 THEN Waiting
               ELSE [reload EXCEPT !.step = "parse", !.version = file.version]
  /\ UNCHANGED <<file, writes, again, modTime, current>>

\* Mutant: the mtime is taken after the content has been read.
StatAfterRead == IF file.mtime = 0 THEN reload.mtime ELSE file.mtime

\* info.ModTime(), from the Stat before the read.
LoadedMtime == reload.mtime

\* Mutant: an error of the parser is only logged.
Unchecked == TRUE

Parses == writes[reload.version]

KeepPrevious == UNCHANGED <<modTime, current>>

\* ParseTemplateRenderer, then modTime and current are stored.
Load ==
  /\ reload.step = "parse"
  /\ \/ /\ Parses
        /\ modTime' = LoadedMtime
        /\ current' = reload.version
     \/ /\ ~ Parses
        /\ KeepPrevious
  /\ reload' = Waiting
  /\ UNCHANGED <<file, writes, again>>

Next == Write \/ RemoveFile \/ Stat \/ Read \/ Load

Spec == Init /\ [][Next]_vars

\* The ticker fires again and again and each Reload runs to its end; nobody
\* has to touch the file.
FairSpec == Spec /\ WF_vars(Stat) /\ WF_vars(Read) /\ WF_vars(Load)

-----------------------------------------------------------------------------
(* Properties.                                                             *)

\* A template that was loaded is only ever replaced by one that parses, and
\* never by none, whatever happens to the file (Reload).
KeepsGoodTemplate ==
  [][current # 0 => current' # 0 /\ writes[current']]_vars

-----------------------------------------------------------------------------
(* What the documents say and the code does not keep: counterexamples are  *)
(* described in the README, and no passing run checks these.               *)

\* internal/slack/watcher_test.go: a write that keeps the mtime must be
\* detected and "not skip[ped] as unchanged": the last content of a file that
\* is left alone is read at some time (Reload).
DetectsChange ==
  \A v \in Version : <>[](file.version = v) => <>(reload.version = v)
=============================================================================
