---------------------------- MODULE WatchSession ----------------------------
(***************************************************************************)
(* watchSoftwareGraph: a recursive file watcher, one debounce timer and    *)
(* the builds the timer starts.  Builds are not serialized: the timer may  *)
(* fire while an earlier build still runs, and the builds read, write and  *)
(* report in whatever order they get there.  The user edits sources and    *)
(* the config file and may close the watch at any time.                    *)
(*                                                                         *)
(* The sources are one value, the number of edits made to them; a build    *)
(* reads it at one moment.  (SnapshotCache looks into that moment.)        *)
(***************************************************************************)
EXTENDS Naturals

CONSTANTS
  Builds,         \* build tasks that may overlap
  MaxEdits,       \* bound on edits of the sources
  MaxConfigs,     \* bound on versions of the config file
  MaxFailures,    \* bound on builds that fail
  OutputDirs,     \* the directories the graph may be written to
  IgnoredNames,   \* the names shouldIgnorePath has in its list
  NoConfig        \* there is no config file; the defaults apply

VARIABLES
  source,     \* the sources: how often they have been edited
  config,     \* the config file: its version, or NoConfig
  versions,   \* how many versions of the config file there have been
  outputDir,  \* where this session's builds write the graph
  notices,    \* what the watcher has still to deliver
  armed,      \* a timer is set and has not fired
  closed,     \* close() was called
  loaded,     \* the module the process imported as the config, if any
  pc,         \* per build
  used,       \* per build, the config it runs under
  read,       \* per build, the sources it read
  output,     \* the sources of the graph in outputDir, 0 if none is there
  shown,      \* the sources of the result onBuild was last called with
  failures,   \* how much of MaxFailures is used
  begun,      \* history: the sources when the timer last fired
  overlapped, \* history: a build has begun while another ran
  sinceBegin, \* history: per build that has not loaded the config file, what
              \* the file has been since it began
  ahead       \* history: per build, the newest sources of which a graph was
              \* out when it began

user    == <<source, config, versions, outputDir>>
control == <<armed, closed>>
build   == <<pc, used, read>>
results == <<output, shown>>
vars    == <<user, notices, control, loaded, build, results, failures,
             begun, overlapped, sinceBegin, ahead>>

-----------------------------------------------------------------------------
Phases  == {"idle", "config", "read", "write", "resolved", "rejected"}
Sources == 1..MaxEdits + 1
ConfigValues == 1..MaxConfigs \cup {NoConfig}

Paths == {"source", "config", "output"}

\* Variant: no path is ignored.
IgnoreNothing(p) == FALSE

\* shouldIgnorePath, of the paths that change in a session.  The list is
\* fixed and outputDir any path.  The cache directory .ontoly is in the list
\* and its notices are left out.
shouldIgnorePath(p) == p = "output" /\ outputDir \in IgnoredNames

\* A closed watcher delivers nothing.
Changed(p) == notices' = IF closed THEN {} ELSE notices \cup {p}

\* The handle exists once the watcher is set up and the first timer is set.
Init ==
  /\ source = 1
  /\ config \in {NoConfig} \cup {v \in 1..MaxConfigs : v = 1}
  /\ versions = IF config = NoConfig THEN 0 ELSE 1
  /\ outputDir \in OutputDirs
  /\ notices = {}
  /\ armed = TRUE /\ closed = FALSE
  /\ loaded = NoConfig
  /\ pc = [b \in Builds |-> "idle"]
  /\ used = [b \in Builds |-> NoConfig]
  /\ read = [b \in Builds |-> 0]
  /\ output = 0 /\ shown = 0 /\ failures = 0 /\ begun = 0
  /\ overlapped = FALSE
  /\ sinceBegin = [b \in Builds |-> {}]
  /\ ahead = [b \in Builds |-> 0]

-----------------------------------------------------------------------------
\* The user saves a source file.
EditSource ==
  /\ source <= MaxEdits
  /\ source' = source + 1
  /\ Changed("source")
  /\ UNCHANGED <<config, versions, outputDir, control, loaded, build, results,
                 failures, begun, overlapped, sinceBegin, ahead>>

\* The user saves a new version of the config file, or deletes it.
EditConfig ==
  /\ \/ /\ versions < MaxConfigs
        /\ versions' = versions + 1
        /\ config' = versions + 1
     \/ /\ config # NoConfig
        /\ config' = NoConfig
        /\ UNCHANGED versions
  /\ sinceBegin' = [b \in Builds |-> sinceBegin[b] \cup
                                     (IF pc[b] = "config" THEN {config'} ELSE {})]
  /\ Changed("config")
  /\ UNCHANGED <<source, outputDir, control, loaded, build, results, failures,
                 begun, overlapped, ahead>>

\* Variant: the first change of a burst decides, and the timer it set, which
\* is never unset, keeps off all later ones.
RunBuildOnce == IF closed \/ begun > 0 THEN UNCHANGED armed ELSE armed' = TRUE

\* The watcher's callback and runBuild: the timer is set anew, whether or not
\* one is running.
runBuild == IF closed THEN UNCHANGED armed ELSE armed' = TRUE

Notify(p) ==
  /\ p \in notices
  /\ notices' = notices \ {p}
  /\ IF shouldIgnorePath(p) THEN UNCHANGED armed ELSE runBuild
  /\ UNCHANGED <<user, closed, loaded, build, results, failures, begun,
                 overlapped, sinceBegin, ahead>>

\* The timer fires and a build begins.  More builds than Builds at once are
\* cut off.
Fire(b) ==
  /\ armed
  /\ pc[b] = "idle"
  /\ armed' = FALSE
  /\ pc' = [pc EXCEPT ![b] = "config"]
  /\ begun' = source
  /\ overlapped' = (overlapped \/ \E c \in Builds : pc[c] # "idle")
  /\ sinceBegin' = [sinceBegin EXCEPT ![b] = {config}]
  /\ ahead' = [ahead EXCEPT ![b] = IF output >= shown THEN output ELSE shown]
  /\ UNCHANGED <<user, notices, closed, loaded, used, read, results, failures>>

\* loadOntolyConfig.  import() hands out the module the process has already
\* loaded for that path; the file is looked at only to see that it exists.
LoadConfig(b) ==
  /\ pc[b] = "config"
  /\ pc' = [pc EXCEPT ![b] = "read"]
  /\ loaded' = IF config # NoConfig /\ loaded = NoConfig THEN config ELSE loaded
  /\ used' = [used EXCEPT ![b] = IF config = NoConfig THEN NoConfig ELSE loaded']
  /\ sinceBegin' = [sinceBegin EXCEPT ![b] = {}]
  /\ UNCHANGED <<user, notices, control, read, results, failures, begun,
                 overlapped, ahead>>

\* Variant: the build is handed what some earlier build may have read.
ReadStale(b) ==
  /\ pc[b] = "read"
  /\ pc' = [pc EXCEPT ![b] = "write"]
  /\ \E v \in 1..source : read' = [read EXCEPT ![b] = v]
  /\ UNCHANGED <<user, notices, control, loaded, used, results, failures,
                 begun, overlapped, sinceBegin, ahead>>

\* The stages up to graph-validation.
ReadSources(b) ==
  /\ pc[b] = "read"
  /\ pc' = [pc EXCEPT ![b] = "write"]
  /\ read' = [read EXCEPT ![b] = source]
  /\ UNCHANGED <<user, notices, control, loaded, used, results, failures,
                 begun, overlapped, sinceBegin, ahead>>

\* artifact-commit writes the graph to outputDir.
WriteOutput(b) ==
  /\ pc[b] = "write"
  /\ pc' = [pc EXCEPT ![b] = "resolved"]
  /\ output' = read[b]
  /\ Changed("output")
  /\ UNCHANGED <<user, control, loaded, used, read, shown, failures, begun,
                 overlapped, sinceBegin, ahead>>

\* A build fails.  If its graph is not valid, nothing is written and its
\* promise resolves all the same.  Otherwise it throws, and if it throws while
\* persistGraph writes, the graph may be the old one, a part of the new one or,
\* if another file is at fault, the new one.
Fails(b) ==
  /\ failures < MaxFailures
  /\ failures' = failures + 1
  /\ \/ /\ pc[b] = "write"
        /\ pc' = [pc EXCEPT ![b] = "resolved"]
        /\ UNCHANGED <<output, notices>>
     \/ /\ pc[b] \in {"config", "read"}
        /\ pc' = [pc EXCEPT ![b] = "rejected"]
        /\ UNCHANGED <<output, notices>>
     \/ /\ pc[b] = "write"
        /\ pc' = [pc EXCEPT ![b] = "rejected"]
        /\ output' \in {output, 0, read[b]}
        /\ Changed("output")
  /\ UNCHANGED <<user, control, loaded, used, read, shown, begun, overlapped,
                 sinceBegin, ahead>>

Ended(b) == /\ pc' = [pc EXCEPT ![b] = "idle"]
            /\ used' = [used EXCEPT ![b] = NoConfig]
            /\ read' = [read EXCEPT ![b] = 0]
            /\ sinceBegin' = [sinceBegin EXCEPT ![b] = {}]
            /\ ahead' = [ahead EXCEPT ![b] = 0]

\* .then(onBuild), also after close().
OnBuild(b) ==
  /\ pc[b] = "resolved"
  /\ shown' = read[b]
  /\ Ended(b)
  /\ UNCHANGED <<user, notices, control, loaded, output, failures, begun,
                 overlapped>>

\* .catch(onError)
OnError(b) ==
  /\ pc[b] = "rejected"
  /\ Ended(b)
  /\ UNCHANGED <<user, notices, control, loaded, results, failures, begun,
                 overlapped>>

\* Variant: the timer is left running.
CloseWatcherOnly ==
  /\ ~closed
  /\ closed' = TRUE
  /\ notices' = {}
  /\ UNCHANGED <<user, armed, loaded, build, results, failures, begun,
                 overlapped, sinceBegin, ahead>>

\* close() of the handle; builds under way are not called off.
Close ==
  /\ ~closed
  /\ closed' = TRUE
  /\ armed' = FALSE
  /\ notices' = {}
  /\ UNCHANGED <<user, loaded, build, results, failures, begun, overlapped,
                 sinceBegin, ahead>>

-----------------------------------------------------------------------------
Progress == \/ \E p \in Paths : Notify(p)
            \/ \E b \in Builds : Fire(b)

Run(b) == \/ LoadConfig(b) \/ ReadSources(b) \/ WriteOutput(b)
          \/ OnBuild(b) \/ OnError(b)

Next == \/ EditSource \/ EditConfig \/ Close
        \/ Progress
        \/ \E b \in Builds : Run(b) \/ Fails(b)

Spec == Init /\ [][Next]_vars

\* The event loop delivers notices, fires timers and runs builds to their
\* end.  Nothing makes the user edit or close, or a build fail.
Fairness == /\ \A p \in Paths : WF_vars(Notify(p))
            /\ WF_vars(\E b \in Builds : Fire(b))
            /\ \A b \in Builds : WF_vars(Run(b))

FairSpec == Spec /\ Fairness
=============================================================================
