----------------------- MODULE WatchSessionProperties -----------------------
(***************************************************************************)
(* What is claimed of a watch session.                                     *)
(***************************************************************************)
EXTENDS WatchSession

ASSUME BoundAssumption ==
  /\ MaxEdits \in Nat /\ MaxConfigs \in Nat /\ MaxFailures \in Nat
  /\ NoConfig \notin Nat

\* The variables hold values of the kinds their comments name.
TypeOK ==
  /\ source \in Sources /\ begun \in Sources \cup {0}
  /\ outputDir \in OutputDirs
  /\ config \in ConfigValues /\ loaded \in ConfigValues
  /\ versions \in 0..MaxConfigs
  /\ notices \subseteq Paths
  /\ armed \in BOOLEAN /\ closed \in BOOLEAN /\ overlapped \in BOOLEAN
  /\ pc \in [Builds -> Phases]
  /\ used \in [Builds -> ConfigValues]
  /\ read \in [Builds -> Sources \cup {0}]
  /\ output \in Sources \cup {0} /\ shown \in Sources \cup {0}
  /\ failures \in 0..MaxFailures
  /\ sinceBegin \in [Builds -> SUBSET ConfigValues]
  /\ ahead \in [Builds -> Sources \cup {0}]

\* Once close() has returned no build begins, whatever timer was set and
\* whatever notices were on their way.
CloseStopsBuilds ==
  [][closed => \A b \in Builds : pc[b] = "idle" => pc'[b] = "idle"]_vars

\* No edit is lost: a build begins after every edit of the sources, unless
\* the watch is closed, however edits, notices and builds overlap.
EveryEditIsBuilt ==
  \A v \in Sources : source >= v ~> (closed \/ begun >= v)

\* Nobody is building and no build is due.
AtRest == ~armed /\ \A b \in Builds : pc[b] = "idle"

\* If the graph goes to a directory the watcher leaves out, the session comes
\* to rest when the user stops editing: builds write into the watched root
\* themselves and do not start one another.  If it goes to any other directory
\* they do, and unless the watch is closed or a build fails the session never
\* comes to rest.
Settles ==
  /\ <>[](outputDir \in IgnoredNames => AtRest)
  /\ []<>(outputDir \in IgnoredNames \/ closed \/ failures # 0 \/ ~AtRest)

\* Builds that do not overlap and do not fail leave the graph of the last
\* edit in outputDir, and onBuild has seen it.
SerialBuildsConverge ==
  <>[](~overlapped /\ ~closed /\ failures = 0 => output = source /\ shown = source)

\* No build takes outputDir or the consumer back behind a graph that was out
\* when it began, however builds overlap: of two builds that do not run at the
\* same time the later one has the later result.
ResultsInOrder ==
  [][\A b \in Builds :
       /\ pc[b] = "write" /\ pc'[b] = "resolved" /\ output' # output
            => output' >= ahead[b]
       /\ pc[b] = "resolved" /\ pc'[b] = "idle" => shown' >= ahead[b]]_vars

\* A build runs under the config that was in force at some time between its
\* beginning and its loading it.  rfcs/0002-compiler-pipeline.md: "Watch builds
\* MUST treat configuration changes as potentially invalidating all stages."
ConfigHonoured ==
  [][\A b \in Builds :
       pc[b] = "config" /\ pc'[b] = "read" => used'[b] \in sinceBegin[b]]_vars

-----------------------------------------------------------------------------
(***************************************************************************)
(* The strengthening under which the safety claims are inductive.          *)
(***************************************************************************)

ClosedIsDisarmed == closed => ~armed

\* What is out, what was out when a build began and what a build has read
\* come from the sources as they are now or were, and what a build has read
\* is no older than what was out when it began.
ReadIsFresh ==
  /\ output <= source /\ shown <= source
  /\ \A b \in Builds :
       /\ read[b] <= source
       /\ ahead[b] <= source
       /\ pc[b] \in {"write", "resolved"} => ahead[b] <= read[b]

SessionInv == TypeOK /\ ClosedIsDisarmed /\ ReadIsFresh
=============================================================================
