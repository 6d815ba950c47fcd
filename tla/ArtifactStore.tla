----------------------------- MODULE ArtifactStore -----------------------------
(***************************************************************************)
(* The directories in which `ontoly build` and `ontoly watch` leave a      *)
(* graph and what is derived from it, and the commands that answer from    *)
(* them: search, query, and the MCP server as it starts.                   *)
(*                                                                         *)
(* No lock is taken and every file is written in place: opened, which      *)
(* truncates it, then filled.  A reader between the two, or after a crash  *)
(* between the two, finds a text that does not parse (Torn), and so may    *)
(* two writers that had one file open at the same time.  Of the files of a *)
(* directory those are kept that a command reads; a graph stands for its   *)
(* deterministicHash, and so do metadata.json and index.json for the graph *)
(* they were derived from.  A write that fails leaves what a process       *)
(* killed at that write leaves, so there is no action of its own for it.   *)
(***************************************************************************)
EXTENDS Naturals, Sequences, FiniteSets

CONSTANTS
  Graphs,       \* the graphs of the sources, by deterministicHash
  Directories,  \* ontoly-output and .ontoly
  Default,      \* .ontoly, where a command looks when no directory has a graph
  Linking,      \* the directories whose file system supports hard links
  Builders,     \* processes that build
  Readers,      \* processes that answer
  Programs,     \* per builder: what its builds may write, sequences of [kind, dir]
  Questions,    \* per reader: what it does, of "search", "query", "serve"
  Budgets,      \* bounds on a behaviour: how many builds, asks, edits, kills it has,
                \* and how many builds may run together
  Initial,      \* the graph of the sources at first
  Absent,       \* the file is not there
  Torn,         \* its text does not parse
  None

\* A build writes one directory after another, each as a bundle or by persistGraph.
LegType == [kind : {"bundle", "persist"}, dir : Directories]

ASSUME StoreAssumption ==
  /\ Default \in Directories /\ Linking \subseteq Directories
  /\ \A b \in Builders : \A p \in Programs[b] :
       p # <<>> /\ p \in Seq(LegType)
  /\ \A r \in Readers : Questions[r] \subseteq {"search", "query", "serve"}
  /\ Builders \cap Readers = {}
  /\ Initial \in Graphs
  /\ Budgets \subseteq [{"builds", "asks", "edits", "kills", "together"} -> Nat]
  /\ {Absent, Torn, None} \cap Graphs = {} /\ Absent # Torn /\ None \notin {Absent, Torn}

Files == {"graph", "alias", "metadata", "index"}

VARIABLES
  disk,     \* per directory and file: its text, who has it open, and whether
            \* two writers have had it open at the same time
  linked,   \* the directories whose graph.json is the file SoftwareGraph.json
  newest,   \* the directory whose SoftwareGraph.json was modified last
  source,   \* the graph of the sources as they are
  work,     \* per builder: the legs to write, the graph, the files done and open
  ask,      \* per reader: what it does, where it is, what it holds, and (ghosts)
            \* which graphs it may answer from and what ran beside it
  settled,  \* ghost: the graph of the last build, if it ran alone to its end
  crossed,  \* ghost: two builds have written at the same time, or one was killed
  left      \* what is left of the budget

buildVars == <<work, settled, crossed>>
vars == <<disk, linked, newest, source, buildVars, ask, left>>

-----------------------------------------------------------------------------
\* Files.  An alias that is a link is the other file; whoever reads a file that
\* somebody has open may find it half written.
Inode(d, f) == IF f = "alias" /\ d \in linked THEN "graph" ELSE f
Text(d, f) == disk[d][Inode(d, f)].text
Read(d, f) == {Text(d, f)} \cup {t \in {Torn} : disk[d][Inode(d, f)].writers # {}}

Opened(file, p) ==
  [text |-> Torn, writers |-> file.writers \cup {p},
   mixed |-> file.mixed \/ file.writers # {}]
Left(file, p) ==
  [file EXCEPT !.writers = @ \ {p}, !.mixed = @ /\ file.writers # {p}]
Closed(file, p, text) ==
  {[Left(file, p) EXCEPT !.text = t] : t \in {text} \cup {u \in {Torn} : file.mixed}}

HasGraph(d) == Text(d, "graph") # Absent \/ Text(d, "alias") # Absent
Holding == {d \in Directories : HasGraph(d)}

\* Variant: ontoly-output whenever it has a graph.
BundleDirectory ==
  IF Holding \ {Default} # {} THEN CHOOSE d \in Holding : d # Default ELSE Default

\* findGraphArtifactDirectory, and artifactDirectoryForCli without --output.
NewestDirectory ==
  IF Holding = {} THEN Default
  ELSE IF newest \in Holding THEN newest ELSE CHOOSE d \in Holding : TRUE

-----------------------------------------------------------------------------
(* Builds. *)

Idle == [legs |-> <<>>, graph |-> None, done |-> {}, open |-> {}, writing |-> FALSE]
Leg(b) == Head(work[b].legs)
Dir(b) == Leg(b).dir
Running == {b \in Builders : work[b].legs # <<>>}
Writing == {b \in Running : work[b].writing}
Ended == {"idle", "answered"}
Asking == {r \in Readers : ask[r].at \notin Ended}

\* Variant: the alias is placed beside the graph's write, not after it.
BeforeUnchained(kind, f) ==
  IF kind = "persist" THEN {}
  ELSE CASE f = "graph" -> {} [] f = "alias" -> {"graph"}
         [] f = "metadata" -> {"graph", "alias"} [] f = "index" -> Files \ {f}

\* The files that are complete before f is touched: persistGraph chains the
\* alias alone to the graph, createOntolyOutputBundle awaits each in turn.
Before(kind, f) ==
  CASE f = "graph" -> {}
    [] f = "alias" -> {"graph"}
    [] f = "metadata" -> IF kind = "bundle" THEN {"graph", "alias"} ELSE {}
    [] f = "index" -> IF kind = "bundle" THEN Files \ {f} ELSE {}

Turn(b, f) ==
  /\ work[b].legs # <<>>
  /\ f \notin work[b].done \cup work[b].open
  /\ Before(Leg(b).kind, f) \subseteq work[b].done

Edit ==
  /\ left.edits > 0
  /\ source' \in Graphs \ {source}
  /\ left' = [left EXCEPT !.edits = @ - 1]
  /\ UNCHANGED <<disk, linked, newest, buildVars, ask>>

\* buildCommand, outputCommand or a build of a watch: compile, then write.
StartBuild(b, program) ==
  /\ work[b].legs = <<>> /\ left.builds > 0 /\ Cardinality(Running) < left.together
  /\ work' = [work EXCEPT ![b] = [Idle EXCEPT !.legs = program, !.graph = source]]
  /\ left' = [left EXCEPT !.builds = @ - 1]
  /\ UNCHANGED <<disk, linked, newest, source, ask, settled, crossed>>

\* The first file of a directory is about to be opened.  From here on a reader may
\* come upon the graph that is written, or on what the directory had before.
Begin(b) ==
  IF work[b].done \cup work[b].open # {} THEN UNCHANGED <<settled, crossed, ask>>
  ELSE /\ settled' = None
       /\ crossed' = IF b \in Writing THEN crossed ELSE Writing # {}
       /\ ask' = [r \in Readers |->
            IF r \in Asking
            THEN [ask[r] EXCEPT !.calm = FALSE, !.may = @ \cup {work[b].graph} \cup
                    (Graphs \cap {Text(Dir(b), "metadata"), Text(Dir(b), "graph")})]
            ELSE ask[r]]

\* writeJsonFile, writeJson: open for writing.
OpenFile(b, f) ==
  /\ Turn(b, f) /\ f # "alias"
  /\ Begin(b)
  /\ work' = [work EXCEPT ![b].open = @ \cup {f}, ![b].writing = TRUE]
  /\ disk' = [disk EXCEPT ![Dir(b)][f] = Opened(@, b)]
  /\ newest' = IF f = "graph" THEN Dir(b) ELSE newest
  /\ UNCHANGED <<linked, source, left>>

\* ... and write and close.
CloseFile(b, f) ==
  /\ f \in work[b].open /\ f # "alias"
  /\ work' = [work EXCEPT ![b].open = @ \ {f}, ![b].done = @ \cup {f}]
  /\ \E file \in Closed(disk[Dir(b)][f], b, work[b].graph) :
       disk' = [disk EXCEPT ![Dir(b)][f] = file]
  /\ newest' = IF f = "graph" THEN Dir(b) ELSE newest
  /\ UNCHANGED <<linked, source, ask, settled, crossed, left>>

\* writeGraphAlias: rm ...
RemoveAlias(b) ==
  /\ Turn(b, "alias")
  /\ work' = [work EXCEPT ![b].open = @ \cup {"alias"}]
  /\ disk' = [disk EXCEPT ![Dir(b)]["alias"].text = Absent]
  /\ linked' = linked \ {Dir(b)}
  /\ UNCHANGED <<newest, source, ask, settled, crossed, left>>

\* ... and link, or copy where a link fails: the file system has none, or another
\* build has just placed its own, and the copy is onto the file itself.
PlaceAlias(b) ==
  /\ "alias" \in work[b].open
  /\ work' = [work EXCEPT ![b].open = @ \ {"alias"}, ![b].done = @ \cup {"alias"}]
  /\ IF Dir(b) \in Linking
     THEN linked' = linked \cup {Dir(b)} /\ UNCHANGED disk
     ELSE /\ \E t \in Read(Dir(b), "graph") :
               disk' = [disk EXCEPT ![Dir(b)]["alias"].text = t]
          /\ UNCHANGED linked
  /\ UNCHANGED <<newest, source, ask, settled, crossed, left>>

\* The last file of a directory is closed.
EndLeg(b) ==
  /\ work[b].legs # <<>> /\ work[b].done = Files
  /\ IF Len(work[b].legs) > 1
     THEN /\ work' = [work EXCEPT ![b].legs = Tail(@), ![b].done = {}]
          /\ UNCHANGED settled
     ELSE /\ work' = [work EXCEPT ![b] = Idle]
          /\ settled' = IF crossed THEN None ELSE work[b].graph
  /\ UNCHANGED <<disk, linked, newest, source, ask, crossed, left>>

\* The process ends, as any write that fails ends it.  (Before its first write it
\* leaves no trace.)
KillBuild(b) ==
  /\ b \in Writing /\ left.kills > 0
  /\ disk' = [disk EXCEPT ![Dir(b)] =
                [f \in Files |-> IF f \in work[b].open THEN Left(@[f], b) ELSE @[f]]]
  /\ work' = [work EXCEPT ![b] = Idle]
  /\ crossed' = TRUE
  /\ left' = [left EXCEPT !.kills = @ - 1]
  /\ UNCHANGED <<linked, newest, source, ask, settled>>

-----------------------------------------------------------------------------
(* Commands that answer.  Each looks for the directory anew before every read *)
(* of another kind: "find" is such a look, and "next" what is read then.      *)

NoAsk == [what |-> None, at |-> "idle", next |-> None, dir |-> None, metadata |-> None,
          index |-> None, graph |-> None, may |-> {}, calm |-> FALSE, alone |-> FALSE]

StartAsk(r, what) ==
  /\ ask[r].at \in Ended /\ left.asks > 0
  /\ ask' = [s \in Readers |->
       IF s # r THEN [ask[s] EXCEPT !.alone = FALSE]
       ELSE [NoAsk EXCEPT
               !.what = what, !.at = "find",
               !.next = IF what = "search" THEN "current" ELSE "graph",
               !.may = IF settled = None THEN Graphs ELSE {settled},
               !.calm = settled # None,
               !.alone = settled # None /\ Asking = {}]]
  /\ left' = [left EXCEPT !.asks = @ - 1]
  /\ UNCHANGED <<disk, linked, newest, source, buildVars>>

\* A step of one reader that touches no file.
Step(r, fields) ==
  /\ ask' = [ask EXCEPT ![r] = fields]
  /\ UNCHANGED <<disk, linked, newest, source, buildVars, left>>
Look(r, next) == [ask[r] EXCEPT !.at = "find", !.next = next]
\* The command ends; what is kept is what it answered from.
End(fields) ==
  [fields EXCEPT !.at = "answered", !.next = None, !.dir = None, !.metadata = None,
                 !.calm = FALSE, !.alone = FALSE]

Find(r) ==
  /\ ask[r].at = "find"
  /\ Step(r, [ask[r] EXCEPT !.at = ask[r].next, !.dir = NewestDirectory])

\* loadCurrentSemanticIndex: metadata.json and index.json, in either order.
ReadMetadata(r) ==
  /\ ask[r].at = "current" /\ ask[r].metadata = None
  /\ \E t \in Read(ask[r].dir, "metadata") : Step(r, [ask[r] EXCEPT !.metadata = t])
ReadIndex(r) ==
  /\ ask[r].at = "current" /\ ask[r].index = None
  /\ \E t \in Read(ask[r].dir, "index") : Step(r, [ask[r] EXCEPT !.index = t])

Current(metadata, index) == metadata \in Graphs /\ index = metadata

\* The index at hand, or else undefined: the search loads the graph.
TakeCurrent(r) ==
  /\ ask[r].at = "current" /\ None \notin {ask[r].metadata, ask[r].index}
  /\ Step(r, IF Current(ask[r].metadata, ask[r].index)
             THEN End(ask[r])
             ELSE [Look(r, "graph") EXCEPT !.metadata = None, !.index = None])

\* loadGraph: the alias only when there is no SoftwareGraph.json.
ReadableGraph(d) ==
  IF Text(d, "graph") = Absent THEN Read(d, "alias") ELSE Read(d, "graph")

\* The graph a text gives, or else the one the sources give now.
Usable(t) == IF t \in Graphs THEN t ELSE source

\* loadOrBuildGraph: whatever is wrong, the graph is built in memory.
LoadGraph(r) ==
  /\ ask[r].at = "graph"
  /\ \E t \in ReadableGraph(ask[r].dir) :
       LET held == [ask[r] EXCEPT !.graph = Usable(t),
                     !.may = IF t \in Graphs \/ ask[r].calm THEN @ ELSE @ \cup {source}]
       IN  Step(r, IF ask[r].what = "query" THEN End(held)
                   ELSE [held EXCEPT !.at = "find", !.next = "index"])

\* Variant: any index that is sound in itself.
ValidUnchecked(index, graph) == index \in Graphs
\* validateSemanticIndex(index, graph) finds nothing.
Valid(index, graph) == index = graph

\* Variant: a rebuilt index is not persisted.
RebuiltInMemory(fields) == End(fields)
\* A missing index, or one of another graph, is rebuilt and then written.
Rebuilt(fields) == [fields EXCEPT !.at = "write"]

\* loadOrCreateSemanticIndex with the graph at hand.  On a torn index it throws; then
\* loadSemanticIndexForCli builds the index in memory, and so does an MCP runtime
\* that was given none, on its first request.
LoadOrCreate(r) ==
  /\ ask[r].at = "index"
  /\ \E t \in Read(ask[r].dir, "index") :
       Step(r, CASE t = Torn ->
                      End([ask[r] EXCEPT !.index = ask[r].graph])
                 [] t # Torn /\ Valid(t, ask[r].graph) ->
                      End([ask[r] EXCEPT !.index = t])
                 [] OTHER -> Rebuilt([ask[r] EXCEPT !.index = ask[r].graph]))

OpenIndex(r) ==
  /\ ask[r].at = "write"
  /\ ask' = [ask EXCEPT ![r].at = "fill"]
  /\ disk' = [disk EXCEPT ![ask[r].dir]["index"] = Opened(@, r)]
  /\ UNCHANGED <<linked, newest, source, buildVars, left>>

CloseIndex(r) ==
  /\ ask[r].at = "fill"
  /\ ask' = [ask EXCEPT ![r] = End(@)]
  /\ \E file \in Closed(disk[ask[r].dir]["index"], r, ask[r].index) :
       disk' = [disk EXCEPT ![ask[r].dir]["index"] = file]
  /\ UNCHANGED <<linked, newest, source, buildVars, left>>

\* A reader that is killed leaves a trace only while it writes.
KillReader(r) ==
  /\ ask[r].at = "fill" /\ left.kills > 0
  /\ ask' = [ask EXCEPT ![r] = NoAsk]
  /\ disk' = [disk EXCEPT ![ask[r].dir]["index"] = Left(@, r)]
  /\ left' = [left EXCEPT !.kills = @ - 1]
  /\ UNCHANGED <<linked, newest, source, buildVars>>

-----------------------------------------------------------------------------
Answer(r) ==
  \/ Find(r) \/ ReadMetadata(r) \/ ReadIndex(r) \/ TakeCurrent(r)
  \/ LoadGraph(r) \/ LoadOrCreate(r) \/ OpenIndex(r) \/ CloseIndex(r)

Build(b) ==
  \/ \E f \in Files : OpenFile(b, f) \/ CloseFile(b, f)
  \/ RemoveAlias(b) \/ PlaceAlias(b) \/ EndLeg(b)

\* A directory as a build leaves it, or as one left it that only wrote graph.json.
Untouched(text) == [text |-> text, writers |-> {}, mixed |-> FALSE]
EmptyDirectory == [f \in Files |-> Untouched(Absent)]
LegacyDirectory(g) == [EmptyDirectory EXCEPT !["alias"] = Untouched(g)]
BuiltDirectory(g) == [f \in Files |-> Untouched(g)]

\* Each directory may hold what an earlier build left there, from other sources.
Init ==
  /\ source = Initial /\ linked = {} /\ newest \in Directories
  /\ \/ /\ newest = Default /\ settled = None
        /\ disk = [d \in Directories |-> EmptyDirectory]
     \/ \E g \in Graphs : \E h \in Graphs \ {g} :
          /\ settled = g
          /\ \E last \in {BuiltDirectory(g)} \cup {d \in {LegacyDirectory(g)} : newest = Default},
               other \in {EmptyDirectory, BuiltDirectory(h)} :
               disk = [d \in Directories |-> IF d = newest THEN last ELSE other]
  /\ crossed = FALSE
  /\ work = [b \in Builders |-> Idle]
  /\ ask = [r \in Readers |-> NoAsk]
  /\ left \in Budgets

Next ==
  \/ Edit
  \/ \E b \in Builders :
       (\E p \in Programs[b] : StartBuild(b, p)) \/ Build(b) \/ KillBuild(b)
  \/ \E r \in Readers :
       (\E q \in Questions[r] : StartAsk(r, q)) \/ Answer(r) \/ KillReader(r)

Spec == Init /\ [][Next]_vars
=============================================================================
