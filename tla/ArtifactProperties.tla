--------------------------- MODULE ArtifactProperties ---------------------------
(* What the commands that read the artifacts of a build may rely on. *)
EXTENDS ArtifactStore

Contents == Graphs \cup {Absent, Torn}

FileType == [text : Contents, mixed : BOOLEAN, writers : SUBSET (Builders \cup Readers)]
WorkType ==
  [legs : Seq(LegType), graph : Graphs \cup {None}, done : SUBSET Files,
   open : SUBSET Files, writing : BOOLEAN]
AskType ==
  [what : {"search", "query", "serve", None},
   at : {"idle", "find", "current", "graph", "index", "write", "fill", "answered"},
   next : {"current", "graph", "index", None}, dir : Directories \cup {None},
   metadata : Contents \cup {None}, index : Contents \cup {None},
   graph : Graphs \cup {None}, may : SUBSET Graphs, calm : BOOLEAN, alone : BOOLEAN]

\* The types of the variables; above all, what a command holds as its graph is never
\* a text that does not parse (loadOrBuildGraph).
TypeOK ==
  /\ disk \in [Directories -> [Files -> FileType]]
  /\ linked \subseteq Directories /\ newest \in Directories /\ source \in Graphs
  /\ work \in [Builders -> WorkType]
  /\ ask \in [Readers -> AskType]
  /\ settled \in Graphs \cup {None} /\ crossed \in BOOLEAN
  /\ left \in [{"builds", "asks", "edits", "kills", "together"} -> Nat]

Answered == {r \in Readers : ask[r].at = "answered"}
Used(r) == IF ask[r].what = "query" THEN ask[r].graph ELSE ask[r].index

\* If the last build before a command ran alone and to its end, a search, a query or
\* a server answers from the graph of that build; only if a build writes meanwhile,
\* also from the graph of that one, from what it overwrites, or from the sources.  An
\* older index that a reader puts back, a torn file, and a directory that an earlier
\* build left do not show in an answer (loadCurrentSemanticIndex,
\* findGraphArtifactDirectory, loadOrBuildGraph).
AnswersAreCurrent == \A r \in Answered : Used(r) \in ask[r].may

\* Whoever holds a graph and an index holds the index of that graph, although they
\* come from two reads, perhaps of two directories, between which builds and other
\* readers write (loadOrCreateSemanticIndex, validateSemanticIndex).
IndexIsOfItsGraph ==
  \A r \in Answered :
    ask[r].what # "query" /\ ask[r].graph # None => ask[r].index = ask[r].graph

\* After a build that ran alone to its end, whatever was killed or crossed before,
\* the directory that readers find has that build's graph under both names (the
\* alias alone, if a build of old left it), and metadata.json names no other
\* (persistGraph, createOntolyOutputBundle, writeGraphAlias).
SettledDirectoryAgrees ==
  settled # None =>
    LET d == NewestDirectory
    IN  /\ Text(d, "alias") = settled
        /\ {Text(d, "graph"), Text(d, "metadata")} \subseteq {settled, Absent}

\* A command that uses an index and ran alone over what a build left leaves, beside
\* the graph, the index it answered from, so that the next search need not parse the
\* graph; but a torn index it leaves torn (loadOrCreateSemanticIndex rebuilds on a
\* missing file or a wrong hash, and throws on a text that does not parse).
Repairs(r) ==
  (r \in Asking /\ ask'[r].at = "answered" /\ ask[r].alone /\ ask[r].calm
     /\ ask[r].what # "query") =>
    \/ disk'[ask[r].dir]["index"].text = ask'[r].index
    \/ ask[r].at = "index" /\ Text(ask[r].dir, "index") = Torn
IndexIsRepaired == [][\A r \in Readers : Repairs(r)]_vars
=============================================================================
