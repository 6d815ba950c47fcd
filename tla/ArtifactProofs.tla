----------------------------- MODULE ArtifactProofs -----------------------------
(***************************************************************************)
(* The properties of the artifacts for any number of builds, readers,      *)
(* graphs and directories.  The first invariant, IInv, says what a command *)
(* holds at each of its steps: a directory where it is about to touch a    *)
(* file, a graph once it is past loadOrBuildGraph, and, while it writes    *)
(* index.json, the index of that graph; a search that still reads          *)
(* index.json alone has no graph.  A build that has a file open has a      *)
(* directory and a graph to write.                                         *)
(*                                                                         *)
(* The second, DirectoryInv, says what the directories hold meanwhile: the *)
(* files of a build that runs alone as far as it came, those of one that   *)
(* ended, and, for whoever asks, only graphs it may answer from wherever   *)
(* it could still look.                                                    *)
(***************************************************************************)
EXTENDS ArtifactProperties, SequenceTheorems, TLAPS

Touching == {"current", "graph", "index", "write", "fill"}
PastGraph(a) == a.at \in {"index", "write", "fill"} \/ (a.at = "find" /\ a.next = "index")
BeforeGraph(a) == a.at = "current" \/ (a.at = "find" /\ a.next = "current")

HeldBy(a) ==
  /\ a.at \in Touching => a.dir \in Directories
  /\ a.at = "find" => a.next \in {"current", "graph", "index"}
  /\ PastGraph(a) => a.graph \in Graphs
  /\ BeforeGraph(a) => a.graph = None
  /\ a.at \in {"write", "fill"} => a.index = a.graph
  /\ a.at = "answered" /\ a.what # "query" /\ a.graph # None => a.index = a.graph

Held == \A r \in Readers : HeldBy(ask[r])
WorkedBy(w) == (w.open # {} => w.legs # <<>>) /\ (w.legs # <<>> => w.graph \in Graphs)
Worked == \A b \in Builders : WorkedBy(work[b])
IInv == TypeOK /\ Held /\ Worked

-----------------------------------------------------------------------------
\* What is read of a file is its text or a torn one.
LEMMA ReadType ==
  ASSUME TypeOK, NEW d \in Directories, NEW f \in Files
  PROVE  Text(d, f) \in Contents /\ Read(d, f) \subseteq Contents
<1>1. Inode(d, f) \in Files
  BY DEF Inode, Files
<1>2. disk[d][Inode(d, f)] \in FileType
  BY <1>1 DEF TypeOK
<1> QED
  BY <1>2 DEF Text, Read, FileType, Contents

\* Opening and closing a file leave a file.
LEMMA FileTypes ==
  ASSUME NEW file \in FileType, NEW p \in Builders \cup Readers, NEW t \in Contents
  PROVE  /\ Opened(file, p) \in FileType /\ Left(file, p) \in FileType
         /\ Closed(file, p, t) \subseteq FileType
<1>1. Opened(file, p) \in FileType
  BY DEF FileType, Opened, Contents
<1>2. Left(file, p) \in FileType
  BY DEF FileType, Left
<1>3. \A u \in Contents : [Left(file, p) EXCEPT !.text = u] \in FileType
  BY <1>2 DEF FileType
<1>4. Torn \in Contents
  BY DEF Contents
<1>5. Closed(file, p, t) \subseteq FileType
  BY <1>3, <1>4 DEF Closed
<1> QED
  BY <1>1, <1>2, <1>5

\* The directory a command finds is one of them.
LEMMA NewestIsDirectory == ASSUME TypeOK PROVE NewestDirectory \in Directories
<1>1. Default \in Directories
  BY StoreAssumption
<1>2. Holding # {} => (CHOOSE d \in Holding : TRUE) \in Holding
  OBVIOUS
<1> QED
  BY <1>1, <1>2 DEF NewestDirectory, Holding, TypeOK

\* The leg that a build writes names a directory.
LEMMA LegIsTyped ==
  ASSUME TypeOK, NEW b \in Builders, work[b].legs # <<>>
  PROVE  /\ Leg(b) \in LegType /\ Dir(b) \in Directories
         /\ Tail(work[b].legs) \in Seq(LegType)
<1>1. work[b].legs \in Seq(LegType)
  BY DEF TypeOK, WorkType
<1>2. Head(work[b].legs) \in LegType /\ Tail(work[b].legs) \in Seq(LegType)
  BY <1>1, HeadTailProperties
<1> QED
  BY <1>2 DEF Leg, Dir, LegType

\* A file of a directory is replaced by a file.
LEMMA DiskIsTyped ==
  ASSUME TypeOK, NEW d \in Directories, NEW f \in Files, NEW file \in FileType,
         disk' = [disk EXCEPT ![d][f] = file]
  PROVE  disk' \in [Directories -> [Files -> FileType]]
  BY DEF TypeOK

\* A step of a reader that touches no file keeps the invariant if its record does.
LEMMA StepKeeps ==
  ASSUME IInv, NEW r \in Readers, NEW fields \in AskType, HeldBy(fields), Step(r, fields)
  PROVE  IInv'
<1>1. ask' = [ask EXCEPT ![r] = fields] /\ ask \in [Readers -> AskType]
  BY DEF Step, IInv, TypeOK
<1>2. \A s \in Readers : ask'[s] = IF s = r THEN fields ELSE ask[s]
  BY <1>1
<1>3. TypeOK'
  BY <1>1 DEF Step, IInv, TypeOK, buildVars
<1>4. Held'
  BY <1>2 DEF IInv, Held, HeldBy, PastGraph, BeforeGraph
<1>5. Worked'
  BY DEF Step, IInv, Worked, buildVars
<1> QED
  BY <1>3, <1>4, <1>5 DEF IInv

\* The record that a command ends with.
LEMMA EndIsTyped ==
  ASSUME NEW a \in AskType, a.what = "query" \/ a.graph = None \/ a.index = a.graph
  PROVE  End(a) \in AskType /\ HeldBy(End(a))
  BY StoreAssumption DEF AskType, End, HeldBy, PastGraph, BeforeGraph, Touching

-----------------------------------------------------------------------------
(* Builds. *)

\* Whatever a build does to the records of the readers keeps what they hold.
LEMMA BeginKeeps ==
  ASSUME IInv, NEW b \in Builders, work[b].legs # <<>>, Begin(b)
  PROVE  /\ ask' \in [Readers -> AskType] /\ Held'
         /\ settled' \in Graphs \cup {None} /\ crossed' \in BOOLEAN
<1>1. CASE work[b].done \cup work[b].open # {}
  BY <1>1 DEF Begin, IInv, TypeOK, Held, HeldBy, PastGraph, BeforeGraph
<1>2. CASE work[b].done \cup work[b].open = {}
  <2>1. \A r \in Readers : ask[r] \in AskType
    BY DEF IInv, TypeOK
  <2> DEFINE may(r) == ask[r].may \cup {work[b].graph} \cup
                        (Graphs \cap {Text(Dir(b), "metadata"), Text(Dir(b), "graph")})
             disturbed(r) == [ask[r] EXCEPT !.calm = FALSE, !.may = may(r)]
  <2>2. ask' = [r \in Readers |-> IF r \in Asking THEN disturbed(r) ELSE ask[r]]
    BY <1>2 DEF Begin
  <2>3. \A r \in Readers : may(r) \in SUBSET Graphs
    BY <2>1 DEF AskType, IInv, Worked, WorkedBy
  <2>4. \A r \in Readers : disturbed(r) \in AskType
    BY <2>1, <2>3 DEF AskType
  <2>5. \A r \in Readers : HeldBy(ask[r]) => HeldBy(disturbed(r))
    BY <2>1 DEF AskType, HeldBy, PastGraph, BeforeGraph
  <2>6. \A r \in Readers : ask'[r] \in AskType /\ HeldBy(ask'[r])
    BY <2>1, <2>2, <2>4, <2>5 DEF IInv, Held
  <2>7. Held'
    BY <2>6 DEF Held, HeldBy, PastGraph, BeforeGraph
  <2>8. ask' \in [Readers -> AskType]
    BY <2>2, <2>6
  <2> QED
    BY <1>2, <2>7, <2>8 DEF Begin, IInv, TypeOK
<1> QED
  BY <1>1, <1>2

\* A build's record, replaced by another.
LEMMA WorkKeeps ==
  ASSUME IInv, NEW b \in Builders, NEW w \in WorkType, WorkedBy(w),
         work' = [work EXCEPT ![b] = w]
  PROVE  work' \in [Builders -> WorkType] /\ Worked'
<1>1. \A c \in Builders : work'[c] = IF c = b THEN w ELSE work[c]
  BY DEF IInv, TypeOK
<1> QED
  BY <1>1 DEF IInv, TypeOK, Worked, WorkedBy

LEMMA StartBuildKeeps ==
  ASSUME IInv, NEW b \in Builders, NEW p \in Programs[b], StartBuild(b, p)
  PROVE  IInv'
<1> DEFINE w == [Idle EXCEPT !.legs = p, !.graph = source]
<1>1. p \in Seq(LegType) /\ source \in Graphs
  BY StoreAssumption DEF IInv, TypeOK
<1>2. w \in WorkType /\ WorkedBy(w)
  BY <1>1 DEF Idle, WorkType, WorkedBy, Files
<1>3. work' \in [Builders -> WorkType] /\ Worked'
  BY <1>2, WorkKeeps DEF StartBuild
<1>4. left' \in [{"builds", "asks", "edits", "kills", "together"} -> Nat]
  BY DEF StartBuild, IInv, TypeOK
<1> QED
  BY <1>3, <1>4 DEF StartBuild, IInv, TypeOK, Held, HeldBy, PastGraph, BeforeGraph

LEMMA OpenFileKeeps ==
  ASSUME IInv, NEW b \in Builders, NEW f \in Files, OpenFile(b, f)
  PROVE  IInv'
<1>1. work[b].legs # <<>> /\ work[b] \in WorkType /\ WorkedBy(work[b])
  BY DEF OpenFile, Turn, IInv, TypeOK, Worked
<1>2. Dir(b) \in Directories
  BY <1>1, LegIsTyped DEF IInv
<1> DEFINE w == [work[b] EXCEPT !.open = @ \cup {f}, !.writing = TRUE]
<1>3. w \in WorkType /\ WorkedBy(w)
  BY <1>1 DEF WorkType, WorkedBy
<1>4. work' = [work EXCEPT ![b] = w]
  BY DEF OpenFile
<1>5. work' \in [Builders -> WorkType] /\ Worked'
  BY <1>3, <1>4, WorkKeeps
<1>6. disk[Dir(b)][f] \in FileType
  BY <1>2 DEF IInv, TypeOK
<1>7. Opened(disk[Dir(b)][f], b) \in FileType
  BY <1>6, FileTypes DEF Contents
<1>8. disk' = [disk EXCEPT ![Dir(b)][f] = Opened(disk[Dir(b)][f], b)]
  BY DEF OpenFile
<1>9. disk' \in [Directories -> [Files -> FileType]]
  BY <1>2, <1>7, <1>8, DiskIsTyped DEF IInv
<1>10. ask' \in [Readers -> AskType] /\ Held'
       /\ settled' \in Graphs \cup {None} /\ crossed' \in BOOLEAN
  BY <1>1, BeginKeeps DEF OpenFile
<1> QED
  BY <1>2, <1>5, <1>9, <1>10 DEF OpenFile, IInv, TypeOK

\* While a build has a file open it has a directory and a graph.
LEMMA OpenIsTyped ==
  ASSUME IInv, NEW b \in Builders, NEW f \in work[b].open
  PROVE  /\ work[b] \in WorkType /\ WorkedBy(work[b]) /\ f \in Files
         /\ Dir(b) \in Directories /\ work[b].graph \in Graphs
<1>1. work[b] \in WorkType /\ WorkedBy(work[b])
  BY DEF IInv, TypeOK, Worked
<1>2. work[b].legs # <<>> /\ work[b].graph \in Graphs /\ f \in Files
  BY <1>1 DEF WorkedBy, WorkType
<1> QED
  BY <1>1, <1>2, LegIsTyped DEF IInv

LEMMA CloseFileKeeps ==
  ASSUME IInv, NEW b \in Builders, NEW f \in Files, CloseFile(b, f)
  PROVE  IInv'
<1>1. f \in work[b].open
  BY DEF CloseFile
<1>2. /\ work[b] \in WorkType /\ WorkedBy(work[b])
      /\ Dir(b) \in Directories /\ work[b].graph \in Graphs
  BY <1>1, OpenIsTyped
<1> DEFINE w == [work[b] EXCEPT !.open = @ \ {f}, !.done = @ \cup {f}]
<1>3. w \in WorkType /\ WorkedBy(w)
  BY <1>2 DEF WorkType, WorkedBy
<1>4. work' \in [Builders -> WorkType] /\ Worked'
  <2>1. work' = [work EXCEPT ![b] = w]
    BY DEF CloseFile, IInv, TypeOK
  <2> QED
    BY <1>3, <2>1, WorkKeeps
<1>5. disk[Dir(b)][f] \in FileType
  BY <1>2 DEF IInv, TypeOK
<1>6. Closed(disk[Dir(b)][f], b, work[b].graph) \subseteq FileType
  BY <1>2, <1>5, FileTypes DEF Contents
<1>7. PICK file \in FileType : disk' = [disk EXCEPT ![Dir(b)][f] = file]
  BY <1>6 DEF CloseFile
<1>8. disk' \in [Directories -> [Files -> FileType]]
  BY <1>2, <1>7, DiskIsTyped DEF IInv
<1> QED
  BY <1>2, <1>4, <1>8
  DEF CloseFile, IInv, TypeOK, Held, HeldBy, PastGraph, BeforeGraph

LEMMA RemoveAliasKeeps ==
  ASSUME IInv, NEW b \in Builders, RemoveAlias(b)
  PROVE  IInv'
<1>1. work[b].legs # <<>> /\ work[b] \in WorkType /\ WorkedBy(work[b])
  BY DEF RemoveAlias, Turn, IInv, TypeOK, Worked
<1>2. Dir(b) \in Directories
  BY <1>1, LegIsTyped DEF IInv
<1> DEFINE w == [work[b] EXCEPT !.open = @ \cup {"alias"}]
           file == [disk[Dir(b)]["alias"] EXCEPT !.text = Absent]
<1>3. w \in WorkType /\ WorkedBy(w)
  BY <1>1 DEF WorkType, WorkedBy, Files
<1>4. work' \in [Builders -> WorkType] /\ Worked'
  BY <1>3, WorkKeeps DEF RemoveAlias
<1>5. "alias" \in Files
  BY DEF Files
<1>6. disk[Dir(b)]["alias"] \in FileType
  BY <1>2, <1>5 DEF IInv, TypeOK
<1>7. file \in FileType
  BY <1>6 DEF FileType, Contents
<1>8. disk' = [disk EXCEPT ![Dir(b)]["alias"] = file]
  BY <1>2, <1>5 DEF RemoveAlias, IInv, TypeOK
<1>9. disk' \in [Directories -> [Files -> FileType]]
  BY <1>2, <1>5, <1>7, <1>8, DiskIsTyped DEF IInv
<1> QED
  BY <1>2, <1>4, <1>9
  DEF RemoveAlias, IInv, TypeOK, Held, HeldBy, PastGraph, BeforeGraph

LEMMA PlaceAliasKeeps ==
  ASSUME IInv, NEW b \in Builders, PlaceAlias(b)
  PROVE  IInv'
<1>1. "alias" \in work[b].open
  BY DEF PlaceAlias
<1>2. work[b] \in WorkType /\ WorkedBy(work[b]) /\ Dir(b) \in Directories
  BY <1>1, OpenIsTyped
<1> DEFINE w == [work[b] EXCEPT !.open = @ \ {"alias"}, !.done = @ \cup {"alias"}]
<1>3. w \in WorkType /\ WorkedBy(w)
  BY <1>2 DEF WorkType, WorkedBy, Files
<1>4. work' \in [Builders -> WorkType] /\ Worked'
  <2>1. work' = [work EXCEPT ![b] = w]
    BY DEF PlaceAlias, IInv, TypeOK
  <2> QED
    BY <1>3, <2>1, WorkKeeps
<1>5. disk' \in [Directories -> [Files -> FileType]] /\ linked' \subseteq Directories
  <2>1. CASE Dir(b) \in Linking
    BY <1>2, <2>1 DEF PlaceAlias, IInv, TypeOK
  <2>2. CASE Dir(b) \notin Linking
    <3>1. PICK t \in Read(Dir(b), "graph") : disk' = [disk EXCEPT ![Dir(b)]["alias"].text = t]
      BY <2>2 DEF PlaceAlias
    <3>2. t \in Contents /\ "alias" \in Files /\ "graph" \in Files
      BY <1>2, ReadType DEF Files, IInv
    <3>3. disk[Dir(b)]["alias"] \in FileType
      BY <1>2, <3>2 DEF IInv, TypeOK
    <3> DEFINE file == [disk[Dir(b)]["alias"] EXCEPT !.text = t]
    <3>4. file \in FileType
      BY <3>2, <3>3 DEF FileType
    <3>5. disk' = [disk EXCEPT ![Dir(b)]["alias"] = file]
      BY <1>2, <3>1, <3>2 DEF IInv, TypeOK
    <3> QED
      BY <1>2, <2>2, <3>2, <3>4, <3>5, DiskIsTyped DEF PlaceAlias, IInv, TypeOK
  <2> QED
    BY <2>1, <2>2
<1> QED
  BY <1>2, <1>4, <1>5
  DEF PlaceAlias, IInv, TypeOK, Held, HeldBy, PastGraph, BeforeGraph

LEMMA EndLegKeeps ==
  ASSUME IInv, NEW b \in Builders, EndLeg(b)
  PROVE  IInv'
<1>1. /\ work[b].legs # <<>> /\ work[b] \in WorkType /\ WorkedBy(work[b])
      /\ work[b].graph \in Graphs
  BY DEF EndLeg, IInv, TypeOK, Worked, WorkedBy
<1>2. Tail(work[b].legs) \in Seq(LegType)
  BY <1>1, LegIsTyped DEF IInv
<1>3. CASE Len(work[b].legs) > 1
  <2> DEFINE w == [work[b] EXCEPT !.legs = Tail(@), !.done = {}]
  <2>1. Tail(work[b].legs) # <<>>
    <3>1. work[b].legs \in Seq(LegType)
      BY <1>1 DEF WorkType
    <3>2. Len(Tail(work[b].legs)) = Len(work[b].legs) - 1
      BY <1>1, <3>1, HeadTailProperties
    <3>3. Len(work[b].legs) \in Nat
      BY <3>1, LenProperties
    <3>4. Len(Tail(work[b].legs)) # 0
      <4>1. \A n \in Nat : n > 1 => n - 1 # 0
        OBVIOUS
      <4> QED
        BY <1>3, <3>2, <3>3, <4>1, Zenon
    <3>5. Tail(work[b].legs) = <<>> => Len(Tail(work[b].legs)) = Len(<<>>)
      OBVIOUS
    <3>6. Len(<<>>) = 0
      BY EmptySeq
    <3> QED
      BY <3>4, <3>5, <3>6, Zenon
  <2>2. w \in WorkType /\ WorkedBy(w)
    BY <1>1, <1>2, <2>1 DEF WorkType, WorkedBy
  <2>3. work' \in [Builders -> WorkType] /\ Worked'
    <3>1. work' = [work EXCEPT ![b] = w]
      BY <1>3 DEF EndLeg, IInv, TypeOK
    <3> QED
      BY <2>2, <3>1, WorkKeeps
  <2> QED
    BY <1>3, <2>3 DEF EndLeg, IInv, TypeOK, Held, HeldBy, PastGraph, BeforeGraph
<1>4. CASE ~(Len(work[b].legs) > 1)
  <2>1. Idle \in WorkType /\ WorkedBy(Idle)
    BY DEF Idle, WorkType, WorkedBy
  <2>2. work' \in [Builders -> WorkType] /\ Worked'
    BY <1>4, <2>1, WorkKeeps DEF EndLeg
  <2> QED
    BY <1>1, <1>4, <2>2 DEF EndLeg, IInv, TypeOK, Held, HeldBy, PastGraph, BeforeGraph
<1> QED
  BY <1>3, <1>4

LEMMA KillBuildKeeps ==
  ASSUME IInv, NEW b \in Builders, KillBuild(b)
  PROVE  IInv'
<1>1. work[b].legs # <<>>
  BY DEF KillBuild, Writing, Running
<1>2. Dir(b) \in Directories
  BY <1>1, LegIsTyped DEF IInv
<1>3. Idle \in WorkType /\ WorkedBy(Idle)
  BY DEF Idle, WorkType, WorkedBy
<1>4. work' \in [Builders -> WorkType] /\ Worked'
  BY <1>3, WorkKeeps DEF KillBuild
<1>5. \A f \in Files : disk[Dir(b)][f] \in FileType
  BY <1>2 DEF IInv, TypeOK
<1>6. \A f \in Files : Left(disk[Dir(b)][f], b) \in FileType
  BY <1>5 DEF FileType, Left
<1> DEFINE dir == [f \in Files |-> IF f \in work[b].open
                                   THEN Left(disk[Dir(b)][f], b) ELSE disk[Dir(b)][f]]
<1>7. disk' = [disk EXCEPT ![Dir(b)] = dir]
  BY DEF KillBuild
<1>8. dir \in [Files -> FileType]
  BY <1>5, <1>6
<1>9. disk' \in [Directories -> [Files -> FileType]]
  BY <1>7, <1>8 DEF IInv, TypeOK
<1>10. left' \in [{"builds", "asks", "edits", "kills", "together"} -> Nat]
  BY DEF KillBuild, IInv, TypeOK
<1> QED
  BY <1>4, <1>9, <1>10 DEF KillBuild, IInv, TypeOK, Held, HeldBy, PastGraph, BeforeGraph

LEMMA EditKeeps == ASSUME IInv, Edit PROVE IInv'
<1>1. left' \in [{"builds", "asks", "edits", "kills", "together"} -> Nat]
  BY DEF Edit, IInv, TypeOK
<1> QED
  BY <1>1 DEF Edit, IInv, TypeOK, buildVars, Worked, WorkedBy, Held, HeldBy, PastGraph,
              BeforeGraph

-----------------------------------------------------------------------------
(* Commands. *)

LEMMA StartAskKeeps ==
  ASSUME IInv, NEW r \in Readers, NEW q \in Questions[r], StartAsk(r, q)
  PROVE  IInv'
<1>1. q \in {"search", "query", "serve"}
  BY StoreAssumption
<1>2. \A s \in Readers : ask[s] \in AskType /\ HeldBy(ask[s])
  BY DEF IInv, TypeOK, Held
<1> DEFINE other(s) == [ask[s] EXCEPT !.alone = FALSE]
           mine == [NoAsk EXCEPT
                     !.what = q, !.at = "find",
                     !.next = IF q = "search" THEN "current" ELSE "graph",
                     !.may = IF settled = None THEN Graphs ELSE {settled},
                     !.calm = settled # None,
                     !.alone = settled # None /\ Asking = {}]
<1>3. ask' = [s \in Readers |-> IF s # r THEN other(s) ELSE mine]
  BY DEF StartAsk
<1>4. \A s \in Readers : other(s) \in AskType /\ HeldBy(other(s))
  BY <1>2 DEF AskType, HeldBy, PastGraph, BeforeGraph
<1>5. settled \in Graphs \cup {None}
  BY DEF IInv, TypeOK
<1>6. mine \in AskType /\ HeldBy(mine)
  BY <1>1, <1>5, StoreAssumption
  DEF NoAsk, AskType, HeldBy, PastGraph, BeforeGraph, Touching
<1>7. \A s \in Readers : ask'[s] \in AskType /\ HeldBy(ask'[s])
  BY <1>3, <1>4, <1>6
<1>8. ask' \in [Readers -> AskType] /\ Held'
  BY <1>3, <1>7 DEF Held, HeldBy, PastGraph, BeforeGraph
<1>9. left' \in [{"builds", "asks", "edits", "kills", "together"} -> Nat]
  <2>1. left.asks > 0 /\ left' = [left EXCEPT !.asks = @ - 1]
    BY DEF StartAsk
  <2> QED
    BY <2>1 DEF IInv, TypeOK
<1> QED
  BY <1>8, <1>9 DEF StartAsk, IInv, TypeOK, buildVars, Worked, WorkedBy

LEMMA FindKeeps == ASSUME IInv, NEW r \in Readers, Find(r) PROVE IInv'
<1> DEFINE fields == [ask[r] EXCEPT !.at = ask[r].next, !.dir = NewestDirectory]
<1>1. ask[r] \in AskType /\ HeldBy(ask[r]) /\ ask[r].at = "find" /\ Step(r, fields)
  BY DEF Find, IInv, TypeOK, Held
<1>2. NewestDirectory \in Directories
  BY NewestIsDirectory DEF IInv
<1>3. ask[r].next \in {"current", "graph", "index"}
  BY <1>1 DEF AskType, HeldBy
<1>4. fields \in AskType
  BY <1>1, <1>2, <1>3 DEF AskType
<1>5. HeldBy(fields)
  BY <1>1, <1>2, <1>3 DEF AskType, HeldBy, PastGraph, BeforeGraph, Touching
<1> QED
  BY <1>1, <1>4, <1>5, StepKeeps

LEMMA ReadMetadataKeeps == ASSUME IInv, NEW r \in Readers, ReadMetadata(r) PROVE IInv'
<1>1. ask[r] \in AskType /\ HeldBy(ask[r]) /\ ask[r].dir \in Directories
  BY DEF ReadMetadata, IInv, TypeOK, Held, HeldBy, Touching
<1>2. PICK t \in Read(ask[r].dir, "metadata") : Step(r, [ask[r] EXCEPT !.metadata = t])
  BY DEF ReadMetadata
<1>3. t \in Contents
  BY <1>1, <1>2, ReadType DEF Files, IInv
<1>4. [ask[r] EXCEPT !.metadata = t] \in AskType /\ HeldBy([ask[r] EXCEPT !.metadata = t])
  BY <1>1, <1>3 DEF AskType, HeldBy, PastGraph, BeforeGraph
<1> QED
  BY <1>2, <1>4, StepKeeps

LEMMA ReadIndexKeeps == ASSUME IInv, NEW r \in Readers, ReadIndex(r) PROVE IInv'
<1>1. /\ ask[r] \in AskType /\ HeldBy(ask[r]) /\ ask[r].dir \in Directories
      /\ ask[r].at = "current"
  BY DEF ReadIndex, IInv, TypeOK, Held, HeldBy, Touching
<1>2. PICK t \in Read(ask[r].dir, "index") : Step(r, [ask[r] EXCEPT !.index = t])
  BY DEF ReadIndex
<1>3. t \in Contents
  BY <1>1, <1>2, ReadType DEF Files, IInv
<1>4. [ask[r] EXCEPT !.index = t] \in AskType /\ HeldBy([ask[r] EXCEPT !.index = t])
  BY <1>1, <1>3 DEF AskType, HeldBy, PastGraph, BeforeGraph, Touching
<1> QED
  BY <1>2, <1>4, StepKeeps

LEMMA TakeCurrentKeeps == ASSUME IInv, NEW r \in Readers, TakeCurrent(r) PROVE IInv'
<1>1. /\ ask[r] \in AskType /\ HeldBy(ask[r])
      /\ ask[r].at = "current" /\ ask[r].graph = None
  BY DEF TakeCurrent, IInv, TypeOK, Held, HeldBy, BeforeGraph
<1>2. CASE Current(ask[r].metadata, ask[r].index)
  <2>1. End(ask[r]) \in AskType /\ HeldBy(End(ask[r]))
    BY <1>1, EndIsTyped
  <2> QED
    BY <1>2, <2>1, StepKeeps DEF TakeCurrent
<1>3. CASE ~Current(ask[r].metadata, ask[r].index)
  <2> DEFINE fields == [Look(r, "graph") EXCEPT !.metadata = None, !.index = None]
  <2>1. fields \in AskType /\ HeldBy(fields)
    BY <1>1 DEF Look, AskType, HeldBy, PastGraph, BeforeGraph, Touching
  <2> QED
    BY <1>3, <2>1, StepKeeps DEF TakeCurrent
<1> QED
  BY <1>2, <1>3

LEMMA LoadGraphKeeps == ASSUME IInv, NEW r \in Readers, LoadGraph(r) PROVE IInv'
<1>1. /\ ask[r] \in AskType /\ HeldBy(ask[r]) /\ ask[r].dir \in Directories
      /\ ask[r].at = "graph" /\ source \in Graphs
  BY DEF LoadGraph, IInv, TypeOK, Held, HeldBy, Touching
<1> DEFINE held(t) ==
      [ask[r] EXCEPT !.graph = Usable(t),
         !.may = IF t \in Graphs \/ ask[r].calm THEN @ ELSE @ \cup {source}]
<1>2. PICK t \in ReadableGraph(ask[r].dir) :
        Step(r, IF ask[r].what = "query" THEN End(held(t))
                ELSE [held(t) EXCEPT !.at = "find", !.next = "index"])
  BY DEF LoadGraph
<1>3. Usable(t) \in Graphs
  BY <1>1 DEF Usable
<1>4. held(t) \in AskType /\ held(t).what = ask[r].what
  BY <1>1, <1>3 DEF AskType
<1>5. CASE ask[r].what = "query"
  BY <1>2, <1>4, <1>5, EndIsTyped, StepKeeps
<1>6. CASE ask[r].what # "query"
  <2> DEFINE fields == [held(t) EXCEPT !.at = "find", !.next = "index"]
  <2>1. fields \in AskType
    BY <1>4 DEF AskType
  <2>2. fields.at = "find" /\ fields.next = "index" /\ fields.graph = Usable(t)
    BY <1>1, <1>4 DEF AskType
  <2>3. HeldBy(fields)
    BY <1>3, <2>2 DEF HeldBy, PastGraph, BeforeGraph, Touching
  <2> QED
    BY <1>2, <1>6, <2>1, <2>3, StepKeeps
<1> QED
  BY <1>5, <1>6

LEMMA LoadOrCreateKeeps == ASSUME IInv, NEW r \in Readers, LoadOrCreate(r) PROVE IInv'
<1>1. /\ ask[r] \in AskType /\ HeldBy(ask[r]) /\ ask[r].dir \in Directories
      /\ ask[r].at = "index" /\ ask[r].graph \in Graphs
  BY DEF LoadOrCreate, IInv, TypeOK, Held, HeldBy, Touching, PastGraph
<1> DEFINE own == [ask[r] EXCEPT !.index = ask[r].graph]
<1>2. own \in AskType /\ own.index = own.graph
  BY <1>1 DEF AskType, Contents
<1>3. End(own) \in AskType /\ HeldBy(End(own))
  BY <1>2, EndIsTyped
<1>4. Rebuilt(own) \in AskType /\ HeldBy(Rebuilt(own))
  BY <1>1, <1>2 DEF Rebuilt, AskType, HeldBy, PastGraph, BeforeGraph, Touching
<1>5. PICK t \in Read(ask[r].dir, "index") :
        Step(r, CASE t = Torn -> End(own)
                  [] t # Torn /\ Valid(t, ask[r].graph) -> End([ask[r] EXCEPT !.index = t])
                  [] OTHER -> Rebuilt(own))
  BY DEF LoadOrCreate
<1>6. Valid(t, ask[r].graph) => [ask[r] EXCEPT !.index = t] = own
  BY DEF Valid
<1>7. Step(r, End(own)) \/ Step(r, Rebuilt(own))
  BY <1>5, <1>6
<1> QED
  BY <1>3, <1>4, <1>7, StepKeeps

\* What a reader does to index.json leaves a file, and the records of the others.
LEMMA WriteKeeps ==
  ASSUME IInv, NEW r \in Readers, NEW fields \in AskType, HeldBy(fields),
         NEW d \in Directories, NEW file \in FileType,
         ask' = [ask EXCEPT ![r] = fields],
         disk' = [disk EXCEPT ![d]["index"] = file],
         UNCHANGED <<linked, newest, source, buildVars>>,
         left' \in [{"builds", "asks", "edits", "kills", "together"} -> Nat]
  PROVE  IInv'
<1>1. \A s \in Readers : ask'[s] = IF s = r THEN fields ELSE ask[s]
  BY DEF IInv, TypeOK
<1>2. ask' \in [Readers -> AskType]
  BY DEF IInv, TypeOK
<1>3. Held'
  BY <1>1 DEF IInv, Held, HeldBy, PastGraph, BeforeGraph
<1>4. disk' \in [Directories -> [Files -> FileType]]
  BY DiskIsTyped DEF IInv, Files
<1> QED
  BY <1>2, <1>3, <1>4 DEF IInv, TypeOK, buildVars, Worked, WorkedBy

LEMMA OpenIndexKeeps == ASSUME IInv, NEW r \in Readers, OpenIndex(r) PROVE IInv'
<1>1. /\ ask[r] \in AskType /\ HeldBy(ask[r]) /\ ask[r].dir \in Directories
      /\ ask[r].at = "write"
  BY DEF OpenIndex, IInv, TypeOK, Held, HeldBy, Touching
<1> DEFINE fields == [ask[r] EXCEPT !.at = "fill"]
<1>2. fields \in AskType /\ HeldBy(fields)
  BY <1>1 DEF AskType, HeldBy, PastGraph, BeforeGraph, Touching
<1>3. disk[ask[r].dir]["index"] \in FileType
  BY <1>1 DEF IInv, TypeOK, Files
<1>4. Opened(disk[ask[r].dir]["index"], r) \in FileType
  BY <1>3, FileTypes DEF Contents
<1>5. /\ ask' = [ask EXCEPT ![r] = fields]
      /\ disk' = [disk EXCEPT ![ask[r].dir]["index"] = Opened(disk[ask[r].dir]["index"], r)]
      /\ UNCHANGED <<linked, newest, source, buildVars>>
      /\ left' \in [{"builds", "asks", "edits", "kills", "together"} -> Nat]
  BY DEF OpenIndex, IInv, TypeOK
<1> QED
  BY <1>1, <1>2, <1>4, <1>5, WriteKeeps

LEMMA CloseIndexKeeps == ASSUME IInv, NEW r \in Readers, CloseIndex(r) PROVE IInv'
<1>1. /\ ask[r] \in AskType /\ HeldBy(ask[r]) /\ ask[r].dir \in Directories
      /\ ask[r].at = "fill" /\ ask[r].index = ask[r].graph /\ ask[r].graph \in Graphs
  BY DEF CloseIndex, IInv, TypeOK, Held, HeldBy, Touching, PastGraph
<1>2. End(ask[r]) \in AskType /\ HeldBy(End(ask[r]))
  BY <1>1, EndIsTyped
<1>3. disk[ask[r].dir]["index"] \in FileType
  BY <1>1 DEF IInv, TypeOK, Files
<1>4. Closed(disk[ask[r].dir]["index"], r, ask[r].index) \subseteq FileType
  BY <1>1, <1>3, FileTypes DEF Contents
<1>5. PICK file \in FileType : disk' = [disk EXCEPT ![ask[r].dir]["index"] = file]
  BY <1>4 DEF CloseIndex
<1>6. /\ ask' = [ask EXCEPT ![r] = End(ask[r])]
      /\ UNCHANGED <<linked, newest, source, buildVars>>
      /\ left' \in [{"builds", "asks", "edits", "kills", "together"} -> Nat]
  BY DEF CloseIndex, IInv, TypeOK
<1> QED
  BY <1>1, <1>2, <1>5, <1>6, WriteKeeps

LEMMA KillReaderKeeps == ASSUME IInv, NEW r \in Readers, KillReader(r) PROVE IInv'
<1>1. ask[r] \in AskType /\ ask[r].dir \in Directories
  BY DEF KillReader, IInv, TypeOK, Held, HeldBy, Touching
<1>2. NoAsk \in AskType /\ HeldBy(NoAsk)
  BY DEF NoAsk, AskType, HeldBy, PastGraph, BeforeGraph, Touching
<1>3. disk[ask[r].dir]["index"] \in FileType
  BY <1>1 DEF IInv, TypeOK, Files
<1>4. Left(disk[ask[r].dir]["index"], r) \in FileType
  BY <1>3 DEF FileType, Left
<1>5. /\ ask' = [ask EXCEPT ![r] = NoAsk]
      /\ disk' = [disk EXCEPT ![ask[r].dir]["index"] = Left(disk[ask[r].dir]["index"], r)]
      /\ UNCHANGED <<linked, newest, source, buildVars>>
  BY DEF KillReader
<1>6. left' \in [{"builds", "asks", "edits", "kills", "together"} -> Nat]
  BY DEF KillReader, IInv, TypeOK
<1> QED
  BY <1>1, <1>2, <1>4, <1>5, <1>6, WriteKeeps

-----------------------------------------------------------------------------
LEMMA InitHolds == ASSUME Init PROVE IInv
<1>1. /\ Initial \in Graphs /\ Default \in Directories
      /\ Budgets \subseteq [{"builds", "asks", "edits", "kills", "together"} -> Nat]
  BY StoreAssumption
<1>2. \A t \in Contents : Untouched(t) \in FileType
  BY DEF Untouched, FileType
<1>3. EmptyDirectory \in [Files -> FileType]
  BY <1>2 DEF EmptyDirectory, Contents
<1>4. \A g \in Graphs : /\ LegacyDirectory(g) \in [Files -> FileType]
                       /\ BuiltDirectory(g) \in [Files -> FileType]
  BY <1>2, <1>3 DEF LegacyDirectory, BuiltDirectory, Contents
<1>5. disk \in [Directories -> [Files -> FileType]] /\ settled \in Graphs \cup {None}
  BY <1>3, <1>4 DEF Init
<1>6. Idle \in WorkType /\ WorkedBy(Idle)
  BY DEF Idle, WorkType, WorkedBy
<1>7. NoAsk \in AskType /\ HeldBy(NoAsk)
  BY DEF NoAsk, AskType, HeldBy, PastGraph, BeforeGraph, Touching
<1>8. work \in [Builders -> WorkType] /\ \A b \in Builders : work[b] = Idle
  BY <1>6 DEF Init
<1>9. ask \in [Readers -> AskType] /\ \A r \in Readers : ask[r] = NoAsk
  BY <1>7 DEF Init
<1>10. TypeOK
  BY <1>1, <1>5, <1>8, <1>9 DEF Init, TypeOK
<1> QED
  BY <1>6, <1>7, <1>8, <1>9, <1>10 DEF IInv, Held, Worked

LEMMA NextKeeps == ASSUME IInv, [Next]_vars PROVE IInv'
<1>1. CASE Edit
  BY <1>1, EditKeeps
<1>2. CASE \E b \in Builders : \E p \in Programs[b] : StartBuild(b, p)
  BY <1>2, StartBuildKeeps
<1>3. CASE \E b \in Builders : Build(b)
  BY <1>3, OpenFileKeeps, CloseFileKeeps, RemoveAliasKeeps, PlaceAliasKeeps, EndLegKeeps
  DEF Build
<1>4. CASE \E b \in Builders : KillBuild(b)
  BY <1>4, KillBuildKeeps
<1>5. CASE \E r \in Readers : \E q \in Questions[r] : StartAsk(r, q)
  BY <1>5, StartAskKeeps
<1>6. CASE \E r \in Readers : Answer(r)
  BY <1>6, FindKeeps, ReadMetadataKeeps, ReadIndexKeeps, TakeCurrentKeeps, LoadGraphKeeps,
     LoadOrCreateKeeps, OpenIndexKeeps, CloseIndexKeeps DEF Answer
<1>7. CASE \E r \in Readers : KillReader(r)
  BY <1>7, KillReaderKeeps
<1>8. CASE UNCHANGED vars
  BY <1>8 DEF vars, buildVars, IInv, TypeOK, Held, HeldBy, PastGraph, BeforeGraph, Worked,
              WorkedBy
<1> QED
  BY <1>1, <1>2, <1>3, <1>4, <1>5, <1>6, <1>7, <1>8 DEF Next

LEMMA SpecInv == Spec => []IInv
<1>1. Init => IInv
  BY InitHolds
<1>2. IInv /\ [Next]_vars => IInv'
  BY NextKeeps
<1> QED
  BY <1>1, <1>2, PTL DEF Spec

\* Whatever is killed, crossed or torn, no command takes a text that does not parse,
\* or none, for its graph, and the files stay files.
THEOREM TypesHold == Spec => []TypeOK
<1>1. IInv => TypeOK
  BY DEF IInv
<1> QED
  BY <1>1, SpecInv, PTL

\* A command that loaded a graph answers with the index of that very graph, for any
\* number of builds and readers that write the same index.json in the meantime.
THEOREM GraphAndIndexBelong == Spec => []IndexIsOfItsGraph
<1>1. IInv => IndexIsOfItsGraph
  BY DEF IInv, Held, HeldBy, IndexIsOfItsGraph, Answered
<1> QED
  BY <1>1, SpecInv, PTL

-----------------------------------------------------------------------------
(***************************************************************************)
(* What the directories hold while builds and readers write them.          *)
(***************************************************************************)
Begun(w) == w.done \cup w.open # {}

\* A build writes its files in the order of the code, and once it opened a graph the
\* directory has one.
OrderedBy(b) ==
  LET w == work[b] IN
  /\ w.writing => w.legs # <<>>
  /\ Begun(w) => w.writing
  /\ w.done \cap w.open = {}
  /\ "alias" \in w.done \cup w.open => "graph" \in w.done
  /\ "graph" \in w.done \cup w.open => Text(Dir(b), "graph") # Absent
Ordered == \A b \in Builders : OrderedBy(b)

\* If any directory has a graph, so has the one modified last.
NewestHolds == Holding # {} => newest \in Holding

\* Who has a file open is at the step that has it open.
WriterOf(p, d, f) ==
  \/ p \in Builders /\ f \in work[p].open /\ f # "alias" /\ Dir(p) = d
  \/ p \in Readers /\ f = "index" /\ ask[p].at = "fill" /\ ask[p].dir = d
AttendedAt(d, f) ==
  /\ \A p \in disk[d][f].writers : WriterOf(p, d, f)
  /\ disk[d][f].mixed => disk[d][f].writers # {}
Attended == \A d \in Directories : \A f \in Files : AttendedAt(d, f)

\* What a build that runs alone has done so far is there.
Written(b) ==
  LET w == work[b] IN
  /\ "graph" \in w.done \cup w.open => newest = Dir(b)
  /\ \A f \in w.done \ {"index"} : Text(Dir(b), f) = w.graph
Uncrossed ==
  ~crossed =>
    /\ \A b, c \in Writing : b = c
    /\ \A d \in Directories : \A f \in {"graph", "metadata"} : ~disk[d][f].mixed
    /\ \A b \in Writing : Written(b)

Agreed ==
  settled # None =>
    /\ Writing = {} /\ Text(newest, "alias") = settled
    /\ {Text(newest, "graph"), Text(newest, "metadata")} \subseteq {settled, Absent}

\* A command may answer from every graph that it could still come upon: in the
\* directory it looked into, in the one it would find now, and in those that builds
\* are writing.
Looked(a) == {newest} \cup {d \in Directories : a.at \in Touching /\ a.dir = d}
Underway == {d \in Directories : \E b \in Running : Begun(work[b]) /\ d = Dir(b)}
Covered(d, may) == Graphs \cap {Text(d, "graph"), Text(d, "metadata")} \subseteq may
AliasCovered(d, may) ==
  Text(d, "graph") = Absent => Graphs \cap {Text(d, "alias")} \subseteq may
FreshIn(a) ==
  /\ a.may = Graphs \/ Holding # {}
  /\ \A b \in Writing : work[b].graph \in a.may
  /\ \A d \in Looked(a) \cup Underway : Covered(d, a.may)
  /\ \A d \in Looked(a) : AliasCovered(d, a.may)
  /\ Graphs \cap {a.metadata} \subseteq a.may
  /\ PastGraph(a) => a.graph \in a.may
  /\ BeforeGraph(a) => a.what # "query"
  /\ a.calm => /\ settled # None /\ settled \in a.may
               /\ a.at \in Touching => a.dir = newest

\* A command that runs alone holds the index that is there.
AloneIn(a) ==
  a.alone /\ a.calm =>
    /\ a.at = "find" /\ a.next = "current" => a.index = None
    /\ a.at = "current" /\ a.index # None => disk[a.dir]["index"].text = a.index
    /\ a.at = "fill" => ~disk[a.dir]["index"].mixed

Told(a) ==
  /\ a.at \notin Ended => FreshIn(a) /\ AloneIn(a)
  /\ a.at = "answered" => (IF a.what = "query" THEN a.graph ELSE a.index) \in a.may
AllTold == \A r \in Readers : Told(ask[r])
Solitary == \A r \in Asking : ask[r].alone => Asking = {r}

DirectoryInv ==
  /\ Ordered /\ NewestHolds /\ Attended /\ Uncrossed /\ Agreed /\ AllTold /\ Solitary

-----------------------------------------------------------------------------
(* What a step does to the texts. *)

\* The names of files are told apart, and only the alias may be another's.
LEMMA InodeOf ==
  ASSUME NEW d \in Directories, NEW k \in Files
  PROVE  /\ Inode(d, k) \in Files
         /\ k # "alias" => Inode(d, k) = k
         /\ Inode(d, k) # k => d \in linked /\ k = "alias" /\ Inode(d, k) = "graph"
  BY DEF Inode, Files

LEMMA OpenTexts ==
  ASSUME IInv, NEW b \in Builders, NEW f \in Files, OpenFile(b, f),
         NEW d \in Directories, NEW k \in Files
  PROVE  Text(d, k)' = IF d = Dir(b) /\ Inode(d, k) = f THEN Torn ELSE Text(d, k)
<1>1. work[b].legs # <<>>
  BY DEF OpenFile, Turn
<1>2. Dir(b) \in Directories
  BY <1>1, LegIsTyped DEF IInv
<1>3. Inode(d, k)' = Inode(d, k) /\ Inode(d, k) \in Files
  BY InodeOf DEF OpenFile, Inode
<1>4. disk \in [Directories -> [Files -> FileType]]
  BY DEF IInv, TypeOK
<1>5. disk' = [disk EXCEPT ![Dir(b)][f] = Opened(@, b)]
  BY DEF OpenFile
<1>6. disk'[d][Inode(d, k)] =
        IF d = Dir(b) /\ Inode(d, k) = f THEN Opened(disk[d][f], b) ELSE disk[d][Inode(d, k)]
  BY <1>2, <1>3, <1>4, <1>5
<1> QED BY <1>3, <1>6 DEF Text, Opened

\* A file that nobody else opened meanwhile has the text of its last writer.
LEMMA CloseTexts ==
  ASSUME IInv, NEW b \in Builders, NEW f \in Files, CloseFile(b, f)
  PROVE  \E t \in {work[b].graph, Torn} :
           /\ ~disk[Dir(b)][f].mixed => t = work[b].graph
           /\ \A d \in Directories : \A k \in Files :
                Text(d, k)' = IF d = Dir(b) /\ Inode(d, k) = f THEN t ELSE Text(d, k)
<1>1. f \in work[b].open
  BY DEF CloseFile
<1>2. Dir(b) \in Directories
  BY <1>1, OpenIsTyped
<1>4. disk \in [Directories -> [Files -> FileType]]
  BY DEF IInv, TypeOK
<1> DEFINE file == disk[Dir(b)][f]
<1>5. PICK new \in Closed(file, b, work[b].graph) : disk' = [disk EXCEPT ![Dir(b)][f] = new]
  BY DEF CloseFile
<1>6. PICK t \in {work[b].graph} \cup {u \in {Torn} : file.mixed} :
        new = [Left(file, b) EXCEPT !.text = t]
  BY <1>5 DEF Closed
<1>7. file \in FileType
  BY <1>2, <1>4
<1>8. new.text = t
  BY <1>6, <1>7 DEF Left, FileType
<1>9. t \in {work[b].graph, Torn} /\ (~file.mixed => t = work[b].graph)
  BY <1>6
<1>10. ASSUME NEW d \in Directories, NEW k \in Files
       PROVE  Text(d, k)' = IF d = Dir(b) /\ Inode(d, k) = f THEN t ELSE Text(d, k)
  <2>1. Inode(d, k)' = Inode(d, k) /\ Inode(d, k) \in Files
    BY InodeOf DEF CloseFile, Inode
  <2>2. disk'[d][Inode(d, k)] =
          IF d = Dir(b) /\ Inode(d, k) = f THEN new ELSE disk[d][Inode(d, k)]
    BY <1>2, <1>4, <1>5, <2>1
  <2> QED BY <1>8, <2>1, <2>2 DEF Text
<1> QED BY <1>9, <1>10

LEMMA RemoveTexts ==
  ASSUME IInv, NEW b \in Builders, RemoveAlias(b), NEW d \in Directories, NEW k \in Files
  PROVE  Text(d, k)' = IF d = Dir(b) /\ k = "alias" THEN Absent ELSE Text(d, k)
<1>1. work[b].legs # <<>>
  BY DEF RemoveAlias, Turn
<1>2. Dir(b) \in Directories
  BY <1>1, LegIsTyped DEF IInv
<1>3. disk \in [Directories -> [Files -> FileType]] /\ "alias" \in Files /\ "graph" \in Files
  BY DEF IInv, TypeOK, Files
<1>4. disk' = [disk EXCEPT ![Dir(b)]["alias"].text = Absent] /\ linked' = linked \ {Dir(b)}
  BY DEF RemoveAlias
<1>5. disk'[d] = IF d = Dir(b) THEN [disk[d] EXCEPT !["alias"].text = Absent] ELSE disk[d]
  BY <1>2, <1>3, <1>4
<1>6. \A j \in Files : j # "alias" => disk'[d][j] = disk[d][j]
  BY <1>3, <1>5
<1>7. d # Dir(b) => Inode(d, k)' = Inode(d, k)
  BY <1>4 DEF Inode
<1>8. d = Dir(b) => Inode(d, k)' = k
  BY <1>4 DEF Inode
<1>9. k # "alias" => Inode(d, k) = k
  BY DEF Inode
<1>10. d = Dir(b) => disk'[d]["alias"].text = Absent
  <2>1. disk[d]["alias"] \in FileType
    BY <1>3
  <2> QED BY <1>3, <1>5, <2>1 DEF FileType
<1> QED BY <1>5, <1>6, <1>7, <1>8, <1>9, <1>10 DEF Text

\* An alias that is placed is the graph beside it, or a copy of it.
LEMMA PlaceTexts ==
  ASSUME IInv, NEW b \in Builders, PlaceAlias(b), NEW d0 \in Directories, d0 = Dir(b)
  PROVE  /\ \A d \in Directories : \A k \in Files :
              (d # d0 \/ k # "alias") => Text(d, k)' = Text(d, k)
         /\ Text(d0, "alias")' \in Read(d0, "graph")
<1>1. disk \in [Directories -> [Files -> FileType]] /\ "alias" \in Files /\ "graph" \in Files
  BY DEF IInv, TypeOK, Files
<1>2. Text(d0, "graph") \in Read(d0, "graph")
  BY DEF Read
<1>3. CASE d0 \in Linking
  <2>1. linked' = linked \cup {d0} /\ disk' = disk
    BY <1>3 DEF PlaceAlias
  <2>2. \A d : \A k \in Files : (d # d0 \/ k # "alias") => Inode(d, k)' = Inode(d, k)
    BY <2>1 DEF Inode
  <2>3. Inode(d0, "alias")' = "graph" /\ Inode(d0, "graph") = "graph"
    BY <2>1 DEF Inode
  <2>4. Text(d0, "alias")' = Text(d0, "graph")
    BY <2>1, <2>3 DEF Text
  <2>5. \A d \in Directories : \A k \in Files :
          (d # d0 \/ k # "alias") => Text(d, k)' = Text(d, k)
    BY <2>1, <2>2 DEF Text
  <2> QED BY <1>2, <2>4, <2>5
<1>4. CASE d0 \notin Linking
  <2>1. linked' = linked
    BY <1>4 DEF PlaceAlias
  <2>2. PICK t \in Read(d0, "graph") : disk' = [disk EXCEPT ![d0]["alias"].text = t]
    BY <1>4 DEF PlaceAlias
  <2>3. \A d \in Directories : \A k \in Files :
          Inode(d, k)' = Inode(d, k) /\ Inode(d, k) \in Files
    BY <2>1, InodeOf DEF Inode
  <2>4. \A d \in Directories : \A j \in Files :
          (d # d0 \/ j # "alias") => disk'[d][j] = disk[d][j]
    BY <1>1, <2>2
  <2>5. disk'[d0]["alias"].text = t
    <3>1. disk[d0]["alias"] \in FileType
      BY <1>1
    <3> QED BY <1>1, <2>2, <3>1 DEF FileType
  <2>6. \A d \in Directories : \A k \in Files :
          (d # d0 \/ k # "alias") => Text(d, k)' = Text(d, k)
    <3> SUFFICES ASSUME NEW d \in Directories, NEW k \in Files, d # d0 \/ k # "alias"
                 PROVE  Text(d, k)' = Text(d, k)
      OBVIOUS
    <3>1. d # d0 \/ Inode(d, k) # "alias"
      BY DEF Inode
    <3> QED BY <2>3, <2>4, <3>1 DEF Text
  <2>7. CASE d0 \in linked
    <3>1. Inode(d0, "alias") = "graph"
      BY <2>7 DEF Inode
    <3>2. Text(d0, "alias")' = Text(d0, "graph")
      BY <1>1, <2>3, <2>4, <3>1 DEF Text, Inode
    <3> QED BY <1>2, <2>6, <3>2
  <2>8. CASE d0 \notin linked
    <3>1. Inode(d0, "alias") = "alias"
      BY <2>8 DEF Inode
    <3>2. Text(d0, "alias")' = t
      BY <1>1, <2>3, <2>5, <3>1 DEF Text
    <3> QED BY <2>6, <3>2
  <2> QED BY <2>7, <2>8
<1> QED BY <1>3, <1>4

\* A build that is killed leaves the texts, torn or not.
LEMMA KillTexts ==
  ASSUME IInv, NEW b \in Builders, KillBuild(b), NEW d \in Directories, NEW k \in Files
  PROVE  Text(d, k)' = Text(d, k)
<1>1. disk \in [Directories -> [Files -> FileType]]
  BY DEF IInv, TypeOK
<1>2. PICK e : e = Dir(b)
  OBVIOUS
<1>3. Inode(d, k)' = Inode(d, k) /\ Inode(d, k) \in Files
  BY InodeOf DEF KillBuild, Inode
<1>4. disk' = [disk EXCEPT ![e] =
                [f \in Files |-> IF f \in work[b].open THEN Left(@[f], b) ELSE @[f]]]
  BY <1>2 DEF KillBuild
<1>5. \A f \in Files : disk'[d][f] = disk[d][f] \/ disk'[d][f] = Left(disk[d][f], b)
  BY <1>1, <1>4
<1>6. \A f \in Files : disk[d][f] \in FileType
  BY <1>1
<1>7. \A f \in Files : Left(disk[d][f], b).text = disk[d][f].text
  BY <1>6 DEF Left, FileType
<1>8. \A f \in Files : disk'[d][f].text = disk[d][f].text
  BY <1>5, <1>7
<1> QED BY <1>3, <1>8 DEF Text

\* A reader writes index.json alone.
LEMMA IndexTexts ==
  ASSUME IInv, NEW e \in Directories, NEW file,
         disk' = [disk EXCEPT ![e]["index"] = file], UNCHANGED linked
  PROVE  \A d \in Directories : \A k \in Files \ {"index"} :
           /\ Text(d, k)' = Text(d, k)
           /\ disk'[d][k] = disk[d][k]
<1> SUFFICES ASSUME NEW d \in Directories, NEW k \in Files \ {"index"}
             PROVE  Text(d, k)' = Text(d, k) /\ disk'[d][k] = disk[d][k]
  OBVIOUS
<1>1. disk \in [Directories -> [Files -> FileType]]
  BY DEF IInv, TypeOK
<1>2. Inode(d, k)' = Inode(d, k) /\ Inode(d, k) \in Files \ {"index"}
  BY DEF Inode, Files
<1>3. \A j \in Files \ {"index"} : disk'[d][j] = disk[d][j]
  BY <1>1
<1> QED BY <1>2, <1>3 DEF Text

-----------------------------------------------------------------------------
(* Commands that answer. *)

\* A build under way is writing, and names a directory.
LEMMA BegunIsWriting ==
  ASSUME IInv, Ordered, NEW b \in Builders, Begun(work[b])
  PROVE  b \in Writing /\ b \in Running /\ work[b].legs # <<>> /\ Dir(b) \in Directories
<1>1. work[b].writing /\ work[b].legs # <<>>
  BY DEF Ordered, OrderedBy
<1> QED BY <1>1, LegIsTyped DEF IInv, Writing, Running

\* What happens to index.json alone concerns only who reads or writes it.
LEMMA IndexAside ==
  ASSUME IInv, Ordered, NewestHolds, Uncrossed, Agreed,
         UNCHANGED <<linked, newest, work, settled, crossed>>,
         \A d \in Directories : \A k \in Files \ {"index"} : disk'[d][k] = disk[d][k]
  PROVE  /\ Ordered' /\ NewestHolds' /\ Uncrossed' /\ Agreed'
         /\ \A a : FreshIn(a)' <=> FreshIn(a)
<1>1. \A d \in Directories : \A k \in Files \ {"index"} : Text(d, k)' = Text(d, k)
  BY DEF Text, Inode, Files
<1>2. \A d \in Directories : /\ Text(d, "graph")' = Text(d, "graph")
                             /\ Text(d, "alias")' = Text(d, "alias")
                             /\ Text(d, "metadata")' = Text(d, "metadata")
  BY <1>1 DEF Files
<1>3. newest \in Directories
  BY DEF IInv, TypeOK
<1>4. Holding' = Holding
  BY <1>2 DEF Holding, HasGraph
<1>5. Writing' = Writing /\ Running' = Running
  BY DEF Writing, Running
<1>6. \A b : Dir(b)' = Dir(b)
  BY DEF Dir, Leg
<1>7. Underway' = Underway
  BY <1>5, <1>6 DEF Underway
<1>8. Ordered'
  <2> SUFFICES ASSUME NEW b \in Builders PROVE OrderedBy(b)'
    BY DEF Ordered
  <2>1. OrderedBy(b)
    BY DEF Ordered
  <2>2. "graph" \in work[b].done \cup work[b].open => Dir(b) \in Directories
    BY BegunIsWriting DEF Begun
  <2>3. PICK d : d = Dir(b) /\ d = Dir(b)'
    BY <1>6
  <2>4. d \in Directories => Text(d, "graph")' = Text(d, "graph")
    BY <1>2
  <2>5. Text(Dir(b), "graph")' = Text(d, "graph")'
    BY <2>3
  <2> QED BY <2>1, <2>2, <2>3, <2>4, <2>5 DEF OrderedBy
<1>9. NewestHolds'
  BY <1>4 DEF NewestHolds
<1>10. Uncrossed'
  <2> SUFFICES ASSUME ~crossed PROVE Uncrossed'
    BY DEF Uncrossed
  <2>1. \A d \in Directories : \A f \in {"graph", "metadata"} : ~disk'[d][f].mixed
    BY DEF Uncrossed, Files
  <2>2. ASSUME NEW b \in Writing PROVE Written(b)'
    <3>1. Written(b)
      BY DEF Uncrossed
    <3>2. b \in Builders /\ work[b].legs # <<>> /\ work[b] \in WorkType
      BY DEF Writing, Running, IInv, TypeOK
    <3>3. Dir(b) \in Directories
      BY <3>2, LegIsTyped DEF IInv
    <3>4. PICK d \in Directories : d = Dir(b) /\ d = Dir(b)'
      BY <1>6, <3>3
    <3>5. \A f \in work[b].done \ {"index"} : Text(d, f)' = Text(d, f)
      BY <1>1, <3>2 DEF WorkType
    <3>6. \A f : Text(Dir(b), f)' = Text(d, f)'
      BY <3>4
    <3> QED BY <3>1, <3>4, <3>5, <3>6 DEF Written
  <2> QED BY <1>5, <2>1, <2>2 DEF Uncrossed
<1>11. Agreed'
  <2>1. PICK d \in Directories : d = newest /\ d = newest'
    BY <1>3
  <2>2. \A k : Text(newest, k)' = Text(d, k)'
    BY <2>1
  <2> QED BY <1>2, <1>5, <2>1, <2>2 DEF Agreed
<1>12. \A a : FreshIn(a)' <=> FreshIn(a)
  <2> SUFFICES ASSUME NEW a PROVE FreshIn(a)' <=> FreshIn(a)
    OBVIOUS
  <2>1. Looked(a)' = Looked(a) /\ Looked(a) \subseteq Directories
    BY <1>3 DEF Looked
  <2>2. \A may : \A d \in Directories :
          /\ Covered(d, may)' <=> Covered(d, may)
          /\ AliasCovered(d, may)' <=> AliasCovered(d, may)
    BY <1>2 DEF Covered, AliasCovered
  <2>3. Underway \subseteq Directories
    BY DEF Underway
  <2> QED BY <1>4, <1>5, <1>7, <2>1, <2>2, <2>3 DEF FreshIn
<1> QED BY <1>8, <1>9, <1>10, <1>11, <1>12

\* A command under way that took a step is told the truth if its record is.
LEMMA ReaderKeeps ==
  ASSUME IInv, DirectoryInv, NEW r \in Asking, NEW fields \in AskType,
         ask' = [ask EXCEPT ![r] = fields],
         UNCHANGED <<linked, newest, work, settled, crossed>>,
         \A d \in Directories : \A k \in Files \ {"index"} : disk'[d][k] = disk[d][k],
         Attended',
         fields.alone => ask[r].alone,
         fields.at \notin Ended => FreshIn(fields) /\ AloneIn(fields)',
         fields.at = "answered" =>
           (IF fields.what = "query" THEN fields.graph ELSE fields.index) \in fields.may
  PROVE  DirectoryInv'
<1>1. /\ Ordered' /\ NewestHolds' /\ Uncrossed' /\ Agreed'
      /\ \A a : FreshIn(a)' <=> FreshIn(a)
  BY IndexAside DEF DirectoryInv
<1>2. r \in Readers /\ \A s \in Readers : ask'[s] = IF s = r THEN fields ELSE ask[s]
  BY DEF IInv, TypeOK, Asking
<1>3. Asking' = IF fields.at \in Ended THEN Asking \ {r} ELSE Asking
  BY <1>2 DEF Asking
<1>4. AllTold'
  <2> SUFFICES ASSUME NEW s \in Readers PROVE Told(ask[s])'
    BY DEF AllTold
  <2>1. PICK a : a = ask'[s]
    OBVIOUS
  <2>2. Told(a)'
    <3>1. CASE s = r
      BY <1>1, <1>2, <2>1, <3>1 DEF Told
    <3>2. CASE s # r
      <4>1. a = ask[s] /\ Told(ask[s])
        BY <1>2, <2>1, <3>2 DEF DirectoryInv, AllTold
      <4>2. a.at \notin Ended => ~a.alone
        BY <3>2, <4>1 DEF DirectoryInv, Solitary, Asking
      <4> QED BY <1>1, <4>1, <4>2 DEF Told, AloneIn
    <3> QED BY <3>1, <3>2
  <2> QED BY <2>1, <2>2
<1>5. Solitary'
  BY <1>2, <1>3 DEF DirectoryInv, Solitary
<1> QED BY <1>1, <1>4, <1>5 DEF DirectoryInv

\* Such a step that touches no file.
LEMMA StepTold ==
  ASSUME IInv, DirectoryInv, NEW r \in Asking, NEW fields \in AskType, Step(r, fields),
         ask[r].at # "fill", fields.alone => ask[r].alone, Told(fields)
  PROVE  DirectoryInv'
<1>1. /\ ask' = [ask EXCEPT ![r] = fields]
      /\ UNCHANGED <<disk, linked, newest, work, settled, crossed>>
  BY DEF Step, buildVars
<1>2. r \in Readers /\ \A s \in Readers : ask'[s] = IF s = r THEN fields ELSE ask[s]
  BY <1>1 DEF IInv, TypeOK, Asking
<1>3. \A p, d, f : WriterOf(p, d, f) => WriterOf(p, d, f)'
  BY <1>1, <1>2 DEF WriterOf, Dir, Leg
<1>4. Attended'
  BY <1>1, <1>3 DEF DirectoryInv, Attended, AttendedAt
<1>5. \A a : AloneIn(a)' <=> AloneIn(a)
  BY <1>1 DEF AloneIn
<1> QED BY <1>1, <1>4, <1>5, ReaderKeeps DEF Told

\* The directory that is found is the one modified last, if there is any to find.
LEMMA NewestFound ==
  ASSUME IInv, DirectoryInv
  PROVE  /\ Holding # {} => NewestDirectory = newest
         /\ settled # None => newest \in Holding
<1>1. Holding # {} => NewestDirectory = newest
  BY DEF NewestDirectory, DirectoryInv, NewestHolds
<1>2. settled # None => newest \in Holding
  BY StoreAssumption DEF DirectoryInv, Agreed, Holding, HasGraph, IInv, TypeOK
<1> QED BY <1>1, <1>2

\* After a build that ran alone nobody has a file open but readers, index.json.
LEMMA SettledFiles ==
  ASSUME IInv, DirectoryInv, settled # None, NEW d \in Directories, NEW f \in Files,
         NEW p \in disk[d][f].writers
  PROVE  p \in Readers /\ f = "index" /\ ask[p].at = "fill" /\ ask[p].dir = d
<1>1. WriterOf(p, d, f)
  BY DEF DirectoryInv, Attended, AttendedAt
<1>2. ASSUME p \in Builders, f \in work[p].open PROVE FALSE
  <2>1. Begun(work[p])
    BY <1>2 DEF Begun
  <2>2. p \in Writing
    BY <1>2, <2>1, BegunIsWriting DEF DirectoryInv
  <2> QED BY <2>2 DEF DirectoryInv, Agreed
<1> QED BY <1>1, <1>2 DEF WriterOf

LEMMA AskingHolds ==
  ASSUME IInv, DirectoryInv, NEW r \in Readers, ask[r].at \notin Ended
  PROVE  r \in Asking /\ ask[r] \in AskType /\ HeldBy(ask[r]) /\ FreshIn(ask[r]) /\ AloneIn(ask[r])
  BY DEF IInv, TypeOK, Held, DirectoryInv, AllTold, Told, Asking

LEMMA FindTold == ASSUME IInv, DirectoryInv, NEW r \in Readers, Find(r) PROVE DirectoryInv'
<1> DEFINE a == ask[r]
           fields == [ask[r] EXCEPT !.at = ask[r].next, !.dir = NewestDirectory]
<1>1. a.at = "find" /\ Step(r, fields)
  BY DEF Find
<1>2. r \in Asking /\ a \in AskType /\ HeldBy(a) /\ FreshIn(a) /\ AloneIn(a)
  BY <1>1, AskingHolds DEF Ended
<1>3. NewestDirectory \in Directories /\ newest \in Directories
  BY NewestIsDirectory DEF IInv, TypeOK
<1>4. a.next \in {"current", "graph", "index"}
  BY <1>1, <1>2 DEF HeldBy
<1>5. fields \in AskType
  BY <1>2, <1>3, <1>4 DEF AskType
<1>6. /\ fields.at = a.next /\ fields.dir = NewestDirectory /\ fields.next = a.next
      /\ fields.metadata = a.metadata /\ fields.index = a.index /\ fields.graph = a.graph
      /\ fields.may = a.may /\ fields.calm = a.calm /\ fields.alone = a.alone
      /\ fields.what = a.what
  BY <1>2 DEF AskType
<1> HIDE DEF fields, a
<1>7. FreshIn(fields)
  <2>1. Looked(a) = {newest} /\ Looked(fields) \subseteq {newest, NewestDirectory}
    BY <1>1, <1>6 DEF Looked, Touching
  <2>2. \A d : Covered(d, Graphs) /\ AliasCovered(d, Graphs)
    BY DEF Covered, AliasCovered
  <2>3. a.may = Graphs \/ Looked(fields) \subseteq {newest}
    BY <1>2, <2>1, NewestFound DEF FreshIn
  <2>4. \A d \in Looked(fields) : Covered(d, a.may) /\ AliasCovered(d, a.may)
    BY <1>2, <2>1, <2>2, <2>3 DEF FreshIn
  <2>5. PastGraph(fields) => PastGraph(a)
    BY <1>1, <1>4, <1>6 DEF PastGraph
  <2>6. BeforeGraph(fields) => BeforeGraph(a)
    BY <1>1, <1>4, <1>6 DEF BeforeGraph
  <2>7. a.calm => NewestDirectory = newest
    BY <1>2, NewestFound DEF FreshIn
  <2> QED BY <1>2, <1>6, <2>4, <2>5, <2>6, <2>7 DEF FreshIn
<1>8. AloneIn(fields)
  BY <1>1, <1>2, <1>4, <1>6 DEF AloneIn
<1>9. Told(fields)
  BY <1>4, <1>6, <1>7, <1>8 DEF Told
<1> QED BY <1>1, <1>2, <1>5, <1>6, <1>9, StepTold DEF a

LEMMA ReadMetadataTold ==
  ASSUME IInv, DirectoryInv, NEW r \in Readers, ReadMetadata(r) PROVE DirectoryInv'
<1> DEFINE a == ask[r]
<1>1. a.at = "current"
  BY DEF ReadMetadata
<1>2. r \in Asking /\ a \in AskType /\ HeldBy(a) /\ FreshIn(a) /\ AloneIn(a)
  BY <1>1, AskingHolds DEF Ended
<1>3. PICK t \in Read(a.dir, "metadata") : Step(r, [a EXCEPT !.metadata = t])
  BY DEF ReadMetadata
<1>4. a.dir \in Directories
  BY <1>1, <1>2 DEF HeldBy, Touching
<1>5. t \in Contents
  BY <1>3, <1>4, ReadType DEF Files, IInv
<1> DEFINE fields == [a EXCEPT !.metadata = t]
<1>6. fields \in AskType
  BY <1>2, <1>5 DEF AskType
<1>7. /\ fields.at = a.at /\ fields.dir = a.dir /\ fields.next = a.next
      /\ fields.metadata = t /\ fields.index = a.index /\ fields.graph = a.graph
      /\ fields.may = a.may /\ fields.calm = a.calm /\ fields.alone = a.alone
      /\ fields.what = a.what
  BY <1>2 DEF AskType
<1>8. Step(r, fields)
  BY <1>3
<1> HIDE DEF fields
<1>9. Graphs \cap {t} \subseteq a.may
  <2>1. t = Text(a.dir, "metadata") \/ t \notin Graphs
    BY <1>3, StoreAssumption DEF Read
  <2>2. a.dir \in Looked(a)
    BY <1>1, <1>4 DEF Looked, Touching
  <2>3. Covered(a.dir, a.may)
    BY <1>2, <2>2 DEF FreshIn
  <2> QED BY <2>1, <2>3 DEF Covered
<1>10. FreshIn(fields)
  <2>1. Looked(fields) = Looked(a) /\ (PastGraph(fields) <=> PastGraph(a))
        /\ (BeforeGraph(fields) <=> BeforeGraph(a))
    BY <1>7 DEF Looked, PastGraph, BeforeGraph
  <2> HIDE DEF a
  <2> QED BY <1>2, <1>7, <1>9, <2>1 DEF FreshIn
<1>11. Told(fields)
  BY <1>1, <1>2, <1>7, <1>10 DEF Told, AloneIn, Ended
<1> QED BY <1>1, <1>2, <1>6, <1>7, <1>8, <1>11, StepTold

\* Nobody writes the index that a command which runs alone reads.
LEMMA LoneIndex ==
  ASSUME IInv, DirectoryInv, NEW r \in Asking, ask[r].alone, ask[r].calm,
         ask[r].at # "fill", NEW d \in Directories
  PROVE  /\ disk[d]["index"].writers = {} /\ ~disk[d]["index"].mixed
         /\ Read(d, "index") = {disk[d]["index"].text}
<1>1. settled # None /\ Asking = {r}
  BY DEF DirectoryInv, AllTold, Told, FreshIn, Solitary, Asking
<1>2. "index" \in Files
  BY DEF Files
<1>3. ASSUME NEW p \in disk[d]["index"].writers PROVE FALSE
  <2>1. p \in Readers /\ ask[p].at = "fill"
    BY <1>1, <1>2, SettledFiles
  <2> QED BY <1>1, <2>1 DEF Asking, Ended
<1>4. AttendedAt(d, "index")
  BY <1>2 DEF DirectoryInv, Attended
<1>5. disk[d]["index"].mixed \in BOOLEAN
  BY <1>2 DEF IInv, TypeOK, FileType
<1> QED BY <1>3, <1>4, <1>5 DEF AttendedAt, Read, Text, Inode

LEMMA ReadIndexTold ==
  ASSUME IInv, DirectoryInv, NEW r \in Readers, ReadIndex(r) PROVE DirectoryInv'
<1> DEFINE a == ask[r]
<1>1. a.at = "current"
  BY DEF ReadIndex
<1>2. r \in Asking /\ a \in AskType /\ HeldBy(a) /\ FreshIn(a) /\ AloneIn(a)
  BY <1>1, AskingHolds DEF Ended
<1>3. PICK t \in Read(a.dir, "index") : Step(r, [a EXCEPT !.index = t])
  BY DEF ReadIndex
<1>4. a.dir \in Directories
  BY <1>1, <1>2 DEF HeldBy, Touching
<1>5. t \in Contents
  BY <1>3, <1>4, ReadType DEF Files, IInv
<1> DEFINE fields == [a EXCEPT !.index = t]
<1>6. fields \in AskType
  BY <1>2, <1>5 DEF AskType
<1>7. /\ fields.at = a.at /\ fields.dir = a.dir /\ fields.next = a.next
      /\ fields.metadata = a.metadata /\ fields.index = t /\ fields.graph = a.graph
      /\ fields.may = a.may /\ fields.calm = a.calm /\ fields.alone = a.alone
      /\ fields.what = a.what
  BY <1>2 DEF AskType
<1>8. Step(r, fields)
  BY <1>3
<1> HIDE DEF fields
<1>9. a.alone /\ a.calm => t = disk[a.dir]["index"].text
  BY <1>1, <1>2, <1>3, <1>4, LoneIndex
<1>10. FreshIn(fields)
  <2>1. Looked(fields) = Looked(a) /\ (PastGraph(fields) <=> PastGraph(a))
        /\ (BeforeGraph(fields) <=> BeforeGraph(a))
    BY <1>7 DEF Looked, PastGraph, BeforeGraph
  <2> HIDE DEF a
  <2> QED BY <1>2, <1>7, <2>1 DEF FreshIn
<1>11. AloneIn(fields)
  BY <1>1, <1>2, <1>7, <1>9 DEF AloneIn
<1>12. Told(fields)
  BY <1>1, <1>2, <1>7, <1>10, <1>11 DEF Told, Ended
<1> QED BY <1>1, <1>2, <1>6, <1>7, <1>8, <1>12, StepTold

\* The record that a command ends with.
LEMMA EndIsTold ==
  ASSUME NEW a \in AskType, (IF a.what = "query" THEN a.graph ELSE a.index) \in a.may
  PROVE  Told(End(a)) /\ ~End(a).alone /\ End(a).at = "answered"
         /\ End(a).index = a.index /\ End(a).what = a.what
  BY DEF AskType, End, Told, Ended

LEMMA TakeCurrentTold ==
  ASSUME IInv, DirectoryInv, NEW r \in Readers, TakeCurrent(r) PROVE DirectoryInv'
<1> DEFINE a == ask[r]
<1>1. a.at = "current"
  BY DEF TakeCurrent
<1>2. r \in Asking /\ a \in AskType /\ HeldBy(a) /\ FreshIn(a) /\ AloneIn(a)
  BY <1>1, AskingHolds DEF Ended
<1>3. a.what # "query" /\ a.graph = None
  BY <1>1, <1>2 DEF FreshIn, HeldBy, BeforeGraph
<1>4. CASE Current(a.metadata, a.index)
  <2>1. a.index \in a.may
    BY <1>2, <1>4 DEF Current, FreshIn
  <2>2. Told(End(a)) /\ ~End(a).alone
    BY <1>2, <1>3, <2>1, EndIsTold
  <2>3. Step(r, End(a))
    BY <1>4 DEF TakeCurrent
  <2>4. End(a) \in AskType
    BY <1>2, <1>3, EndIsTyped
  <2> QED BY <1>1, <1>2, <2>2, <2>3, <2>4, StepTold
<1>5. CASE ~Current(a.metadata, a.index)
  <2> DEFINE fields == [Look(r, "graph") EXCEPT !.metadata = None, !.index = None]
  <2>1. fields \in AskType
    BY <1>2 DEF Look, AskType
  <2>2. /\ fields.at = "find" /\ fields.next = "graph"
        /\ fields.metadata = None /\ fields.index = None /\ fields.graph = a.graph
        /\ fields.may = a.may /\ fields.calm = a.calm /\ fields.alone = a.alone
        /\ fields.what = a.what
    BY <1>2 DEF Look, AskType
  <2>3. Step(r, fields)
    BY <1>5 DEF TakeCurrent
  <2> HIDE DEF fields
  <2>4. FreshIn(fields)
    <3>1. Looked(fields) \subseteq Looked(a) /\ ~PastGraph(fields) /\ ~BeforeGraph(fields)
      BY <2>2 DEF Looked, PastGraph, BeforeGraph, Touching
    <3>2. Graphs \cap {None} = {}
      BY StoreAssumption
    <3> HIDE DEF a
    <3> QED BY <1>2, <2>2, <3>1, <3>2 DEF FreshIn, Touching
  <2>5. Told(fields)
    BY <2>2, <2>4 DEF Told, AloneIn, Ended
  <2> QED BY <1>1, <1>2, <2>1, <2>2, <2>3, <2>5, StepTold
<1> QED BY <1>4, <1>5

\* A command comes upon a graph that it may answer from; after a build that ran
\* alone, upon that of the build.
LEMMA GraphIsCovered ==
  ASSUME IInv, DirectoryInv, NEW r \in Readers, ask[r].at = "graph",
         NEW t \in ReadableGraph(ask[r].dir)
  PROVE  /\ Graphs \cap {t} \subseteq ask[r].may
         /\ ask[r].calm => t \in Graphs
<1> DEFINE a == ask[r]
<1>1. r \in Asking /\ a \in AskType /\ HeldBy(a) /\ FreshIn(a)
  BY AskingHolds DEF Ended
<1>2. PICK d \in Directories : d = a.dir
  BY <1>1 DEF HeldBy, Touching
<1>3. d \in Looked(a)
  BY <1>2 DEF Looked, Touching
<1>4. Covered(d, a.may) /\ AliasCovered(d, a.may)
  BY <1>1, <1>3 DEF FreshIn
<1>5. PICK k \in {"graph", "alias"} :
        /\ t \in Read(d, k)
        /\ k = "alias" <=> Text(d, "graph") = Absent
  BY <1>2 DEF ReadableGraph
<1>6. t = Text(d, k) \/ t = Torn
  BY <1>5 DEF Read
<1>7. Graphs \cap {t} \subseteq a.may
  BY <1>4, <1>5, <1>6, StoreAssumption DEF Covered, AliasCovered
<1>8. ASSUME a.calm PROVE t \in Graphs
  <2>1. settled # None /\ d = newest
    BY <1>1, <1>2, <1>8 DEF FreshIn, Touching
  <2>2. settled \in Graphs /\ Absent \notin Graphs
    BY <2>1, StoreAssumption DEF IInv, TypeOK
  <2>3. Text(d, "alias") = settled /\ Text(d, "graph") \in {settled, Absent}
    BY <2>1 DEF DirectoryInv, Agreed
  <2>4. Text(d, k) = settled
    BY <1>5, <2>3
  <2>5. Inode(d, k) \in Files /\ Inode(d, k) # "index"
    BY <1>5 DEF Inode, Files
  <2>6. disk[d][Inode(d, k)].writers = {}
    BY <2>1, <2>5, SettledFiles
  <2> QED BY <1>5, <2>2, <2>4, <2>6 DEF Read
<1> QED BY <1>7, <1>8

LEMMA LoadGraphTold ==
  ASSUME IInv, DirectoryInv, NEW r \in Readers, LoadGraph(r) PROVE DirectoryInv'
<1> DEFINE a == ask[r]
<1>1. a.at = "graph"
  BY DEF LoadGraph
<1>2. r \in Asking /\ a \in AskType /\ HeldBy(a) /\ FreshIn(a) /\ AloneIn(a)
  BY <1>1, AskingHolds DEF Ended
<1> DEFINE held(t) == [a EXCEPT !.graph = Usable(t),
                         !.may = IF t \in Graphs \/ a.calm THEN @ ELSE @ \cup {source}]
<1>3. PICK t \in ReadableGraph(a.dir) :
        Step(r, IF a.what = "query" THEN End(held(t))
                ELSE [held(t) EXCEPT !.at = "find", !.next = "index"])
  BY DEF LoadGraph
<1>4. Graphs \cap {t} \subseteq a.may /\ (a.calm => t \in Graphs)
  BY <1>1, <1>3, GraphIsCovered
<1>5. Usable(t) \in Graphs /\ source \in Graphs
  BY DEF Usable, IInv, TypeOK
<1> DEFINE may == IF t \in Graphs \/ a.calm THEN a.may ELSE a.may \cup {source}
<1>6. a.may \subseteq may /\ may \subseteq Graphs /\ Usable(t) \in may
  BY <1>2, <1>4, <1>5 DEF AskType, Usable
<1>7. held(t) = [a EXCEPT !.graph = Usable(t), !.may = may]
  BY <1>2 DEF AskType
<1> HIDE DEF may
<1>8. /\ held(t) \in AskType
      /\ held(t).at = a.at /\ held(t).metadata = a.metadata /\ held(t).index = a.index
      /\ held(t).graph = Usable(t) /\ held(t).may = may /\ held(t).calm = a.calm
      /\ held(t).alone = a.alone /\ held(t).what = a.what
  BY <1>2, <1>5, <1>6, <1>7 DEF AskType
<1>9. PICK h \in AskType : h = held(t)
  BY <1>8
<1>10. CASE a.what = "query"
  <2>1. Step(r, End(h))
    BY <1>3, <1>9, <1>10
  <2>2. Told(End(h)) /\ ~End(h).alone
    BY <1>6, <1>8, <1>9, <1>10, EndIsTold
  <2>3. End(h) \in AskType
    BY <1>8, <1>9, <1>10, EndIsTyped
  <2> QED BY <1>1, <1>2, <2>1, <2>2, <2>3, StepTold
<1>11. CASE a.what # "query"
  <2> DEFINE fields == [h EXCEPT !.at = "find", !.next = "index"]
  <2>1. Step(r, fields)
    BY <1>3, <1>9, <1>11
  <2>2. fields \in AskType
    BY <1>9 DEF AskType
  <2>3. /\ fields.at = "find" /\ fields.next = "index"
        /\ fields.metadata = a.metadata /\ fields.graph = Usable(t)
        /\ fields.may = may /\ fields.calm = a.calm /\ fields.alone = a.alone
        /\ fields.what = a.what
    BY <1>8, <1>9 DEF AskType
  <2> HIDE DEF fields
  <2>4. FreshIn(fields)
    <3>1. Looked(fields) \subseteq Looked(a) /\ ~BeforeGraph(fields)
      BY <2>3 DEF Looked, BeforeGraph, Touching
    <3>2. \A d : /\ Covered(d, a.may) => Covered(d, may)
                 /\ AliasCovered(d, a.may) => AliasCovered(d, may)
      BY <1>6 DEF Covered, AliasCovered
    <3>3. a.may = Graphs => may = Graphs
      BY <1>6
    <3> HIDE DEF a
    <3> QED BY <1>2, <1>6, <2>3, <3>1, <3>2, <3>3 DEF FreshIn, Touching
  <2>5. Told(fields)
    BY <2>3, <2>4 DEF Told, AloneIn, Ended
  <2> QED BY <1>1, <1>2, <2>1, <2>2, <2>3, <2>5, StepTold
<1> QED BY <1>10, <1>11

LEMMA LoadOrCreateTold ==
  ASSUME IInv, DirectoryInv, NEW r \in Readers, LoadOrCreate(r) PROVE DirectoryInv'
<1> DEFINE a == ask[r]
<1>1. a.at = "index"
  BY DEF LoadOrCreate
<1>2. r \in Asking /\ a \in AskType /\ HeldBy(a) /\ FreshIn(a) /\ AloneIn(a)
  BY <1>1, AskingHolds DEF Ended
<1>3. a.graph \in Graphs /\ a.graph \in a.may
  BY <1>1, <1>2 DEF HeldBy, FreshIn, PastGraph
<1> DEFINE own == [a EXCEPT !.index = a.graph]
<1>4. PICK t \in Read(a.dir, "index") :
        Step(r, CASE t = Torn -> End(own)
                  [] t # Torn /\ Valid(t, a.graph) -> End([a EXCEPT !.index = t])
                  [] OTHER -> Rebuilt(own))
  BY DEF LoadOrCreate
<1>5. Valid(t, a.graph) => [a EXCEPT !.index = t] = own
  BY DEF Valid
<1>6. Step(r, End(own)) \/ Step(r, Rebuilt(own))
  BY <1>4, <1>5
<1>7. own \in AskType /\ own.index = a.graph /\ own.graph = a.graph /\ own.may = a.may
  BY <1>2, <1>3 DEF AskType, Contents
<1>8. Told(End(own)) /\ ~End(own).alone /\ End(own) \in AskType
  BY <1>3, <1>7, EndIsTold, EndIsTyped
<1>9. PICK fields : fields = Rebuilt(own)
  OBVIOUS
<1>10. /\ fields \in AskType
       /\ fields.at = "write" /\ fields.next = a.next /\ fields.dir = a.dir
       /\ fields.metadata = a.metadata /\ fields.graph = a.graph
       /\ fields.may = a.may /\ fields.calm = a.calm /\ fields.alone = a.alone
       /\ fields.what = a.what
  BY <1>2, <1>7, <1>9 DEF Rebuilt, AskType
<1>11. FreshIn(fields)
  <2>1. Looked(fields) = Looked(a) /\ ~BeforeGraph(fields) /\ PastGraph(a)
    BY <1>1, <1>10 DEF Looked, PastGraph, BeforeGraph, Touching
  <2>2. a.at \in Touching
    BY <1>1 DEF Touching
  <2> HIDE DEF a
  <2> QED BY <1>2, <1>10, <2>1, <2>2 DEF FreshIn
<1>12. Told(fields)
  BY <1>10, <1>11 DEF Told, AloneIn, Ended
<1>13. CASE Step(r, End(own))
  BY <1>1, <1>2, <1>8, <1>13, StepTold
<1>14. CASE Step(r, Rebuilt(own))
  BY <1>1, <1>2, <1>9, <1>10, <1>12, <1>14, StepTold
<1> QED BY <1>6, <1>13, <1>14

LEMMA OpenIndexTold ==
  ASSUME IInv, DirectoryInv, NEW r \in Readers, OpenIndex(r) PROVE DirectoryInv'
<1> DEFINE a == ask[r]
<1>1. a.at = "write"
  BY DEF OpenIndex
<1>2. r \in Asking /\ a \in AskType /\ HeldBy(a) /\ FreshIn(a) /\ AloneIn(a)
  BY <1>1, AskingHolds DEF Ended
<1>3. PICK e \in Directories : e = a.dir
  BY <1>1, <1>2 DEF HeldBy, Touching
<1>0. PICK fields : fields = [a EXCEPT !.at = "fill"]
  OBVIOUS
<1> DEFINE file == disk[e]["index"]
<1>4. /\ fields \in AskType
      /\ fields.at = "fill" /\ fields.next = a.next /\ fields.dir = a.dir
      /\ fields.metadata = a.metadata /\ fields.graph = a.graph
      /\ fields.may = a.may /\ fields.calm = a.calm /\ fields.alone = a.alone
      /\ fields.what = a.what
  BY <1>0, <1>2 DEF AskType
<1>5. ask' = [ask EXCEPT ![r] = fields]
  BY <1>0 DEF OpenIndex
<1>6. UNCHANGED <<linked, newest, work, settled, crossed>>
  BY DEF OpenIndex, buildVars
<1>7. disk' = [disk EXCEPT ![e]["index"] = Opened(file, r)]
  BY <1>3 DEF OpenIndex
<1>8. \A d \in Directories : \A k \in Files \ {"index"} : disk'[d][k] = disk[d][k]
  BY <1>6, <1>7, IndexTexts
<1>9. \A d \in Directories : d # e => disk'[d] = disk[d]
  BY <1>7 DEF IInv, TypeOK
<1>10. disk'[e]["index"] = Opened(file, r)
  BY <1>7 DEF IInv, TypeOK, Files
<1>11. \A s \in Readers : ask'[s] = IF s = r THEN fields ELSE ask[s]
  BY <1>5 DEF IInv, TypeOK
<1>12. \A p, d, f : WriterOf(p, d, f) => WriterOf(p, d, f)'
  BY <1>1, <1>6, <1>11 DEF WriterOf, Dir, Leg
<1>13. WriterOf(r, e, "index")'
  BY <1>3, <1>4, <1>11 DEF WriterOf
<1>14. Attended'
  <2> SUFFICES ASSUME NEW d \in Directories, NEW f \in Files PROVE AttendedAt(d, f)'
    BY DEF Attended
  <2>1. AttendedAt(d, f)
    BY DEF DirectoryInv, Attended
  <2>2. CASE d = e /\ f = "index"
    BY <1>10, <1>12, <1>13, <2>1, <2>2 DEF AttendedAt, Opened
  <2>3. CASE ~(d = e /\ f = "index")
    <3>1. disk'[d][f] = disk[d][f]
      BY <1>8, <1>9, <2>3
    <3> QED BY <1>12, <2>1, <3>1 DEF AttendedAt
  <2> QED BY <2>2, <2>3
<1>15. FreshIn(fields)
  <2>1. Looked(fields) = Looked(a) /\ ~BeforeGraph(fields) /\ PastGraph(a)
    BY <1>1, <1>4 DEF Looked, PastGraph, BeforeGraph, Touching
  <2>2. a.at \in Touching
    BY <1>1 DEF Touching
  <2> HIDE DEF a
  <2> QED BY <1>2, <1>4, <2>1, <2>2 DEF FreshIn
<1>16. AloneIn(fields)'
  <2>1. a.alone /\ a.calm => file.writers = {} /\ ~file.mixed
    BY <1>1, <1>2, LoneIndex
  <2>2. Opened(file, r).mixed = (file.mixed \/ file.writers # {})
    BY DEF Opened
  <2>3. a.alone /\ a.calm => ~disk'[e]["index"].mixed
    BY <1>10, <2>1, <2>2
  <2> QED BY <1>3, <1>4, <2>3 DEF AloneIn
<1> QED BY <1>2, <1>4, <1>5, <1>6, <1>8, <1>14, <1>15, <1>16, ReaderKeeps DEF Ended

\* A reader that closes index.json, or is killed before, no longer has it open.
LEMMA LeavingAttended ==
  ASSUME IInv, DirectoryInv, NEW r \in Readers, ask[r].at = "fill", NEW fields,
         NEW e \in Directories, e = ask[r].dir, NEW file,
         ask' = [ask EXCEPT ![r] = fields], UNCHANGED work,
         disk' = [disk EXCEPT ![e]["index"] = file],
         file.writers = disk[e]["index"].writers \ {r},
         file.mixed => disk[e]["index"].mixed /\ disk[e]["index"].writers # {r}
  PROVE  Attended'
<1>1. \A s \in Readers : s # r => ask'[s] = ask[s]
  BY DEF IInv, TypeOK
<1>2. \A p, d, f : p # r /\ WriterOf(p, d, f) => WriterOf(p, d, f)'
  BY <1>1 DEF WriterOf, Dir, Leg
<1>3. \A d, f : WriterOf(r, d, f) => d = e /\ f = "index"
  BY StoreAssumption DEF WriterOf
<1> SUFFICES ASSUME NEW d \in Directories, NEW f \in Files PROVE AttendedAt(d, f)'
  BY DEF Attended
<1>4. AttendedAt(d, f)
  BY DEF DirectoryInv, Attended
<1>5. CASE d = e /\ f = "index"
  <2>1. disk'[d][f] = file
    BY <1>5 DEF IInv, TypeOK
  <2> QED BY <1>2, <1>4, <1>5, <2>1 DEF AttendedAt
<1>6. CASE ~(d = e /\ f = "index")
  <2>1. disk'[d][f] = disk[d][f]
    BY <1>6 DEF IInv, TypeOK
  <2>2. r \notin disk[d][f].writers
    BY <1>3, <1>4, <1>6 DEF AttendedAt
  <2> QED BY <1>2, <1>4, <2>1, <2>2 DEF AttendedAt
<1> QED BY <1>5, <1>6

LEMMA CloseIndexTold ==
  ASSUME IInv, DirectoryInv, NEW r \in Readers, CloseIndex(r) PROVE DirectoryInv'
<1> DEFINE a == ask[r]
<1>1. a.at = "fill"
  BY DEF CloseIndex
<1>2. r \in Asking /\ a \in AskType /\ HeldBy(a) /\ FreshIn(a)
  BY <1>1, AskingHolds DEF Ended
<1>3. PICK e \in Directories : e = a.dir
  BY <1>1, <1>2 DEF HeldBy, Touching
<1>4. a.index = a.graph /\ a.graph \in a.may
  BY <1>1, <1>2 DEF HeldBy, FreshIn, PastGraph
<1>5. PICK file \in Closed(disk[e]["index"], r, a.index) :
        disk' = [disk EXCEPT ![e]["index"] = file]
  BY <1>3 DEF CloseIndex
<1>6. disk[e]["index"] \in FileType
  BY DEF IInv, TypeOK, Files
<1>7. /\ file.writers = disk[e]["index"].writers \ {r}
      /\ file.mixed => disk[e]["index"].mixed /\ disk[e]["index"].writers # {r}
  BY <1>5, <1>6 DEF Closed, Left, FileType
<1>8. ask' = [ask EXCEPT ![r] = End(a)] /\ UNCHANGED <<linked, newest, work, settled, crossed>>
  BY DEF CloseIndex, buildVars
<1>9. Attended'
  BY <1>1, <1>3, <1>5, <1>7, <1>8, LeavingAttended
<1>10. \A d \in Directories : \A k \in Files \ {"index"} : disk'[d][k] = disk[d][k]
  BY <1>5, <1>8, IndexTexts
<1>11. Told(End(a)) /\ ~End(a).alone /\ End(a).at = "answered" /\ End(a) \in AskType
  BY <1>2, <1>4, EndIsTold, EndIsTyped
<1> HIDE DEF a
<1> QED BY <1>2, <1>8, <1>9, <1>10, <1>11, ReaderKeeps DEF Ended, Told

LEMMA KillReaderTold ==
  ASSUME IInv, DirectoryInv, NEW r \in Readers, KillReader(r) PROVE DirectoryInv'
<1> DEFINE a == ask[r]
<1>1. a.at = "fill"
  BY DEF KillReader
<1>2. r \in Asking /\ a \in AskType /\ HeldBy(a)
  BY <1>1, AskingHolds DEF Ended
<1>3. PICK e \in Directories : e = a.dir
  BY <1>1, <1>2 DEF HeldBy, Touching
<1>4. disk' = [disk EXCEPT ![e]["index"] = Left(disk[e]["index"], r)]
  BY <1>3 DEF KillReader
<1>5. disk[e]["index"] \in FileType
  BY DEF IInv, TypeOK, Files
<1>6. PICK file : file = Left(disk[e]["index"], r)
  OBVIOUS
<1>7. /\ file.writers = disk[e]["index"].writers \ {r}
      /\ file.mixed => disk[e]["index"].mixed /\ disk[e]["index"].writers # {r}
  BY <1>5, <1>6 DEF Left, FileType
<1>8. ask' = [ask EXCEPT ![r] = NoAsk] /\ UNCHANGED <<linked, newest, work, settled, crossed>>
  BY DEF KillReader, buildVars
<1>9. Attended'
  BY <1>1, <1>3, <1>4, <1>6, <1>7, <1>8, LeavingAttended
<1>10. \A d \in Directories : \A k \in Files \ {"index"} : disk'[d][k] = disk[d][k]
  BY <1>4, <1>8, IndexTexts
<1>11. NoAsk \in AskType /\ ~NoAsk.alone /\ NoAsk.at = "idle"
  BY DEF NoAsk, AskType
<1> QED BY <1>2, <1>8, <1>9, <1>10, <1>11, ReaderKeeps DEF Ended

LEMMA StartAskTold ==
  ASSUME IInv, DirectoryInv, NEW r \in Readers, NEW q \in Questions[r], StartAsk(r, q)
  PROVE  DirectoryInv'
<1>1. q \in {"search", "query", "serve"}
  BY StoreAssumption
<1>2. /\ ask[r].at \in Ended
      /\ UNCHANGED <<disk, linked, newest, work, settled, crossed>>
  BY DEF StartAsk, buildVars
<1>3. PICK mine : mine = [NoAsk EXCEPT
                     !.what = q, !.at = "find",
                     !.next = IF q = "search" THEN "current" ELSE "graph",
                     !.may = IF settled = None THEN Graphs ELSE {settled},
                     !.calm = settled # None,
                     !.alone = settled # None /\ Asking = {}]
  OBVIOUS
<1>4. \A s \in Readers : ask'[s] = IF s = r THEN mine ELSE [ask[s] EXCEPT !.alone = FALSE]
  BY <1>3 DEF StartAsk
<1>5. /\ mine.what = q /\ mine.at = "find" /\ mine.metadata = None /\ mine.index = None
      /\ mine.next = (IF q = "search" THEN "current" ELSE "graph")
      /\ mine.may = (IF settled = None THEN Graphs ELSE {settled})
      /\ mine.calm = (settled # None) /\ mine.alone = (settled # None /\ Asking = {})
  BY <1>3 DEF NoAsk
<1>6. /\ Ordered' /\ NewestHolds' /\ Uncrossed' /\ Agreed'
      /\ \A a : FreshIn(a)' <=> FreshIn(a)
  BY <1>2, IndexAside DEF DirectoryInv
<1>7. \A a : AloneIn(a)' <=> AloneIn(a)
  BY <1>2 DEF AloneIn
<1>8. FreshIn(mine)
  <2>1. Looked(mine) = {newest} /\ ~PastGraph(mine) /\ (BeforeGraph(mine) => q = "search")
    BY <1>1, <1>5 DEF Looked, PastGraph, BeforeGraph, Touching
  <2>2. mine.at \notin Touching /\ Graphs \cap {mine.metadata} = {}
    BY <1>5, StoreAssumption DEF Touching
  <2>3. CASE settled = None
    <3>1. \A d : Covered(d, Graphs) /\ AliasCovered(d, Graphs)
      BY DEF Covered, AliasCovered
    <3>2. \A b \in Writing : work[b].graph \in Graphs
      BY DEF Writing, Running, IInv, Worked, WorkedBy
    <3> QED BY <1>5, <2>1, <2>2, <2>3, <3>1, <3>2 DEF FreshIn
  <2>4. CASE settled # None
    <3>1. Writing = {} /\ Text(newest, "alias") = settled
          /\ {Text(newest, "graph"), Text(newest, "metadata")} \subseteq {settled, Absent}
      BY <2>4 DEF DirectoryInv, Agreed
    <3>2. Underway = {}
      BY <3>1, BegunIsWriting DEF DirectoryInv, Underway, Running
    <3>3. Covered(newest, {settled}) /\ AliasCovered(newest, {settled})
      BY <3>1, StoreAssumption DEF Covered, AliasCovered
    <3>4. Holding # {}
      BY <2>4, NewestFound
    <3> QED BY <1>5, <2>1, <2>2, <2>4, <3>1, <3>2, <3>3, <3>4 DEF FreshIn
  <2> QED BY <2>3, <2>4
<1>9. Told(mine)
  BY <1>5, <1>8 DEF Told, AloneIn, Ended
<1>10. AllTold'
  <2> SUFFICES ASSUME NEW s \in Readers PROVE Told(ask[s])'
    BY DEF AllTold
  <2>1. PICK a : a = ask'[s]
    OBVIOUS
  <2>2. Told(a)
    <3>1. CASE s = r
      BY <1>4, <1>9, <2>1, <3>1
    <3>2. CASE s # r
      <4>1. a = [ask[s] EXCEPT !.alone = FALSE]
        BY <1>4, <2>1, <3>2
      <4>2. ask[s] \in AskType /\ Told(ask[s])
        BY DEF IInv, TypeOK, DirectoryInv, AllTold
      <4>3. PICK o \in AskType : o = ask[s]
        BY <4>2
      <4>4. /\ a.what = o.what /\ a.at = o.at /\ a.next = o.next /\ a.dir = o.dir
            /\ a.metadata = o.metadata /\ a.index = o.index /\ a.graph = o.graph
            /\ a.may = o.may /\ a.calm = o.calm /\ a.alone = FALSE
        BY <4>1, <4>3 DEF AskType
      <4>5. FreshIn(o) => FreshIn(a)
        BY <4>4 DEF FreshIn, Looked, PastGraph, BeforeGraph
      <4> QED BY <4>2, <4>3, <4>4, <4>5 DEF Told, AloneIn
    <3> QED BY <3>1, <3>2
  <2>3. Told(a)'
    BY <1>6, <1>7, <2>2 DEF Told
  <2> QED BY <2>1, <2>3
<1>11. \A s \in Readers : s # r => ask'[s].at = ask[s].at /\ ask'[s].dir = ask[s].dir
                                   /\ ask'[s].alone = FALSE
  <2> SUFFICES ASSUME NEW s \in Readers, s # r
               PROVE  ask'[s].at = ask[s].at /\ ask'[s].dir = ask[s].dir
                      /\ ask'[s].alone = FALSE
    OBVIOUS
  <2>1. ask'[s] = [ask[s] EXCEPT !.alone = FALSE] /\ ask[s] \in AskType
    BY <1>4 DEF IInv, TypeOK
  <2>2. PICK o \in AskType : o = ask[s]
    BY <2>1
  <2> QED BY <2>1, <2>2 DEF AskType
<1>12. Solitary'
  <2>1. Asking' = Asking \cup {r}
    BY <1>4, <1>5, <1>11 DEF Asking, Ended
  <2>2. ask'[r].alone => Asking = {}
    BY <1>4, <1>5
  <2> QED BY <1>11, <2>1, <2>2 DEF Solitary, Asking
<1>13. Attended'
  <2>1. \A p, d, f : WriterOf(p, d, f) => WriterOf(p, d, f)'
    BY <1>2, <1>11 DEF WriterOf, Dir, Leg, Ended
  <2> QED BY <1>2, <2>1 DEF DirectoryInv, Attended, AttendedAt
<1> QED BY <1>6, <1>10, <1>12, <1>13 DEF DirectoryInv

LEMMA UndisturbedTold ==
  ASSUME IInv, DirectoryInv,
         UNCHANGED <<disk, linked, newest, work, settled, crossed, ask>>
  PROVE  DirectoryInv'
<1>1. /\ Ordered' /\ NewestHolds' /\ Uncrossed' /\ Agreed'
      /\ \A a : FreshIn(a)' <=> FreshIn(a)
  BY IndexAside DEF DirectoryInv
<1>2. \A a : Told(a)' <=> Told(a)
  BY <1>1 DEF Told, AloneIn
<1>3. AllTold'
  <2> SUFFICES ASSUME NEW s \in Readers PROVE Told(ask[s])'
    BY DEF AllTold
  <2>1. PICK a : a = ask[s] /\ a = ask'[s]
    OBVIOUS
  <2>2. Told(a)'
    BY <1>2, <2>1 DEF DirectoryInv, AllTold
  <2> QED BY <2>1, <2>2
<1>4. Solitary'
  BY DEF DirectoryInv, Solitary, Asking
<1>5. Attended'
  BY DEF DirectoryInv, Attended, AttendedAt, WriterOf, Dir, Leg
<1> QED BY <1>1, <1>3, <1>4, <1>5 DEF DirectoryInv

-----------------------------------------------------------------------------
(* Builds. *)

\* A step of a build that writes g in d0 brings no other graph to light, and takes
\* no directory its graph.
WritesOnly(d0, g) ==
  /\ \A d \in Directories : \A k \in {"graph", "metadata"} :
       Text(d, k)' \in {Text(d, k), Torn, g}
  /\ \A d \in Directories :
       Text(d, "graph")' = Absent =>
         Text(d, "graph") = Absent /\ Text(d, "alias")' = Text(d, "alias")
  /\ \/ newest' = newest /\ Holding' \subseteq Holding
     \/ newest' = d0 /\ Text(d0, "graph")' # Absent

LEMMA HoldingStays ==
  ASSUME IInv, NewestHolds, NEW d0 \in Directories, NEW g, WritesOnly(d0, g)
  PROVE  NewestHolds' /\ Holding \subseteq Holding' /\ newest' \in Directories
<1>1. \A d \in Directories : HasGraph(d) => HasGraph(d)'
  BY DEF WritesOnly, HasGraph
<1>2. Holding \subseteq Holding'
  BY <1>1 DEF Holding
<1>3. newest' \in Directories
  BY DEF WritesOnly, IInv, TypeOK
<1>4. CASE newest' = newest /\ Holding' \subseteq Holding
  <2>1. Holding' = Holding
    BY <1>2, <1>4
  <2>2. Holding # {} => newest \in Holding
    BY DEF NewestHolds
  <2> QED BY <1>2, <1>3, <1>4, <2>1, <2>2 DEF NewestHolds
<1>5. CASE newest' = d0 /\ Text(d0, "graph")' # Absent
  <2>1. HasGraph(d0)'
    BY <1>5 DEF HasGraph
  <2>2. d0 \in Holding'
    BY <2>1 DEF Holding
  <2> QED BY <1>2, <1>3, <1>5, <2>2 DEF NewestHolds
<1> QED BY <1>2, <1>3, <1>4, <1>5 DEF WritesOnly

\* Whoever asks beside it may answer from what it comes upon.
LEMMA FreshBeside ==
  ASSUME IInv, NewestHolds, NEW a, FreshIn(a), ~a.calm,
         NEW d0 \in Directories, NEW g \in a.may, WritesOnly(d0, g),
         \A c \in Writing' : work'[c].graph \in a.may,
         Underway' \subseteq Underway \cup {d0},
         Covered(d0, a.may) \/ (newest' = newest /\ Underway' \subseteq Underway)
  PROVE  FreshIn(a)'
<1>1. Holding \subseteq Holding' /\ newest' \in Directories
  BY HoldingStays
<1>2. \A d \in Directories : Covered(d, a.may) => Covered(d, a.may)'
  <2> SUFFICES ASSUME NEW d \in Directories, Covered(d, a.may)
               PROVE  Graphs \cap {Text(d, "graph")', Text(d, "metadata")'} \subseteq a.may
    BY DEF Covered
  <2>1. \A k \in {"graph", "metadata"} : Text(d, k)' \in {Text(d, k), Torn, g}
    BY DEF WritesOnly
  <2>2. Torn \notin Graphs
    BY StoreAssumption
  <2> QED BY <2>1, <2>2 DEF Covered
<1>3. \A d \in Directories : AliasCovered(d, a.may) => AliasCovered(d, a.may)'
  <2> SUFFICES ASSUME NEW d \in Directories, AliasCovered(d, a.may),
                      Text(d, "graph")' = Absent
               PROVE  Graphs \cap {Text(d, "alias")'} \subseteq a.may
    BY DEF AliasCovered
  <2>1. Text(d, "graph") = Absent /\ Text(d, "alias")' = Text(d, "alias")
    BY DEF WritesOnly
  <2> QED BY <2>1 DEF AliasCovered
<1>4. Looked(a) \subseteq Directories /\ Underway \subseteq Directories
      /\ Looked(a)' \subseteq Directories /\ Underway' \subseteq Directories
  BY <1>1 DEF Looked, Underway, IInv, TypeOK
<1>5. Looked(a)' \subseteq Looked(a) \cup {newest'}
  BY DEF Looked
<1>6. Looked(a)' \cup Underway' \subseteq Looked(a) \cup Underway
      \/ (Looked(a)' \cup Underway' \subseteq Looked(a) \cup Underway \cup {d0}
            /\ Covered(d0, a.may))
  <2>1. newest \in Looked(a)
    BY DEF Looked
  <2>2. newest' \in {newest, d0}
    BY DEF WritesOnly
  <2> QED BY <1>5, <2>1, <2>2
<1>7. \A d \in Looked(a)' \cup Underway' : Covered(d, a.may)'
  BY <1>2, <1>4, <1>6 DEF FreshIn
<1>8. \A d \in Looked(a)' : AliasCovered(d, a.may)'
  <2> SUFFICES ASSUME NEW d \in Looked(a)' PROVE AliasCovered(d, a.may)'
    OBVIOUS
  <2>1. CASE d \in Looked(a)
    BY <1>3, <1>4, <2>1 DEF FreshIn
  <2>2. CASE d \notin Looked(a)
    <3>1. d = newest' /\ newest' # newest
      BY <1>5, <2>2 DEF Looked
    <3>2. d = d0 /\ Text(d, "graph")' # Absent
      BY <3>1 DEF WritesOnly
    <3> QED BY <3>2 DEF AliasCovered
  <2> QED BY <2>1, <2>2
<1>9. a.may = Graphs \/ Holding' # {}
  BY <1>1 DEF FreshIn
<1> QED BY <1>7, <1>8, <1>9 DEF FreshIn

\* A build that takes a step leaves the others where they are.
LEMMA OtherBuilds ==
  ASSUME IInv, NEW b \in Builders, NEW w, work' = [work EXCEPT ![b] = w]
  PROVE  /\ work'[b] = w
         /\ \A c \in Builders : c # b => work'[c] = work[c]
         /\ \A c \in Builders : c # b => Dir(c)' = Dir(c)
         /\ \A c \in Builders : c # b => (c \in Writing' <=> c \in Writing)
                                         /\ (c \in Running' <=> c \in Running)
         /\ w.legs = work[b].legs => Dir(b)' = Dir(b)
<1>1. work'[b] = w /\ \A c \in Builders : c # b => work'[c] = work[c]
  BY DEF IInv, TypeOK
<1>2. \A c \in Builders : c # b => Dir(c)' = Dir(c)
  BY <1>1 DEF Dir, Leg
<1>3. \A c \in Builders : c # b => (c \in Writing' <=> c \in Writing)
                                   /\ (c \in Running' <=> c \in Running)
  BY <1>1 DEF Writing, Running
<1>4. w.legs = work[b].legs => Dir(b)' = Dir(b)
  BY <1>1 DEF Dir, Leg
<1> QED BY <1>1, <1>2, <1>3, <1>4

LEMMA BuildBeside ==
  ASSUME IInv, DirectoryInv, NEW b \in Running, NEW d0 \in Directories, d0 = Dir(b),
         NEW g, g = work[b].graph, NEW w, work' = [work EXCEPT ![b] = w],
         w.legs # <<>> => w.graph = g, Begun(w) => w.legs = work[b].legs,
         WritesOnly(d0, g), NEW a, FreshIn(a), ~a.calm, g \in a.may,
         Covered(d0, a.may) \/ (newest' = newest /\ ~Begun(w))
  PROVE  FreshIn(a)'
<1>1. b \in Builders
  BY DEF Running
<1>2. \A c \in Writing' : work'[c].graph \in a.may
  <2> SUFFICES ASSUME NEW c \in Writing' PROVE work'[c].graph \in a.may
    OBVIOUS
  <2>1. c \in Builders /\ work'[c].legs # <<>>
    BY DEF Writing, Running
  <2>2. CASE c = b
    BY <1>1, <2>1, <2>2, OtherBuilds
  <2>3. CASE c # b
    <3>1. work'[c] = work[c] /\ c \in Writing
      BY <1>1, <2>1, <2>3, OtherBuilds
    <3> QED BY <3>1 DEF FreshIn
  <2> QED BY <2>2, <2>3
<1>3. \A d \in Underway' : d \in Underway \/ (Begun(w) /\ d = d0)
  <2> SUFFICES ASSUME NEW d \in Underway' PROVE d \in Underway \/ (Begun(w) /\ d = d0)
    OBVIOUS
  <2>1. PICK c \in Running' : Begun(work'[c]) /\ d = Dir(c)' /\ d \in Directories
    BY DEF Underway
  <2>2. c \in Builders
    BY DEF Running
  <2>3. CASE c = b
    <3>1. work'[b] = w /\ (w.legs = work[b].legs => Dir(b)' = Dir(b))
      <4>1. work'[b] = w
        BY <1>1 DEF IInv, TypeOK
      <4> QED BY <4>1 DEF Dir, Leg
    <3>2. Begun(work'[b]) /\ d = Dir(b)'
      BY <2>1, <2>3
    <3> QED BY <3>1, <3>2
  <2>4. CASE c # b
    <3>1. work'[c] = work[c] /\ Dir(c)' = Dir(c) /\ c \in Running
      BY <1>1, <2>2, <2>4, OtherBuilds
    <3> QED BY <2>1, <3>1 DEF Underway
  <2> QED BY <2>3, <2>4
<1>4. /\ Underway' \subseteq Underway \cup {d0}
      /\ Covered(d0, a.may) \/ (newest' = newest /\ Underway' \subseteq Underway)
  BY <1>3
<1> QED BY <1>2, <1>4, FreshBeside DEF DirectoryInv

LEMMA OthersOrdered ==
  ASSUME IInv, Ordered, NEW b \in Builders, NEW w, work' = [work EXCEPT ![b] = w],
         NEW d0, NEW g, WritesOnly(d0, g)
  PROVE  \A c \in Builders : c # b => OrderedBy(c)'
<1> SUFFICES ASSUME NEW c \in Builders, c # b PROVE OrderedBy(c)'
  OBVIOUS
<1>1. OrderedBy(c)
  BY DEF Ordered
<1>2. work'[c] = work[c]
  BY OtherBuilds
<1>3. PICK d : d = Dir(c) /\ d = Dir(c)'
  BY OtherBuilds
<1>4. "graph" \in work[c].done \cup work[c].open => d \in Directories
  BY <1>3, BegunIsWriting DEF Begun
<1>5. Text(Dir(c), "graph")' = Text(d, "graph")'
  BY <1>3
<1>6. d \in Directories => (Text(d, "graph")' = Absent => Text(d, "graph") = Absent)
  BY DEF WritesOnly
<1> QED BY <1>1, <1>2, <1>3, <1>4, <1>5, <1>6 DEF OrderedBy

\* A step of a build that is writing, and of which the readers learn nothing.
LEMMA WritingKeeps ==
  ASSUME IInv, DirectoryInv, NEW b \in Writing, NEW d0, d0 = Dir(b), UNCHANGED ask,
         NEW g, g = work[b].graph, NEW w, work' = [work EXCEPT ![b] = w],
         w.legs # <<>> => w.graph = g, Begun(w) => w.legs = work[b].legs,
         WritesOnly(d0, g), Begun(work[b]) \/ (newest' = newest /\ ~Begun(w)),
         OrderedBy(b)', Attended', Uncrossed', Agreed'
  PROVE  DirectoryInv'
<1>1. b \in Running /\ b \in Builders /\ d0 \in Directories
  BY LegIsTyped DEF Writing, Running, IInv
<1>2. settled = None
  BY DEF DirectoryInv, Agreed
<1>3. Begun(work[b]) => d0 \in Underway
  BY <1>1 DEF Underway
<1>4. AllTold'
  <2> SUFFICES ASSUME NEW s \in Readers PROVE Told(ask[s])'
    BY DEF AllTold
  <2>1. PICK a : a = ask[s] /\ a = ask'[s]
    OBVIOUS
  <2>2. Told(a)
    BY <2>1 DEF DirectoryInv, AllTold
  <2>3. ASSUME a.at \notin Ended PROVE FreshIn(a)' /\ ~a.calm
    <3>1. FreshIn(a)
      BY <2>2, <2>3 DEF Told
    <3>2. ~a.calm /\ g \in a.may
      BY <1>2, <3>1 DEF FreshIn
    <3>3. Begun(work[b]) => Covered(d0, a.may)
      BY <1>3, <3>1 DEF FreshIn
    <3> QED BY <1>1, <3>1, <3>2, <3>3, BuildBeside
  <2>4. Told(a)'
    BY <2>2, <2>3 DEF Told, AloneIn
  <2> QED BY <2>1, <2>4
<1>5. Solitary'
  BY DEF DirectoryInv, Solitary, Asking
<1>6. Ordered'
  BY <1>1, OthersOrdered DEF Ordered, DirectoryInv
<1>7. NewestHolds'
  BY <1>1, HoldingStays DEF DirectoryInv
<1> QED BY <1>4, <1>5, <1>6, <1>7 DEF DirectoryInv

\* Nobody has a file open that no build has open.
LEMMA NobodyWrites ==
  ASSUME IInv, DirectoryInv, NEW d \in Directories, NEW f \in {"graph", "metadata"},
         \A c \in Writing : f \notin work[c].open
  PROVE  disk[d][f].writers = {} /\ ~disk[d][f].mixed
<1>1. f \in Files
  BY DEF Files
<1>2. AttendedAt(d, f)
  BY <1>1 DEF DirectoryInv, Attended
<1>3. ASSUME NEW p \in disk[d][f].writers PROVE FALSE
  <2>1. p \in Builders /\ f \in work[p].open
    BY <1>2 DEF AttendedAt, WriterOf
  <2>2. p \in Writing
    BY <2>1, BegunIsWriting DEF DirectoryInv, Begun
  <2> QED BY <2>1, <2>2
<1>4. disk[d][f].mixed \in BOOLEAN
  BY <1>1 DEF IInv, TypeOK, FileType
<1> QED BY <1>2, <1>3, <1>4 DEF AttendedAt

\* The files of a build, and its order, while it has a file to touch.
LEMMA BuildingHolds ==
  ASSUME IInv, DirectoryInv, NEW b \in Builders, Begun(work[b])
  PROVE  /\ b \in Writing /\ b \in Running /\ work[b].legs # <<>> /\ work[b].writing
         /\ Dir(b) \in Directories /\ work[b] \in WorkType /\ work[b].graph \in Graphs
         /\ OrderedBy(b) /\ settled = None
<1>1. b \in Writing /\ b \in Running /\ work[b].legs # <<>> /\ Dir(b) \in Directories
  BY BegunIsWriting DEF DirectoryInv
<1>2. work[b] \in WorkType /\ work[b].graph \in Graphs /\ OrderedBy(b)
  BY <1>1 DEF IInv, TypeOK, Worked, WorkedBy, DirectoryInv, Ordered
<1>3. settled = None /\ work[b].writing
  BY <1>1 DEF DirectoryInv, Agreed, Writing
<1> QED BY <1>1, <1>2, <1>3

\* Who had a file open beside a build that took a step still has it open.
LEMMA OthersWrite ==
  ASSUME IInv, NEW b \in Builders, NEW w, work' = [work EXCEPT ![b] = w],
         \A s \in Readers : ask'[s].at = ask[s].at /\ ask'[s].dir = ask[s].dir
  PROVE  \A p, d, f : WriterOf(p, d, f) /\ (p = b => w.legs = work[b].legs /\ f \in w.open)
                        => WriterOf(p, d, f)'
<1> SUFFICES ASSUME NEW p, NEW d, NEW f, WriterOf(p, d, f),
                    p = b => w.legs = work[b].legs /\ f \in w.open
             PROVE  WriterOf(p, d, f)'
  OBVIOUS
<1>1. CASE p \in Readers
  BY <1>1, StoreAssumption DEF WriterOf
<1>2. CASE p \in Builders
  <2>1. f \in work[p].open /\ f # "alias" /\ Dir(p) = d
    BY <1>2, StoreAssumption DEF WriterOf
  <2>2. CASE p = b
    <3>1. Dir(b)' = Dir(b) /\ work'[b] = w
      BY <2>2, OtherBuilds
    <3> QED BY <2>1, <2>2, <3>1 DEF WriterOf
  <2>3. CASE p # b
    <3>1. Dir(p)' = Dir(p) /\ work'[p] = work[p]
      BY <1>2, <2>3, OtherBuilds
    <3> QED BY <1>2, <2>1, <3>1 DEF WriterOf
  <2> QED BY <2>2, <2>3
<1> QED BY <1>1, <1>2 DEF WriterOf

\* A file that one of its writers leaves is attended if it was.
LEMMA LeftAttended ==
  ASSUME NEW file \in FileType, NEW p, file.mixed => file.writers # {}
  PROVE  /\ Left(file, p).writers = file.writers \ {p}
         /\ Left(file, p).mixed => file.mixed /\ file.writers # {p}
         /\ Left(file, p).mixed => Left(file, p).writers # {}
<1>1. /\ Left(file, p).writers = file.writers \ {p}
      /\ Left(file, p).mixed = (file.mixed /\ file.writers # {p})
  BY DEF Left, FileType
<1> QED BY <1>1

LEMMA CloseFileTold ==
  ASSUME IInv, DirectoryInv, NEW b \in Builders, NEW f \in Files, CloseFile(b, f)
  PROVE  DirectoryInv'
<1>1. f \in work[b].open /\ f # "alias" /\ Begun(work[b])
  BY DEF CloseFile, Begun
<1>2. /\ b \in Writing /\ b \in Running /\ work[b].legs # <<>> /\ work[b].writing
      /\ Dir(b) \in Directories /\ work[b] \in WorkType /\ work[b].graph \in Graphs
      /\ OrderedBy(b) /\ settled = None
  BY <1>1, BuildingHolds
<1>3. PICK d0 \in Directories : d0 = Dir(b)
  BY <1>2
<1>4. PICK g \in Graphs : g = work[b].graph
  BY <1>2
<1>5. PICK w : w = [work[b] EXCEPT !.open = @ \ {f}, !.done = @ \cup {f}]
  OBVIOUS
<1>6. /\ w.open = work[b].open \ {f} /\ w.done = work[b].done \cup {f}
      /\ w.legs = work[b].legs /\ w.graph = g /\ w.writing = work[b].writing
  BY <1>2, <1>4, <1>5 DEF WorkType
<1>7. work' = [work EXCEPT ![b] = w]
  BY <1>5 DEF CloseFile, IInv, TypeOK
<1>8. UNCHANGED <<linked, ask, settled, crossed>>
      /\ newest' = IF f = "graph" THEN d0 ELSE newest
  BY <1>3 DEF CloseFile
<1>9. /\ Dir(b)' = d0 /\ work'[b] = w
      /\ \A c \in Builders : c # b => work'[c] = work[c] /\ Dir(c)' = Dir(c)
  BY <1>3, <1>6, <1>7, OtherBuilds
<1>10. PICK t \in {g, Torn} :
         /\ ~disk[d0][f].mixed => t = g
         /\ \A d \in Directories : \A k \in Files :
              Text(d, k)' = IF d = d0 /\ Inode(d, k) = f THEN t ELSE Text(d, k)
  BY <1>3, <1>4, CloseTexts
<1>11. \A d : /\ Inode(d, "graph") = "graph" /\ Inode(d, "metadata") = "metadata"
              /\ Inode(d, "alias") \in {"alias", "graph"}
  BY DEF Inode
<1>12. t # Absent
  BY <1>10, StoreAssumption
<1>13. {"graph", "alias", "metadata", "index"} = Files
  BY DEF Files
<1>14. WritesOnly(d0, g)
  <2>1. \A d \in Directories : \A k \in {"graph", "metadata"} :
          Text(d, k)' \in {Text(d, k), Torn, g}
    BY <1>10, <1>13
  <2>2. \A d \in Directories :
          Text(d, "graph")' = Absent =>
            Text(d, "graph") = Absent /\ Text(d, "alias")' = Text(d, "alias")
    BY <1>1, <1>10, <1>11, <1>12, <1>13
  <2>3. CASE f = "graph"
    BY <1>8, <1>10, <1>11, <1>12, <1>13, <2>1, <2>2, <2>3 DEF WritesOnly
  <2>4. CASE f # "graph"
    <3>1. \A d \in Directories : HasGraph(d)' <=> HasGraph(d)
      BY <1>1, <1>10, <1>11, <1>13, <2>4 DEF HasGraph
    <3>2. Holding' \subseteq Holding
      BY <3>1 DEF Holding
    <3> QED BY <1>8, <2>1, <2>2, <2>4, <3>2 DEF WritesOnly
  <2> QED BY <2>3, <2>4
<1>15. "graph" \in w.done \cup w.open => Text(d0, "graph")' # Absent
  <2>1. "graph" \in w.done \cup w.open <=> "graph" \in work[b].done \cup work[b].open
    BY <1>1, <1>6
  <2> QED BY <1>2, <1>3, <1>14, <2>1 DEF OrderedBy, WritesOnly
<1>16. OrderedBy(b)'
  <2>1. Text(Dir(b), "graph")' = Text(d0, "graph")'
    BY <1>9
  <2>2. /\ w.writing /\ w.legs # <<>> /\ w.done \cap w.open = {}
        /\ "alias" \in w.done \cup w.open => "graph" \in w.done
    BY <1>1, <1>2, <1>6 DEF OrderedBy
  <2> QED BY <1>9, <1>15, <2>1, <2>2 DEF OrderedBy
<1>17. PICK file \in Closed(disk[d0][f], b, g) : disk' = [disk EXCEPT ![d0][f] = file]
  BY <1>3, <1>4 DEF CloseFile
<1>18. disk[d0][f] \in FileType /\ AttendedAt(d0, f)
  BY DEF IInv, TypeOK, DirectoryInv, Attended
<1>19. /\ file.writers = disk[d0][f].writers \ {b}
       /\ file.mixed => disk[d0][f].mixed /\ file.writers # {}
  <2>1. disk[d0][f].mixed => disk[d0][f].writers # {}
    BY <1>18 DEF AttendedAt
  <2>2. /\ Left(disk[d0][f], b).writers = disk[d0][f].writers \ {b}
        /\ Left(disk[d0][f], b).mixed => disk[d0][f].mixed
        /\ Left(disk[d0][f], b).mixed => Left(disk[d0][f], b).writers # {}
    BY <1>18, <2>1, LeftAttended
  <2>3. PICK u : file = [Left(disk[d0][f], b) EXCEPT !.text = u]
    BY <1>17 DEF Closed
  <2>4. file.writers = Left(disk[d0][f], b).writers /\ file.mixed = Left(disk[d0][f], b).mixed
    BY <2>3 DEF Left
  <2> QED BY <2>2, <2>4
<1>20. /\ disk'[d0][f] = file
       /\ \A d \in Directories : \A k \in Files :
            ~(d = d0 /\ k = f) => disk'[d][k] = disk[d][k]
  BY <1>17 DEF IInv, TypeOK
<1>21. Attended'
  <2> SUFFICES ASSUME NEW d \in Directories, NEW k \in Files PROVE AttendedAt(d, k)'
    BY DEF Attended
  <2>1. AttendedAt(d, k)
    BY DEF DirectoryInv, Attended
  <2>2. \A p : WriterOf(p, d, k) /\ (p = b => k # f) => WriterOf(p, d, k)'
    <3>1. \A p : WriterOf(p, d, k) /\ (p = b => w.legs = work[b].legs /\ k \in w.open)
                   => WriterOf(p, d, k)'
      BY <1>7, <1>8, OthersWrite
    <3>2. WriterOf(b, d, k) => k \in work[b].open
      BY StoreAssumption DEF WriterOf
    <3> QED BY <1>6, <3>1, <3>2
  <2>3. WriterOf(b, d, k) => d = d0
    BY <1>3, StoreAssumption DEF WriterOf
  <2>4. CASE d = d0 /\ k = f
    BY <1>19, <1>20, <2>1, <2>2, <2>4 DEF AttendedAt
  <2>5. CASE ~(d = d0 /\ k = f)
    BY <1>20, <2>1, <2>2, <2>3, <2>5 DEF AttendedAt
  <2> QED BY <2>4, <2>5
<1>22. Uncrossed'
  <2> SUFFICES ASSUME ~crossed PROVE Uncrossed'
    BY <1>8 DEF Uncrossed
  <2>1. /\ \A c, e \in Writing : c = e
        /\ \A d \in Directories : \A k \in {"graph", "metadata"} : ~disk[d][k].mixed
        /\ Written(b)
    BY <1>2 DEF DirectoryInv, Uncrossed
  <2>2. Writing' \subseteq {b}
    <3>1. \A c \in Writing' : c \in Builders /\ (c # b => c \in Writing)
      BY <1>7, OtherBuilds DEF Writing, Running
    <3> QED BY <1>2, <2>1, <3>1
  <2>3. \A d \in Directories : \A k \in {"graph", "metadata"} : ~disk'[d][k].mixed
    BY <1>13, <1>19, <1>20, <2>1
  <2>4. "graph" \in w.done \cup w.open => newest' = d0
    BY <1>1, <1>3, <1>6, <1>8, <2>1 DEF Written
  <2>5. \A k \in w.done \ {"index"} : Text(d0, k)' = g
    <3> SUFFICES ASSUME NEW k \in w.done \ {"index"} PROVE Text(d0, k)' = g
      OBVIOUS
    <3>1. k \in Files
      BY <1>2, <1>6 DEF WorkType
    <3>2. f # "index" => t = g
      BY <1>1, <1>10, <1>13, <2>1
    <3>3. CASE k = f
      BY <1>1, <1>10, <1>11, <1>13, <3>1, <3>2, <3>3
    <3>4. CASE k # f
      <4>1. Text(d0, k) = g
        BY <1>3, <1>4, <1>6, <2>1, <3>4 DEF Written
      <4>2. Inode(d0, k) = f => f # "index"
        BY <1>11, <1>13, <3>1, <3>4 DEF Inode
      <4> QED BY <1>10, <3>1, <3>2, <4>1, <4>2
    <3> QED BY <3>3, <3>4
  <2>6. Written(b)'
    <3>1. \A k : Text(Dir(b), k)' = Text(d0, k)'
      BY <1>9
    <3> QED BY <1>6, <1>9, <2>4, <2>5, <3>1 DEF Written
  <2> QED BY <2>2, <2>3, <2>6 DEF Uncrossed
<1>23. Agreed'
  BY <1>2, <1>8 DEF Agreed
<1> QED
  BY <1>1, <1>2, <1>3, <1>4, <1>6, <1>7, <1>8, <1>14, <1>16, <1>21, <1>22, <1>23, WritingKeeps

\* Whoever has a file open still has it open after a step about an alias.
LEMMA AliasAttended ==
  ASSUME IInv, Attended, NEW b \in Builders, NEW w, work' = [work EXCEPT ![b] = w],
         UNCHANGED ask, w.legs = work[b].legs, work[b].open \ {"alias"} \subseteq w.open,
         \A d \in Directories : \A k \in Files : /\ disk'[d][k].writers = disk[d][k].writers
                                                 /\ disk'[d][k].mixed = disk[d][k].mixed
  PROVE  Attended'
<1>1. \A p, d, k : WriterOf(p, d, k) => WriterOf(p, d, k)'
  <2>1. \A p, d, k : WriterOf(p, d, k) /\ (p = b => w.legs = work[b].legs /\ k \in w.open)
                       => WriterOf(p, d, k)'
    BY OthersWrite
  <2>2. \A d, k : WriterOf(b, d, k) => k \in w.open
    BY StoreAssumption DEF WriterOf
  <2> QED BY <2>1, <2>2
<1> QED BY <1>1 DEF Attended, AttendedAt

\* So is every file that no step touched but one of the aliases' texts.
LEMMA AliasWritten ==
  ASSUME IInv, NEW e \in Directories, NEW t, disk' = [disk EXCEPT ![e]["alias"].text = t]
  PROVE  \A d \in Directories : \A k \in Files : /\ disk'[d][k].writers = disk[d][k].writers
                                                 /\ disk'[d][k].mixed = disk[d][k].mixed
<1> SUFFICES ASSUME NEW d \in Directories, NEW k \in Files
             PROVE  disk'[d][k].writers = disk[d][k].writers /\ disk'[d][k].mixed = disk[d][k].mixed
  OBVIOUS
<1>1. disk \in [Directories -> [Files -> FileType]]
  BY DEF IInv, TypeOK
<1>2. disk'[d][k] = IF d = e /\ k = "alias" THEN [disk[d][k] EXCEPT !.text = t] ELSE disk[d][k]
  BY <1>1
<1>3. PICK file \in FileType : file = disk[d][k]
  BY <1>1
<1>4. [file EXCEPT !.text = t].writers = file.writers /\ [file EXCEPT !.text = t].mixed = file.mixed
  BY DEF FileType
<1> QED BY <1>2, <1>3, <1>4

LEMMA RemoveAliasTold ==
  ASSUME IInv, DirectoryInv, NEW b \in Builders, RemoveAlias(b)
  PROVE  DirectoryInv'
<1>1. /\ "alias" \notin work[b].done \cup work[b].open /\ "graph" \in work[b].done
      /\ Begun(work[b])
  BY DEF RemoveAlias, Turn, Before, Begun
<1>2. /\ b \in Writing /\ b \in Running /\ work[b].legs # <<>> /\ work[b].writing
      /\ Dir(b) \in Directories /\ work[b] \in WorkType /\ work[b].graph \in Graphs
      /\ OrderedBy(b) /\ settled = None
  BY <1>1, BuildingHolds
<1>3. PICK d0 \in Directories : d0 = Dir(b)
  BY <1>2
<1>4. PICK g \in Graphs : g = work[b].graph
  BY <1>2
<1>5. PICK w : w = [work[b] EXCEPT !.open = @ \cup {"alias"}]
  OBVIOUS
<1>6. /\ w.open = work[b].open \cup {"alias"} /\ w.done = work[b].done
      /\ w.legs = work[b].legs /\ w.graph = g /\ w.writing = work[b].writing
  BY <1>2, <1>4, <1>5 DEF WorkType
<1>7. work' = [work EXCEPT ![b] = w]
  BY <1>5 DEF RemoveAlias
<1>8. UNCHANGED <<newest, ask, settled, crossed>>
  BY DEF RemoveAlias
<1>9. /\ Dir(b)' = d0 /\ work'[b] = w
  BY <1>3, <1>6, <1>7, OtherBuilds
<1>10. \A d \in Directories : \A k \in Files :
         Text(d, k)' = IF d = d0 /\ k = "alias" THEN Absent ELSE Text(d, k)
  BY <1>3, RemoveTexts
<1>11. {"graph", "alias", "metadata", "index"} = Files
  BY DEF Files
<1>12. Text(d0, "graph") # Absent
  BY <1>1, <1>2, <1>3 DEF OrderedBy
<1>13. WritesOnly(d0, g)
  <2>1. \A d \in Directories : HasGraph(d)' => HasGraph(d)
    BY <1>10, <1>11, <1>12 DEF HasGraph
  <2>2. Holding' \subseteq Holding
    BY <2>1 DEF Holding
  <2> QED BY <1>8, <1>10, <1>11, <1>12, <2>2 DEF WritesOnly
<1>14. OrderedBy(b)'
  <2>1. Text(Dir(b), "graph")' = Text(d0, "graph")'
    BY <1>9
  <2>2. Text(d0, "graph")' # Absent
    BY <1>10, <1>11, <1>12
  <2>3. /\ w.writing /\ w.legs # <<>> /\ w.done \cap w.open = {}
        /\ "alias" \in w.done \cup w.open => "graph" \in w.done
    BY <1>1, <1>2, <1>6 DEF OrderedBy
  <2> QED BY <1>9, <2>1, <2>2, <2>3 DEF OrderedBy
<1>15. Attended'
  <2>1. disk' = [disk EXCEPT ![d0]["alias"].text = Absent]
    BY <1>3 DEF RemoveAlias
  <2> QED BY <1>6, <1>7, <1>8, <2>1, AliasWritten, AliasAttended DEF DirectoryInv
<1>16. \A d \in Directories : \A k \in Files : disk'[d][k].mixed = disk[d][k].mixed
  <2>1. disk' = [disk EXCEPT ![d0]["alias"].text = Absent]
    BY <1>3 DEF RemoveAlias
  <2> QED BY <2>1, AliasWritten
<1>17. Uncrossed'
  <2> SUFFICES ASSUME ~crossed PROVE Uncrossed'
    BY <1>8 DEF Uncrossed
  <2>1. /\ \A c, e \in Writing : c = e
        /\ \A d \in Directories : \A k \in {"graph", "metadata"} : ~disk[d][k].mixed
        /\ Written(b)
    BY <1>2 DEF DirectoryInv, Uncrossed
  <2>2. Writing' \subseteq {b}
    <3>1. \A c \in Writing' : c \in Builders /\ (c # b => c \in Writing)
      BY <1>7, OtherBuilds DEF Writing, Running
    <3> QED BY <1>2, <2>1, <3>1
  <2>3. \A d \in Directories : \A k \in {"graph", "metadata"} : ~disk'[d][k].mixed
    BY <1>11, <1>16, <2>1
  <2>4. newest' = d0
    BY <1>1, <1>3, <1>8, <2>1 DEF Written
  <2>5. \A k \in w.done \ {"index"} : Text(d0, k)' = g
    <3> SUFFICES ASSUME NEW k \in w.done \ {"index"} PROVE Text(d0, k)' = g
      OBVIOUS
    <3>1. k \in Files /\ k # "alias"
      BY <1>1, <1>2, <1>6 DEF WorkType
    <3>2. Text(d0, k) = g
      BY <1>3, <1>4, <1>6, <2>1 DEF Written
    <3> QED BY <1>10, <3>1, <3>2
  <2>6. Written(b)'
    <3>1. \A k : Text(Dir(b), k)' = Text(d0, k)'
      BY <1>9
    <3> QED BY <1>6, <1>9, <2>4, <2>5, <3>1 DEF Written
  <2> QED BY <2>2, <2>3, <2>6 DEF Uncrossed
<1>18. Agreed'
  BY <1>2, <1>8 DEF Agreed
<1> QED
  BY <1>1, <1>2, <1>3, <1>4, <1>6, <1>7, <1>8, <1>13, <1>14, <1>15, <1>17, <1>18, WritingKeeps

LEMMA PlaceAliasTold ==
  ASSUME IInv, DirectoryInv, NEW b \in Builders, PlaceAlias(b)
  PROVE  DirectoryInv'
<1>1. "alias" \in work[b].open /\ Begun(work[b])
  BY DEF PlaceAlias, Begun
<1>2. /\ b \in Writing /\ b \in Running /\ work[b].legs # <<>> /\ work[b].writing
      /\ Dir(b) \in Directories /\ work[b] \in WorkType /\ work[b].graph \in Graphs
      /\ OrderedBy(b) /\ settled = None
  BY <1>1, BuildingHolds
<1>3. PICK d0 \in Directories : d0 = Dir(b)
  BY <1>2
<1>4. PICK g \in Graphs : g = work[b].graph
  BY <1>2
<1>5. PICK w : w = [work[b] EXCEPT !.open = @ \ {"alias"}, !.done = @ \cup {"alias"}]
  OBVIOUS
<1>6. /\ w.open = work[b].open \ {"alias"} /\ w.done = work[b].done \cup {"alias"}
      /\ w.legs = work[b].legs /\ w.graph = g /\ w.writing = work[b].writing
  BY <1>2, <1>4, <1>5 DEF WorkType
<1>7. work' = [work EXCEPT ![b] = w]
  BY <1>5 DEF PlaceAlias, IInv, TypeOK
<1>8. UNCHANGED <<newest, ask, settled, crossed>>
  BY DEF PlaceAlias
<1>9. Dir(b)' = d0 /\ work'[b] = w
  BY <1>3, <1>6, <1>7, OtherBuilds
<1>10. /\ \A d \in Directories : \A k \in Files :
            (d # d0 \/ k # "alias") => Text(d, k)' = Text(d, k)
       /\ Text(d0, "alias")' \in Read(d0, "graph")
  BY <1>3, PlaceTexts
<1>11. {"graph", "alias", "metadata", "index"} = Files
  BY DEF Files
<1>12. Text(d0, "graph") # Absent /\ "graph" \in work[b].done /\ "graph" \notin work[b].open
  BY <1>1, <1>2, <1>3 DEF OrderedBy
<1>13. WritesOnly(d0, g)
  <2>1. \A d \in Directories : HasGraph(d)' => HasGraph(d)
    BY <1>10, <1>11, <1>12 DEF HasGraph
  <2>2. Holding' \subseteq Holding
    BY <2>1 DEF Holding
  <2> QED BY <1>8, <1>10, <1>11, <1>12, <2>2 DEF WritesOnly
<1>14. OrderedBy(b)'
  <2>1. Text(Dir(b), "graph")' = Text(d0, "graph")'
    BY <1>9
  <2>2. Text(d0, "graph")' # Absent
    BY <1>10, <1>11, <1>12
  <2>3. /\ w.writing /\ w.legs # <<>> /\ w.done \cap w.open = {}
        /\ "alias" \in w.done \cup w.open => "graph" \in w.done
    BY <1>2, <1>6, <1>12 DEF OrderedBy
  <2> QED BY <1>9, <2>1, <2>2, <2>3 DEF OrderedBy
<1>15. \A d \in Directories : \A k \in Files : /\ disk'[d][k].writers = disk[d][k].writers
                                               /\ disk'[d][k].mixed = disk[d][k].mixed
  <2>1. disk' = disk \/ \E t : disk' = [disk EXCEPT ![d0]["alias"].text = t]
    BY <1>3 DEF PlaceAlias
  <2> QED BY <2>1, AliasWritten
<1>16. Attended'
  BY <1>6, <1>7, <1>8, <1>15, AliasAttended DEF DirectoryInv
<1>17. Uncrossed'
  <2> SUFFICES ASSUME ~crossed PROVE Uncrossed'
    BY <1>8 DEF Uncrossed
  <2>1. /\ \A c, e \in Writing : c = e
        /\ \A d \in Directories : \A k \in {"graph", "metadata"} : ~disk[d][k].mixed
        /\ Written(b)
    BY <1>2 DEF DirectoryInv, Uncrossed
  <2>2. Writing' \subseteq {b}
    <3>1. \A c \in Writing' : c \in Builders /\ (c # b => c \in Writing)
      BY <1>7, OtherBuilds DEF Writing, Running
    <3> QED BY <1>2, <2>1, <3>1
  <2>3. \A d \in Directories : \A k \in {"graph", "metadata"} : ~disk'[d][k].mixed
    BY <1>11, <1>15, <2>1
  <2>4. newest' = d0
    BY <1>3, <1>8, <1>12, <2>1 DEF Written
  <2>5. Text(d0, "graph") = g
    BY <1>3, <1>4, <1>12, <2>1 DEF Written
  <2>6. disk[d0]["graph"].writers = {}
    BY <1>2, <1>12, <2>1, NobodyWrites
  <2>7. Text(d0, "alias")' = g
    BY <1>10, <2>5, <2>6 DEF Read, Inode
  <2>8. \A k \in w.done \ {"index"} : Text(d0, k)' = g
    <3> SUFFICES ASSUME NEW k \in w.done \ {"index"}, k # "alias" PROVE Text(d0, k)' = g
      BY <2>7
    <3>1. k \in Files /\ k \in work[b].done
      BY <1>2, <1>6 DEF WorkType
    <3>2. Text(d0, k) = g
      BY <1>3, <1>4, <2>1, <3>1 DEF Written
    <3> QED BY <1>10, <3>1, <3>2
  <2>9. Written(b)'
    <3>1. \A k : Text(Dir(b), k)' = Text(d0, k)'
      BY <1>9
    <3> QED BY <1>6, <1>9, <2>4, <2>8, <3>1 DEF Written
  <2> QED BY <2>2, <2>3, <2>9 DEF Uncrossed
<1>18. Agreed'
  BY <1>2, <1>8 DEF Agreed
<1> QED
  BY <1>1, <1>2, <1>3, <1>4, <1>6, <1>7, <1>8, <1>13, <1>14, <1>16, <1>17, <1>18, WritingKeeps

LEMMA EndLegTold ==
  ASSUME IInv, DirectoryInv, NEW b \in Builders, EndLeg(b)
  PROVE  DirectoryInv'
<1>1. work[b].done = Files /\ Begun(work[b])
  BY DEF EndLeg, Begun, Files
<1>2. /\ b \in Writing /\ b \in Running /\ work[b].legs # <<>> /\ work[b].writing
      /\ Dir(b) \in Directories /\ work[b] \in WorkType /\ work[b].graph \in Graphs
      /\ OrderedBy(b) /\ settled = None
  BY <1>1, BuildingHolds
<1>3. PICK d0 \in Directories : d0 = Dir(b)
  BY <1>2
<1>4. PICK g \in Graphs : g = work[b].graph
  BY <1>2
<1>5. work[b].open = {}
  BY <1>1, <1>2 DEF OrderedBy, WorkType
<1>6. PICK more : more = (Len(work[b].legs) > 1)
  OBVIOUS
<1>7. PICK w : w = IF more THEN [work[b] EXCEPT !.legs = Tail(@), !.done = {}] ELSE Idle
  OBVIOUS
<1>8. /\ w.open = {} /\ w.done = {} /\ ~Begun(w)
      /\ more => w.writing /\ w.legs = Tail(work[b].legs) /\ w.graph = g
      /\ ~more => w.legs = <<>> /\ ~w.writing
  BY <1>2, <1>4, <1>5, <1>7 DEF WorkType, Idle, Begun
<1>9. work' = [work EXCEPT ![b] = w]
  BY <1>6, <1>7 DEF EndLeg, IInv, TypeOK
<1>10. UNCHANGED <<disk, linked, newest, ask, crossed>>
       /\ settled' = IF more \/ crossed THEN None ELSE g
  BY <1>2, <1>4, <1>6 DEF EndLeg
<1>11. work'[b] = w
  BY <1>9, OtherBuilds
<1>12. more => w.legs # <<>>
  <2>1. ASSUME more PROVE w.legs # <<>>
    <3>1. IInv'
      BY EndLegKeeps
    <3>2. work[b].legs \in Seq(LegType) /\ Len(work[b].legs) > 1
      BY <1>2, <1>6, <2>1 DEF WorkType
    <3>3. Len(Tail(work[b].legs)) = Len(work[b].legs) - 1
      BY <1>2, <3>2, HeadTailProperties
    <3>4. Len(work[b].legs) \in Nat
      BY <3>2, LenProperties
    <3>5. Len(Tail(work[b].legs)) # 0
      <4>1. \A n \in Nat : n > 1 => n - 1 # 0
        OBVIOUS
      <4> QED BY <3>2, <3>3, <3>4, <4>1, Zenon
    <3>6. Len(<<>>) = 0
      BY EmptySeq
    <3>7. w.legs = <<>> => Len(Tail(work[b].legs)) = Len(<<>>)
      BY <1>8, <2>1
    <3> QED BY <3>5, <3>6, <3>7, Zenon
  <2> QED BY <2>1
<1>13. \A d, k : Text(d, k)' = Text(d, k)
  BY <1>10 DEF Text, Inode
<1>14. WritesOnly(d0, g)
  <2>1. Holding' = Holding
    BY <1>13 DEF Holding, HasGraph
  <2> QED BY <1>10, <1>13, <2>1 DEF WritesOnly
<1>15. OrderedBy(b)'
  BY <1>8, <1>11, <1>12 DEF OrderedBy
<1>16. Attended'
  <2>1. \A p, d, k : WriterOf(p, d, k) => WriterOf(p, d, k)'
    <3>1. \A p, d, k : WriterOf(p, d, k) /\ (p = b => w.legs = work[b].legs /\ k \in w.open)
                         => WriterOf(p, d, k)'
      BY <1>9, <1>10, OthersWrite
    <3>2. \A d, k : ~WriterOf(b, d, k)
      BY <1>5, StoreAssumption DEF WriterOf
    <3> QED BY <3>1, <3>2
  <2> QED BY <1>10, <2>1 DEF DirectoryInv, Attended, AttendedAt
<1>17. Writing' \subseteq Writing /\ (~more => b \notin Writing')
  <2>1. \A c \in Writing' : c \in Builders /\ (c # b => c \in Writing)
    BY <1>9, OtherBuilds DEF Writing, Running
  <2>2. ~more => b \notin Writing'
    BY <1>8, <1>11 DEF Writing, Running
  <2> QED BY <1>2, <2>1, <2>2
<1>18. Uncrossed'
  <2> SUFFICES ASSUME ~crossed PROVE Uncrossed'
    BY <1>10 DEF Uncrossed
  <2>1. /\ \A c, e \in Writing : c = e
        /\ \A d \in Directories : \A k \in {"graph", "metadata"} : ~disk[d][k].mixed
    BY <1>2 DEF DirectoryInv, Uncrossed
  <2>2. Written(b)'
    BY <1>8, <1>11 DEF Written
  <2> QED BY <1>2, <1>10, <1>17, <2>1, <2>2 DEF Uncrossed
<1>19. Agreed'
  <2> SUFFICES ASSUME ~more, ~crossed PROVE Agreed'
    BY <1>10 DEF Agreed
  <2>1. (\A c, e \in Writing : c = e) /\ Written(b)
    BY <1>2 DEF DirectoryInv, Uncrossed
  <2>2. Writing' = {}
    BY <1>2, <1>17, <2>1
  <2>3. newest = d0 /\ Text(d0, "graph") = g /\ Text(d0, "alias") = g /\ Text(d0, "metadata") = g
    BY <1>1, <1>3, <1>4, <2>1 DEF Written, Files
  <2>4. \A k : Text(newest, k)' = Text(newest, k)
    BY <1>10 DEF Text, Inode
  <2> QED BY <1>10, <2>2, <2>3, <2>4 DEF Agreed
<1> QED
  BY <1>2, <1>3, <1>4, <1>8, <1>9, <1>10, <1>14, <1>15, <1>16, <1>18, <1>19, WritingKeeps

LEMMA KillBuildTold ==
  ASSUME IInv, DirectoryInv, NEW b \in Builders, KillBuild(b)
  PROVE  DirectoryInv'
<1>1. b \in Writing /\ b \in Running /\ work[b].legs # <<>>
  BY DEF KillBuild, Writing, Running
<1>2. PICK d0 \in Directories : d0 = Dir(b)
  BY <1>1, LegIsTyped DEF IInv
<1>3. PICK g : g = work[b].graph
  OBVIOUS
<1>4. PICK w : w = Idle
  OBVIOUS
<1>5. w.legs = <<>> /\ w.done = {} /\ w.open = {} /\ ~w.writing /\ ~Begun(w)
  BY <1>4 DEF Idle, Begun
<1>6. work' = [work EXCEPT ![b] = w]
  BY <1>4 DEF KillBuild
<1>7. UNCHANGED <<linked, newest, ask, settled>> /\ crossed' = TRUE
  BY DEF KillBuild
<1>8. settled = None
  BY <1>1 DEF DirectoryInv, Agreed
<1>9. work'[b] = w
  BY <1>6, OtherBuilds
<1>10. \A d \in Directories : \A k \in Files : Text(d, k)' = Text(d, k)
  BY KillTexts
<1>11. {"graph", "alias", "metadata", "index"} = Files
  BY DEF Files
<1>12. WritesOnly(d0, g)
  <2>1. Holding' = Holding
    BY <1>10, <1>11 DEF Holding, HasGraph
  <2> QED BY <1>7, <1>10, <1>11, <2>1 DEF WritesOnly
<1>13. OrderedBy(b)'
  BY <1>5, <1>9 DEF OrderedBy
<1>14. disk' = [disk EXCEPT ![d0] =
                 [f \in Files |-> IF f \in work[b].open THEN Left(@[f], b) ELSE @[f]]]
  BY <1>2 DEF KillBuild
<1>15. Attended'
  <2> SUFFICES ASSUME NEW d \in Directories, NEW k \in Files PROVE AttendedAt(d, k)'
    BY DEF Attended
  <2>1. AttendedAt(d, k) /\ disk[d][k] \in FileType
    BY DEF DirectoryInv, Attended, IInv, TypeOK
  <2>2. disk'[d][k] = IF d = d0 /\ k \in work[b].open THEN Left(disk[d][k], b) ELSE disk[d][k]
    BY <1>14 DEF IInv, TypeOK
  <2>3. \A p : WriterOf(p, d, k) /\ p # b => WriterOf(p, d, k)'
    BY <1>6, <1>7, OthersWrite
  <2>4. WriterOf(b, d, k) => d = d0 /\ k \in work[b].open
    BY <1>2, StoreAssumption DEF WriterOf
  <2>5. CASE d = d0 /\ k \in work[b].open
    <3>1. /\ Left(disk[d][k], b).writers = disk[d][k].writers \ {b}
          /\ Left(disk[d][k], b).mixed => Left(disk[d][k], b).writers # {}
      BY <2>1, LeftAttended DEF AttendedAt
    <3>2. disk'[d][k] = Left(disk[d][k], b)
      BY <2>2, <2>5
    <3> QED BY <2>1, <2>3, <3>1, <3>2 DEF AttendedAt
  <2>6. CASE ~(d = d0 /\ k \in work[b].open)
    <3>1. disk'[d][k] = disk[d][k]
      BY <2>2, <2>6
    <3> QED BY <2>1, <2>3, <2>4, <2>6, <3>1 DEF AttendedAt
  <2> QED BY <2>5, <2>6
<1>16. Uncrossed' /\ Agreed'
  BY <1>7, <1>8 DEF Uncrossed, Agreed
<1> QED
  BY <1>1, <1>2, <1>3, <1>5, <1>6, <1>7, <1>12, <1>13, <1>15, <1>16, WritingKeeps

LEMMA StartBuildTold ==
  ASSUME IInv, DirectoryInv, NEW b \in Builders, NEW p \in Programs[b], StartBuild(b, p)
  PROVE  DirectoryInv'
<1>1. work[b].legs = <<>> /\ UNCHANGED <<disk, linked, newest, ask, settled, crossed>>
  BY DEF StartBuild
<1>2. ~work[b].writing /\ ~Begun(work[b]) /\ b \notin Writing /\ b \notin Running
  BY <1>1 DEF DirectoryInv, Ordered, OrderedBy, Writing, Running
<1>3. PICK w : w = [Idle EXCEPT !.legs = p, !.graph = source]
  OBVIOUS
<1>4. w.done = {} /\ w.open = {} /\ w.writing = FALSE /\ ~Begun(w)
  BY <1>3 DEF Idle, Begun
<1>5. work' = [work EXCEPT ![b] = w]
  BY <1>3 DEF StartBuild
<1>6. work'[b] = w
  BY <1>5, OtherBuilds
<1>7. \A d, k : Text(d, k)' = Text(d, k)
  BY <1>1 DEF Text, Inode
<1>8. Writing' = Writing
  <2>1. b \notin Writing'
    BY <1>4, <1>6 DEF Writing
  <2>2. \A c \in Builders : c # b => (c \in Writing' <=> c \in Writing)
    BY <1>5, OtherBuilds
  <2> QED BY <1>2, <2>1, <2>2 DEF Writing, Running
<1>9. Underway' = Underway
  <2>1. \A c \in Builders :
          c # b => (c \in Running' <=> c \in Running) /\ work'[c] = work[c] /\ Dir(c)' = Dir(c)
    BY <1>5, OtherBuilds
  <2>2. \A c \in Running' : c \in Builders
    BY DEF Running
  <2>3. \A c \in Running : c \in Builders
    BY DEF Running
  <2>4. \A d : (\E c \in Running' : Begun(work[c])' /\ d = Dir(c)')
                <=> \E c \in Running : Begun(work[c]) /\ d = Dir(c)
    BY <1>2, <1>4, <1>6, <2>1, <2>2, <2>3
  <2> QED BY <2>4 DEF Underway
<1>10. Ordered'
  <2> SUFFICES ASSUME NEW c \in Builders PROVE OrderedBy(c)'
    BY DEF Ordered
  <2>1. CASE c = b
    BY <1>4, <1>6, <2>1 DEF OrderedBy
  <2>2. CASE c # b
    <3>1. work'[c] = work[c] /\ OrderedBy(c)
      BY <1>5, <2>2, OtherBuilds DEF DirectoryInv, Ordered
    <3>2. PICK d : d = Dir(c) /\ d = Dir(c)'
      BY <1>5, <2>2, OtherBuilds
    <3>3. Text(Dir(c), "graph")' = Text(d, "graph")'
      BY <3>2
    <3> QED BY <1>7, <3>1, <3>2, <3>3 DEF OrderedBy
  <2> QED BY <2>1, <2>2
<1>11. Holding' = Holding /\ NewestHolds'
  <2>1. Holding' = Holding
    BY <1>7 DEF Holding, HasGraph
  <2> QED BY <1>1, <2>1 DEF NewestHolds, DirectoryInv
<1>12. Attended'
  <2>1. \A q, d, k : WriterOf(q, d, k) => WriterOf(q, d, k)'
    <3>1. \A q, d, k : WriterOf(q, d, k) /\ (q = b => w.legs = work[b].legs /\ k \in w.open)
                         => WriterOf(q, d, k)'
      BY <1>1, <1>5, OthersWrite
    <3>2. \A d, k : ~WriterOf(b, d, k)
      BY <1>2, StoreAssumption DEF WriterOf, Begun
    <3> QED BY <3>1, <3>2
  <2> QED BY <1>1, <2>1 DEF DirectoryInv, Attended, AttendedAt
<1>13. Uncrossed'
  <2> SUFFICES ASSUME ~crossed PROVE Uncrossed'
    BY <1>1 DEF Uncrossed
  <2>1. /\ \A c, e \in Writing : c = e
        /\ \A d \in Directories : \A k \in {"graph", "metadata"} : ~disk[d][k].mixed
        /\ \A c \in Writing : Written(c)
    BY DEF DirectoryInv, Uncrossed
  <2>2. ASSUME NEW c \in Writing PROVE Written(c)'
    <3>1. c \in Builders /\ c # b
      BY <1>2 DEF Writing, Running
    <3>2. work'[c] = work[c] /\ Written(c)
      BY <1>5, <2>1, <3>1, OtherBuilds
    <3>3. PICK d : d = Dir(c) /\ d = Dir(c)'
      BY <1>5, <3>1, OtherBuilds
    <3>4. \A k : Text(Dir(c), k)' = Text(d, k)'
      BY <3>3
    <3> QED BY <1>1, <1>7, <3>2, <3>3, <3>4 DEF Written
  <2> QED BY <1>1, <1>8, <2>1, <2>2 DEF Uncrossed
<1>14. Agreed'
  <2>1. \A k : Text(newest, k)' = Text(newest, k)
    BY <1>1 DEF Text, Inode
  <2> QED BY <1>1, <1>8, <2>1 DEF DirectoryInv, Agreed
<1>15. \A a : Told(a) => Told(a)'
  <2> SUFFICES ASSUME NEW a, Told(a) PROVE Told(a)'
    OBVIOUS
  <2>1. AloneIn(a)' <=> AloneIn(a)
    BY <1>1 DEF AloneIn
  <2>2. FreshIn(a) => FreshIn(a)'
    <3>1. Looked(a)' = Looked(a)
      BY <1>1 DEF Looked
    <3>2. \A d, may : (Covered(d, may)' <=> Covered(d, may))
                      /\ (AliasCovered(d, may)' <=> AliasCovered(d, may))
      BY <1>7 DEF Covered, AliasCovered
    <3>3. \A c \in Writing : work'[c] = work[c]
      BY <1>2, <1>5, OtherBuilds DEF Writing, Running
    <3> QED BY <1>1, <1>8, <1>9, <1>11, <3>1, <3>2, <3>3 DEF FreshIn
  <2> QED BY <2>1, <2>2 DEF Told
<1>16. AllTold'
  <2> SUFFICES ASSUME NEW s \in Readers PROVE Told(ask[s])'
    BY DEF AllTold
  <2>1. PICK a : a = ask[s] /\ a = ask'[s]
    BY <1>1
  <2>2. Told(a)'
    BY <1>15, <2>1 DEF DirectoryInv, AllTold
  <2> QED BY <2>1, <2>2
<1>17. Solitary'
  BY <1>1 DEF DirectoryInv, Solitary, Asking
<1> QED BY <1>10, <1>11, <1>12, <1>13, <1>14, <1>16, <1>17 DEF DirectoryInv

\* What readers look at does not change where a build begins to write.
LEMMA BeginAsks ==
  ASSUME IInv, NEW b \in Builders, Begin(b)
  PROVE  \A s \in Readers : /\ ask'[s].at = ask[s].at /\ ask'[s].dir = ask[s].dir
                            /\ ask'[s].alone = ask[s].alone
<1> SUFFICES ASSUME NEW s \in Readers
             PROVE  /\ ask'[s].at = ask[s].at /\ ask'[s].dir = ask[s].dir
                    /\ ask'[s].alone = ask[s].alone
  OBVIOUS
<1>1. PICK o \in AskType : o = ask[s]
  BY DEF IInv, TypeOK
<1>2. ask'[s] = o \/ \E m : ask'[s] = [o EXCEPT !.calm = FALSE, !.may = m]
  BY <1>1 DEF Begin
<1>3. \A m : /\ [o EXCEPT !.calm = FALSE, !.may = m].at = o.at
             /\ [o EXCEPT !.calm = FALSE, !.may = m].dir = o.dir
             /\ [o EXCEPT !.calm = FALSE, !.may = m].alone = o.alone
  BY DEF AskType
<1> QED BY <1>1, <1>2, <1>3

\* A build that opens a file, its first or not.
LEMMA OpenFileWrites ==
  ASSUME IInv, DirectoryInv, NEW b \in Builders, NEW f \in Files, OpenFile(b, f),
         NEW d0 \in Directories, d0 = Dir(b), NEW g, g = work[b].graph,
         NEW w, w = [work[b] EXCEPT !.open = @ \cup {f}, !.writing = TRUE]
  PROVE  WritesOnly(d0, g) /\ OrderedBy(b)' /\ Attended' /\ Uncrossed'
<1>1. /\ work[b].legs # <<>> /\ f \notin work[b].done \cup work[b].open
      /\ f = "alias" => "graph" \in work[b].done
      /\ f # "alias" /\ Begin(b)
  BY DEF OpenFile, Turn, Before
<1>2. work[b] \in WorkType /\ OrderedBy(b) /\ b \in Running
  BY <1>1 DEF IInv, TypeOK, DirectoryInv, Ordered, Running
<1>3. /\ w.open = work[b].open \cup {f} /\ w.done = work[b].done
      /\ w.legs = work[b].legs /\ w.graph = g /\ w.writing = TRUE
  BY <1>2 DEF WorkType
<1>4. work' = [work EXCEPT ![b] = w]
  BY DEF OpenFile
<1>5. UNCHANGED linked /\ newest' = IF f = "graph" THEN d0 ELSE newest
  BY DEF OpenFile
<1>6. Dir(b)' = d0 /\ work'[b] = w
  BY <1>3, <1>4, OtherBuilds
<1>7. \A d \in Directories : \A k \in Files :
        Text(d, k)' = IF d = d0 /\ Inode(d, k) = f THEN Torn ELSE Text(d, k)
  BY OpenTexts
<1>8. {"graph", "alias", "metadata", "index"} = Files
  BY DEF Files
<1>9. \A d : /\ Inode(d, "graph") = "graph" /\ Inode(d, "metadata") = "metadata"
             /\ Inode(d, "alias") \in {"alias", "graph"}
  BY DEF Inode
<1>10. Torn # Absent
  BY StoreAssumption
<1>11. WritesOnly(d0, g)
  <2>1. \A d \in Directories : \A k \in {"graph", "metadata"} :
          Text(d, k)' \in {Text(d, k), Torn, g}
    BY <1>7, <1>8
  <2>2. \A d \in Directories :
          Text(d, "graph")' = Absent =>
            Text(d, "graph") = Absent /\ Text(d, "alias")' = Text(d, "alias")
    BY <1>1, <1>7, <1>8, <1>9, <1>10
  <2>3. CASE f = "graph"
    BY <1>5, <1>7, <1>8, <1>9, <1>10, <2>1, <2>2, <2>3 DEF WritesOnly
  <2>4. CASE f # "graph"
    <3>1. \A d \in Directories : HasGraph(d)' <=> HasGraph(d)
      BY <1>1, <1>7, <1>8, <1>9, <2>4 DEF HasGraph
    <3>2. Holding' \subseteq Holding
      BY <3>1 DEF Holding
    <3> QED BY <1>5, <2>1, <2>2, <2>4, <3>2 DEF WritesOnly
  <2> QED BY <2>3, <2>4
<1>12. "graph" \in w.done \cup w.open => Text(d0, "graph")' # Absent
  BY <1>2, <1>3, <1>7, <1>8, <1>9, <1>10 DEF OrderedBy
<1>13. OrderedBy(b)'
  <2>1. Text(Dir(b), "graph")' = Text(d0, "graph")'
    BY <1>6
  <2>2. /\ w.writing /\ w.legs # <<>> /\ w.done \cap w.open = {}
        /\ "alias" \in w.done \cup w.open => "graph" \in w.done
    BY <1>1, <1>2, <1>3 DEF OrderedBy
  <2> QED BY <1>6, <1>12, <2>1, <2>2 DEF OrderedBy
<1>14. /\ disk'[d0][f] = Opened(disk[d0][f], b)
       /\ \A d \in Directories : \A k \in Files :
            ~(d = d0 /\ k = f) => disk'[d][k] = disk[d][k]
  BY DEF OpenFile, IInv, TypeOK
<1>15. Attended'
  <2> SUFFICES ASSUME NEW d \in Directories, NEW k \in Files PROVE AttendedAt(d, k)'
    BY DEF Attended
  <2>1. AttendedAt(d, k)
    BY DEF DirectoryInv, Attended
  <2>2. \A p : WriterOf(p, d, k) => WriterOf(p, d, k)'
    <3>1. \A s \in Readers : ask'[s].at = ask[s].at /\ ask'[s].dir = ask[s].dir
      BY <1>1, BeginAsks
    <3>2. \A p : WriterOf(p, d, k) /\ (p = b => w.legs = work[b].legs /\ k \in w.open)
                   => WriterOf(p, d, k)'
      BY <1>4, <3>1, OthersWrite
    <3>3. WriterOf(b, d, k) => k \in work[b].open
      BY StoreAssumption DEF WriterOf
    <3> QED BY <1>3, <3>2, <3>3
  <2>3. CASE d = d0 /\ k = f
    <3>1. WriterOf(b, d, k)'
      BY <1>1, <1>3, <1>6, <2>3 DEF WriterOf
    <3> QED BY <1>14, <2>1, <2>2, <2>3, <3>1 DEF AttendedAt, Opened
  <2>4. CASE ~(d = d0 /\ k = f)
    BY <1>14, <2>1, <2>2, <2>4 DEF AttendedAt
  <2> QED BY <2>3, <2>4
<1>16. Uncrossed'
  <2> SUFFICES ASSUME ~crossed' PROVE Uncrossed'
    BY DEF Uncrossed
  <2>1. Writing \subseteq {b} /\ (Writing = {} \/ ~crossed)
    <3>1. CASE b \in Writing
      <4>1. ~crossed
        BY <1>1, <3>1 DEF Begin
      <4> QED BY <3>1, <4>1 DEF DirectoryInv, Uncrossed
    <3>2. CASE b \notin Writing
      <4>1. ~Begun(work[b])
        BY <3>2, BegunIsWriting DEF DirectoryInv
      <4>2. Writing = {}
        BY <1>1, <3>2, <4>1 DEF Begin, Begun
      <4> QED BY <4>2
    <3> QED BY <3>1, <3>2
  <2>2. Writing' \subseteq {b}
    <3>1. \A c \in Writing' : c \in Builders /\ (c # b => c \in Writing)
      BY <1>4, OtherBuilds DEF Writing, Running
    <3> QED BY <2>1, <3>1
  <2>3. \A d \in Directories : \A k \in {"graph", "metadata"} : ~disk[d][k].mixed
    <3>1. CASE Writing = {}
      BY <3>1, NobodyWrites
    <3>2. CASE ~crossed
      BY <3>2 DEF DirectoryInv, Uncrossed
    <3> QED BY <2>1, <3>1, <3>2
  <2>4. \A d \in Directories : \A k \in {"graph", "metadata"} : ~disk'[d][k].mixed
    <3> SUFFICES ASSUME NEW d \in Directories, NEW k \in {"graph", "metadata"}
                 PROVE  ~disk'[d][k].mixed
      OBVIOUS
    <3>1. CASE d = d0 /\ k = f
      <4>1. \A c \in Writing : k \notin work[c].open
        BY <1>1, <2>1, <3>1
      <4>2. disk[d][k].writers = {} /\ ~disk[d][k].mixed
        BY <4>1, NobodyWrites
      <4>3. disk'[d][k].mixed = (disk[d][k].mixed \/ disk[d][k].writers # {})
        BY <1>14, <3>1 DEF Opened
      <4> QED BY <4>2, <4>3
    <3>2. CASE ~(d = d0 /\ k = f)
      BY <1>8, <1>14, <2>3, <3>2
    <3> QED BY <3>1, <3>2
  <2>5. Begun(work[b]) => Written(b)
    <3> SUFFICES ASSUME Begun(work[b]) PROVE Written(b)
      OBVIOUS
    <3>1. b \in Writing
      BY BegunIsWriting DEF DirectoryInv
    <3> QED BY <2>1, <3>1 DEF DirectoryInv, Uncrossed
  <2>6. "graph" \in w.done \cup w.open => newest' = d0
    BY <1>3, <1>5, <2>5 DEF Written, Begun
  <2>7. \A k \in w.done \ {"index"} : Text(d0, k)' = g
    <3> SUFFICES ASSUME NEW k \in w.done \ {"index"} PROVE Text(d0, k)' = g
      OBVIOUS
    <3>1. k \in Files /\ k # f /\ Begun(work[b])
      BY <1>1, <1>2, <1>3 DEF WorkType, Begun
    <3>2. Text(d0, k) = g
      BY <1>3, <2>5, <3>1 DEF Written
    <3>3. Inode(d0, k) # f
      <4>1. k = "alias" => "graph" \in work[b].done
        BY <1>2, <1>3 DEF OrderedBy
      <4> QED BY <1>1, <3>1, <4>1 DEF Inode
    <3> QED BY <1>7, <3>1, <3>2, <3>3
  <2>8. Written(b)'
    <3>1. \A k : Text(Dir(b), k)' = Text(d0, k)'
      BY <1>6
    <3> QED BY <1>3, <1>6, <2>6, <2>7, <3>1 DEF Written
  <2> QED BY <2>2, <2>4, <2>8 DEF Uncrossed
<1> QED BY <1>11, <1>13, <1>15, <1>16

LEMMA OpenFileTold ==
  ASSUME IInv, DirectoryInv, NEW b \in Builders, NEW f \in Files, OpenFile(b, f)
  PROVE  DirectoryInv'
<1>1. work[b].legs # <<>> /\ f # "alias" /\ Begin(b)
  BY DEF OpenFile, Turn
<1>2. b \in Running /\ work[b].graph \in Graphs
  BY <1>1 DEF Running, IInv, Worked, WorkedBy
<1>3. PICK d0 \in Directories : d0 = Dir(b)
  BY <1>1, LegIsTyped DEF IInv
<1>4. PICK g \in Graphs : g = work[b].graph
  BY <1>2
<1>5. PICK w : w = [work[b] EXCEPT !.open = @ \cup {f}, !.writing = TRUE]
  OBVIOUS
<1>6. /\ work' = [work EXCEPT ![b] = w] /\ w.legs = work[b].legs /\ w.graph = g
      /\ WritesOnly(d0, g) /\ OrderedBy(b)' /\ Attended' /\ Uncrossed'
  <2>1. WritesOnly(d0, g) /\ OrderedBy(b)' /\ Attended' /\ Uncrossed'
    BY <1>3, <1>4, <1>5, OpenFileWrites
  <2>2. work' = [work EXCEPT ![b] = w]
    BY <1>5 DEF OpenFile
  <2>3. work[b] \in WorkType
    BY DEF IInv, TypeOK
  <2>4. w.legs = work[b].legs /\ w.graph = g
    BY <1>4, <1>5, <2>3 DEF WorkType
  <2> QED BY <2>1, <2>2, <2>4
<1>7. CASE Begun(work[b])
  <2>1. b \in Writing /\ settled = None
    BY <1>7, BuildingHolds
  <2>2. UNCHANGED <<settled, ask>>
    BY <1>1, <1>7 DEF Begin, Begun
  <2>3. Agreed'
    BY <2>1, <2>2 DEF Agreed
  <2> QED BY <1>3, <1>4, <1>6, <1>7, <2>1, <2>2, <2>3, WritingKeeps
<1>8. CASE ~Begun(work[b])
  <2>1. Agreed'
    BY <1>1, <1>8 DEF Begin, Begun, Agreed
  <2>2. ask' = [r \in Readers |->
            IF r \in Asking
            THEN [ask[r] EXCEPT !.calm = FALSE, !.may = @ \cup {g} \cup
                    (Graphs \cap {Text(d0, "metadata"), Text(d0, "graph")})]
            ELSE ask[r]]
    BY <1>1, <1>3, <1>4, <1>8 DEF Begin, Begun
  <2>3. AllTold'
    <3> SUFFICES ASSUME NEW s \in Readers PROVE Told(ask[s])'
      BY DEF AllTold
    <3>1. PICK o \in AskType : o = ask[s]
      BY DEF IInv, TypeOK
    <3>2. PICK a : a = ask'[s]
      OBVIOUS
    <3>3. Told(o)
      BY <3>1 DEF DirectoryInv, AllTold
    <3>4. CASE s \notin Asking
      <4>1. a = o /\ o.at \in Ended
        BY <2>2, <3>1, <3>2, <3>4 DEF Asking
      <4>2. Told(a)'
        BY <3>3, <4>1 DEF Told
      <4> QED BY <3>2, <4>2
    <3>5. CASE s \in Asking
      <4>1. PICK may : may = o.may \cup {g} \cup
                               (Graphs \cap {Text(d0, "metadata"), Text(d0, "graph")})
        OBVIOUS
      <4>2. a = [o EXCEPT !.calm = FALSE, !.may = may]
        BY <2>2, <3>1, <3>2, <3>5, <4>1
      <4>3. /\ a.what = o.what /\ a.at = o.at /\ a.next = o.next /\ a.dir = o.dir
            /\ a.metadata = o.metadata /\ a.index = o.index /\ a.graph = o.graph
            /\ a.may = may /\ a.calm = FALSE /\ a.alone = o.alone
        BY <4>2 DEF AskType
      <4>4. o.at \notin Ended /\ FreshIn(o)
        BY <3>1, <3>3, <3>5 DEF Asking, Told
      <4>5. o.may \subseteq may /\ g \in may /\ may \subseteq Graphs
        BY <4>1 DEF AskType
      <4>6. FreshIn(a)
        <5>1. \A d : /\ Covered(d, o.may) => Covered(d, may)
                     /\ AliasCovered(d, o.may) => AliasCovered(d, may)
          BY <4>5 DEF Covered, AliasCovered
        <5>2. /\ Looked(a) = Looked(o) /\ (PastGraph(a) <=> PastGraph(o))
              /\ (BeforeGraph(a) <=> BeforeGraph(o))
          BY <4>3 DEF Looked, PastGraph, BeforeGraph
        <5>3. o.may = Graphs => may = Graphs
          BY <4>5
        <5> QED BY <4>3, <4>4, <4>5, <5>1, <5>2, <5>3 DEF FreshIn
      <4>7. Covered(d0, a.may)
        BY <4>1, <4>3 DEF Covered
      <4>8. FreshIn(a)'
        BY <1>2, <1>3, <1>4, <1>6, <4>3, <4>5, <4>6, <4>7, BuildBeside
      <4>9. Told(a)'
        BY <4>3, <4>4, <4>8 DEF Told, AloneIn, Ended
      <4> QED BY <3>2, <4>9
    <3> QED BY <3>4, <3>5
  <2>4. Solitary'
    <3>1. \A s \in Readers : ask'[s].at = ask[s].at /\ ask'[s].alone = ask[s].alone
      BY <1>1, BeginAsks
    <3>2. Asking' = Asking
      BY <3>1 DEF Asking
    <3> QED BY <3>1, <3>2 DEF DirectoryInv, Solitary, Asking
  <2>5. Ordered'
    BY <1>6, OthersOrdered DEF Ordered, DirectoryInv
  <2>6. NewestHolds'
    BY <1>6, HoldingStays DEF DirectoryInv
  <2> QED BY <1>6, <2>1, <2>3, <2>4, <2>5, <2>6 DEF DirectoryInv
<1> QED BY <1>7, <1>8

-----------------------------------------------------------------------------
LEMMA InitTold == ASSUME Init PROVE DirectoryInv
<1>1. /\ Builders \cap Readers = {} /\ Default \in Directories
      /\ \A b \in Builders : work[b] = Idle
      /\ \A r \in Readers : ask[r] = NoAsk
      /\ linked = {} /\ newest \in Directories
  BY StoreAssumption DEF Init
<1>2. /\ Idle.legs = <<>> /\ Idle.done = {} /\ Idle.open = {} /\ ~Idle.writing
      /\ NoAsk.at = "idle"
  BY DEF Idle, NoAsk
<1>3. Ordered
  BY <1>1, <1>2 DEF Ordered, OrderedBy, Begun
<1>4. Writing = {} /\ Asking = {}
  BY <1>1, <1>2 DEF Writing, Running, Asking, Ended
<1>5. AllTold /\ Solitary
  BY <1>1, <1>2, <1>4 DEF AllTold, Told, Ended, Solitary
<1>6. \A d \in Directories, k \in Files : disk[d][k].writers = {} /\ ~disk[d][k].mixed
  <2>1. \A d \in Directories, k \in Files : \E t : disk[d][k] = Untouched(t)
    <3>1. \A k \in Files : \E t : EmptyDirectory[k] = Untouched(t)
      BY DEF EmptyDirectory
    <3>2. \A g : \A k \in Files : \E t : LegacyDirectory(g)[k] = Untouched(t)
      BY DEF EmptyDirectory, LegacyDirectory
    <3>3. \A g : \A k \in Files : \E t : BuiltDirectory(g)[k] = Untouched(t)
      BY DEF BuiltDirectory
    <3>4. \A d \in Directories : disk[d] = EmptyDirectory
                                 \/ \E g : disk[d] \in {LegacyDirectory(g), BuiltDirectory(g)}
      BY DEF Init
    <3> QED BY <3>1, <3>2, <3>3, <3>4
  <2>2. \A t : Untouched(t).writers = {} /\ Untouched(t).mixed = FALSE
    BY DEF Untouched
  <2> QED BY <2>1, <2>2
<1>7. Attended
  BY <1>6 DEF Attended, AttendedAt
<1>8. Uncrossed
  BY <1>4, <1>6 DEF Uncrossed, Files
<1>9. \A d, k : Text(d, k) = disk[d][k].text
  BY <1>1 DEF Text, Inode
<1>10. CASE settled = None /\ disk = [d \in Directories |-> EmptyDirectory]
  <2>1. \A d \in Directories : Text(d, "graph") = Absent /\ Text(d, "alias") = Absent
    BY <1>9, <1>10 DEF EmptyDirectory, Untouched, Files
  <2>2. NewestHolds
    BY <2>1 DEF NewestHolds, Holding, HasGraph
  <2>3. Agreed
    BY <1>10 DEF Agreed
  <2> QED BY <1>3, <1>5, <1>7, <1>8, <2>2, <2>3 DEF DirectoryInv
<1>11. CASE settled # None
  <2>1. PICK g \in Graphs : settled = g /\ disk[newest] \in {LegacyDirectory(g), BuiltDirectory(g)}
    BY <1>1, <1>11 DEF Init
  <2>2. /\ BuiltDirectory(g)["alias"].text = g /\ BuiltDirectory(g)["graph"].text = g
        /\ BuiltDirectory(g)["metadata"].text = g
    BY DEF BuiltDirectory, Untouched, Files
  <2>3. /\ LegacyDirectory(g)["alias"].text = g /\ LegacyDirectory(g)["graph"].text = Absent
        /\ LegacyDirectory(g)["metadata"].text = Absent
    BY DEF LegacyDirectory, EmptyDirectory, Untouched, Files
  <2>4. /\ Text(newest, "alias") = g
        /\ {Text(newest, "graph"), Text(newest, "metadata")} \subseteq {g, Absent}
    BY <1>9, <2>1, <2>2, <2>3
  <2>5. NewestHolds
    BY <1>1, <2>1, <2>4, StoreAssumption DEF NewestHolds, Holding, HasGraph
  <2>6. Agreed
    BY <1>4, <2>1, <2>4 DEF Agreed
  <2> QED BY <1>3, <1>5, <1>7, <1>8, <2>5, <2>6 DEF DirectoryInv
<1>12. settled # None \/ (settled = None /\ disk = [d \in Directories |-> EmptyDirectory])
  BY StoreAssumption DEF Init
<1> QED BY <1>10, <1>11, <1>12

LEMMA NextTold == ASSUME IInv, DirectoryInv, [Next]_vars PROVE DirectoryInv'
<1>1. CASE Edit
  BY <1>1, UndisturbedTold DEF Edit, buildVars
<1>2. CASE \E b \in Builders : \E p \in Programs[b] : StartBuild(b, p)
  BY <1>2, StartBuildTold
<1>3. CASE \E b \in Builders : Build(b)
  BY <1>3, OpenFileTold, CloseFileTold, RemoveAliasTold, PlaceAliasTold, EndLegTold DEF Build
<1>4. CASE \E b \in Builders : KillBuild(b)
  BY <1>4, KillBuildTold
<1>5. CASE \E r \in Readers : \E q \in Questions[r] : StartAsk(r, q)
  BY <1>5, StartAskTold
<1>6. CASE \E r \in Readers : Answer(r)
  BY <1>6, FindTold, ReadMetadataTold, ReadIndexTold, TakeCurrentTold, LoadGraphTold,
     LoadOrCreateTold, OpenIndexTold, CloseIndexTold DEF Answer
<1>7. CASE \E r \in Readers : KillReader(r)
  BY <1>7, KillReaderTold
<1>8. CASE UNCHANGED vars
  BY <1>8, UndisturbedTold DEF vars, buildVars
<1> QED
  BY <1>1, <1>2, <1>3, <1>4, <1>5, <1>6, <1>7, <1>8 DEF Next

LEMMA SpecDirectories == Spec => [](IInv /\ DirectoryInv)
<1>1. Init => IInv /\ DirectoryInv
  BY InitHolds, InitTold
<1>2. IInv /\ DirectoryInv /\ [Next]_vars => IInv' /\ DirectoryInv'
  BY NextKeeps, NextTold
<1> QED
  BY <1>1, <1>2, PTL DEF Spec

\* A directory that a build left which ran alone to its end has that build's graph
\* under both names, for any number of builds before it, killed or crossed.
THEOREM SettledDirectoriesAgree == Spec => []SettledDirectoryAgrees
<1>1. IInv /\ DirectoryInv => SettledDirectoryAgrees
  <2> SUFFICES ASSUME IInv, DirectoryInv, settled # None PROVE SettledDirectoryAgrees
    BY DEF SettledDirectoryAgrees
  <2>1. NewestDirectory = newest
    BY NewestFound
  <2> QED BY <2>1 DEF DirectoryInv, Agreed, SettledDirectoryAgrees
<1> QED
  BY <1>1, SpecDirectories, PTL

\* A command answers from the graph of the last build that ran alone, unless another
\* build wrote meanwhile, for any number of builds, commands and directories.
THEOREM AnswersStayCurrent == Spec => []AnswersAreCurrent
<1>1. IInv /\ DirectoryInv => AnswersAreCurrent
  BY DEF DirectoryInv, AllTold, Told, AnswersAreCurrent, Answered, Used
<1> QED
  BY <1>1, SpecDirectories, PTL

\* Only its own step ends a command, and one that is alone leaves the index it has.
LEMMA StepRepairs ==
  ASSUME IInv, DirectoryInv, NEW r \in Readers, Answer(r) \/ KillReader(r),
         r \in Asking, ask'[r].at = "answered", ask[r].alone, ask[r].calm,
         ask[r].what # "query"
  PROVE  \/ disk'[ask[r].dir]["index"].text = ask'[r].index
         \/ ask[r].at = "index" /\ Text(ask[r].dir, "index") = Torn
<1> DEFINE a == ask[r]
<1>1. a \in AskType /\ HeldBy(a) /\ AloneIn(a) /\ FreshIn(a)
  BY AskingHolds DEF Asking
<1>2. ask \in [Readers -> AskType]
  BY DEF IInv, TypeOK
<1>3. ASSUME NEW fields, Step(r, fields)
      PROVE  fields.at = "answered" /\ ask'[r] = fields /\ disk' = disk
  BY <1>2, <1>3 DEF Step
<1>4. CASE Find(r)
  <2>1. a.next = "answered"
    <3>1. PICK e : Step(r, [a EXCEPT !.at = a.next, !.dir = e])
      BY <1>4 DEF Find
    <3>2. [a EXCEPT !.at = a.next, !.dir = e].at = a.next
      BY <1>1 DEF AskType
    <3> QED BY <1>3, <3>1, <3>2
  <2> QED BY <1>1, <1>4, <2>1 DEF Find, HeldBy
<1>5. CASE ReadMetadata(r)
  <2>1. PICK t : Step(r, [a EXCEPT !.metadata = t])
    BY <1>5 DEF ReadMetadata
  <2>2. [a EXCEPT !.metadata = t].at = a.at
    BY <1>1 DEF AskType
  <2> QED BY <1>3, <1>5, <2>1, <2>2 DEF ReadMetadata
<1>6. CASE ReadIndex(r)
  <2>1. PICK t : Step(r, [a EXCEPT !.index = t])
    BY <1>6 DEF ReadIndex
  <2>2. [a EXCEPT !.index = t].at = a.at
    BY <1>1 DEF AskType
  <2> QED BY <1>3, <1>6, <2>1, <2>2 DEF ReadIndex
<1>7. CASE TakeCurrent(r)
  <2>1. CASE Current(a.metadata, a.index)
    <3>1. ask'[r] = End(a) /\ disk' = disk
      BY <1>3, <1>7, <2>1 DEF TakeCurrent
    <3>2. End(a).index = a.index
      BY <1>1 DEF End, AskType
    <3>3. a.index # None /\ a.at = "current"
      BY <1>7 DEF TakeCurrent
    <3>4. disk[a.dir]["index"].text = a.index
      BY <1>1, <3>3 DEF AloneIn
    <3> QED BY <3>1, <3>2, <3>4
  <2>2. CASE ~Current(a.metadata, a.index)
    <3>1. Step(r, [Look(r, "graph") EXCEPT !.metadata = None, !.index = None])
      BY <1>7, <2>2 DEF TakeCurrent
    <3>2. [Look(r, "graph") EXCEPT !.metadata = None, !.index = None].at = "find"
      BY <1>1 DEF Look, AskType
    <3> QED BY <1>3, <3>1, <3>2
  <2> QED BY <2>1, <2>2
<1>8. CASE LoadGraph(r)
  <2>1. PICK t, m : Step(r, [[a EXCEPT !.graph = Usable(t), !.may = m]
                               EXCEPT !.at = "find", !.next = "index"])
    BY <1>1, <1>8 DEF LoadGraph, AskType
  <2>2. [[a EXCEPT !.graph = Usable(t), !.may = m]
           EXCEPT !.at = "find", !.next = "index"].at = "find"
    BY <1>1 DEF AskType
  <2> QED BY <1>3, <2>1, <2>2
<1>9. CASE LoadOrCreate(r)
  <2>1. a.at = "index"
    BY <1>9 DEF LoadOrCreate
  <2>2. PICK e \in Directories : e = a.dir
    BY <1>1, <2>1 DEF HeldBy, Touching
  <2> DEFINE own == [a EXCEPT !.index = a.graph]
  <2>3. PICK t \in Read(a.dir, "index") :
          Step(r, CASE t = Torn -> End(own)
                    [] t # Torn /\ Valid(t, a.graph) -> End([a EXCEPT !.index = t])
                    [] OTHER -> Rebuilt(own))
    BY <1>9 DEF LoadOrCreate
  <2>4. t = disk[e]["index"].text
    BY <2>1, <2>2, <2>3, LoneIndex
  <2>5. CASE t = Torn
    BY <2>1, <2>2, <2>4, <2>5 DEF Text, Inode
  <2>6. CASE t # Torn /\ Valid(t, a.graph)
    <3>1. ask'[r] = End([a EXCEPT !.index = t]) /\ disk' = disk
      BY <1>3, <2>3, <2>6
    <3>2. End([a EXCEPT !.index = t]).index = t
      BY <1>1 DEF End, AskType
    <3> QED BY <2>2, <2>4, <3>1, <3>2
  <2>7. CASE t # Torn /\ ~Valid(t, a.graph)
    <3>1. Step(r, Rebuilt(own))
      BY <2>3, <2>7
    <3>2. Rebuilt(own).at = "write"
      BY <1>1 DEF Rebuilt, AskType
    <3> QED BY <1>3, <3>1, <3>2
  <2> QED BY <2>5, <2>6, <2>7
<1>10. CASE OpenIndex(r)
  <2>1. ask'[r] = [a EXCEPT !.at = "fill"]
    BY <1>2, <1>10 DEF OpenIndex
  <2>2. [a EXCEPT !.at = "fill"].at = "fill"
    BY <1>1 DEF AskType
  <2> QED BY <2>1, <2>2
<1>11. CASE CloseIndex(r)
  <2>1. a.at = "fill" /\ ask'[r] = End(a)
    BY <1>2, <1>11 DEF CloseIndex
  <2>2. PICK e \in Directories : e = a.dir
    BY <1>1, <2>1 DEF HeldBy, Touching
  <2>3. ~disk[e]["index"].mixed
    BY <1>1, <2>1, <2>2 DEF AloneIn
  <2>4. PICK file \in Closed(disk[e]["index"], r, a.index) :
          disk' = [disk EXCEPT ![e]["index"] = file]
    BY <1>11, <2>2 DEF CloseIndex
  <2>5. file = [Left(disk[e]["index"], r) EXCEPT !.text = a.index]
    BY <2>3, <2>4 DEF Closed
  <2>6. file.text = a.index
    <3>1. disk[e]["index"] \in FileType
      BY DEF IInv, TypeOK, Files
    <3> QED BY <2>5, <3>1 DEF Left, FileType
  <2>7. disk'[e]["index"] = file
    BY <2>4 DEF IInv, TypeOK, Files
  <2>8. End(a).index = a.index
    BY <1>1 DEF End, AskType
  <2> QED BY <2>1, <2>2, <2>6, <2>7, <2>8
<1>12. CASE KillReader(r)
  <2>1. ask'[r] = NoAsk
    BY <1>2, <1>12 DEF KillReader
  <2> QED BY <2>1 DEF NoAsk
<1> QED
  BY <1>4, <1>5, <1>6, <1>7, <1>8, <1>9, <1>10, <1>11, <1>12 DEF Answer

LEMMA NextRepairs ==
  ASSUME IInv, DirectoryInv, Next, NEW r \in Readers PROVE Repairs(r)
<1> SUFFICES ASSUME r \in Asking, ask'[r].at = "answered", ask[r].alone, ask[r].calm,
                    ask[r].what # "query"
             PROVE  \/ disk'[ask[r].dir]["index"].text = ask'[r].index
                    \/ ask[r].at = "index" /\ Text(ask[r].dir, "index") = Torn
  BY DEF Repairs
<1>1. ask[r].at # "answered" /\ ask \in [Readers -> AskType]
  BY DEF Asking, Ended, IInv, TypeOK
<1>2. ask' # ask
  BY <1>1
<1>3. CASE Edit
  BY <1>2, <1>3 DEF Edit
<1>4. ASSUME NEW b \in Builders, (\E p \in Programs[b] : StartBuild(b, p)) \/ Build(b) \/ KillBuild(b)
      PROVE  FALSE
  <2>1. CASE \E f \in Files : OpenFile(b, f)
    <3>1. Begin(b)
      BY <2>1 DEF OpenFile
    <3> QED BY <1>1, <3>1, BeginAsks
  <2> QED
    BY <1>2, <1>4, <2>1 DEF StartBuild, Build, CloseFile, RemoveAlias, PlaceAlias, EndLeg, KillBuild
<1>5. ASSUME NEW s \in Readers, s # r, Answer(s) \/ KillReader(s) PROVE FALSE
  <2>1. ask'[r] = ask[r]
    BY <1>1, <1>5
    DEF Answer, Find, ReadMetadata, ReadIndex, TakeCurrent, LoadGraph, LoadOrCreate, OpenIndex,
        CloseIndex, KillReader, Step
  <2> QED BY <1>1, <2>1
<1>6. ASSUME NEW s \in Readers, NEW q \in Questions[s], StartAsk(s, q) PROVE FALSE
  <2>1. s # r
    BY <1>6 DEF StartAsk, Asking
  <2>2. ask'[r] = [ask[r] EXCEPT !.alone = FALSE]
    BY <1>6, <2>1 DEF StartAsk
  <2>3. [ask[r] EXCEPT !.alone = FALSE].at = ask[r].at
    BY <1>1 DEF AskType
  <2> QED BY <1>1, <2>2, <2>3
<1>7. CASE Answer(r) \/ KillReader(r)
  BY <1>7, StepRepairs
<1> QED
  BY <1>3, <1>4, <1>5, <1>6, <1>7 DEF Next

\* A command that ran alone over what a build left leaves the index that it answered
\* from beside the graph, or a torn one as it was: a property of every step.
THEOREM IndexesAreRepaired == Spec => IndexIsRepaired
<1>1. IInv /\ DirectoryInv /\ [Next]_vars => [\A r \in Readers : Repairs(r)]_vars
  BY NextRepairs
<1> QED
  BY <1>1, SpecDirectories, PTL DEF Spec, IndexIsRepaired
=============================================================================
