------------------------- MODULE MemoryBuildProofs -------------------------
(***************************************************************************)
(* Proofs about builds from memory, for any source maps, directories and   *)
(* numbers of workers: what both strategies are given is the same, only    *)
(* failures leave files behind, and the pool of tasks that takes the       *)
(* inventory does what an atomic batch does.                               *)
(***************************************************************************)
EXTENDS MemoryBuildProperties, FiniteSetTheorems, WellFoundedInduction, TLAPS

USE PlaceAssumption, SourceAssumption DEF given, call, disk, pool

-----------------------------------------------------------------------------
Types ==
  /\ sources \in Inputs
  /\ phase \in {"called", "writing", "inventory", "removing", "over"}
  /\ tasks \in [Paths -> {"none", "mkdir", "write", "done", "failed"}]
  /\ scratch \in [Places -> Contents \cup {Absent, Dir}]

\* What is somewhere is in a directory.
InDirectories == \A p \in Paths : scratch[p] # Absent => scratch[ParentOf[p]] = Dir

\* Before rm begins nothing is removed; before all files are written there is
\* no inventory.
Phases ==
  /\ phase = "called" =>
       /\ tasks = [p \in Paths |-> "none"] /\ scratch = [p \in Places |-> Absent]
       /\ discovered = Absent
  /\ phase \in {"called", "writing", "inventory"} => doomed = {} /\ listed = {}
  /\ \A p \in Paths : tasks[p] # "none" => Accepted /\ p \in Given
  /\ phase \in {"writing", "inventory"} => Accepted
  /\ phase = "writing" => \A p \in Paths : tasks[p] # "failed"
  /\ phase = "inventory" => \A p \in Paths : tasks[p] \in {"none", "done"}

\* Until rm begins there are those files that have been written, with what was
\* given for them.
Written ==
  phase \in {"writing", "inventory"} =>
    \A p \in Paths : /\ scratch[p] \in Contents <=> tasks[p] = "done"
                     /\ tasks[p] = "done" => scratch[p] = ContentsOf(p)

\* Nothing has failed.
Unfailing == Accepted /\ \A p \in Paths : tasks[p] # "failed"

\* If nothing fails, rm is alone, and finds all there is: each place is known to
\* it, or its directory is still to be listed.
Removed ==
  Unfailing =>
    /\ phase \in {"removing", "over"} => \A p \in Paths : tasks[p] \in {"none", "done"}
    /\ phase = "removing" =>
         \A p \in Paths : scratch[p] # Absent => p \in doomed \/ ParentOf[p] \notin listed
    /\ phase = "over" => \A p \in Places : scratch[p] = Absent

DiskInv == Types /\ InDirectories /\ Phases /\ Written /\ Removed

-----------------------------------------------------------------------------
\* Where a path lies.
LEMMA AboveIsClosed ==
  ASSUME NEW p \in Paths
  PROVE  /\ ParentOf[p] \in Above[p] /\ Above[p] \subseteq Places
         /\ \A d \in Above[p] \ {Root} : d \in Paths /\ ParentOf[d] \in Above[p]
         /\ \A S \in SUBSET Places :
              ParentOf[p] \in S /\ (\A c \in S \ {Root} : ParentOf[c] \in S) => Above[p] \subseteq S
<1>1. Above[p] = {d \in Places : \A S \in SUBSET Places :
        ParentOf[p] \in S /\ (\A c \in S \ {Root} : ParentOf[c] \in S) => d \in S}
  BY DEF Above
<1> QED BY <1>1 DEF Places

\* Nothing is left below a root that is gone.
LEMMA NothingBelow ==
  ASSUME Types, InDirectories, \A p \in Paths : ParentOf[p] = Root => scratch[p] = Absent
  PROVE  \A p \in Paths : scratch[p] = Absent
<1> DEFINE T == {p \in Paths : scratch[p] # Absent}
<1>1. ASSUME NEW p \in T PROVE ParentOf[p] \in T
  <2>1. ParentOf[p] \in Places /\ scratch[ParentOf[p]] = Dir /\ ParentOf[p] # Root
    BY <1>1 DEF InDirectories
  <2> QED BY <2>1 DEF Places
<1>2. ASSUME NEW p \in T PROVE FALSE
  <2>1. Above[p] \subseteq T
    BY <1>1, <1>2, AboveIsClosed DEF Places
  <2>2. Root \in T
    BY <1>2, <2>1
  <2> QED BY <2>2
<1> QED BY <1>2

\* What is given for a path is one of the contents.
LEMMA ContentsAreGiven ==
  ASSUME Types, NEW p \in Given
  PROVE  ContentsOf(p) \in Contents
<1> DEFINE Entry == [key : Keys, contents : Contents]
<1>0. sources \in Seq(Entry)
  BY DEF Types
<1> HIDE DEF Entry
<1>1. /\ Len(sources) \in Nat
      /\ \A i \in 1..Len(sources) : sources[i] \in Entry
  BY <1>0
<1> DEFINE K == {i \in 1..Len(sources) : Normalized[sources[i].key] = p}
           Later(j) == Len(sources) - j
<1>2. K # {} /\ K \subseteq 1..Len(sources)
  BY DEF Given
<1>3. PICK i \in K : \A j \in K : j <= i
  <2> DEFINE D == {Later(j) : j \in K}
             less == OpToRel(<, Nat)
  <2>1. D \subseteq Nat /\ D # {}
    BY <1>1, <1>2
  <2>2. PICK d \in D : \A c \in D : <<c, d>> \notin less
    BY <2>1, NatLessThanWellFounded, WFMin
  <2>3. PICK i \in K : d = Later(i)
    BY <2>2
  <2>4. ASSUME NEW j \in K PROVE j <= i
    <3>1. Later(j) \in D /\ <<Later(j), d>> \notin less /\ Later(j) \in Nat /\ d \in Nat
      BY <2>1, <2>2
    <3>2. ~(Later(j) < d)
      BY <3>1 DEF OpToRel
    <3> QED BY <1>1, <1>2, <2>3, <3>2
  <2> QED BY <2>4
<1>4. \E last \in 1..Len(sources) :
        /\ Normalized[sources[last].key] = p
        /\ \A j \in last + 1..Len(sources) : Normalized[sources[j].key] # p
  <2>1. i \in 1..Len(sources) /\ Normalized[sources[i].key] = p
    BY <1>2
  <2>2. ASSUME NEW j \in i + 1..Len(sources) PROVE Normalized[sources[j].key] # p
    <3>1. j \in 1..Len(sources) /\ ~(j <= i)
      BY <1>1, <2>1
    <3> QED BY <1>3, <3>1
  <2> QED BY <2>1, <2>2
<1> DEFINE last == CHOOSE k \in 1..Len(sources) :
                     /\ Normalized[sources[k].key] = p
                     /\ \A j \in k + 1..Len(sources) : Normalized[sources[j].key] # p
<1>5. last \in 1..Len(sources)
  BY <1>4
<1> HIDE DEF last
<1>6. sources[last].contents \in Contents
  BY <1>1, <1>5 DEF Entry
<1> QED BY <1>6 DEF ContentsOf, last

-----------------------------------------------------------------------------
\* What is found among the sources does not change with the disk.
LEMMA SourcesFixed ==
  ASSUME UNCHANGED sources
  PROVE  /\ Accepted' <=> Accepted
         /\ Given' = Given
         /\ \A p : ContentsOf(p)' = ContentsOf(p)
         /\ discoverFromProvider' = discoverFromProvider
<1>1. /\ Accepted' <=> Accepted
      /\ Given' = Given
  BY DEF Accepted, Given
<1>2. \A p : ContentsOf(p)' = ContentsOf(p)
  BY DEF ContentsOf
<1>3. discoverFromProvider' = discoverFromProvider
  BY <1>1, <1>2 DEF discoverFromProvider, Discovery
<1> QED BY <1>1, <1>2, <1>3

LEMMA DiskInit == Init => DiskInv
BY DEF Init, DiskInv, Types, InDirectories, Phases, Written, Removed, Places

LEMMA ServeKeeps ==
  ASSUME DiskInv, ServeFromMemory PROVE DiskInv'
<1>1. /\ phase = "called" /\ phase' = "over" /\ UNCHANGED <<sources, tasks, scratch, doomed, listed>>
  BY DEF ServeFromMemory
<1> QED
  BY <1>1, SourcesFixed
     DEF DiskInv, Types, InDirectories, Phases, Written, Removed, Unfailing, Places

LEMMA MakeScratchKeeps ==
  ASSUME DiskInv, MakeScratch PROVE DiskInv'
<1>1. /\ phase = "called" /\ UNCHANGED <<sources, doomed, listed, discovered>>
      /\ scratch = [p \in Places |-> Absent] /\ tasks = [p \in Paths |-> "none"]
      /\ doomed = {} /\ listed = {} /\ sources \in Inputs
  BY DEF MakeScratch, DiskInv, Phases, Types
<1>2. /\ scratch' \in [Places -> Contents \cup {Absent, Dir}]
      /\ \A p \in Paths : scratch'[p] = Absent
  BY <1>1 DEF MakeScratch, Places
<1>3. CASE Accepted
  <2>1. phase' = "writing" /\ tasks' = [p \in Paths |-> IF p \in Given THEN "mkdir" ELSE "none"]
    BY <1>3 DEF MakeScratch
  <2> QED BY <1>1, <1>2, <1>3, <2>1, SourcesFixed
          DEF DiskInv, Types, InDirectories, Phases, Written, Removed
<1>4. CASE ~Accepted
  <2>1. phase' = "over" /\ tasks' = tasks
    BY <1>4 DEF MakeScratch
  <2> QED BY <1>1, <1>2, <1>4, <2>1, SourcesFixed
          DEF DiskInv, Types, InDirectories, Phases, Written, Removed, Unfailing
<1> QED BY <1>3, <1>4

-----------------------------------------------------------------------------
\* Files are written while nothing removes them, or after a failure.
LEMMA TasksUnderWay ==
  ASSUME DiskInv, NEW p \in Paths, tasks[p] \in {"mkdir", "write"}
  PROVE  Accepted /\ p \in Given /\ phase \notin {"called", "inventory"}
         /\ (Unfailing => phase = "writing")
BY DEF DiskInv, Phases, Removed, Types

LEMMA MakeDirectoryKeeps ==
  ASSUME DiskInv, NEW p \in Paths, MakeDirectory(p) PROVE DiskInv'
<1>1. /\ tasks[p] = "mkdir" /\ \A d \in Above[p] : scratch[d] \in {Absent, Dir}
      /\ scratch' = [d \in Places |-> IF d \in Above[p] THEN Dir ELSE scratch[d]]
      /\ tasks' = [tasks EXCEPT ![p] = "write"]
      /\ UNCHANGED <<sources, phase, doomed, listed, discovered>>
  BY DEF MakeDirectory
<1>2. Accepted /\ p \in Given /\ phase \notin {"called", "inventory"} /\ (Unfailing => phase = "writing")
  BY <1>1, TasksUnderWay
<1>3. Types'
  BY <1>1 DEF DiskInv, Types
<1>4. InDirectories'
  <2>1. ASSUME NEW c \in Paths, scratch'[c] # Absent PROVE scratch'[ParentOf[c]] = Dir
    <3>1. c \in Places /\ ParentOf[c] \in Places
      BY DEF Places
    <3>2. CASE c \in Above[p]
      <4>1. ParentOf[c] \in Above[p]
        BY <3>2, AboveIsClosed
      <4> QED BY <1>1, <3>1, <4>1
    <3>3. CASE c \notin Above[p]
      BY <1>1, <2>1, <3>1, <3>3 DEF DiskInv, InDirectories
    <3> QED BY <3>2, <3>3
  <2> QED BY <2>1 DEF InDirectories
<1>5. Phases'
  BY <1>1, <1>2, SourcesFixed DEF DiskInv, Types, Phases
<1>6. Written'
  <2>1. \A c \in Paths : /\ scratch'[c] \in Contents <=> scratch[c] \in Contents
                         /\ scratch[c] \in Contents => scratch'[c] = scratch[c]
    BY <1>1 DEF Places
  <2> QED BY <1>1, <1>2, <2>1, SourcesFixed DEF DiskInv, Types, Written
<1>7. Removed'
  <2>1. Unfailing' => Unfailing
    BY <1>1, SourcesFixed DEF Unfailing, DiskInv, Types
  <2> QED BY <1>1, <1>2, <2>1 DEF Removed
<1> QED BY <1>3, <1>4, <1>5, <1>6, <1>7 DEF DiskInv

LEMMA WriteFileKeeps ==
  ASSUME DiskInv, NEW p \in Paths, WriteFile(p) PROVE DiskInv'
<1>1. /\ tasks[p] = "write" /\ scratch[ParentOf[p]] = Dir /\ scratch[p] # Dir
      /\ scratch' = [scratch EXCEPT ![p] = ContentsOf(p)]
      /\ tasks' = [tasks EXCEPT ![p] = "done"]
      /\ UNCHANGED <<sources, phase, doomed, listed, discovered>>
  BY DEF WriteFile
<1>2. Accepted /\ p \in Given /\ phase \notin {"called", "inventory"} /\ (Unfailing => phase = "writing")
  BY <1>1, TasksUnderWay
<1>3. ContentsOf(p) \in Contents /\ p \in Places
  BY <1>2, ContentsAreGiven DEF DiskInv, Places
<1>4. Types'
  BY <1>1, <1>3 DEF DiskInv, Types
<1>5. InDirectories'
  <2>1. ASSUME NEW c \in Paths, scratch'[c] # Absent PROVE scratch'[ParentOf[c]] = Dir
    <3>1. c \in Places /\ ParentOf[c] \in Places
      BY DEF Places
    <3>2. scratch[ParentOf[c]] = Dir
      BY <1>1, <2>1, <3>1 DEF DiskInv, InDirectories, Types
    <3> QED BY <1>1, <3>1, <3>2 DEF DiskInv, Types
  <2> QED BY <2>1 DEF InDirectories
<1>6. Phases'
  BY <1>1, <1>2, SourcesFixed DEF DiskInv, Types, Phases
<1>7. Written'
  <2>1. ASSUME NEW c \in Paths
        PROVE  /\ c = p => scratch'[c] = ContentsOf(c) /\ tasks'[c] = "done"
               /\ c # p => scratch'[c] = scratch[c] /\ tasks'[c] = tasks[c]
    BY <1>1, <1>3 DEF DiskInv, Types, Places
  <2> QED BY <1>1, <1>3, <2>1, SourcesFixed DEF DiskInv, Written
<1>8. Removed'
  <2>1. Unfailing' => Unfailing
    BY <1>1, SourcesFixed DEF Unfailing, DiskInv, Types
  <2> QED BY <1>1, <1>2, <2>1 DEF Removed
<1> QED BY <1>4, <1>5, <1>6, <1>7, <1>8 DEF DiskInv

LEMMA TaskFailsKeeps ==
  ASSUME DiskInv, NEW p \in Paths, TaskFails(p) PROVE DiskInv'
<1>1. /\ tasks[p] \in {"mkdir", "write"} /\ tasks' = [tasks EXCEPT ![p] = "failed"]
      /\ IF phase = "writing" THEN phase' = "removing" /\ doomed' = {Root}
                              ELSE UNCHANGED <<phase, doomed>>
      /\ UNCHANGED <<sources, scratch, listed, discovered>>
  BY DEF TaskFails
<1>2. Accepted /\ p \in Given /\ phase \notin {"called", "inventory"}
  BY <1>1, TasksUnderWay
<1>3. phase' \notin {"called", "writing", "inventory"} /\ ~Unfailing'
  BY <1>1, <1>2 DEF Unfailing, DiskInv, Types
<1>4. Types' /\ InDirectories' /\ Written' /\ Removed'
  BY <1>1, <1>3 DEF DiskInv, Types, InDirectories, Written, Removed
<1>5. Phases'
  BY <1>1, <1>2, <1>3, SourcesFixed DEF DiskInv, Types, Phases
<1> QED BY <1>4, <1>5 DEF DiskInv

\* What the build does with the directory.
LEMMA BuildKeeps ==
  ASSUME DiskInv, TakeInventory \/ DiscoveryFails \/ EndBuild \/ DeliverInventory
                  \/ \E w \in 1..Len(running) : ReadFile(w)
  PROVE  DiskInv'
<1>1. UNCHANGED <<sources, tasks, scratch, listed>>
  BY DEF TakeInventory, DiscoveryFails, EndBuild, DeliverInventory, ReadFile
<1>2. CASE TakeInventory
  <2>1. phase = "writing" /\ phase' = "inventory" /\ UNCHANGED doomed
        /\ \A p \in Given : tasks[p] = "done"
    BY <1>2 DEF TakeInventory
  <2> QED BY <1>1, <2>1, SourcesFixed
          DEF DiskInv, Types, InDirectories, Phases, Written, Removed
<1>3. CASE EndBuild
  <2>1. phase = "inventory" /\ phase' = "removing" /\ listed = {}
    BY <1>3 DEF EndBuild, DiskInv, Phases
  <2>2. Phases'
    BY <1>1, <2>1, SourcesFixed DEF DiskInv, Phases
  <2> QED BY <1>1, <2>1, <2>2 DEF DiskInv, Types, InDirectories, Phases, Written, Removed
<1>4. CASE DeliverInventory \/ \E w \in 1..Len(running) : ReadFile(w)
  <2>1. UNCHANGED <<phase, doomed, discovered>>
    BY <1>4 DEF DeliverInventory, ReadFile
  <2> QED BY <1>1, <2>1, SourcesFixed
          DEF DiskInv, Types, InDirectories, Phases, Written, Removed, Unfailing
<1>5. CASE DiscoveryFails
  <2>1. /\ phase = "writing" /\ phase' = "removing" /\ listed = {}
        /\ \A p \in Given : tasks[p] = "done"
    BY <1>5 DEF DiscoveryFails, DiskInv, Phases
  <2>2. \A p \in Paths : tasks[p] \in {"none", "done"}
    BY <2>1 DEF DiskInv, Phases
  <2>3. Phases'
    BY <1>1, <2>1, <2>2, SourcesFixed DEF DiskInv, Phases
  <2> QED BY <1>1, <2>1, <2>2, <2>3 DEF DiskInv, Types, InDirectories, Written, Removed
<1> QED BY <1>2, <1>3, <1>4, <1>5

-----------------------------------------------------------------------------
\* What rm has found, it works on while nothing is written or read.
LEMMA RemovingIsOn ==
  ASSUME DiskInv, doomed # {}
  PROVE  phase \in {"removing", "over"}
BY DEF DiskInv, Types, Phases

LEMMA RemoveListKeeps ==
  ASSUME DiskInv, NEW d \in Places, RemoveList(d) PROVE DiskInv'
<1>1. /\ listed' = listed \cup {d} /\ doomed' = doomed \cup ChildrenIn(d)
      /\ UNCHANGED <<sources, phase, tasks, scratch, discovered>>
      /\ phase \in {"removing", "over"}
  BY RemovingIsOn DEF RemoveList
<1>2. Types' /\ InDirectories' /\ Phases' /\ Written'
  BY <1>1, SourcesFixed DEF DiskInv, Types, InDirectories, Phases, Written
<1>3. Removed'
  <2>1. Unfailing' <=> Unfailing
    BY <1>1, SourcesFixed DEF Unfailing
  <2>2. ASSUME NEW p \in Paths, scratch[p] # Absent, p \in doomed \/ ParentOf[p] \notin listed
        PROVE  p \in doomed' \/ ParentOf[p] \notin listed'
    BY <1>1, <2>2 DEF ChildrenIn
  <2> QED BY <1>1, <2>1, <2>2 DEF DiskInv, Removed
<1> QED BY <1>2, <1>3 DEF DiskInv

LEMMA RemoveFileKeeps ==
  ASSUME DiskInv, NEW p \in Places, RemoveFile(p) PROVE DiskInv'
<1>1. /\ scratch[p] \in Contents /\ scratch' = [scratch EXCEPT ![p] = Absent]
      /\ doomed' = doomed \ {p} /\ UNCHANGED <<sources, phase, tasks, listed, discovered>>
      /\ phase \in {"removing", "over"}
  BY RemovingIsOn DEF RemoveFile
<1>2. /\ scratch' \in [Places -> Contents \cup {Absent, Dir}]
      /\ scratch'[p] = Absent /\ \A c \in Places \ {p} : scratch'[c] = scratch[c]
  BY <1>1 DEF DiskInv, Types
<1>3. InDirectories'
  <2>1. ASSUME NEW c \in Paths, scratch'[c] # Absent PROVE scratch'[ParentOf[c]] = Dir
    <3>1. c \in Places /\ c # p /\ ParentOf[c] \in Places
      BY <1>2, <2>1 DEF Places
    <3>2. scratch[ParentOf[c]] = Dir
      BY <1>2, <2>1, <3>1 DEF DiskInv, InDirectories
    <3> QED BY <1>1, <1>2, <3>1, <3>2
  <2> QED BY <2>1 DEF InDirectories
<1>4. Types' /\ Phases' /\ Written'
  BY <1>1, <1>2, SourcesFixed DEF DiskInv, Types, Phases, Written
<1>5. Removed'
  <2>1. Unfailing' <=> Unfailing
    BY <1>1, SourcesFixed DEF Unfailing
  <2>2. \A c \in Places : scratch'[c] # Absent => scratch[c] # Absent /\ (c \in doomed => c \in doomed')
    BY <1>1, <1>2
  <2> QED BY <1>1, <2>1, <2>2 DEF DiskInv, Removed, Places
<1> QED BY <1>3, <1>4, <1>5 DEF DiskInv

LEMMA RemoveDirectoryKeeps ==
  ASSUME DiskInv, NEW d \in Places, RemoveDirectory(d) PROVE DiskInv'
<1>1. /\ d \in doomed \cap listed /\ \A p \in doomed \ {Root} : ParentOf[p] # d
      /\ doomed' = doomed \ {d} /\ UNCHANGED <<sources, tasks, listed, discovered>>
      /\ phase \in {"removing", "over"} /\ phase' \in {"removing", "over"}
  BY RemovingIsOn DEF RemoveDirectory
<1>2. Phases' /\ Written'
  BY <1>1, SourcesFixed DEF DiskInv, Types, Phases, Written
<1>3. Unfailing' <=> Unfailing
  BY <1>1, SourcesFixed DEF Unfailing
<1>4. CASE ChildrenIn(d) = {}
  <2>1. /\ scratch' = [scratch EXCEPT ![d] = Absent]
        /\ phase' = IF d = Root THEN "over" ELSE phase
    BY <1>4 DEF RemoveDirectory
  <2>2. /\ scratch' \in [Places -> Contents \cup {Absent, Dir}]
        /\ scratch'[d] = Absent /\ \A c \in Places \ {d} : scratch'[c] = scratch[c]
    BY <2>1 DEF DiskInv, Types
  <2>3. Types'
    BY <1>1, <2>2 DEF DiskInv, Types
  <2>4. InDirectories'
    <3>1. ASSUME NEW c \in Paths, scratch'[c] # Absent PROVE scratch'[ParentOf[c]] = Dir
      <4>1. c \in Places /\ c # d /\ scratch[c] # Absent /\ ParentOf[c] \in Places
        BY <2>2, <3>1 DEF Places
      <4>2. ParentOf[c] # d
        BY <1>4, <4>1 DEF ChildrenIn
      <4> QED BY <2>2, <4>1, <4>2 DEF DiskInv, InDirectories
    <3> QED BY <3>1 DEF InDirectories
  <2>5. ASSUME d = Root PROVE \A c \in Places : scratch'[c] = Absent
    <3>1. \A c \in Paths : ParentOf[c] = Root => scratch[c] = Absent
      BY <1>4, <2>5 DEF ChildrenIn
    <3>2. \A c \in Paths : scratch[c] = Absent
      BY <3>1, NothingBelow DEF DiskInv
    <3> QED BY <2>2, <2>5, <3>2 DEF Places
  <2>6. Removed'
    <3>1. \A c \in Places : scratch'[c] # Absent => scratch[c] # Absent /\ (c \in doomed => c \in doomed')
      BY <1>1, <2>2
    <3> QED BY <1>1, <1>3, <2>1, <2>5, <3>1 DEF DiskInv, Removed, Places
  <2> QED BY <1>2, <2>3, <2>4, <2>6 DEF DiskInv
<1>5. CASE ChildrenIn(d) # {}
  <2>1. phase' = "over" /\ UNCHANGED scratch
    BY <1>5 DEF RemoveDirectory
  <2>2. ~Unfailing
    <3>1. PICK p \in Paths : ParentOf[p] = d /\ scratch[p] # Absent
      BY <1>5 DEF ChildrenIn
    <3>2. p \notin doomed /\ ParentOf[p] \in listed /\ p \in Places
      BY <1>1, <3>1 DEF Places
    <3> QED BY <1>1, <3>1, <3>2 DEF DiskInv, Removed
  <2> QED BY <1>1, <1>2, <1>3, <2>1, <2>2 DEF DiskInv, Types, InDirectories, Removed
<1> QED BY <1>4, <1>5

LEMMA DiskStep == DiskInv /\ [Next]_vars => DiskInv'
<1> SUFFICES ASSUME DiskInv, [Next]_vars PROVE DiskInv'
  OBVIOUS
<1>1. CASE UNCHANGED vars
  <2>1. UNCHANGED <<sources, phase, tasks, scratch, doomed, listed, discovered>>
    BY <1>1 DEF vars
  <2> QED BY <2>1, SourcesFixed
          DEF DiskInv, Types, InDirectories, Phases, Written, Removed, Unfailing
<1>2. CASE Removing
  BY <1>2, RemoveListKeeps, RemoveFileKeeps, RemoveDirectoryKeeps DEF Removing
<1>3. CASE \E p \in Paths : Writing(p)
  BY <1>3, MakeDirectoryKeeps, WriteFileKeeps, TaskFailsKeeps DEF Writing
<1>4. CASE TakeInventory \/ DiscoveryFails \/ DeliverInventory \/ EndBuild
           \/ \E w \in 1..Len(running) : running[w] # 0 /\ ReadFile(w)
  BY <1>4, BuildKeeps
<1> QED BY <1>1, <1>2, <1>3, <1>4, ServeKeeps, MakeScratchKeeps DEF Next

LEMMA DiskAlways == Spec => []DiskInv
BY DiskInit, DiskStep, PTL DEF Spec

\* After a build that ran nothing is left behind, unless a write failed: rm is
\* then alone in the directory, whatever the order in which it lists and
\* removes.
THEOREM OnlyFailuresLeave == Spec => []OnlyFailuresLeaveFiles
<1>1. DiskInv => OnlyFailuresLeaveFiles
  BY DEF DiskInv, Removed, Unfailing, OnlyFailuresLeaveFiles
<1> QED BY <1>1, DiskAlways, PTL

-----------------------------------------------------------------------------
\* Once the sources are accepted, what is given are paths.
LEMMA GivenArePaths ==
  ASSUME Types, Accepted PROVE Given \subseteq Paths
<1> DEFINE Entry == [key : Keys, contents : Contents]
<1>1. sources \in Seq(Entry)
  BY DEF Types
<1> HIDE DEF Entry
<1>2. \A i \in 1..Len(sources) : sources[i] \in Entry
  BY <1>1
<1>3. \A i \in 1..Len(sources) : sources[i].key \in Keys
  BY <1>2 DEF Entry
<1> QED BY <1>3 DEF Given, Accepted

\* What a build of the directory finds when all is written.
LEMMA FoundIsGiven ==
  ASSUME DiskInv, phase = "writing", \A p \in Given : tasks[p] = "done",
         Given \cap Ignored = {}
  PROVE  /\ discoverFiles.files = discoverFromProvider.files
         /\ discoverFiles.name = discoverFromProvider.name
              <=> Manifest \in Given /\ IsNamed(ContentsOf(Manifest))
<1> DEFINE found == {p \in Paths : scratch[p] \in Contents /\ p \notin Ignored}
<1>1. /\ found = Given /\ \A p \in found : scratch[p] = ContentsOf(p)
      /\ \A p \in Given : scratch[p] = ContentsOf(p)
      /\ \A p \in Paths \ Given : scratch[p] \notin Contents
  <2>1. Given \subseteq Paths
    BY GivenArePaths DEF DiskInv, Phases
  <2>2. \A p \in Paths : scratch[p] \in Contents <=> tasks[p] = "done"
    BY DEF DiskInv, Written
  <2>3. \A p \in Paths : tasks[p] = "done" => p \in Given /\ scratch[p] = ContentsOf(p)
    BY DEF DiskInv, Phases, Written
  <2> QED BY <2>1, <2>2, <2>3
<1> DEFINE files == [p \in found |-> scratch[p]]
           onDisk == scratch[Manifest]
           inMemory == IF Manifest \in Given THEN ContentsOf(Manifest) ELSE Absent
<1>2. files = [p \in Given |-> ContentsOf(p)]
  BY <1>1
<1>3. /\ Manifest \in Given => onDisk = ContentsOf(Manifest) /\ inMemory = ContentsOf(Manifest)
      /\ Manifest \notin Given => onDisk \notin Contents /\ inMemory \notin Contents
  BY <1>1
<1>4. discoverFiles = Discovery(files, onDisk, ScratchName)
  BY DEF discoverFiles
<1>5. discoverFromProvider = Discovery(files, inMemory, MemoryName)
  BY <1>2 DEF discoverFromProvider
<1> HIDE DEF found, files, onDisk, inMemory
<1>6. discoverFiles.files = files /\ discoverFromProvider.files = files
  BY <1>4, <1>5 DEF Discovery
<1>7. ASSUME Manifest \in Given, IsNamed(ContentsOf(Manifest))
      PROVE  discoverFiles.name = discoverFromProvider.name
  <2>1. /\ discoverFiles.name = NameOf[ContentsOf(Manifest)]
        /\ discoverFromProvider.name = NameOf[ContentsOf(Manifest)]
    BY <1>3, <1>4, <1>5, <1>7 DEF Discovery
  <2> QED BY <2>1
<1>8. ASSUME ~(Manifest \in Given /\ IsNamed(ContentsOf(Manifest)))
      PROVE  discoverFiles.name # discoverFromProvider.name
  <2>1. ~IsNamed(onDisk) /\ ~IsNamed(inMemory)
    BY <1>3, <1>8 DEF IsNamed
  <2>2. discoverFiles.name = ScratchName /\ discoverFromProvider.name = MemoryName
    BY <1>4, <1>5, <2>1 DEF Discovery
  <2> QED BY <2>2
<1> QED BY <1>6, <1>7, <1>8

\* Only a call that materializes its sources writes.
LEMMA WritingIsOnDisk == Spec => [](phase = "writing" => strategy = "materialize")
<1> DEFINE Inv == phase = "writing" => strategy = "materialize"
<1>1. Init => Inv
  BY DEF Init
<1>2. Inv /\ [Next]_vars => Inv'
  BY DEF Next, vars, ServeFromMemory, MakeScratch, Removing, RemoveList, RemoveFile,
         RemoveDirectory, TakeInventory, DiscoveryFails, DeliverInventory, EndBuild, Writing,
         MakeDirectory, WriteFile, TaskFails, ReadFile
<1> QED BY <1>1, <1>2, PTL DEF Spec

\* Of plain sources, both strategies are given the same files: what a build finds
\* in the directory is all that was written, and of two keys of one path the
\* later.  They give the repository the same name just if its manifest has one.
THEOREM PlainAgree == Spec => []PlainInputsAgree
<1>1. Init => PlainInputsAgree
  BY DEF Init, PlainInputsAgree
<1> DEFINE OnDisk == phase = "writing" => strategy = "materialize"
<1>2. DiskInv /\ OnDisk /\ PlainInputsAgree /\ [Next]_vars => PlainInputsAgree'
  <2> SUFFICES ASSUME DiskInv, OnDisk, PlainInputsAgree, [Next]_vars PROVE PlainInputsAgree'
    OBVIOUS
  <2>1. UNCHANGED given
    BY DEF Next, vars, ServeFromMemory, MakeScratch, Removing, RemoveList, RemoveFile,
           RemoveDirectory, TakeInventory, DiscoveryFails, DeliverInventory, EndBuild, Writing,
           MakeDirectory, WriteFile, TaskFails, ReadFile
  <2>2. CASE UNCHANGED discovered
    BY <2>1, <2>2, SourcesFixed DEF PlainInputsAgree
  <2>3. CASE ServeFromMemory
    <3>1. CASE Accepted
      BY <2>1, <2>3, <3>1, SourcesFixed DEF ServeFromMemory, PlainInputsAgree
    <3>2. CASE ~Accepted
      BY <2>2, <2>3, <3>2 DEF ServeFromMemory
    <3> QED BY <3>1, <3>2
  <2>4. CASE TakeInventory
    BY <2>1, <2>4, SourcesFixed, FoundIsGiven DEF TakeInventory, PlainInputsAgree
  <2>5. ServeFromMemory \/ TakeInventory \/ UNCHANGED discovered
    BY DEF Next, vars, MakeScratch, Removing, RemoveList, RemoveFile,
           RemoveDirectory, DiscoveryFails, DeliverInventory, EndBuild, Writing,
           MakeDirectory, WriteFile, TaskFails, ReadFile
  <2> QED BY <2>2, <2>3, <2>4, <2>5
<1> QED BY <1>1, <1>2, DiskAlways, WritingIsOnDisk, PTL DEF Spec

-----------------------------------------------------------------------------
(***************************************************************************)
(* The pool of tasks.                                                      *)
(***************************************************************************)
Outputs == [i \in 1..Len(inputs) |-> ContentsOf(inputs[i])]

\* Before it is called, the pool has nothing.
PoolIdle == outcome = Idle => inputs = <<>> /\ running = <<>>

PoolTypes ==
  /\ inputs \in Seq(Given)
  /\ running \in Seq(0..Len(inputs)) /\ nextIndex \in 1..Len(inputs) + 1
  /\ results \in [1..Len(inputs) -> Contents \cup {Nothing}]

\* What a worker has taken it is at, or its output is stored; a worker ends
\* when there is nothing to take, and there is one if there is an input.
Taken ==
  /\ \A i \in 1..nextIndex - 1 :
       results[i] = ContentsOf(inputs[i]) \/ \E w \in 1..Len(running) : running[w] = i
  /\ \A w \in 1..Len(running) : running[w] = 0 => nextIndex = Len(inputs) + 1
  /\ Len(running) = 0 => nextIndex = Len(inputs) + 1

PoolInv == PoolIdle /\ (outcome = Pending => phase = "inventory" /\ PoolTypes /\ Taken)

\* A finite set has a sequence of its members.
LEMMA SequenceOfSet ==
  ASSUME NEW S, IsFiniteSet(S)
  PROVE  SetToSeq(S) \in Seq(S)
<1>1. Cardinality(S) \in Nat /\ ExistsBijection(1..Cardinality(S), S)
  BY FS_CardinalityType
<1>2. PICK f \in Bijection(1..Cardinality(S), S) : TRUE
  BY <1>1 DEF ExistsBijection
<1>3. f \in [1..Cardinality(S) -> S] /\ IsInjective(f)
  BY <1>2 DEF Bijection, Injection
<1>4. SetToSeq(S) \in [1..Cardinality(S) -> S]
  BY <1>3 DEF SetToSeq
<1> QED BY <1>1, <1>4

LEMMA GivenIsFinite ==
  ASSUME Types PROVE IsFiniteSet(Given)
<1> DEFINE f == [i \in 1..Len(sources) |-> Normalized[sources[i].key]]
<1>1. f \in Surjection(1..Len(sources), Given)
  <2>1. f \in [1..Len(sources) -> Given]
    BY DEF Given
  <2>2. \A p \in Given : \E i \in 1..Len(sources) : f[i] = p
    BY DEF Given
  <2> QED BY <2>1, <2>2 DEF Surjection
<1>2. Len(sources) \in Int /\ 1 \in Int
  BY DEF Types
<1>3. IsFiniteSet(1..Len(sources))
  <2> HIDE PlaceAssumption, SourceAssumption
  <2> QED BY ONLY <1>2, FS_Interval, Zenon
<1> HIDE DEF f
<1> QED BY <1>1, <1>3, FS_Surjection

\* As many workers are started as are asked for, but no more than inputs.
LEMMA WorkersStarted ==
  ASSUME NEW r \in Requests, NEW n \in Nat
  PROVE  LET count == Pool!Min({Pool!normalizeCompilerWorkerCount(r), n})
         IN count \in 0..n /\ (count = 0 => n = 0)
<1>1. \A a, b \in Int : /\ Pool!Min({a, b}) = IF a <= b THEN a ELSE b
                        /\ Pool!Max({a, b}) = IF a >= b THEN a ELSE b
  <2> SUFFICES ASSUME NEW a \in Int, NEW b \in Int
               PROVE  /\ Pool!Min({a, b}) = IF a <= b THEN a ELSE b
                      /\ Pool!Max({a, b}) = IF a >= b THEN a ELSE b
    OBVIOUS
  <2>1. Pool!Min({a, b}) = IF a <= b THEN a ELSE b
    <3>1. \E x \in {a, b} : \A y \in {a, b} : x =< y
      OBVIOUS
    <3>2. Pool!Min({a, b}) \in {a, b} /\ \A y \in {a, b} : Pool!Min({a, b}) =< y
      BY <3>1 DEF Pool!Min
    <3> QED BY <3>2
  <2>2. Pool!Max({a, b}) = IF a >= b THEN a ELSE b
    <3>1. \E x \in {a, b} : \A y \in {a, b} : x >= y
      <4>1. a >= b \/ b >= a
        OBVIOUS
      <4> QED BY <4>1
    <3>2. Pool!Max({a, b}) \in {a, b} /\ \A y \in {a, b} : Pool!Max({a, b}) >= y
      BY <3>1 DEF Pool!Max
    <3> QED BY <3>2
  <2> QED BY <2>1, <2>2
<1>2. Pool!normalizeCompilerWorkerCount(r) \in Nat \ {0}
  <2>1. CASE r = Undefined
    BY <2>1 DEF Pool!normalizeCompilerWorkerCount
  <2>2. CASE r # Undefined
    <3> DEFINE m == Pool!Min({MAX_COMPILER_WORKERS, r})
    <3>1. m \in Int /\ 1 \in Int
      BY <1>1, <2>2
    <3>2. Pool!normalizeCompilerWorkerCount(r) = Pool!Max({1, m})
      BY <2>2 DEF Pool!normalizeCompilerWorkerCount
    <3> HIDE DEF m
    <3>3. Pool!Max({1, m}) = IF 1 >= m THEN 1 ELSE m
      BY <1>1, <3>1, Zenon
    <3> QED BY <3>1, <3>2, <3>3
  <2> QED BY <2>1, <2>2
<1> QED BY <1>1, <1>2

\* The pool is filled with the files found, of which there are finitely many.
LEMMA StartKeeps ==
  ASSUME DiskInv, TakeInventory PROVE PoolInv'
<1>1. PICK r \in Requests : Pool!Start(SetToSeq(DOMAIN discovered'.files), r)
  BY DEF TakeInventory
<1> DEFINE in == SetToSeq(DOMAIN discovered'.files)
           count == Pool!Min({Pool!normalizeCompilerWorkerCount(r), Len(in)})
<1>2. in \in Seq(Given)
  <2> DEFINE found == {p \in Paths : scratch[p] \in Contents /\ p \notin Ignored}
  <2>1. DOMAIN discovered'.files = found
    BY DEF TakeInventory, discoverFiles, Discovery
  <2>2. found \subseteq Given
    BY DEF DiskInv, Phases, Written, TakeInventory
  <2> HIDE DEF found
  <2>3. IsFiniteSet(found)
    BY <2>2, GivenIsFinite, FS_Subset DEF DiskInv
  <2>4. SetToSeq(found) \in Seq(found)
    BY <2>3, SequenceOfSet
  <2> QED BY <2>1, <2>2, <2>4
<1>3. count \in 0..Len(in) /\ (count = 0 => Len(in) = 0) /\ Len(in) \in Nat
  BY <1>2, WorkersStarted
<1>4. /\ outcome' = Pending /\ inputs' = in /\ nextIndex' = count + 1
      /\ results' = [i \in 1..Len(in) |-> Nothing] /\ running' = [w \in 1..count |-> w]
      /\ phase' = "inventory" /\ UNCHANGED sources
  BY <1>1 DEF Pool!Start, TakeInventory
<1> HIDE DEF in, count
<1>5. PoolTypes'
  <2>1. inputs' \in Seq(Given)' /\ nextIndex' \in 1..Len(inputs') + 1
    BY <1>2, <1>3, <1>4, SourcesFixed
  <2>2. running' \in Seq(0..Len(inputs'))
    BY <1>3, <1>4
  <2>3. results' \in [1..Len(inputs') -> Contents \cup {Nothing}]
    BY <1>4
  <2> QED BY <2>1, <2>2, <2>3 DEF PoolTypes
<1>6. Taken'
  <2>1. Len(running') = count
    BY <1>3, <1>4
  <2> QED BY <1>3, <1>4, <2>1 DEF Taken
<1> QED BY <1>4, <1>5, <1>6, OutcomeAssumption DEF PoolInv, PoolIdle

\* Before the outcome, what is read is what was given.
LEMMA ReadIsGiven ==
  ASSUME DiskInv, PoolInv, outcome = Pending, NEW w \in 1..Len(running), running[w] # 0
  PROVE  /\ running[w] \in 1..Len(inputs) /\ inputs[running[w]] \in Given \cap Paths
         /\ scratch[inputs[running[w]]] \in Contents =>
              scratch[inputs[running[w]]] = ContentsOf(inputs[running[w]])
<1>1. PoolTypes /\ phase = "inventory"
  BY DEF PoolInv
<1>2. running[w] \in 1..Len(inputs) /\ inputs[running[w]] \in Given
  BY <1>1 DEF PoolTypes
<1>3. Given \subseteq Paths
  BY <1>1, GivenArePaths DEF DiskInv, Phases
<1>4. \A p \in Paths : scratch[p] \in Contents => scratch[p] = ContentsOf(p)
  BY <1>1 DEF DiskInv, Written
<1> QED BY <1>2, <1>3, <1>4

LEMMA ReadKeeps ==
  ASSUME DiskInv, PoolInv, NEW w \in 1..Len(running), running[w] # 0, ReadFile(w)
  PROVE  PoolInv'
<1>1. UNCHANGED <<sources, phase, inputs>>
  BY DEF ReadFile, Pool!TaskResolves, Pool!TaskRejects
<1>2. outcome # Idle /\ (outcome # Pending => outcome' = outcome)
  <2>1. Len(running) # 0
    OBVIOUS
  <2> QED BY <2>1 DEF PoolInv, PoolIdle, ReadFile, Pool!TaskResolves, Pool!TaskRejects
<1>3. ASSUME outcome = Pending, Pool!TaskRejects(w) PROVE outcome' # Idle /\ outcome' # Pending
  <2>1. outcome' = [kind |-> "rejected", value |-> inputs[running[w]]]
    BY <1>3 DEF Pool!TaskRejects
  <2>2. inputs[running[w]] \in Paths
    BY <1>3, ReadIsGiven
  <2> QED BY <2>1, <2>2, OutcomeAssumption
<1>4. outcome' # Idle
  <2>1. CASE outcome # Pending
    BY <1>2, <2>1
  <2>2. CASE outcome = Pending /\ Pool!TaskRejects(w)
    BY <1>3, <2>2
  <2>3. CASE outcome = Pending /\ UNCHANGED outcome
    BY <2>3, OutcomeAssumption
  <2> QED BY <2>1, <2>2, <2>3 DEF ReadFile, Pool!TaskResolves
<1>5. ASSUME outcome' = Pending PROVE PoolTypes' /\ Taken' /\ phase' = "inventory"
  <2> DEFINE i == running[w]
             v == scratch[inputs[i]]
  <2>1. outcome = Pending /\ Pool!TaskResolves(w, v) /\ v \in Contents
    <3>1. outcome = Pending
      BY <1>2, <1>5
    <3> QED BY <1>5, <1>3, <3>1 DEF ReadFile
  <2>2. PoolTypes /\ Taken /\ phase = "inventory"
    BY <2>1 DEF PoolInv
  <2>3. i \in 1..Len(inputs) /\ v = ContentsOf(inputs[i])
    BY <2>1, ReadIsGiven
  <2>4. results' = [results EXCEPT ![i] = v] /\ Pool!Take(w, nextIndex)
    BY <2>1 DEF Pool!TaskResolves
  <2> HIDE DEF v
  <2>5. /\ results' \in [1..Len(inputs) -> Contents \cup {Nothing}]
        /\ results'[i] = ContentsOf(inputs[i])
        /\ \A j \in 1..Len(inputs) \ {i} : results'[j] = results[j]
    BY <2>1, <2>2, <2>3, <2>4 DEF PoolTypes
  <2>6. /\ Len(inputs) \in Nat /\ nextIndex \in 1..Len(inputs) + 1
        /\ running \in Seq(0..Len(inputs)) /\ Len(running) \in Nat
    BY <2>2 DEF PoolTypes
  <2> DEFINE next == IF nextIndex <= Len(inputs) THEN nextIndex ELSE 0
  <2>7. /\ running' = [running EXCEPT ![w] = next] /\ next \in 0..Len(inputs)
        /\ nextIndex' = IF nextIndex <= Len(inputs) THEN nextIndex + 1 ELSE nextIndex
    BY <2>4, <2>6 DEF Pool!Take
  <2> HIDE DEF next
  <2>8. /\ running' \in Seq(0..Len(inputs)) /\ Len(running') = Len(running)
        /\ running'[w] = next
        /\ \A u \in 1..Len(running) \ {w} : running'[u] = running[u]
    BY <2>6, <2>7
  <2>9. PoolTypes'
    BY <1>1, <2>2, <2>5, <2>6, <2>7, <2>8, SourcesFixed DEF PoolTypes
  <2>10. ASSUME NEW j \in 1..nextIndex' - 1
         PROVE  results'[j] = ContentsOf(inputs[j]) \/ \E u \in 1..Len(running) : running'[u] = j
    <3>1. CASE j = i
      BY <2>5, <3>1
    <3>2. CASE j = nextIndex
      <4>1. nextIndex <= Len(inputs)
        BY <2>6, <2>7, <2>10, <3>2
      <4> QED BY <2>8, <3>2, <4>1 DEF next
    <3>3. CASE j # i /\ j # nextIndex
      <4>1. j \in 1..nextIndex - 1 /\ j \in 1..Len(inputs)
        BY <2>6, <2>7, <2>10, <3>3
      <4>2. results[j] = ContentsOf(inputs[j]) \/ \E u \in 1..Len(running) : running[u] = j
        BY <2>2, <4>1 DEF Taken
      <4> QED BY <2>5, <2>8, <3>3, <4>1, <4>2
    <3> QED BY <3>1, <3>2, <3>3
  <2>11. \A u \in 1..Len(running) : running'[u] = 0 => nextIndex' = Len(inputs) + 1
    <3>1. CASE nextIndex <= Len(inputs)
      <4>1. \A u \in 1..Len(running) : running[u] # 0
        BY <2>2, <2>6, <3>1 DEF Taken
      <4>2. next # 0
        BY <2>6, <3>1 DEF next
      <4> QED BY <2>8, <4>1, <4>2
    <3>2. CASE ~(nextIndex <= Len(inputs))
      <4>1. nextIndex = Len(inputs) + 1
        BY <2>6, <3>2
      <4> QED BY <2>7, <3>2, <4>1
    <3> QED BY <3>1, <3>2
  <2>12. Taken'
    BY <1>1, <2>6, <2>8, <2>10, <2>11, SourcesFixed DEF Taken
  <2> QED BY <1>1, <2>2, <2>9, <2>12
<1> QED BY <1>4, <1>5 DEF PoolInv, PoolIdle

LEMMA OthersKeep ==
  ASSUME DiskInv, PoolInv, [Next]_vars, UNCHANGED pool PROVE PoolInv'
<1>1. UNCHANGED sources
  BY DEF Next, vars, ServeFromMemory, MakeScratch, Removing, RemoveList, RemoveFile,
         RemoveDirectory, TakeInventory, DiscoveryFails, DeliverInventory, EndBuild, Writing,
         MakeDirectory, WriteFile, TaskFails, ReadFile
<1>2. ASSUME outcome = Pending PROVE phase' = "inventory"
  <2>1. phase = "inventory" /\ doomed = {} /\ \A p \in Paths : tasks[p] \in {"none", "done"}
    BY <1>2 DEF PoolInv, DiskInv, Phases
  <2>2. ~ServeFromMemory /\ ~MakeScratch /\ ~TakeInventory /\ ~DiscoveryFails /\ ~EndBuild /\ ~Removing
        /\ \A p \in Paths : ~Writing(p)
    BY <1>2, <2>1 DEF ServeFromMemory, MakeScratch, TakeInventory, DiscoveryFails, EndBuild, Removing,
       RemoveList, RemoveFile, RemoveDirectory, Writing, MakeDirectory, WriteFile, TaskFails
  <2> QED BY <2>1, <2>2 DEF Next, vars, DeliverInventory, ReadFile
<1>3. PoolIdle'
  BY DEF PoolInv, PoolIdle
<1>4. ASSUME outcome = Pending PROVE PoolTypes' /\ Taken'
  BY <1>1, <1>4, SourcesFixed DEF PoolInv, PoolTypes, Taken
<1> QED BY <1>2, <1>3, <1>4 DEF PoolInv

LEMMA PoolStep == DiskInv /\ PoolInv /\ [Next]_vars => PoolInv'
<1> SUFFICES ASSUME DiskInv, PoolInv, [Next]_vars PROVE PoolInv'
  OBVIOUS
<1>1. CASE DeliverInventory
  <2>1. outcome = Pending /\ outcome' = [kind |-> "resolved", value |-> results]
    BY <1>1 DEF DeliverInventory, Pool!Deliver
  <2>2. results \in Seq(Contents \cup {Nothing})
    BY <2>1 DEF PoolInv, PoolTypes
  <2>3. outcome' # Pending /\ outcome' # Idle
    BY <2>1, <2>2, OutcomeAssumption
  <2> QED BY <2>3 DEF PoolInv, PoolIdle
<1>2. CASE \E w \in 1..Len(running) : running[w] # 0 /\ ReadFile(w)
  BY <1>2, ReadKeeps
<1>3. DeliverInventory \/ TakeInventory \/ UNCHANGED pool
      \/ \E w \in 1..Len(running) : running[w] # 0 /\ ReadFile(w)
  BY DEF Next, vars, ServeFromMemory, MakeScratch, Removing, RemoveList, RemoveFile,
         RemoveDirectory, DiscoveryFails, EndBuild, Writing, MakeDirectory, WriteFile, TaskFails
<1> QED BY <1>1, <1>2, <1>3, StartKeeps, OthersKeep

LEMMA PoolAlways == Spec => []PoolInv
<1>1. Init => PoolInv
  BY OutcomeAssumption DEF Init, Pool!PoolInit, PoolInv, PoolIdle
<1> QED BY <1>1, PoolStep, DiskAlways, PTL DEF Spec

\* When all workers have ended, the results are the outputs of all inputs.
LEMMA ResultsAreOutputs ==
  ASSUME PoolInv, outcome = Pending, \A w \in 1..Len(running) : running[w] = 0
  PROVE  results = Outputs
<1>1. PoolTypes /\ Taken
  BY DEF PoolInv
<1>2. nextIndex = Len(inputs) + 1 /\ Len(inputs) \in Nat
  <2>1. CASE Len(running) = 0
    BY <1>1, <2>1 DEF PoolTypes, Taken
  <2>2. CASE Len(running) # 0
    <3>1. 1 \in 1..Len(running)
      BY <1>1, <2>2 DEF PoolTypes
    <3> QED BY <1>1, <3>1 DEF PoolTypes, Taken
  <2> QED BY <2>1, <2>2
<1>3. ASSUME NEW i \in 1..Len(inputs) PROVE results[i] = ContentsOf(inputs[i])
  <2>1. i \in 1..nextIndex - 1 /\ i # 0
    BY <1>2
  <2> QED BY <1>1, <2>1 DEF Taken
<1>4. results \in [1..Len(inputs) -> Contents \cup {Nothing}]
  BY <1>1 DEF PoolTypes
<1> QED BY <1>3, <1>4 DEF Outputs

LEMMA BatchStep ==
  ASSUME DiskInv, PoolInv, [Next]_vars
  PROVE  [Batch!Next]_(Batch!batchVars)
<1>1. UNCHANGED sources
  BY DEF Next, vars, ServeFromMemory, MakeScratch, Removing, RemoveList, RemoveFile,
         RemoveDirectory, TakeInventory, DiscoveryFails, DeliverInventory, EndBuild, Writing,
         MakeDirectory, WriteFile, TaskFails, ReadFile
<1>2. ASSUME UNCHANGED inputs PROVE UNCHANGED Outputs
  BY <1>1, <1>2, SourcesFixed DEF Outputs
<1>3. CASE TakeInventory
  <2>1. PICK r \in Requests : Pool!Start(SetToSeq(DOMAIN discovered'.files), r)
    BY <1>3 DEF TakeInventory
  <2>2. outcome = Idle /\ outcome' = Pending
    BY <2>1 DEF Pool!Start
  <2>3. Len(inputs') \in Nat
    BY <1>3, <2>2, StartKeeps DEF PoolInv, PoolTypes
  <2>4. Len(Outputs') = Len(inputs')
    BY <2>3 DEF Outputs
  <2> QED BY <2>2, <2>4 DEF Batch!Next, Batch!Begin, Outputs
<1>4. ASSUME NEW w \in 1..Len(running), running[w] # 0, ReadFile(w)
      PROVE  [Batch!Next]_(Batch!batchVars)
  <2>1. UNCHANGED <<inputs, Outputs>>
    BY <1>2, <1>4 DEF ReadFile, Pool!TaskResolves, Pool!TaskRejects
  <2>2. CASE UNCHANGED outcome
    BY <2>1, <2>2 DEF Batch!batchVars, Outputs
  <2>3. CASE outcome = Pending /\ outcome' = [kind |-> "rejected", value |-> inputs[running[w]]]
    BY <1>4, <2>1, <2>3, ReadIsGiven DEF Batch!Next, Batch!Fail, Outputs
  <2> QED BY <1>4, <2>2, <2>3 DEF ReadFile, Pool!TaskResolves, Pool!TaskRejects
<1>5. CASE DeliverInventory
  <2>1. /\ outcome = Pending /\ \A w \in 1..Len(running) : running[w] = 0
        /\ outcome' = [kind |-> "resolved", value |-> results] /\ UNCHANGED inputs
    BY <1>5 DEF DeliverInventory, Pool!Deliver, Pool!Workers
  <2>2. results = Outputs
    BY <2>1, ResultsAreOutputs
  <2> QED BY <1>2, <2>1, <2>2 DEF Batch!Next, Batch!Finish, Outputs
<1>6. CASE UNCHANGED pool
  BY <1>2, <1>6 DEF Batch!batchVars, Outputs
<1>7. DeliverInventory \/ TakeInventory \/ UNCHANGED pool
      \/ \E w \in 1..Len(running) : running[w] # 0 /\ ReadFile(w)
  BY DEF Next, vars, ServeFromMemory, MakeScratch, Removing, RemoveList, RemoveFile,
         RemoveDirectory, DiscoveryFails, EndBuild, Writing, MakeDirectory, WriteFile, TaskFails
<1> QED BY <1>3, <1>4, <1>5, <1>6, <1>7

\* In every step the pool of the build does what an atomic batch does, or
\* nothing its caller can tell: with any number of workers, in whatever order
\* tasks end, it answers the outputs of all files in order, or the error of
\* one.
THEOREM PoolIsBatch == Spec => Batch!Init /\ [][Batch!Next]_(Batch!batchVars)
<1>1. Init => Batch!Init
  BY DEF Init, Pool!PoolInit, Batch!Init
<1> QED BY <1>1, BatchStep, DiskAlways, PoolAlways, PTL DEF Spec
=============================================================================
