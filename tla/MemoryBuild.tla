---------------------------- MODULE MemoryBuild ----------------------------
(***************************************************************************)
(* buildSoftwareGraphFromMemory: a build of sources held in memory, served *)
(* from memory (zero-disk) or written to a scratch directory of its own    *)
(* that is removed afterwards (materialize).  Each file is written by two  *)
(* calls, mkdir and writeFile, all files at once; the first that fails     *)
(* rejects the batch, and the directory is removed while the others go on. *)
(* Removing is Node's recursive rm: a directory is listed, what was listed *)
(* is removed, then the directory, which fails when something came since.  *)
(* The build of the directory reads its files in a pool of tasks.          *)
(***************************************************************************)
EXTENDS Integers, Sequences, SequencesExt

CONSTANTS Paths,         \* relative paths, of files and of directories
          ParentOf,      \* of a path: a path, or Root
          Ignored,       \* the paths with a part that discovery ignores
          Manifest,      \* the path package.json
          Root,          \* the scratch directory itself
          Keys,          \* keys of the source map
          Normalized,    \* of a key: a path, or Invalid
          Contents,
          NameOf,        \* of contents: as a manifest, the name, Nameless or NotJson
          Nameless, NotJson,
          Inputs,        \* sequences of [key, contents]: source maps in order
          ScratchName, MemoryName,   \* base names of the two kinds of root
          Invalid, Absent, Dir,
          Requests,      \* numbers of workers asked for, or Undefined
          DefaultWorkers, MAX_COMPILER_WORKERS, Undefined, Idle, Pending, Nothing

VARIABLES
  sources,    \* the input
  strategy,
  phase,      \* of the call
  tasks,      \* per path: "none", "mkdir", "write", "done" or "failed"
  scratch,    \* what is at each place
  doomed,     \* the places rm has found and not removed
  listed,     \* the directories rm has listed
  discovered, \* what the build found, or Absent
  answer,     \* what the call will answer: "none", "kept", "rejected"
  inputs, nextIndex, results, running, outcome  \* the pool of the inventory

Pool == INSTANCE TaskPool

given == <<sources, strategy>>
call == <<given, phase, tasks, discovered, answer>>
disk == <<scratch, doomed, listed>>
pool == <<inputs, nextIndex, results, running, outcome>>
vars == <<call, disk, pool>>

Places == Paths \cup {Root}

\* The directories a path lies in: its parent, the parent of that, and so on.
Above == [p \in Paths |->
  {d \in Places : \A S \in SUBSET Places :
     ParentOf[p] \in S /\ (\A c \in S \ {Root} : ParentOf[c] \in S) => d \in S}]

ChildrenIn(d) == {p \in Paths : ParentOf[p] = d /\ scratch[p] # Absent}

-----------------------------------------------------------------------------
Accepted == \A i \in 1..Len(sources) : Normalized[sources[i].key] # Invalid

Given == {Normalized[sources[i].key] : i \in 1..Len(sources)}

\* A later key wins over an earlier one of the same path.
ContentsOf(p) ==
  LET last == CHOOSE i \in 1..Len(sources) :
                /\ Normalized[sources[i].key] = p
                /\ \A j \in i + 1..Len(sources) : Normalized[sources[j].key] # p
  IN sources[last].contents

IsNamed(manifest) ==
  manifest \in Contents /\ NameOf[manifest] \notin {Nameless, NotJson}

\* What a build knows of its repository: the files, and the name, which goes
\* into the identity of nodes.  A manifest that is missing or has no name
\* leaves the base name of the root.
Discovery(files, manifest, basename) ==
  [files |-> files, name |-> IF IsNamed(manifest) THEN NameOf[manifest] ELSE basename]

\* A manifest that is not JSON counts as missing.
discoverFromProvider ==
  Discovery([p \in Given |-> ContentsOf(p)],
            IF Manifest \in Given THEN ContentsOf(Manifest) ELSE Absent, MemoryName)

discoverFiles ==
  LET found == {p \in Paths : scratch[p] \in Contents /\ p \notin Ignored}
  IN Discovery([p \in found |-> scratch[p]], scratch[Manifest], ScratchName)

\* On disk discovery throws when package.json is a directory or not JSON.
ManifestReads ==
  scratch[Manifest] # Dir
    /\ (scratch[Manifest] \in Contents => NameOf[scratch[Manifest]] # NotJson)

-----------------------------------------------------------------------------
Init ==
  /\ sources \in Inputs /\ strategy \in {"materialize", "zero-disk"}
  /\ phase = "called"
  /\ tasks = [p \in Paths |-> "none"]
  /\ scratch = [p \in Places |-> Absent]
  /\ doomed = {} /\ listed = {} /\ discovered = Absent /\ answer = "none"
  /\ Pool!PoolInit

\* The provider is made, or the call rejected for a key that is not a path in
\* the repository; then the build runs on the provider.
ServeFromMemory ==
  /\ phase = "called" /\ strategy = "zero-disk"
  /\ IF Accepted
     THEN /\ discovered' = discoverFromProvider
          /\ answer' \in {"kept", "rejected"}
     ELSE answer' = "rejected" /\ UNCHANGED discovered
  /\ phase' = "over"
  /\ UNCHANGED <<given, tasks, disk, pool>>

\* mkdtemp comes first; the provider is made outside the try.
MakeScratch ==
  /\ phase = "called" /\ strategy = "materialize"
  /\ scratch' = [scratch EXCEPT ![Root] = Dir]
  /\ IF Accepted
     THEN /\ phase' = "writing" /\ UNCHANGED answer
          /\ tasks' = [p \in Paths |-> IF p \in Given THEN "mkdir" ELSE "none"]
     ELSE phase' = "over" /\ answer' = "rejected" /\ UNCHANGED tasks
  /\ UNCHANGED <<given, doomed, listed, discovered, pool>>

-----------------------------------------------------------------------------
\* mkdir makes whatever directories are missing, the scratch directory
\* included.
MakeDirectory(p) ==
  /\ tasks[p] = "mkdir"
  /\ \A d \in Above[p] : scratch[d] \in {Absent, Dir}
  /\ scratch' = [d \in Places |-> IF d \in Above[p] THEN Dir ELSE scratch[d]]
  /\ tasks' = [tasks EXCEPT ![p] = "write"]
  /\ UNCHANGED <<given, phase, doomed, listed, discovered, answer, pool>>

WriteFile(p) ==
  /\ tasks[p] = "write"
  /\ scratch[ParentOf[p]] = Dir /\ scratch[p] # Dir
  /\ scratch' = [scratch EXCEPT ![p] = ContentsOf(p)]
  /\ tasks' = [tasks EXCEPT ![p] = "done"]
  /\ UNCHANGED <<given, phase, doomed, listed, discovered, answer, pool>>

\* Variant: a failure is noted by the task alone.
TaskFailsSilently(p) ==
  /\ tasks[p] \in {"mkdir", "write"}
  /\ tasks' = [tasks EXCEPT ![p] = "failed"]
  /\ UNCHANGED <<given, phase, disk, discovered, answer, pool>>

\* A file where a directory should be, a directory where a file should be, a
\* directory that is gone, a full disk.  The first failure ends the writing
\* and rm begins.
TaskFails(p) ==
  /\ tasks[p] \in {"mkdir", "write"}
  /\ tasks' = [tasks EXCEPT ![p] = "failed"]
  /\ IF phase = "writing"
     THEN phase' = "removing" /\ answer' = "rejected" /\ doomed' = {Root}
     ELSE UNCHANGED <<phase, answer, doomed>>
  /\ UNCHANGED <<given, scratch, listed, discovered, pool>>

\* Variant: the inventory begins with the first file.
InventoryEarly ==
  /\ phase = "writing" /\ (\E p \in Given : tasks[p] = "done") /\ ManifestReads
  /\ discovered' = discoverFiles /\ phase' = "inventory"
  /\ \E r \in Requests : Pool!Start(SetToSeq(DOMAIN discovered'.files), r)
  /\ UNCHANGED <<given, tasks, answer, disk>>

\* All is written: the build discovers the files and takes their inventory.
TakeInventory ==
  /\ phase = "writing" /\ (\A p \in Given : tasks[p] = "done") /\ ManifestReads
  /\ discovered' = discoverFiles /\ phase' = "inventory"
  /\ \E r \in Requests : Pool!Start(SetToSeq(DOMAIN discovered'.files), r)
  /\ UNCHANGED <<given, tasks, answer, disk>>

\* Discovery throws, on the manifest or on what cannot be read: no inventory is
\* taken, and rm begins.
DiscoveryFails ==
  /\ phase = "writing" /\ \A p \in Given : tasks[p] = "done"
  /\ answer' = "rejected" /\ phase' = "removing" /\ doomed' = {Root}
  /\ UNCHANGED <<given, tasks, scratch, listed, discovered, pool>>

\* A file is read and digested, or cannot be read.  After a rejection the
\* other workers read on, while rm removes the files under them.
ReadFile(w) ==
  /\ \/ /\ scratch[inputs[running[w]]] \in Contents
        /\ Pool!TaskResolves(w, scratch[inputs[running[w]]])
     \/ Pool!TaskRejects(w)
  /\ UNCHANGED <<call, disk>>

DeliverInventory == Pool!Deliver /\ UNCHANGED <<call, disk>>

\* Variant: a build that throws is not followed by rm.
EndWithoutFinally ==
  /\ phase = "inventory" /\ outcome # Pending
  /\ \/ outcome.kind = "resolved" /\ answer' = "kept"
        /\ phase' = "removing" /\ doomed' = {Root}
     \/ answer' = "rejected" /\ phase' = "over" /\ UNCHANGED doomed
  /\ UNCHANGED <<given, tasks, scratch, listed, discovered, pool>>

\* The build ends in a result or a rejection, and in any case rm begins.
EndBuild ==
  /\ phase = "inventory" /\ outcome # Pending
  /\ answer' \in IF outcome.kind = "resolved" THEN {"kept", "rejected"} ELSE {"rejected"}
  /\ phase' = "removing" /\ doomed' = {Root}
  /\ UNCHANGED <<given, tasks, scratch, listed, discovered, pool>>

-----------------------------------------------------------------------------
RemoveList(d) ==
  /\ d \in doomed \ listed /\ scratch[d] = Dir
  /\ listed' = listed \cup {d}
  /\ doomed' = doomed \cup ChildrenIn(d)
  /\ UNCHANGED <<given, phase, tasks, scratch, discovered, answer, pool>>

RemoveFile(p) ==
  /\ p \in doomed /\ scratch[p] \in Contents
  /\ scratch' = [scratch EXCEPT ![p] = Absent]
  /\ doomed' = doomed \ {p}
  /\ UNCHANGED <<given, phase, tasks, listed, discovered, answer, pool>>

\* With all its listed children gone a directory is removed, unless others
\* have come; rm then gives up, and its error is what the call answers.
RemoveDirectory(d) ==
  /\ d \in doomed \cap listed /\ \A p \in doomed \ {Root} : ParentOf[p] # d
  /\ doomed' = doomed \ {d}
  /\ IF ChildrenIn(d) = {}
     THEN /\ scratch' = [scratch EXCEPT ![d] = Absent]
          /\ phase' = IF d = Root THEN "over" ELSE phase
          /\ UNCHANGED answer
     ELSE /\ phase' = "over" /\ answer' = "rejected" /\ UNCHANGED scratch
  /\ UNCHANGED <<given, tasks, listed, discovered, pool>>

Writing(p) == MakeDirectory(p) \/ WriteFile(p) \/ TaskFails(p)

\* Once a directory could not be removed, rm goes on with what it had found.
Removing == \E p \in Places : RemoveList(p) \/ RemoveFile(p) \/ RemoveDirectory(p)

Next ==
  \/ ServeFromMemory \/ MakeScratch \/ Removing
  \/ TakeInventory \/ DiscoveryFails \/ DeliverInventory \/ EndBuild
  \/ \E p \in Paths : Writing(p)
  \/ \E w \in 1..Len(running) : running[w] # 0 /\ ReadFile(w)

Spec == Init /\ [][Next]_vars

\* Every call to the system answers, and what awaits it goes on.
FairSpec ==
  /\ Spec
  /\ WF_vars(ServeFromMemory \/ MakeScratch)
  /\ WF_vars(TakeInventory \/ DiscoveryFails \/ DeliverInventory \/ EndBuild)
  /\ WF_vars(Removing)
  /\ \A p \in Paths : WF_vars(Writing(p))
  /\ \A w \in 1..MAX_COMPILER_WORKERS :
       WF_vars(w <= Len(running) /\ running[w] # 0 /\ ReadFile(w))
=============================================================================
