----------------------- MODULE MemoryBuildProperties -----------------------
(***************************************************************************)
(* What is claimed of a build of sources held in memory, and of the pool   *)
(* of tasks that takes its inventory.                                      *)
(***************************************************************************)
EXTENDS MemoryBuild

ASSUME PlaceAssumption ==
  /\ ParentOf \in [Paths -> Places] /\ Root \notin Paths /\ Manifest \in Paths
  /\ \A p \in Paths : Root \in Above[p]
  /\ \A p \in Paths : ParentOf[p] \in Ignored => p \in Ignored
  /\ Contents \cap {Absent, Dir} = {} /\ Absent # Dir /\ Invalid \notin Paths
  /\ MAX_COMPILER_WORKERS \in Nat \ {0} /\ DefaultWorkers \in Nat \ {0}
  /\ Requests \subseteq Int \cup {Undefined}

ASSUME SourceAssumption ==
  /\ Normalized \in [Keys -> Paths \cup {Invalid}]
  /\ Inputs \subseteq Seq([key : Keys, contents : Contents])
  /\ DOMAIN NameOf = Contents /\ ScratchName # MemoryName

ASSUME OutcomeAssumption ==
  /\ Idle # Pending
  /\ \A o \in {Idle, Pending} :
       o \notin [kind : {"resolved", "rejected"}, value : Paths \cup Seq(Contents \cup {Nothing})]

AtRest == phase = "over" /\ \A p \in Paths : tasks[p] \notin {"mkdir", "write"}

\* When no source is in an ignored directory, a build of the scratch directory
\* finds the files that one served from memory is given: it begins only when
\* all is written, and of two keys of one path the later one is there.  The
\* name of the repository is the same if there is a manifest that gives one,
\* and only then.
PlainInputsAgree ==
  discovered # Absent /\ Given \cap Ignored = {} =>
    /\ discovered.files = discoverFromProvider.files
    /\ discovered.name = discoverFromProvider.name
         <=> \/ strategy = "zero-disk"
             \/ Manifest \in Given /\ IsNamed(ContentsOf(Manifest))

\* Whatever a call leaves on the disk, it leaves because a write failed or a
\* key was refused; after a build that ran, nothing is left, then or later.
OnlyFailuresLeaveFiles ==
  phase = "over" /\ (\E p \in Places : scratch[p] # Absent)
    => ~Accepted \/ \E p \in Paths : tasks[p] = "failed"

\* Every call answers, though rm and writes may get in each other's way.
CallsEnd == <>AtRest

\* The pool is to its caller one step that answers what was given for each
\* file, in the order of the files, or that one of them cannot be read:
\* whatever order the tasks end in, and though workers go on after a
\* rejection, the outcome is complete, in order, given once and in the end.
Batch == INSTANCE TaskBatch WITH
           outputs <- [i \in 1..Len(inputs) |-> ContentsOf(inputs[i])]
ImplementsBatch == Batch!Spec

-----------------------------------------------------------------------------
\* docs/in-memory-processing.md:41: "Writes the sources to a private scratch
\* directory, runs the standard on-disk pipeline, then removes the directory."
\* Of sources that are accepted.
ScratchIsRemoved == AtRest /\ Accepted => scratch[Root] = Absent
=============================================================================
