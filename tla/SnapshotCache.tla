--------------------------- MODULE SnapshotCache ---------------------------
(***************************************************************************)
(* The compiler snapshot cache under .ontoly/cache/compiler.               *)
(*                                                                         *)
(* Every invocation of buildSoftwareGraphWithArtifacts is a build: it      *)
(* digests the sources, looks for a snapshot committed for those digests,  *)
(* and on a miss reads the sources again, constructs a graph and its       *)
(* products, validates the graph and commits a new snapshot: the graph and *)
(* the products renamed into place in either order, then the manifest.     *)
(* No lock is taken.  Builds of one process (watch) and of several         *)
(* processes overlap, the user edits the tree meanwhile, writes fail and   *)
(* processes die.                                                          *)
(***************************************************************************)
EXTENDS Naturals

CONSTANTS
  Builds,         \* build tasks; one that has ended is reused for the next
  Files,          \* paths of the repository
  Contents,       \* what a file may hold
  Configs,        \* configurations, with the passes and hooks in force
  Modes,          \* subset of AllModes that builds are started in
  MaxEdits,       \* bound on edits of the tree
  MaxFaults,      \* bound on failed reads or writes and on crashes
  MaxRemovals,    \* bound on removals of cache files by the user
  StableHash(_),  \* the 32-bit FNV-1a of core's stableHash
  Sha256(_),      \* the digest of products.json
  Accepts(_),     \* whether graph validation finds no error in an output
  Absent,         \* a file that does not exist
  Pending,        \* a file still to be read
  Unread,         \* an artifact still to be read
  None            \* no such artifact

VARIABLES
  tree,           \* the working tree: the content of every file
  graphFile,      \* SoftwareGraph.json of the cache directory
  productsFile,   \* products.json
  manifestFile,   \* cache.json
  pc, mode, config,
  inventory,      \* per build, the digests of the source inventory
  manifest,       \* per build, the manifest its lookup read
  graph,          \* per build, the graph it loaded or constructed
  products,       \* per build, likewise the products
  reason,         \* per build, the outcome of its lookup
  parsed,         \* per build, what its frontends read
  pending,        \* per build, the artifacts it has still to rename
  edits, faults, removals,  \* how much of each bound is used
  undisturbed,    \* history: no edit since the build listed the tree
  committed,      \* history: the snapshot the manifest on disk stands for
  consulted       \* history: per build, committed when it read the manifest

disk  == <<graphFile, productsFile, manifestFile>>
local == <<mode, config, inventory, manifest, graph, products, reason, parsed>>
used  == <<edits, faults, removals>>
vars  == <<tree, disk, pc, local, pending, used,
           undisturbed, committed, consulted>>

-----------------------------------------------------------------------------
AllModes == {"incremental",  \* looks up and commits; the default of the CLI
             "clean",        \* mode clean with the cache on: commits only
             "uncached"}     \* --no-cache: neither

Phases == {"idle", "inventory", "load", "lookup", "parse", "construct",
           "validate", "commit", "publish", "done", "failed"}

Reasons == {"none", "disabled", "missing", "incompatible", "sources-changed",
            "graph-missing", "read-failed", "products-missing",
            "graph-mismatch", "products-mismatch", "hit"}

Trees   == [Files -> Contents \cup {Absent}]
Outputs == [tree : Trees, config : Configs]
Digests == {StableHash(c) : c \in Contents}
Inventories == [Files -> Digests \cup {Absent, Pending}]

Manifests == [graphHash   : {StableHash(o) : o \in Outputs},
              sources     : Inventories,
              fingerprint : {StableHash(c) : c \in Configs},
              productsFingerprint : {Sha256(o) : o \in Outputs}]

Snapshots == [graph : Outputs, products : Outputs, sources : Inventories,
              config : Configs, quiet : BOOLEAN]

\* What a build of tree t under configuration c produces; both the graph and
\* the products are functions of it, and it stands for both.
Output(t, c) == [tree |-> t, config |-> c]

\* createSourceInventory on a tree that holds still.
InventoryOf(t) == [f \in Files |-> IF t[f] = Absent THEN Absent
                                                    ELSE StableHash(t[f])]

\* createCompilerCacheManifest.
CreateManifest(g, p, inv, c) ==
  [graphHash |-> StableHash(g), sources |-> inv,
   fingerprint |-> StableHash(c), productsFingerprint |-> Sha256(p)]

LooksUp(b) == mode[b] = "incremental"
Commits(b) == mode[b] # "uncached"

-----------------------------------------------------------------------------
NoFiles == [f \in Files |-> Absent]

Init ==
  /\ tree \in Trees
  /\ graphFile = None /\ productsFile = None /\ manifestFile = None
  /\ pc = [b \in Builds |-> "idle"]
  /\ mode = [b \in Builds |-> None]
  /\ config = [b \in Builds |-> None]
  /\ inventory = [b \in Builds |-> NoFiles]
  /\ parsed    = [b \in Builds |-> NoFiles]
  /\ manifest  = [b \in Builds |-> None]
  /\ graph     = [b \in Builds |-> Unread]
  /\ products  = [b \in Builds |-> Unread]
  /\ reason    = [b \in Builds |-> "none"]
  /\ pending   = [b \in Builds |-> {}]
  /\ edits = 0 /\ faults = 0 /\ removals = 0
  /\ undisturbed = [b \in Builds |-> TRUE]
  /\ committed = None
  /\ consulted = [b \in Builds |-> None]

\* The build is over, and what it held in memory is gone with it.
Drop(b) ==
  /\ pc' = [pc EXCEPT ![b] = "idle"]
  /\ mode' = [mode EXCEPT ![b] = None]
  /\ config' = [config EXCEPT ![b] = None]
  /\ inventory' = [inventory EXCEPT ![b] = NoFiles]
  /\ parsed' = [parsed EXCEPT ![b] = NoFiles]
  /\ manifest' = [manifest EXCEPT ![b] = None]
  /\ graph' = [graph EXCEPT ![b] = Unread]
  /\ products' = [products EXCEPT ![b] = Unread]
  /\ reason' = [reason EXCEPT ![b] = "none"]
  /\ undisturbed' = [undisturbed EXCEPT ![b] = TRUE]
  /\ consulted' = [consulted EXCEPT ![b] = None]

\* The user writes, creates or deletes a file.  A build between its first and
\* its last look at the sources is disturbed by it.
Reading == {"inventory", "load", "lookup", "parse"}

Edit(f) ==
  /\ edits < MaxEdits
  /\ edits' = edits + 1
  /\ \E c \in (Contents \cup {Absent}) \ {tree[f]} :
       tree' = [tree EXCEPT ![f] = c]
  /\ undisturbed' = [b \in Builds |-> undisturbed[b] /\ pc[b] \notin Reading]
  /\ UNCHANGED <<disk, pc, local, pending, faults, removals, committed,
                 consulted>>

\* A build begins, in any mode and configuration.  discoverFiles lists the
\* tree; what it lists is digested next.
Begin(b) ==
  /\ pc[b] = "idle"
  /\ pc' = [pc EXCEPT ![b] = "inventory"]
  /\ \E m \in Modes : mode' = [mode EXCEPT ![b] = m]
  /\ \E c \in Configs : config' = [config EXCEPT ![b] = c]
  /\ inventory' = [inventory EXCEPT ![b] =
       [f \in Files |-> IF tree[f] = Absent THEN Absent ELSE Pending]]
  /\ UNCHANGED <<tree, disk, manifest, graph, products, reason, parsed,
                 pending, used, undisturbed, committed, consulted>>

\* The caller is done with the result.
Finish(b) ==
  /\ pc[b] \in {"done", "failed"} /\ pending[b] = {}
  /\ Drop(b)
  /\ UNCHANGED <<tree, disk, pending, used, committed>>

\* createSourceInventory reads the listed files, in any order as its workers
\* go; a listed file that is gone rejects the whole build.
DigestFile(b, f) ==
  /\ pc[b] = "inventory"
  /\ inventory[b][f] = Pending
  /\ tree[f] # Absent
  /\ inventory' = [inventory EXCEPT ![b][f] = StableHash(tree[f])]
  /\ UNCHANGED <<tree, disk, pc, mode, config, manifest, graph, products,
                 reason, parsed, pending, used, undisturbed, committed,
                 consulted>>

FileGone(b, f) ==
  /\ pc[b] = "inventory"
  /\ inventory[b][f] = Pending
  /\ tree[f] = Absent
  /\ Drop(b)
  /\ UNCHANGED <<tree, disk, pending, used, committed>>

InventoryDone(b) ==
  /\ pc[b] = "inventory"
  /\ \A f \in Files : inventory[b][f] # Pending
  /\ pc' = [pc EXCEPT ![b] = "load"]
  /\ UNCHANGED <<tree, disk, local, pending, used, undisturbed, committed,
                 consulted>>

\* The build goes on to frontend-planning ... without a snapshot.
Miss(b, why) ==
  /\ pc' = [pc EXCEPT ![b] = "parse"]
  /\ reason' = [reason EXCEPT ![b] = why]
  /\ graph' = [graph EXCEPT ![b] = Unread]
  /\ products' = [products EXCEPT ![b] = Unread]
  /\ parsed' = [parsed EXCEPT ![b] =
       [f \in Files |-> IF inventory[b][f] = Absent THEN Absent ELSE Pending]]
  /\ manifest' = [manifest EXCEPT ![b] = None]
  /\ consulted' = [consulted EXCEPT ![b] = None]
  /\ UNCHANGED <<tree, disk, mode, config, inventory, pending, edits, removals,
                 undisturbed, committed>>

\* loadCompilerBuildCache up to its two parallel reads.
Disabled(b) ==
  /\ pc[b] = "load" /\ ~LooksUp(b)
  /\ Miss(b, "disabled")
  /\ UNCHANGED faults

\* Variant: only added and removed files invalidate.
SamePaths(b, m) ==
  \A f \in Files : m.sources[f] = Absent <=> inventory[b][f] = Absent

\* The fingerprint of the inventory and hasInvalidation both compare the
\* digests; the second is not fooled by a collision of fingerprints.
Compatible(b, m)   == m.fingerprint = StableHash(config[b])
SourcesMatch(b, m) == m.sources = inventory[b]

Usable(b, m) == m # None /\ Compatible(b, m) /\ SourcesMatch(b, m)

RejectManifest(b) ==
  /\ pc[b] = "load" /\ LooksUp(b)
  /\ \/ manifestFile = None /\ Miss(b, "missing")
     \/ /\ manifestFile # None /\ ~Compatible(b, manifestFile)
        /\ Miss(b, "incompatible")
     \/ /\ manifestFile # None /\ Compatible(b, manifestFile)
        /\ ~SourcesMatch(b, manifestFile)
        /\ Miss(b, "sources-changed")
  /\ UNCHANGED faults

Consult(b) ==
  /\ pc[b] = "load" /\ LooksUp(b)
  /\ Usable(b, manifestFile)
  /\ pc' = [pc EXCEPT ![b] = "lookup"]
  /\ manifest' = [manifest EXCEPT ![b] = manifestFile]
  /\ consulted' = [consulted EXCEPT ![b] = committed]
  /\ UNCHANGED <<tree, disk, mode, config, inventory, graph, products, reason,
                 parsed, pending, used, undisturbed, committed>>

\* The graph and the products are read in parallel; a missing graph rejects
\* the lookup at once, missing products are noticed when both have been read.
ReadGraph(b) ==
  /\ pc[b] = "lookup" /\ graph[b] = Unread
  /\ graphFile # None
  /\ graph' = [graph EXCEPT ![b] = graphFile]
  /\ UNCHANGED <<tree, disk, pc, mode, config, inventory, manifest, products,
                 reason, parsed, pending, used, undisturbed, committed,
                 consulted>>

GraphMissing(b) ==
  /\ pc[b] = "lookup" /\ graph[b] = Unread
  /\ graphFile = None
  /\ Miss(b, "graph-missing")
  /\ UNCHANGED faults

ReadProducts(b) ==
  /\ pc[b] = "lookup" /\ products[b] = Unread
  /\ products' = [products EXCEPT ![b] = productsFile]
  /\ UNCHANGED <<tree, disk, pc, mode, config, inventory, manifest, graph,
                 reason, parsed, pending, used, undisturbed, committed,
                 consulted>>

\* Variants: the snapshot is used without one of its two checks.
GraphTrusted(b)    == graph[b] # Unread
ProductsTrusted(b) == products[b] # Unread

GraphMatches(b)  == StableHash(graph[b]) = manifest[b].graphHash
ProductsMatch(b) == Sha256(products[b]) = manifest[b].productsFingerprint

BothRead(b) == pc[b] = "lookup" /\ graph[b] # Unread /\ products[b] # Unread

RejectSnapshot(b) ==
  /\ BothRead(b)
  /\ \/ products[b] = None /\ Miss(b, "products-missing")
     \/ products[b] # None /\ ~GraphMatches(b) /\ Miss(b, "graph-mismatch")
     \/ /\ products[b] # None /\ GraphMatches(b) /\ ~ProductsMatch(b)
        /\ Miss(b, "products-mismatch")
  /\ UNCHANGED faults

\* A hit: the stages from frontend-planning to optimization-passes are skipped.
UseSnapshot(b) ==
  /\ BothRead(b)
  /\ products[b] # None /\ GraphMatches(b) /\ ProductsMatch(b)
  /\ pc' = [pc EXCEPT ![b] = "validate"]
  /\ reason' = [reason EXCEPT ![b] = "hit"]
  /\ manifest' = [manifest EXCEPT ![b] = None]
  /\ UNCHANGED <<tree, disk, mode, config, inventory, graph, products, parsed,
                 pending, used, undisturbed, committed, consulted>>

\* Any other error while reading the cache is a miss as well.
LookupFails(b) ==
  /\ \/ pc[b] = "load" /\ LooksUp(b)
     \/ pc[b] = "lookup" /\ (graph[b] = Unread \/ products[b] = Unread)
  /\ faults < MaxFaults
  /\ faults' = faults + 1
  /\ Miss(b, "read-failed")

\* A frontend reads a file of the inventory.  One deleted since then is
\* reported and passed over.
ParseFile(b, f) ==
  /\ pc[b] = "parse"
  /\ parsed[b][f] = Pending
  /\ parsed' = [parsed EXCEPT ![b][f] = tree[f]]
  /\ UNCHANGED <<tree, disk, pc, mode, config, inventory, manifest, graph,
                 products, reason, pending, used, undisturbed, committed,
                 consulted>>

ParseDone(b) ==
  /\ pc[b] = "parse"
  /\ \A f \in Files : parsed[b][f] # Pending
  /\ pc' = [pc EXCEPT ![b] = "construct"]
  /\ UNCHANGED <<tree, disk, local, pending, used, undisturbed, committed,
                 consulted>>

\* graph-construction, from what the passes read.
Construct(b) ==
  /\ pc[b] = "construct"
  /\ pc' = [pc EXCEPT ![b] = "validate"]
  /\ graph' = [graph EXCEPT ![b] = Output(parsed[b], config[b])]
  /\ products' = [products EXCEPT ![b] = Output(parsed[b], config[b])]
  /\ parsed' = [parsed EXCEPT ![b] = [f \in Files |-> Absent]]
  /\ UNCHANGED <<tree, disk, mode, config, inventory, manifest, reason,
                 pending, used, undisturbed, committed, consulted>>

\* graph-validation is fatal on an error, for a loaded graph as for a
\* constructed one; artifact-commit writes a snapshot only after a miss.
Validate(b) ==
  /\ pc[b] = "validate"
  /\ \/ ~Accepts(graph[b]) /\ pc' = [pc EXCEPT ![b] = "failed"]
     \/ /\ Accepts(graph[b])
        /\ reason[b] = "hit" \/ ~Commits(b)
        /\ pc' = [pc EXCEPT ![b] = "done"]
  /\ UNCHANGED <<tree, disk, local, pending, used, undisturbed, committed,
                 consulted>>

\* Variant: the snapshot is committed beside validation, not after it.
EagerCommit(b) ==
  /\ pc[b] = "validate"
  /\ reason[b] # "hit" /\ Commits(b)
  /\ pc' = [pc EXCEPT ![b] = "commit"]
  /\ pending' = [pending EXCEPT ![b] = {"graph", "products"}]
  /\ UNCHANGED <<tree, disk, local, used, undisturbed, committed, consulted>>

BeginCommit(b) ==
  /\ pc[b] = "validate"
  /\ Accepts(graph[b]) /\ reason[b] # "hit" /\ Commits(b)
  /\ pc' = [pc EXCEPT ![b] = "commit"]
  /\ pending' = [pending EXCEPT ![b] = {"graph", "products"}]
  /\ UNCHANGED <<tree, disk, local, used, undisturbed, committed, consulted>>

\* persistCompilerSnapshot: the two renames run in parallel, and each goes on
\* when the other has failed and with it the build.
RenameGraph(b) ==
  /\ "graph" \in pending[b]
  /\ graphFile' = graph[b]
  /\ pending' = [pending EXCEPT ![b] = @ \ {"graph"}]
  /\ UNCHANGED <<tree, productsFile, manifestFile, pc, local, used,
                 undisturbed, committed, consulted>>

RenameProducts(b) ==
  /\ "products" \in pending[b]
  /\ productsFile' = products[b]
  /\ pending' = [pending EXCEPT ![b] = @ \ {"products"}]
  /\ UNCHANGED <<tree, graphFile, manifestFile, pc, local, used, undisturbed,
                 committed, consulted>>

RenamesDone(b) ==
  /\ pc[b] = "commit" /\ pending[b] = {}
  /\ pc' = [pc EXCEPT ![b] = "publish"]
  /\ UNCHANGED <<tree, disk, local, pending, used, undisturbed, committed,
                 consulted>>

\* Variant: a manifest that is there already is left in place.
PublishOnce(b) ==
  /\ pc[b] = "publish"
  /\ IF manifestFile # None THEN UNCHANGED <<manifestFile, committed>> ELSE
     /\ manifestFile' = CreateManifest(graph[b], products[b], inventory[b],
                                       config[b])
     /\ committed' = [graph |-> graph[b], products |-> products[b],
                      sources |-> inventory[b], config |-> config[b],
                      quiet |-> undisturbed[b]]
  /\ pc' = [pc EXCEPT ![b] = "done"]
  /\ UNCHANGED <<tree, graphFile, productsFile, local, pending, used,
                 undisturbed, consulted>>

\* The manifest, the commit marker, is renamed last.
Publish(b) ==
  /\ pc[b] = "publish"
  /\ manifestFile' = CreateManifest(graph[b], products[b], inventory[b],
                                    config[b])
  /\ committed' = [graph |-> graph[b], products |-> products[b],
                   sources |-> inventory[b], config |-> config[b],
                   quiet |-> undisturbed[b]]
  /\ pc' = [pc EXCEPT ![b] = "done"]
  /\ UNCHANGED <<tree, graphFile, productsFile, local, pending, used,
                 undisturbed, consulted>>

\* A write fails: its temporary file is removed, the build is rejected, and
\* what is already under way beside it is not called off.
WriteFails(b) ==
  /\ faults < MaxFaults
  /\ faults' = faults + 1
  /\ \/ \E a \in pending[b] : pending' = [pending EXCEPT ![b] = @ \ {a}]
     \/ pc[b] = "publish" /\ UNCHANGED pending
  /\ pc' = [pc EXCEPT ![b] = "failed"]
  /\ UNCHANGED <<tree, disk, local, edits, removals, undisturbed, committed,
                 consulted>>

\* The process of the build dies; what it has not renamed stays undone.
Crash(b) ==
  /\ faults < MaxFaults
  /\ pc[b] # "idle"
  /\ faults' = faults + 1
  /\ pending' = [pending EXCEPT ![b] = {}]
  /\ Drop(b)
  /\ UNCHANGED <<tree, disk, edits, removals, committed>>

\* The user empties the cache directory, or takes one file out of it; the test
\* "rebuilds instead of silently dropping missing frontend products" does so.
Remove ==
  /\ removals < MaxRemovals
  /\ removals' = removals + 1
  /\ \/ graphFile' = None /\ UNCHANGED <<productsFile, manifestFile>>
     \/ productsFile' = None /\ UNCHANGED <<graphFile, manifestFile>>
     \/ graphFile' = None /\ productsFile' = None /\ manifestFile' = None
  /\ UNCHANGED <<tree, pc, local, pending, edits, faults, undisturbed,
                 committed, consulted>>

-----------------------------------------------------------------------------
\* The steps of a build that its process takes without outside help.
Progress(b) ==
  \/ Begin(b) \/ Finish(b) \/ InventoryDone(b)
  \/ \E f \in Files : DigestFile(b, f) \/ FileGone(b, f) \/ ParseFile(b, f)
  \/ Disabled(b) \/ RejectManifest(b) \/ Consult(b)
  \/ ReadGraph(b) \/ GraphMissing(b) \/ ReadProducts(b)
  \/ RejectSnapshot(b) \/ UseSnapshot(b)
  \/ ParseDone(b) \/ Construct(b) \/ Validate(b) \/ BeginCommit(b)
  \/ RenameGraph(b) \/ RenameProducts(b) \/ RenamesDone(b) \/ Publish(b)

Next ==
  \/ Remove
  \/ \E f \in Files : Edit(f)
  \/ \E b \in Builds :
       Progress(b) \/ LookupFails(b) \/ WriteFails(b) \/ Crash(b)

Spec == Init /\ [][Next]_vars

\* The event loop runs every step that is ready, and somebody keeps asking
\* for builds.  Nothing makes the user edit, or a step fail.
Fairness == \A b \in Builds : WF_vars(Progress(b))

FairSpec == Spec /\ Fairness
=============================================================================
