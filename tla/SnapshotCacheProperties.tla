----------------------- MODULE SnapshotCacheProperties -----------------------
(***************************************************************************)
(* What is claimed of the snapshot cache.  The claims take the 32-bit hash *)
(* not to collide on the values that are compared; see HashAssumption.     *)
(***************************************************************************)
EXTENDS SnapshotCache

ASSUME HashAssumption ==
  /\ \A x, y \in Contents : StableHash(x) = StableHash(y) => x = y
  /\ \A x, y \in Configs  : StableHash(x) = StableHash(y) => x = y
  /\ \A x, y \in Outputs  : StableHash(x) = StableHash(y) => x = y
  /\ \A x, y \in Outputs  : Sha256(x) = Sha256(y) => x = y

ASSUME SentinelAssumption ==
  /\ Absent \notin Contents /\ Pending \notin Contents
  /\ Absent \notin Digests /\ Pending \notin Digests
  /\ Pending # Absent /\ Unread # None
  /\ Unread \notin Outputs /\ None \notin Outputs
  /\ None \notin Manifests /\ None \notin Snapshots /\ None \notin Configs

ASSUME BoundAssumption == MaxEdits \in Nat /\ MaxFaults \in Nat
                          /\ MaxRemovals \in Nat
ASSUME ModeAssumption  == Modes \subseteq AllModes

-----------------------------------------------------------------------------
\* The variables hold values of the kinds their comments name.
TypeOK ==
  /\ tree \in Trees
  /\ graphFile \in Outputs \cup {None}
  /\ productsFile \in Outputs \cup {None}
  /\ manifestFile \in Manifests \cup {None}
  /\ pc \in [Builds -> Phases]
  /\ mode \in [Builds -> Modes \cup {None}]
  /\ config \in [Builds -> Configs \cup {None}]
  /\ inventory \in [Builds -> Inventories]
  /\ manifest \in [Builds -> Manifests \cup {None}]
  /\ graph \in [Builds -> Outputs \cup {Unread}]
  /\ products \in [Builds -> Outputs \cup {Unread, None}]
  /\ reason \in [Builds -> Reasons]
  /\ parsed \in [Builds -> [Files -> Contents \cup {Absent, Pending}]]
  /\ pending \in [Builds -> SUBSET {"graph", "products"}]
  /\ edits \in 0..MaxEdits /\ faults \in 0..MaxFaults
  /\ removals \in 0..MaxRemovals
  /\ undisturbed \in [Builds -> BOOLEAN]
  /\ committed \in Snapshots \cup {None}
  /\ consulted \in [Builds -> Snapshots \cup {None}]

Hit(b) == reason[b] = "hit"

\* A hit uses the graph and the products of one commit, the commit whose
\* manifest the lookup read, made for the sources and the configuration the
\* build asked for, whatever was renamed between its three reads.
HitIsOneCommit ==
  \A b \in Builds : Hit(b) =>
    /\ consulted[b] # None
    /\ graph[b] = consulted[b].graph
    /\ products[b] = consulted[b].products
    /\ inventory[b] = consulted[b].sources
    /\ config[b] = consulted[b].config

\* Warm builds equal clean builds: the graph of a hit is the graph that a
\* clean build of the digested sources constructs, provided the build that
\* committed it was not disturbed by an edit while it read the tree.
QuietHitIsClean ==
  \A b \in Builds : Hit(b) /\ consulted[b].quiet =>
    /\ InventoryOf(graph[b].tree) = inventory[b]
    /\ graph[b].config = config[b]

\* The same without the proviso, as rfcs/0002-compiler-pipeline.md states it
\* ("Warm builds MUST produce the same graph as a clean build").
WarmEqualsClean ==
  \A b \in Builds : Hit(b) => InventoryOf(graph[b].tree) = inventory[b]

\* A snapshot that was committed had passed validation, so a build never
\* fails validation on a graph it took from the cache.
HitPassesValidation ==
  \A b \in Builds : Hit(b) /\ pc[b] \in {"validate", "failed", "done"}
                      => Accepts(graph[b])

\* The cache is a register of whole snapshots.
Register == INSTANCE SnapshotRegister WITH
  store  <- committed,
  asked  <- consulted,
  answer <- [b \in Builds |->
               IF Hit(b) THEN [graph |-> graph[b], products |-> products[b],
                               sources |-> inventory[b], config |-> config[b]]
                         ELSE None]

\* Every lookup, commit and crash of the cache is a step of the register.
ImplementsRegister == Register!Spec

\* Overlapping commits may leave the graph of one build, the products of
\* another and the manifest of a third, and the user may have removed files.
\* The cache recovers by itself: when edits, faults and removals are over and
\* every build is incremental and of the same configuration, from some point
\* on every lookup is a hit.
CacheConverges ==
  \A c \in Configs :
    <>[](\A b \in Builds : config[b] \in {None, c}
                          /\ mode[b] \in {None, "incremental"})
      => <>[](\A b \in Builds : reason[b] \in {"none", "hit"})

-----------------------------------------------------------------------------
(***************************************************************************)
(* The strengthening under which the claims are inductive.                 *)
(***************************************************************************)

ManifestOf(s) == CreateManifest(s.graph, s.products, s.sources, s.config)

\* The manifest on disk describes the commit that wrote it.
ManifestDescribesCommit ==
  manifestFile # None => /\ committed # None
                         /\ manifestFile = ManifestOf(committed)

\* What a build holds in each of its phases.
PhaseFacts ==
  \A b \in Builds :
    /\ pending[b] # {} => pc[b] \in {"commit", "failed"}
    /\ pc[b] # "idle" => config[b] \in Configs
    /\ pc[b] \in {"idle", "inventory", "load", "lookup"} => reason[b] = "none"
    /\ pc[b] \in {"parse", "construct", "commit", "publish"}
         => reason[b] # "hit"
    /\ pc[b] \in {"validate", "commit", "publish"} \/ pending[b] # {}
         => graph[b] \in Outputs /\ products[b] \in Outputs
    /\ pc[b] = "construct" => parsed[b] \in Trees

\* A lookup under way compares with the manifest of the commit it consulted.
LookupFacts ==
  \A b \in Builds : pc[b] = "lookup" =>
    /\ consulted[b] # None
    /\ manifest[b] = ManifestOf(consulted[b])
    /\ manifest[b].sources = inventory[b]
    /\ manifest[b].fingerprint = StableHash(config[b])

BaseInv   == TypeOK /\ PhaseFacts
LookupInv == BaseInv /\ ManifestDescribesCommit /\ LookupFacts /\ HitIsOneCommit

\* A quiet snapshot holds the graph of the sources it lists.
QuietSnapshot(s) ==
  s # None /\ s.quiet => /\ InventoryOf(s.graph.tree) = s.sources
                         /\ s.graph.config = s.config

QuietSnapshots == /\ QuietSnapshot(committed)
                  /\ \A b \in Builds : QuietSnapshot(consulted[b])

\* While nothing disturbs it, a build sees one and the same tree.
QuietBuilds ==
  \A b \in Builds :
    /\ pc[b] \in Reading /\ undisturbed[b] => \A f \in Files :
         /\ inventory[b][f] # Pending => inventory[b][f] = InventoryOf(tree)[f]
         /\ pc[b] = "parse" /\ parsed[b][f] # Pending
              => parsed[b][f] = tree[f]
    /\ pc[b] \in Reading \ {"inventory"} =>
         \A f \in Files : inventory[b][f] # Pending
    /\ pc[b] = "construct" /\ undisturbed[b]
         => InventoryOf(parsed[b]) = inventory[b]
    /\ pc[b] \in {"validate", "commit", "publish"} /\ reason[b] # "hit"
         => /\ undisturbed[b] => InventoryOf(graph[b].tree) = inventory[b]
            /\ graph[b].config = config[b]

QuietInv == LookupInv /\ QuietSnapshots /\ QuietBuilds

\* What is committed, or about to be, has passed validation.
Accepted(s) == s # None => Accepts(s.graph)

ValidSnapshots ==
  /\ Accepted(committed)
  /\ \A b \in Builds : /\ Accepted(consulted[b])
                       /\ pc[b] \in {"commit", "publish"} => Accepts(graph[b])

ValidInv == LookupInv /\ ValidSnapshots
=============================================================================
