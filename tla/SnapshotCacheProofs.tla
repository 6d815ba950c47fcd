------------------------ MODULE SnapshotCacheProofs ------------------------
(***************************************************************************)
(* Proofs of the safety claims about the snapshot cache, for any number of *)
(* builds, files, contents and configurations and any bounds.              *)
(***************************************************************************)
EXTENDS SnapshotCacheProperties, TLAPS

USE DEF disk, local, used

-----------------------------------------------------------------------------
\* The values the model constructs are of their kinds.
LEMMA OutputType ==
  ASSUME NEW t \in Trees, NEW c \in Configs
  PROVE  Output(t, c) \in Outputs
BY DEF Output, Outputs

LEMMA ManifestType ==
  ASSUME NEW g \in Outputs, NEW p \in Outputs, NEW i \in Inventories,
         NEW c \in Configs
  PROVE  CreateManifest(g, p, i, c) \in Manifests
BY DEF CreateManifest, Manifests

\* Dropping a build's memory leaves values of the right kinds.
LEMMA DropType ==
  ASSUME BaseInv, NEW b \in Builds, Drop(b)
  PROVE  /\ pc' \in [Builds -> Phases]
         /\ mode' \in [Builds -> Modes \cup {None}]
         /\ config' \in [Builds -> Configs \cup {None}]
         /\ inventory' \in [Builds -> Inventories]
         /\ manifest' \in [Builds -> Manifests \cup {None}]
         /\ graph' \in [Builds -> Outputs \cup {Unread}]
         /\ products' \in [Builds -> Outputs \cup {Unread, None}]
         /\ reason' \in [Builds -> Reasons]
         /\ parsed' \in [Builds -> [Files -> Contents \cup {Absent, Pending}]]
         /\ undisturbed' \in [Builds -> BOOLEAN]
         /\ consulted' \in [Builds -> Snapshots \cup {None}]
BY DEF BaseInv, TypeOK, Drop, NoFiles, Inventories, Phases, Reasons

LEMMA MissType ==
  ASSUME BaseInv, NEW b \in Builds, NEW why \in Reasons, Miss(b, why),
         UNCHANGED faults \/ faults' \in 0..MaxFaults
  PROVE  TypeOK'
BY DEF BaseInv, TypeOK, Miss, Phases, Reasons, Inventories

\* A build that misses while it reads keeps the phase facts.
LEMMA MissStep ==
  ASSUME BaseInv, NEW b \in Builds, NEW why \in Reasons \ {"hit"},
         Miss(b, why), pc[b] \in {"load", "lookup"},
         UNCHANGED faults \/ faults' \in 0..MaxFaults
  PROVE  BaseInv'
<1>1. TypeOK'
  BY MissType
<1>2. ASSUME NEW c \in Builds PROVE PhaseFacts!(c)'
  <2>1. CASE c = b
    BY <2>1 DEF BaseInv, TypeOK, PhaseFacts, Miss
  <2>2. CASE c # b
    BY <2>2 DEF BaseInv, TypeOK, PhaseFacts, Miss
  <2> QED BY <2>1, <2>2
<1> QED
  BY <1>1, <1>2 DEF BaseInv, PhaseFacts

\* A build that ends, with no rename left to do, keeps them too.
LEMMA DropStep ==
  ASSUME BaseInv, NEW b \in Builds, Drop(b),
         UNCHANGED <<tree, disk, edits, removals, committed>>,
         UNCHANGED faults \/ faults' \in 0..MaxFaults,
         pending' = [pending EXCEPT ![b] = {}]
  PROVE  BaseInv'
<1>1. TypeOK'
  BY DropType DEF BaseInv, TypeOK
<1>2. ASSUME NEW c \in Builds PROVE PhaseFacts!(c)'
  <2>1. CASE c = b
    BY <2>1 DEF BaseInv, TypeOK, PhaseFacts, Drop
  <2>2. CASE c # b
    BY <2>2 DEF BaseInv, TypeOK, PhaseFacts, Drop
  <2> QED BY <2>1, <2>2
<1> QED
  BY <1>1, <1>2 DEF BaseInv, PhaseFacts

-----------------------------------------------------------------------------
\* Type correctness and the phase facts are preserved together.
LEMMA BaseStep == BaseInv /\ [Next]_vars => BaseInv'
<1> SUFFICES ASSUME BaseInv, [Next]_vars PROVE BaseInv'
  OBVIOUS
<1> USE SentinelAssumption, BoundAssumption, ModeAssumption
<1>0. CASE UNCHANGED vars
  BY <1>0 DEF BaseInv, TypeOK, PhaseFacts, vars
<1>1. ASSUME NEW f \in Files, Edit(f) PROVE BaseInv'
  BY <1>1 DEF BaseInv, TypeOK, PhaseFacts, Edit, Trees
<1>2. ASSUME NEW b \in Builds, NEW f \in Files, DigestFile(b, f)
      PROVE  BaseInv'
  <2>1. StableHash(tree[f]) \in Digests
    BY <1>2 DEF BaseInv, TypeOK, DigestFile, Digests, Trees
  <2>2. [inventory[b] EXCEPT ![f] = StableHash(tree[f])] \in Inventories
    BY <2>1 DEF BaseInv, TypeOK, Inventories
  <2>3. inventory' \in [Builds -> Inventories]
    BY <1>2, <2>2 DEF BaseInv, TypeOK, DigestFile
  <2> QED BY <1>2, <2>3 DEF BaseInv, TypeOK, PhaseFacts, DigestFile
<1>3. ASSUME NEW b \in Builds, NEW f \in Files, FileGone(b, f)
      PROVE  BaseInv'
  <2>1. pending' = [pending EXCEPT ![b] = {}]
    BY <1>3 DEF BaseInv, TypeOK, PhaseFacts, FileGone
  <2> QED BY <1>3, <2>1, DropStep DEF FileGone
<1>4. ASSUME NEW b \in Builds, NEW f \in Files, ParseFile(b, f)
      PROVE  BaseInv'
  BY <1>4 DEF BaseInv, TypeOK, PhaseFacts, ParseFile, Trees
<1>5. ASSUME NEW b \in Builds, Begin(b) PROVE BaseInv'
  BY <1>5 DEF BaseInv, TypeOK, PhaseFacts, Begin, Inventories, Phases
<1>6. ASSUME NEW b \in Builds, Finish(b) PROVE BaseInv'
  <2>1. pending' = [pending EXCEPT ![b] = {}]
    BY <1>6 DEF BaseInv, TypeOK, Finish
  <2> QED BY <1>6, <2>1, DropStep DEF Finish
<1>7. ASSUME NEW b \in Builds, InventoryDone(b) PROVE BaseInv'
  BY <1>7 DEF BaseInv, TypeOK, PhaseFacts, InventoryDone, Phases
<1>8. ASSUME NEW b \in Builds, Disabled(b) PROVE BaseInv'
  BY <1>8, MissStep DEF Disabled, Reasons
<1>9. ASSUME NEW b \in Builds, RejectManifest(b) PROVE BaseInv'
  BY <1>9, MissStep DEF RejectManifest, Reasons
<1>10. ASSUME NEW b \in Builds, Consult(b) PROVE BaseInv'
  <2>1. TypeOK'
    BY <1>10 DEF BaseInv, TypeOK, Consult, Usable, Phases, Reasons
  <2>2. ASSUME NEW c \in Builds PROVE PhaseFacts!(c)'
    <3>1. CASE c = b
      BY <1>10, <3>1 DEF BaseInv, TypeOK, PhaseFacts, Consult, Usable
    <3>2. CASE c # b
      BY <1>10, <3>2 DEF BaseInv, TypeOK, PhaseFacts, Consult, Usable
    <3> QED BY <3>1, <3>2
  <2> QED BY <2>1, <2>2 DEF BaseInv, PhaseFacts
<1>11. ASSUME NEW b \in Builds, ReadGraph(b) PROVE BaseInv'
  <2>1. TypeOK'
    BY <1>11 DEF BaseInv, TypeOK, ReadGraph, Phases, Reasons
  <2>2. ASSUME NEW c \in Builds PROVE PhaseFacts!(c)'
    <3>1. CASE c = b
      BY <1>11, <3>1 DEF BaseInv, TypeOK, PhaseFacts, ReadGraph
    <3>2. CASE c # b
      BY <1>11, <3>2 DEF BaseInv, TypeOK, PhaseFacts, ReadGraph
    <3> QED BY <3>1, <3>2
  <2> QED BY <2>1, <2>2 DEF BaseInv, PhaseFacts
<1>12. ASSUME NEW b \in Builds, GraphMissing(b) PROVE BaseInv'
  BY <1>12, MissStep DEF GraphMissing, Reasons
<1>13. ASSUME NEW b \in Builds, ReadProducts(b) PROVE BaseInv'
  BY <1>13 DEF BaseInv, TypeOK, PhaseFacts, ReadProducts
<1>14. ASSUME NEW b \in Builds, RejectSnapshot(b) PROVE BaseInv'
  BY <1>14, MissStep DEF RejectSnapshot, BothRead, Reasons
<1>15. ASSUME NEW b \in Builds, UseSnapshot(b) PROVE BaseInv'
  <2>1. TypeOK'
    BY <1>15 DEF BaseInv, TypeOK, UseSnapshot, BothRead, Phases, Reasons
  <2>2. ASSUME NEW c \in Builds PROVE PhaseFacts!(c)'
    <3>1. CASE c = b
      BY <1>15, <3>1 DEF BaseInv, TypeOK, PhaseFacts, UseSnapshot, BothRead
    <3>2. CASE c # b
      BY <1>15, <3>2 DEF BaseInv, TypeOK, PhaseFacts, UseSnapshot, BothRead
    <3> QED BY <3>1, <3>2
  <2> QED BY <2>1, <2>2 DEF BaseInv, PhaseFacts
<1>16. ASSUME NEW b \in Builds, ParseDone(b) PROVE BaseInv'
  BY <1>16 DEF BaseInv, TypeOK, PhaseFacts, ParseDone, Phases, Trees
<1>17. ASSUME NEW b \in Builds, Construct(b) PROVE BaseInv'
  BY <1>17, OutputType DEF BaseInv, TypeOK, PhaseFacts, Construct, Phases, NoFiles
<1>18. ASSUME NEW b \in Builds, Validate(b) PROVE BaseInv'
  <2>1. TypeOK'
    BY <1>18 DEF BaseInv, TypeOK, Validate, Phases, Reasons
  <2>2. ASSUME NEW c \in Builds PROVE PhaseFacts!(c)'
    <3>1. CASE c = b
      BY <1>18, <3>1 DEF BaseInv, TypeOK, PhaseFacts, Validate
    <3>2. CASE c # b
      BY <1>18, <3>2 DEF BaseInv, TypeOK, PhaseFacts, Validate
    <3> QED BY <3>1, <3>2
  <2> QED BY <2>1, <2>2 DEF BaseInv, PhaseFacts
<1>19. ASSUME NEW b \in Builds, BeginCommit(b) PROVE BaseInv'
  <2>1. TypeOK'
    BY <1>19 DEF BaseInv, TypeOK, BeginCommit, Phases, Reasons
  <2>2. ASSUME NEW c \in Builds PROVE PhaseFacts!(c)'
    <3>1. CASE c = b
      BY <1>19, <3>1 DEF BaseInv, TypeOK, PhaseFacts, BeginCommit
    <3>2. CASE c # b
      BY <1>19, <3>2 DEF BaseInv, TypeOK, PhaseFacts, BeginCommit
    <3> QED BY <3>1, <3>2
  <2> QED BY <2>1, <2>2 DEF BaseInv, PhaseFacts
<1>20. ASSUME NEW b \in Builds, RenameGraph(b) PROVE BaseInv'
  BY <1>20 DEF BaseInv, TypeOK, PhaseFacts, RenameGraph
<1>21. ASSUME NEW b \in Builds, RenameProducts(b) PROVE BaseInv'
  BY <1>21 DEF BaseInv, TypeOK, PhaseFacts, RenameProducts
<1>22. ASSUME NEW b \in Builds, RenamesDone(b) PROVE BaseInv'
  BY <1>22 DEF BaseInv, TypeOK, PhaseFacts, RenamesDone, Phases
<1>23. ASSUME NEW b \in Builds, Publish(b) PROVE BaseInv'
  BY <1>23, ManifestType DEF BaseInv, TypeOK, PhaseFacts, Publish, Phases, Snapshots
<1>24. ASSUME NEW b \in Builds, LookupFails(b) PROVE BaseInv'
  <2>1. faults' \in 0..MaxFaults
    BY <1>24 DEF BaseInv, TypeOK, LookupFails
  <2> QED BY <1>24, <2>1, MissStep DEF LookupFails, Reasons
<1>25. ASSUME NEW b \in Builds, WriteFails(b) PROVE BaseInv'
  <2>1. TypeOK'
    BY <1>25 DEF BaseInv, TypeOK, WriteFails, Phases, Reasons
  <2>2. ASSUME NEW c \in Builds PROVE PhaseFacts!(c)'
    <3>1. CASE c = b
      BY <1>25, <3>1 DEF BaseInv, TypeOK, PhaseFacts, WriteFails
    <3>2. CASE c # b
      BY <1>25, <3>2 DEF BaseInv, TypeOK, PhaseFacts, WriteFails
    <3> QED BY <3>1, <3>2
  <2> QED BY <2>1, <2>2 DEF BaseInv, PhaseFacts
<1>26. ASSUME NEW b \in Builds, Crash(b) PROVE BaseInv'
  <2>1. faults' \in 0..MaxFaults
    BY <1>26 DEF BaseInv, TypeOK, Crash
  <2> QED BY <1>26, <2>1, DropStep DEF Crash
<1>27. ASSUME Remove PROVE BaseInv'
  BY <1>27 DEF BaseInv, TypeOK, PhaseFacts, Remove
<1> QED
  BY <1>0, <1>1, <1>2, <1>3, <1>4, <1>5, <1>6, <1>7, <1>8, <1>9, <1>10,
     <1>11, <1>12, <1>13, <1>14, <1>15, <1>16, <1>17, <1>18, <1>19, <1>20,
     <1>21, <1>22, <1>23, <1>24, <1>25, <1>26, <1>27 DEF Next, Progress

-----------------------------------------------------------------------------
\* Of every behaviour of the cache, the variables stay of their kinds.
LEMMA BaseInit == Init => BaseInv
BY SentinelAssumption, BoundAssumption
   DEF Init, BaseInv, TypeOK, PhaseFacts, NoFiles, Inventories, Phases, Reasons

LEMMA BaseInvariant == Spec => []BaseInv
BY BaseInit, BaseStep, PTL DEF Spec

\* The variables of the cache hold values of their kinds, whatever builds
\* overlap, fail or die.
THEOREM TypeCorrect == Spec => []TypeOK
<1>1. BaseInv => TypeOK
  BY DEF BaseInv
<1> QED BY <1>1, BaseInvariant, PTL

-----------------------------------------------------------------------------
LEMMA LookupInit == Init => LookupInv
BY BaseInit DEF Init, LookupInv, ManifestDescribesCommit, LookupFacts,
                HitIsOneCommit, Hit

\* A build that misses or ends has no lookup under way and no hit.
LEMMA LookupClosed ==
  ASSUME BaseInv, LookupFacts, HitIsOneCommit, NEW b \in Builds,
         Drop(b) \/ \E why \in Reasons \ {"hit"} : Miss(b, why)
  PROVE  LookupFacts' /\ HitIsOneCommit'
<1> USE DEF BaseInv, TypeOK
<1>1. pc'[b] # "lookup" /\ reason'[b] # "hit"
  <2>1. CASE Drop(b)
    BY <2>1 DEF Drop
  <2>2. ASSUME NEW why \in Reasons \ {"hit"}, Miss(b, why)
        PROVE  pc'[b] # "lookup" /\ reason'[b] # "hit"
    BY <2>2 DEF Miss
  <2> QED BY <2>1, <2>2
<1>2. ASSUME NEW c \in Builds \ {b}
      PROVE  /\ pc'[c] = pc[c] /\ reason'[c] = reason[c]
             /\ config'[c] = config[c] /\ inventory'[c] = inventory[c]
             /\ manifest'[c] = manifest[c] /\ consulted'[c] = consulted[c]
             /\ graph'[c] = graph[c] /\ products'[c] = products[c]
  BY DEF Drop, Miss
<1>3. ASSUME NEW c \in Builds PROVE LookupFacts!(c)' /\ HitIsOneCommit!(c)'
  <2>1. CASE c = b
    BY <1>1, <2>1 DEF Hit
  <2>2. CASE c # b
    BY <1>2, <2>2 DEF LookupFacts, HitIsOneCommit, Hit
  <2> QED BY <2>1, <2>2
<1> QED
  BY <1>3 DEF LookupFacts, HitIsOneCommit

LEMMA LookupStep == LookupInv /\ [Next]_vars => LookupInv'
<1> SUFFICES ASSUME LookupInv, [Next]_vars
             PROVE  /\ ManifestDescribesCommit'
                    /\ LookupFacts' /\ HitIsOneCommit'
  BY BaseStep DEF LookupInv
<1> USE DEF LookupInv, BaseInv, TypeOK, LookupFacts, HitIsOneCommit, Hit
<1> DEFINE Goal == ManifestDescribesCommit' /\ LookupFacts' /\ HitIsOneCommit'
<1>0. CASE UNCHANGED vars
  BY <1>0 DEF vars, ManifestDescribesCommit
<1>1. ASSUME NEW f \in Files, Edit(f) PROVE Goal
  BY <1>1 DEF Edit, ManifestDescribesCommit
<1>2. ASSUME NEW b \in Builds, NEW f \in Files, DigestFile(b, f) PROVE Goal
  BY <1>2 DEF DigestFile, ManifestDescribesCommit, PhaseFacts
<1>3. ASSUME NEW b \in Builds, NEW f \in Files, FileGone(b, f) PROVE Goal
  BY <1>3, LookupClosed DEF FileGone, ManifestDescribesCommit
<1>4. ASSUME NEW b \in Builds, NEW f \in Files, ParseFile(b, f) PROVE Goal
  BY <1>4 DEF ParseFile, ManifestDescribesCommit
<1>5. ASSUME NEW b \in Builds, Begin(b) PROVE Goal
  BY <1>5 DEF Begin, ManifestDescribesCommit, PhaseFacts
<1>6. ASSUME NEW b \in Builds, Finish(b) PROVE Goal
  BY <1>6, LookupClosed DEF Finish, ManifestDescribesCommit
<1>7. ASSUME NEW b \in Builds, InventoryDone(b) PROVE Goal
  BY <1>7 DEF InventoryDone, ManifestDescribesCommit, PhaseFacts
<1>8. ASSUME NEW b \in Builds, Disabled(b) PROVE Goal
  BY <1>8, LookupClosed DEF Disabled, Miss, ManifestDescribesCommit, Reasons
<1>9. ASSUME NEW b \in Builds, RejectManifest(b) PROVE Goal
  <2>1. \E why \in Reasons \ {"hit"} : Miss(b, why)
    BY <1>9 DEF RejectManifest, Reasons
  <2>2. UNCHANGED <<committed, manifestFile>>
    BY <1>9 DEF RejectManifest, Miss
  <2> QED BY <2>1, <2>2, LookupClosed DEF ManifestDescribesCommit
<1>10. ASSUME NEW b \in Builds, Consult(b) PROVE Goal
  BY <1>10 DEF Consult, ManifestDescribesCommit, PhaseFacts, Usable, Compatible, SourcesMatch
<1>11. ASSUME NEW b \in Builds, ReadGraph(b) PROVE Goal
  BY <1>11 DEF ReadGraph, ManifestDescribesCommit, PhaseFacts
<1>12. ASSUME NEW b \in Builds, GraphMissing(b) PROVE Goal
  BY <1>12, LookupClosed DEF GraphMissing, Miss, ManifestDescribesCommit, Reasons
<1>13. ASSUME NEW b \in Builds, ReadProducts(b) PROVE Goal
  BY <1>13 DEF ReadProducts, ManifestDescribesCommit, PhaseFacts
<1>14. ASSUME NEW b \in Builds, RejectSnapshot(b) PROVE Goal
  BY <1>14, LookupClosed DEF RejectSnapshot, Miss, ManifestDescribesCommit, Reasons
<1>15. ASSUME NEW b \in Builds, UseSnapshot(b) PROVE Goal
  <2>1. /\ consulted[b] \in Snapshots
        /\ graph[b] \in Outputs /\ products[b] \in Outputs
    BY <1>15 DEF UseSnapshot, BothRead
  <2>2. /\ StableHash(graph[b]) = StableHash(consulted[b].graph)
        /\ Sha256(products[b]) = Sha256(consulted[b].products)
    BY <1>15 DEF UseSnapshot, BothRead, GraphMatches, ProductsMatch,
                 ManifestOf, CreateManifest
  <2>3. /\ graph[b] = consulted[b].graph
        /\ products[b] = consulted[b].products
    BY <2>1, <2>2, HashAssumption DEF Snapshots
  <2>4. /\ inventory[b] = consulted[b].sources
        /\ StableHash(config[b]) = StableHash(consulted[b].config)
    BY <1>15 DEF UseSnapshot, BothRead, ManifestOf, CreateManifest
  <2>5. config[b] = consulted[b].config
    BY <1>15, <2>1, <2>4, HashAssumption
       DEF UseSnapshot, BothRead, PhaseFacts, Snapshots
  <2> QED
    BY <1>15, <2>1, <2>3, <2>4, <2>5, SentinelAssumption
       DEF UseSnapshot, BothRead, ManifestDescribesCommit
<1>16. ASSUME NEW b \in Builds, ParseDone(b) PROVE Goal
  BY <1>16 DEF ParseDone, ManifestDescribesCommit, PhaseFacts
<1>17. ASSUME NEW b \in Builds, Construct(b) PROVE Goal
  BY <1>17 DEF Construct, ManifestDescribesCommit, PhaseFacts
<1>18. ASSUME NEW b \in Builds, Validate(b) PROVE Goal
  BY <1>18 DEF Validate, ManifestDescribesCommit, PhaseFacts
<1>19. ASSUME NEW b \in Builds, BeginCommit(b) PROVE Goal
  BY <1>19 DEF BeginCommit, ManifestDescribesCommit, PhaseFacts
<1>20. ASSUME NEW b \in Builds, RenameGraph(b) PROVE Goal
  BY <1>20 DEF RenameGraph, ManifestDescribesCommit, PhaseFacts
<1>21. ASSUME NEW b \in Builds, RenameProducts(b) PROVE Goal
  BY <1>21 DEF RenameProducts, ManifestDescribesCommit, PhaseFacts
<1>22. ASSUME NEW b \in Builds, RenamesDone(b) PROVE Goal
  BY <1>22 DEF RenamesDone, ManifestDescribesCommit, PhaseFacts
<1>23. ASSUME NEW b \in Builds, Publish(b) PROVE Goal
  <2>1. committed' \in Snapshots
    BY <1>23 DEF Publish, PhaseFacts, Snapshots
  <2>2. ManifestDescribesCommit'
    BY <1>23, <2>1, SentinelAssumption
       DEF Publish, ManifestDescribesCommit, ManifestOf
  <2>3. LookupFacts' /\ HitIsOneCommit'
    BY <1>23 DEF Publish
  <2> QED BY <2>2, <2>3
<1>24. ASSUME NEW b \in Builds, LookupFails(b) PROVE Goal
  BY <1>24, LookupClosed DEF LookupFails, Miss, ManifestDescribesCommit, Reasons
<1>25. ASSUME NEW b \in Builds, WriteFails(b) PROVE Goal
  BY <1>25 DEF WriteFails, ManifestDescribesCommit, PhaseFacts
<1>26. ASSUME NEW b \in Builds, Crash(b) PROVE Goal
  BY <1>26, LookupClosed DEF Crash, ManifestDescribesCommit
<1>27. ASSUME Remove PROVE Goal
  BY <1>27 DEF Remove, ManifestDescribesCommit
<1> QED
  BY <1>0, <1>1, <1>2, <1>3, <1>4, <1>5, <1>6, <1>7, <1>8, <1>9, <1>10,
     <1>11, <1>12, <1>13, <1>14, <1>15, <1>16, <1>17, <1>18, <1>19, <1>20,
     <1>21, <1>22, <1>23, <1>24, <1>25, <1>26, <1>27 DEF Next, Progress

LEMMA LookupInvariant == Spec => []LookupInv
BY LookupInit, LookupStep, PTL DEF Spec

\* Whatever is renamed between its three reads, a hit is the graph and the
\* products of the one commit whose manifest the lookup read, made for the
\* sources and the configuration the build asked for.
THEOREM HitServesOneCommit == Spec => []HitIsOneCommit
<1>1. LookupInv => HitIsOneCommit
  BY DEF LookupInv
<1> QED BY <1>1, LookupInvariant, PTL
-----------------------------------------------------------------------------
(***************************************************************************)
(* Refinement: the cache implements one register of whole snapshots.       *)
(***************************************************************************)

Answer(b) == IF Hit(b) THEN [graph |-> graph[b], products |-> products[b],
                             sources |-> inventory[b], config |-> config[b]]
                       ELSE None
Answers == [b \in Builds |-> Answer(b)]

\* The answers stand while no hit is given or forgotten.
LEMMA AnswersStand ==
  ASSUME \A b \in Builds : Hit(b)' <=> Hit(b),
         \A b \in Builds : Hit(b) =>
           /\ graph'[b] = graph[b] /\ products'[b] = products[b]
           /\ inventory'[b] = inventory[b] /\ config'[b] = config[b]
  PROVE  Answers' = Answers
<1>1. \A b \in Builds : Answer(b)' = Answer(b)
  BY DEF Answer, Hit
<1> QED BY <1>1 DEF Answers

\* A build that misses or ends leaves the register alone and forgets what it
\* asked for.
LEMMA MissForgets ==
  ASSUME LookupInv, NEW b \in Builds, UNCHANGED committed,
         Drop(b) \/ \E why \in Reasons \ {"hit"} : Miss(b, why)
  PROVE  Register!Forget(b)
<1> USE DEF LookupInv, BaseInv, TypeOK
<1>1. consulted' = [consulted EXCEPT ![b] = None] /\ Hit(b)' = FALSE
  <2>1. CASE Drop(b)
    BY <2>1 DEF Drop, Hit
  <2>2. ASSUME NEW why \in Reasons \ {"hit"}, Miss(b, why)
        PROVE  consulted' = [consulted EXCEPT ![b] = None] /\ Hit(b)' = FALSE
    BY <2>2 DEF Miss, Hit
  <2> QED BY <2>1, <2>2
<1>2. ASSUME NEW c \in Builds \ {b}
      PROVE  /\ reason'[c] = reason[c]
             /\ config'[c] = config[c] /\ inventory'[c] = inventory[c]
             /\ graph'[c] = graph[c] /\ products'[c] = products[c]
  BY DEF Drop, Miss
<1>3. \A c \in Builds : Answer(c)' = IF c = b THEN None ELSE Answer(c)
  BY <1>1, <1>2 DEF Answer, Hit
<1>4. Answers' = [Answers EXCEPT ![b] = None]
  BY <1>3 DEF Answers
<1> QED BY <1>1, <1>4 DEF Register!Forget, Answers, Answer

LEMMA RegisterInit == Init => Register!Init
BY DEF Init, Register!Init, Hit

LEMMA RegisterStep ==
  LookupInv /\ LookupInv' /\ [Next]_vars => [Register!Next]_(Register!regVars)
<1> SUFFICES ASSUME LookupInv, LookupInv', [Next]_vars
             PROVE  [Register!Next]_(Register!regVars)
  OBVIOUS
<1> DEFINE Same == UNCHANGED <<committed, consulted, Answers>>
<1>a. Same => [Register!Next]_(Register!regVars)
  BY DEF Register!regVars, Answers, Answer
<1>b. \A b \in Builds : Register!Ask(b) \/ Register!Reply(b) \/ Register!Forget(b)
        => [Register!Next]_(Register!regVars)
  BY DEF Register!Next
<1> USE DEF LookupInv, BaseInv, TypeOK, PhaseFacts, Hit
<1>0. CASE UNCHANGED vars
  BY <1>0, <1>a DEF vars, Answers, Answer
<1>1. ASSUME NEW f \in Files, Edit(f) PROVE Same
  BY <1>1, AnswersStand DEF Edit
<1>2. ASSUME NEW b \in Builds, NEW f \in Files, DigestFile(b, f) PROVE Same
  BY <1>2, AnswersStand DEF DigestFile
<1>3. ASSUME NEW b \in Builds, NEW f \in Files, FileGone(b, f)
      PROVE  Register!Forget(b)
  BY <1>3, MissForgets DEF FileGone
<1>4. ASSUME NEW b \in Builds, NEW f \in Files, ParseFile(b, f) PROVE Same
  BY <1>4, AnswersStand DEF ParseFile
<1>5. ASSUME NEW b \in Builds, Begin(b) PROVE Same
  BY <1>5, AnswersStand DEF Begin
<1>6. ASSUME NEW b \in Builds, Finish(b) PROVE Register!Forget(b)
  BY <1>6, MissForgets DEF Finish
<1>7. ASSUME NEW b \in Builds, InventoryDone(b) PROVE Same
  BY <1>7, AnswersStand DEF InventoryDone
<1>8. ASSUME NEW b \in Builds, Disabled(b) PROVE Register!Forget(b)
  BY <1>8, MissForgets DEF Disabled, Miss, Reasons
<1>9. ASSUME NEW b \in Builds, RejectManifest(b) PROVE Register!Forget(b)
  BY <1>9, MissForgets DEF RejectManifest, Miss, Reasons
<1>10. ASSUME NEW b \in Builds, Consult(b) PROVE Register!Ask(b)
  <2>1. Answers' = Answers
    BY <1>10, AnswersStand DEF Consult
  <2>2. Answers[b] = None
    BY <1>10 DEF Consult, Answers, Answer
  <2> QED BY <1>10, <2>1, <2>2 DEF Consult, Register!Ask, Answers, Answer
<1>11. ASSUME NEW b \in Builds, ReadGraph(b) PROVE Same
  BY <1>11, AnswersStand DEF ReadGraph
<1>12. ASSUME NEW b \in Builds, GraphMissing(b) PROVE Register!Forget(b)
  BY <1>12, MissForgets DEF GraphMissing, Miss, Reasons
<1>13. ASSUME NEW b \in Builds, ReadProducts(b) PROVE Same
  BY <1>13, AnswersStand DEF ReadProducts
<1>14. ASSUME NEW b \in Builds, RejectSnapshot(b) PROVE Register!Forget(b)
  BY <1>14, MissForgets DEF RejectSnapshot, Miss, Reasons
<1>15. ASSUME NEW b \in Builds, UseSnapshot(b) PROVE Register!Reply(b)
  <2>1. /\ consulted[b] # None /\ UNCHANGED <<committed, consulted>>
        /\ Answers[b] = None
    BY <1>15 DEF UseSnapshot, BothRead, LookupFacts, Answers, Answer
  <2>2. Answer(b)' = Register!Held(consulted[b])
    BY <1>15 DEF UseSnapshot, BothRead, HitIsOneCommit, Answer,
                  Register!Held
  <2>3. \A c \in Builds : c # b => Answer(c)' = Answer(c)
    BY <1>15 DEF UseSnapshot, Answer
  <2>4. Answers' = [Answers EXCEPT ![b] = Register!Held(consulted[b])]
    BY <2>2, <2>3 DEF Answers
  <2> QED BY <2>1, <2>4 DEF Register!Reply, Answers, Answer
<1>16. ASSUME NEW b \in Builds, ParseDone(b) PROVE Same
  BY <1>16, AnswersStand DEF ParseDone
<1>17. ASSUME NEW b \in Builds, Construct(b) PROVE Same
  BY <1>17, AnswersStand DEF Construct
<1>18. ASSUME NEW b \in Builds, Validate(b) PROVE Same
  BY <1>18, AnswersStand DEF Validate
<1>19. ASSUME NEW b \in Builds, BeginCommit(b) PROVE Same
  BY <1>19, AnswersStand DEF BeginCommit
<1>20. ASSUME NEW b \in Builds, RenameGraph(b) PROVE Same
  BY <1>20, AnswersStand DEF RenameGraph
<1>21. ASSUME NEW b \in Builds, RenameProducts(b) PROVE Same
  BY <1>21, AnswersStand DEF RenameProducts
<1>22. ASSUME NEW b \in Builds, RenamesDone(b) PROVE Same
  BY <1>22, AnswersStand DEF RenamesDone
<1>23. ASSUME NEW b \in Builds, Publish(b) PROVE Register!Next
  <2>1. committed' \in Snapshots /\ UNCHANGED consulted
    BY <1>23 DEF Publish, Snapshots
  <2>2. Answers' = Answers
    BY <1>23, AnswersStand DEF Publish
  <2> QED
    BY <2>1, <2>2 DEF Register!Next, Register!Commit, Answers, Answer
<1>24. ASSUME NEW b \in Builds, LookupFails(b) PROVE Register!Forget(b)
  BY <1>24, MissForgets DEF LookupFails, Miss, Reasons
<1>25. ASSUME NEW b \in Builds, WriteFails(b) PROVE Same
  BY <1>25, AnswersStand DEF WriteFails
<1>26. ASSUME NEW b \in Builds, Crash(b) PROVE Register!Forget(b)
  BY <1>26, MissForgets DEF Crash
<1>27. ASSUME Remove PROVE Same
  BY <1>27, AnswersStand DEF Remove
<1> QED
  BY <1>a, <1>b, <1>0, <1>1, <1>2, <1>3, <1>4, <1>5, <1>6, <1>7, <1>8, <1>9,
     <1>10, <1>11, <1>12, <1>13, <1>14, <1>15, <1>16, <1>17, <1>18, <1>19,
     <1>20, <1>21, <1>22, <1>23, <1>24, <1>25, <1>26, <1>27 DEF Next, Progress

\* Every behaviour of the cache, seen through its commits, the manifests its
\* lookups read and the hits they end in, is a behaviour of the register.
THEOREM CacheImplementsRegister == Spec => ImplementsRegister
<1>1. Init => Register!Init
  BY RegisterInit
<1>2. LookupInv /\ LookupInv' /\ [Next]_vars
        => [Register!Next]_(Register!regVars)
  BY RegisterStep
<1> QED
  BY <1>1, <1>2, LookupInvariant, PTL DEF Spec, ImplementsRegister, Register!Spec

-----------------------------------------------------------------------------
(***************************************************************************)
(* What a build takes from the cache is as good as what it would have      *)
(* built: it has passed validation, and it is what a clean build           *)
(* constructs, unless an edit disturbed the build that committed it.       *)
(***************************************************************************)
\* Only what passed validation is committed, and only what was committed is
\* consulted.
LEMMA ValidStep == ValidInv /\ [Next]_vars => ValidInv'
<1> SUFFICES ASSUME ValidInv, [Next]_vars PROVE ValidSnapshots'
  BY LookupStep DEF ValidInv
<1> USE DEF ValidInv, LookupInv, BaseInv, TypeOK, ValidSnapshots, Accepted
<1>0. CASE UNCHANGED vars
  BY <1>0 DEF vars
<1>1. ASSUME NEW f \in Files, Edit(f) PROVE ValidSnapshots'
  BY <1>1 DEF Edit
<1>2. ASSUME NEW b \in Builds, NEW f \in Files, DigestFile(b, f) PROVE ValidSnapshots'
  BY <1>2 DEF DigestFile
<1>3. ASSUME NEW b \in Builds, NEW f \in Files, FileGone(b, f) PROVE ValidSnapshots'
  BY <1>3 DEF FileGone, Drop
<1>4. ASSUME NEW b \in Builds, NEW f \in Files, ParseFile(b, f) PROVE ValidSnapshots'
  BY <1>4 DEF ParseFile
<1>5. ASSUME NEW b \in Builds, Begin(b) PROVE ValidSnapshots'
  BY <1>5 DEF Begin
<1>6. ASSUME NEW b \in Builds, Finish(b) PROVE ValidSnapshots'
  BY <1>6 DEF Finish, Drop
<1>7. ASSUME NEW b \in Builds, InventoryDone(b) PROVE ValidSnapshots'
  BY <1>7 DEF InventoryDone
<1>8. ASSUME NEW b \in Builds, Disabled(b) PROVE ValidSnapshots'
  BY <1>8 DEF Disabled, Miss
<1>9. ASSUME NEW b \in Builds, RejectManifest(b) PROVE ValidSnapshots'
  BY <1>9 DEF RejectManifest, Miss
<1>10. ASSUME NEW b \in Builds, Consult(b) PROVE ValidSnapshots'
  BY <1>10 DEF Consult
<1>11. ASSUME NEW b \in Builds, ReadGraph(b) PROVE ValidSnapshots'
  BY <1>11 DEF ReadGraph
<1>12. ASSUME NEW b \in Builds, GraphMissing(b) PROVE ValidSnapshots'
  BY <1>12 DEF GraphMissing, Miss
<1>13. ASSUME NEW b \in Builds, ReadProducts(b) PROVE ValidSnapshots'
  BY <1>13 DEF ReadProducts
<1>14. ASSUME NEW b \in Builds, RejectSnapshot(b) PROVE ValidSnapshots'
  BY <1>14 DEF RejectSnapshot, Miss
<1>15. ASSUME NEW b \in Builds, UseSnapshot(b) PROVE ValidSnapshots'
  BY <1>15 DEF UseSnapshot
<1>16. ASSUME NEW b \in Builds, ParseDone(b) PROVE ValidSnapshots'
  BY <1>16 DEF ParseDone
<1>17. ASSUME NEW b \in Builds, Construct(b) PROVE ValidSnapshots'
  BY <1>17 DEF Construct
<1>18. ASSUME NEW b \in Builds, Validate(b) PROVE ValidSnapshots'
  BY <1>18 DEF Validate
<1>19. ASSUME NEW b \in Builds, BeginCommit(b) PROVE ValidSnapshots'
  BY <1>19 DEF BeginCommit
<1>20. ASSUME NEW b \in Builds, RenameGraph(b) PROVE ValidSnapshots'
  BY <1>20 DEF RenameGraph
<1>21. ASSUME NEW b \in Builds, RenameProducts(b) PROVE ValidSnapshots'
  BY <1>21 DEF RenameProducts
<1>22. ASSUME NEW b \in Builds, RenamesDone(b) PROVE ValidSnapshots'
  BY <1>22 DEF RenamesDone
<1>23. ASSUME NEW b \in Builds, Publish(b) PROVE ValidSnapshots'
  BY <1>23 DEF Publish
<1>24. ASSUME NEW b \in Builds, LookupFails(b) PROVE ValidSnapshots'
  BY <1>24 DEF LookupFails, Miss
<1>25. ASSUME NEW b \in Builds, WriteFails(b) PROVE ValidSnapshots'
  BY <1>25 DEF WriteFails
<1>26. ASSUME NEW b \in Builds, Crash(b) PROVE ValidSnapshots'
  BY <1>26 DEF Crash, Drop
<1>27. ASSUME Remove PROVE ValidSnapshots'
  BY <1>27 DEF Remove
<1> QED
  BY <1>0, <1>1, <1>2, <1>3, <1>4, <1>5, <1>6, <1>7, <1>8, <1>9, <1>10,
     <1>11, <1>12, <1>13, <1>14, <1>15, <1>16, <1>17, <1>18, <1>19, <1>20,
     <1>21, <1>22, <1>23, <1>24, <1>25, <1>26, <1>27 DEF Next, Progress

LEMMA ValidInit == Init => ValidInv
BY LookupInit DEF Init, ValidInv, ValidSnapshots, Accepted

\* A build never fails validation on a graph it took from the cache.
THEOREM HitIsValid == Spec => []HitPassesValidation
<1>1. ValidInv => HitPassesValidation
  BY DEF ValidInv, ValidSnapshots, Accepted, LookupInv, HitIsOneCommit,
         HitPassesValidation, Hit
<1> QED BY <1>1, ValidInit, ValidStep, PTL DEF Spec
-----------------------------------------------------------------------------
\* Snapshots stay quiet: what is published of an undisturbed build holds the
\* graph of the sources it lists.
LEMMA QuietSnapshotsStep == QuietInv /\ [Next]_vars => QuietSnapshots'
<1> SUFFICES ASSUME QuietInv, [Next]_vars PROVE QuietSnapshots'
  OBVIOUS
<1> USE DEF QuietInv, LookupInv, BaseInv, TypeOK, QuietSnapshot
<1>0. CASE UNCHANGED vars
  BY <1>0 DEF vars, QuietSnapshots
<1>1. ASSUME NEW f \in Files, Edit(f) PROVE QuietSnapshots'
  BY <1>1 DEF Edit, QuietSnapshots
<1>2. ASSUME NEW b \in Builds, NEW f \in Files, DigestFile(b, f) PROVE QuietSnapshots'
  BY <1>2 DEF DigestFile, QuietSnapshots
<1>3. ASSUME NEW b \in Builds, NEW f \in Files, FileGone(b, f) PROVE QuietSnapshots'
  BY <1>3 DEF FileGone, Drop, QuietSnapshots
<1>4. ASSUME NEW b \in Builds, NEW f \in Files, ParseFile(b, f) PROVE QuietSnapshots'
  BY <1>4 DEF ParseFile, QuietSnapshots
<1>5. ASSUME NEW b \in Builds, Begin(b) PROVE QuietSnapshots'
  BY <1>5 DEF Begin, QuietSnapshots
<1>6. ASSUME NEW b \in Builds, Finish(b) PROVE QuietSnapshots'
  BY <1>6 DEF Finish, Drop, QuietSnapshots
<1>7. ASSUME NEW b \in Builds, InventoryDone(b) PROVE QuietSnapshots'
  BY <1>7 DEF InventoryDone, QuietSnapshots
<1>8. ASSUME NEW b \in Builds, Disabled(b) PROVE QuietSnapshots'
  BY <1>8 DEF Disabled, Miss, QuietSnapshots
<1>9. ASSUME NEW b \in Builds, RejectManifest(b) PROVE QuietSnapshots'
  BY <1>9 DEF RejectManifest, Miss, QuietSnapshots
<1>10. ASSUME NEW b \in Builds, Consult(b) PROVE QuietSnapshots'
  BY <1>10 DEF Consult, QuietSnapshots
<1>11. ASSUME NEW b \in Builds, ReadGraph(b) PROVE QuietSnapshots'
  BY <1>11 DEF ReadGraph, QuietSnapshots
<1>12. ASSUME NEW b \in Builds, GraphMissing(b) PROVE QuietSnapshots'
  BY <1>12 DEF GraphMissing, Miss, QuietSnapshots
<1>13. ASSUME NEW b \in Builds, ReadProducts(b) PROVE QuietSnapshots'
  BY <1>13 DEF ReadProducts, QuietSnapshots
<1>14. ASSUME NEW b \in Builds, RejectSnapshot(b) PROVE QuietSnapshots'
  BY <1>14 DEF RejectSnapshot, Miss, QuietSnapshots
<1>15. ASSUME NEW b \in Builds, UseSnapshot(b) PROVE QuietSnapshots'
  BY <1>15 DEF UseSnapshot, QuietSnapshots
<1>16. ASSUME NEW b \in Builds, ParseDone(b) PROVE QuietSnapshots'
  BY <1>16 DEF ParseDone, QuietSnapshots
<1>17. ASSUME NEW b \in Builds, Construct(b) PROVE QuietSnapshots'
  BY <1>17 DEF Construct, QuietSnapshots
<1>18. ASSUME NEW b \in Builds, Validate(b) PROVE QuietSnapshots'
  BY <1>18 DEF Validate, QuietSnapshots
<1>19. ASSUME NEW b \in Builds, BeginCommit(b) PROVE QuietSnapshots'
  BY <1>19 DEF BeginCommit, QuietSnapshots
<1>20. ASSUME NEW b \in Builds, RenameGraph(b) PROVE QuietSnapshots'
  BY <1>20 DEF RenameGraph, QuietSnapshots
<1>21. ASSUME NEW b \in Builds, RenameProducts(b) PROVE QuietSnapshots'
  BY <1>21 DEF RenameProducts, QuietSnapshots
<1>22. ASSUME NEW b \in Builds, RenamesDone(b) PROVE QuietSnapshots'
  BY <1>22 DEF RenamesDone, QuietSnapshots
<1>23. ASSUME NEW b \in Builds, Publish(b) PROVE QuietSnapshots'
  <2>1. /\ pc[b] = "publish" /\ reason[b] # "hit"
        /\ committed'.graph = graph[b] /\ committed'.sources = inventory[b]
        /\ committed'.config = config[b] /\ committed'.quiet = undisturbed[b]
        /\ UNCHANGED consulted
    BY <1>23 DEF Publish, PhaseFacts
  <2>2. /\ undisturbed[b] => InventoryOf(graph[b].tree) = inventory[b]
        /\ graph[b].config = config[b]
    BY <2>1 DEF QuietBuilds
  <2> QED BY <2>1, <2>2 DEF QuietSnapshots
<1>24. ASSUME NEW b \in Builds, LookupFails(b) PROVE QuietSnapshots'
  BY <1>24 DEF LookupFails, Miss, QuietSnapshots
<1>25. ASSUME NEW b \in Builds, WriteFails(b) PROVE QuietSnapshots'
  BY <1>25 DEF WriteFails, QuietSnapshots
<1>26. ASSUME NEW b \in Builds, Crash(b) PROVE QuietSnapshots'
  BY <1>26 DEF Crash, Drop, QuietSnapshots
<1>27. ASSUME Remove PROVE QuietSnapshots'
  BY <1>27 DEF Remove, QuietSnapshots
<1> QED
  BY <1>0, <1>1, <1>2, <1>3, <1>4, <1>5, <1>6, <1>7, <1>8, <1>9, <1>10,
     <1>11, <1>12, <1>13, <1>14, <1>15, <1>16, <1>17, <1>18, <1>19, <1>20,
     <1>21, <1>22, <1>23, <1>24, <1>25, <1>26, <1>27 DEF Next, Progress

\* A build that misses has its sources still to read, and none of what it will
\* not find.
LEMMA MissQuiet ==
  ASSUME QuietInv, NEW b \in Builds, NEW why \in Reasons \ {"hit"},
         Miss(b, why), pc[b] \in {"load", "lookup"}
  PROVE  QuietBuilds!(b)'
<1> USE DEF QuietInv, LookupInv, BaseInv, TypeOK
<1>1. /\ pc'[b] = "parse" /\ tree' = tree
      /\ inventory'[b] = inventory[b] /\ undisturbed'[b] = undisturbed[b]
      /\ parsed'[b] = [f \in Files |-> IF inventory[b][f] = Absent
                                         THEN Absent ELSE Pending]
  BY DEF Miss
<1>2. ASSUME NEW f \in Files
      PROVE  /\ inventory[b][f] # Pending
             /\ undisturbed[b] => inventory[b][f] = InventoryOf(tree)[f]
  BY DEF QuietBuilds, Reading
<1>3. ASSUME NEW f \in Files, undisturbed[b], inventory[b][f] = Absent
      PROVE  tree[f] = Absent
  <2>1. InventoryOf(tree)[f] = Absent
    BY <1>2, <1>3
  <2>2. tree[f] # Absent => StableHash(tree[f]) \in Digests
    BY DEF Digests, Trees
  <2> QED BY <2>1, <2>2, SentinelAssumption DEF InventoryOf
<1> QED
  BY <1>1, <1>2, <1>3 DEF Reading

\* While nothing disturbs a build, what it has read of the tree is the tree.
LEMMA QuietBuildsStep == QuietInv /\ [Next]_vars => QuietBuilds'
<1> SUFFICES ASSUME QuietInv, [Next]_vars PROVE QuietBuilds'
  OBVIOUS
<1> USE DEF QuietInv, LookupInv, BaseInv, TypeOK
<1>0. CASE UNCHANGED vars
  BY <1>0 DEF vars, QuietBuilds
<1>1. ASSUME NEW f \in Files, Edit(f) PROVE QuietBuilds'
  <2>1. ASSUME NEW c \in Builds PROVE QuietBuilds!(c)'
    <3>1. CASE pc[c] \in Reading
      BY <1>1, <3>1 DEF Edit, QuietBuilds, Reading
    <3>2. CASE pc[c] \notin Reading
      BY <1>1, <3>2 DEF Edit, QuietBuilds, Reading
    <3> QED BY <3>1, <3>2
  <2> QED BY <2>1 DEF QuietBuilds
<1>2. ASSUME NEW b \in Builds, NEW f \in Files, DigestFile(b, f) PROVE QuietBuilds'
  <2>1. ASSUME NEW c \in Builds PROVE QuietBuilds!(c)'
    <3>1. CASE c = b
      BY <1>2, <3>1 DEF DigestFile, QuietBuilds, Reading, InventoryOf, PhaseFacts
    <3>2. CASE c # b
      BY <1>2, <3>2 DEF DigestFile, QuietBuilds, Reading
    <3> QED BY <3>1, <3>2
  <2> QED BY <2>1 DEF QuietBuilds
<1>3. ASSUME NEW b \in Builds, NEW f \in Files, FileGone(b, f) PROVE QuietBuilds'
  <2>1. ASSUME NEW c \in Builds PROVE QuietBuilds!(c)'
    <3>1. CASE c = b
      BY <1>3, <3>1 DEF FileGone, Drop, QuietBuilds, Reading, InventoryOf, PhaseFacts
    <3>2. CASE c # b
      BY <1>3, <3>2 DEF FileGone, Drop, QuietBuilds, Reading
    <3> QED BY <3>1, <3>2
  <2> QED BY <2>1 DEF QuietBuilds
<1>4. ASSUME NEW b \in Builds, NEW f \in Files, ParseFile(b, f) PROVE QuietBuilds'
  <2>1. ASSUME NEW c \in Builds PROVE QuietBuilds!(c)'
    <3>1. CASE c = b
      BY <1>4, <3>1 DEF ParseFile, QuietBuilds, Reading, InventoryOf, PhaseFacts
    <3>2. CASE c # b
      BY <1>4, <3>2 DEF ParseFile, QuietBuilds, Reading
    <3> QED BY <3>1, <3>2
  <2> QED BY <2>1 DEF QuietBuilds
<1>5. ASSUME NEW b \in Builds, Begin(b) PROVE QuietBuilds'
  <2>1. ASSUME NEW c \in Builds PROVE QuietBuilds!(c)'
    <3>1. CASE c = b
      BY <1>5, <3>1 DEF Begin, QuietBuilds, Reading, InventoryOf, PhaseFacts
    <3>2. CASE c # b
      BY <1>5, <3>2 DEF Begin, QuietBuilds, Reading
    <3> QED BY <3>1, <3>2
  <2> QED BY <2>1 DEF QuietBuilds
<1>6. ASSUME NEW b \in Builds, Finish(b) PROVE QuietBuilds'
  <2>1. ASSUME NEW c \in Builds PROVE QuietBuilds!(c)'
    <3>1. CASE c = b
      BY <1>6, <3>1 DEF Finish, Drop, QuietBuilds, Reading, InventoryOf, PhaseFacts
    <3>2. CASE c # b
      BY <1>6, <3>2 DEF Finish, Drop, QuietBuilds, Reading
    <3> QED BY <3>1, <3>2
  <2> QED BY <2>1 DEF QuietBuilds
<1>7. ASSUME NEW b \in Builds, InventoryDone(b) PROVE QuietBuilds'
  <2>1. ASSUME NEW c \in Builds PROVE QuietBuilds!(c)'
    <3>1. CASE c = b
      BY <1>7, <3>1 DEF InventoryDone, QuietBuilds, Reading, InventoryOf, PhaseFacts
    <3>2. CASE c # b
      BY <1>7, <3>2 DEF InventoryDone, QuietBuilds, Reading
    <3> QED BY <3>1, <3>2
  <2> QED BY <2>1 DEF QuietBuilds
<1>8. ASSUME NEW b \in Builds, Disabled(b) PROVE QuietBuilds'
  <2>1. ASSUME NEW c \in Builds PROVE QuietBuilds!(c)'
    <3>1. CASE c = b
      BY <1>8, <3>1, MissQuiet DEF Disabled, Reasons
    <3>2. CASE c # b
      BY <1>8, <3>2 DEF Disabled, Miss, QuietBuilds, Reading
    <3> QED BY <3>1, <3>2
  <2> QED BY <2>1 DEF QuietBuilds
<1>9. ASSUME NEW b \in Builds, RejectManifest(b) PROVE QuietBuilds'
  <2>1. ASSUME NEW c \in Builds PROVE QuietBuilds!(c)'
    <3>1. CASE c = b
      BY <1>9, <3>1, MissQuiet DEF RejectManifest, Reasons
    <3>2. CASE c # b
      BY <1>9, <3>2 DEF RejectManifest, Miss, QuietBuilds, Reading
    <3> QED BY <3>1, <3>2
  <2> QED BY <2>1 DEF QuietBuilds
<1>10. ASSUME NEW b \in Builds, Consult(b) PROVE QuietBuilds'
  <2>1. ASSUME NEW c \in Builds PROVE QuietBuilds!(c)'
    <3>1. CASE c = b
      BY <1>10, <3>1 DEF Consult, QuietBuilds, Reading, InventoryOf, PhaseFacts
    <3>2. CASE c # b
      BY <1>10, <3>2 DEF Consult, QuietBuilds, Reading
    <3> QED BY <3>1, <3>2
  <2> QED BY <2>1 DEF QuietBuilds
<1>11. ASSUME NEW b \in Builds, ReadGraph(b) PROVE QuietBuilds'
  <2>1. ASSUME NEW c \in Builds PROVE QuietBuilds!(c)'
    <3>1. CASE c = b
      BY <1>11, <3>1 DEF ReadGraph, QuietBuilds, Reading, InventoryOf, PhaseFacts
    <3>2. CASE c # b
      BY <1>11, <3>2 DEF ReadGraph, QuietBuilds, Reading
    <3> QED BY <3>1, <3>2
  <2> QED BY <2>1 DEF QuietBuilds
<1>12. ASSUME NEW b \in Builds, GraphMissing(b) PROVE QuietBuilds'
  <2>1. ASSUME NEW c \in Builds PROVE QuietBuilds!(c)'
    <3>1. CASE c = b
      BY <1>12, <3>1, MissQuiet DEF GraphMissing, Reasons
    <3>2. CASE c # b
      BY <1>12, <3>2 DEF GraphMissing, Miss, QuietBuilds, Reading
    <3> QED BY <3>1, <3>2
  <2> QED BY <2>1 DEF QuietBuilds
<1>13. ASSUME NEW b \in Builds, ReadProducts(b) PROVE QuietBuilds'
  <2>1. ASSUME NEW c \in Builds PROVE QuietBuilds!(c)'
    <3>1. CASE c = b
      BY <1>13, <3>1 DEF ReadProducts, QuietBuilds, Reading, InventoryOf, PhaseFacts
    <3>2. CASE c # b
      BY <1>13, <3>2 DEF ReadProducts, QuietBuilds, Reading
    <3> QED BY <3>1, <3>2
  <2> QED BY <2>1 DEF QuietBuilds
<1>14. ASSUME NEW b \in Builds, RejectSnapshot(b) PROVE QuietBuilds'
  <2>1. ASSUME NEW c \in Builds PROVE QuietBuilds!(c)'
    <3>1. CASE c = b
      BY <1>14, <3>1, MissQuiet DEF RejectSnapshot, Reasons, BothRead
    <3>2. CASE c # b
      BY <1>14, <3>2 DEF RejectSnapshot, Miss, QuietBuilds, Reading
    <3> QED BY <3>1, <3>2
  <2> QED BY <2>1 DEF QuietBuilds
<1>15. ASSUME NEW b \in Builds, UseSnapshot(b) PROVE QuietBuilds'
  <2>1. ASSUME NEW c \in Builds PROVE QuietBuilds!(c)'
    <3>1. CASE c = b
      BY <1>15, <3>1 DEF UseSnapshot, QuietBuilds, Reading, InventoryOf, PhaseFacts
    <3>2. CASE c # b
      BY <1>15, <3>2 DEF UseSnapshot, QuietBuilds, Reading
    <3> QED BY <3>1, <3>2
  <2> QED BY <2>1 DEF QuietBuilds
<1>16. ASSUME NEW b \in Builds, ParseDone(b) PROVE QuietBuilds'
  <2>1. ASSUME NEW c \in Builds PROVE QuietBuilds!(c)'
    <3>1. CASE c = b
      <4>1. /\ pc[b] = "parse" /\ pc'[b] = "construct"
            /\ UNCHANGED <<tree, parsed, inventory, undisturbed>>
            /\ \A f \in Files : parsed[b][f] # Pending
        BY <1>16 DEF ParseDone
      <4>2. ASSUME undisturbed[b] PROVE InventoryOf(parsed[b]) = inventory[b]
        <5>1. ASSUME NEW f \in Files
              PROVE  inventory[b][f] = InventoryOf(tree)[f] /\ parsed[b][f] = tree[f]
          BY <4>1, <4>2 DEF QuietBuilds, Reading
        <5>2. ASSUME NEW f \in Files
              PROVE  InventoryOf(parsed[b])[f] = inventory[b][f]
          BY <5>1 DEF InventoryOf
        <5> QED BY <5>2 DEF InventoryOf, Inventories
      <4> QED BY <3>1, <4>1, <4>2 DEF Reading
    <3>2. CASE c # b
      BY <1>16, <3>2 DEF ParseDone, QuietBuilds, Reading
    <3> QED BY <3>1, <3>2
  <2> QED BY <2>1 DEF QuietBuilds
<1>17. ASSUME NEW b \in Builds, Construct(b) PROVE QuietBuilds'
  <2>1. ASSUME NEW c \in Builds PROVE QuietBuilds!(c)'
    <3>1. CASE c = b
      <4>1. /\ pc[b] = "construct" /\ pc'[b] = "validate"
            /\ graph'[b].tree = parsed[b] /\ graph'[b].config = config[b]
            /\ UNCHANGED <<inventory, config, undisturbed>>
        BY <1>17 DEF Construct, Output
      <4>2. undisturbed[b] => InventoryOf(parsed[b]) = inventory[b]
        BY <4>1 DEF QuietBuilds
      <4> QED BY <3>1, <4>1, <4>2 DEF Reading
    <3>2. CASE c # b
      BY <1>17, <3>2 DEF Construct, QuietBuilds, Reading
    <3> QED BY <3>1, <3>2
  <2> QED BY <2>1 DEF QuietBuilds
<1>18. ASSUME NEW b \in Builds, Validate(b) PROVE QuietBuilds'
  <2>1. ASSUME NEW c \in Builds PROVE QuietBuilds!(c)'
    <3>1. CASE c = b
      BY <1>18, <3>1 DEF Validate, QuietBuilds, Reading, InventoryOf, PhaseFacts
    <3>2. CASE c # b
      BY <1>18, <3>2 DEF Validate, QuietBuilds, Reading
    <3> QED BY <3>1, <3>2
  <2> QED BY <2>1 DEF QuietBuilds
<1>19. ASSUME NEW b \in Builds, BeginCommit(b) PROVE QuietBuilds'
  <2>1. ASSUME NEW c \in Builds PROVE QuietBuilds!(c)'
    <3>1. CASE c = b
      BY <1>19, <3>1 DEF BeginCommit, QuietBuilds, Reading, InventoryOf, PhaseFacts
    <3>2. CASE c # b
      BY <1>19, <3>2 DEF BeginCommit, QuietBuilds, Reading
    <3> QED BY <3>1, <3>2
  <2> QED BY <2>1 DEF QuietBuilds
<1>20. ASSUME NEW b \in Builds, RenameGraph(b) PROVE QuietBuilds'
  <2>1. ASSUME NEW c \in Builds PROVE QuietBuilds!(c)'
    <3>1. CASE c = b
      BY <1>20, <3>1 DEF RenameGraph, QuietBuilds, Reading, InventoryOf, PhaseFacts
    <3>2. CASE c # b
      BY <1>20, <3>2 DEF RenameGraph, QuietBuilds, Reading
    <3> QED BY <3>1, <3>2
  <2> QED BY <2>1 DEF QuietBuilds
<1>21. ASSUME NEW b \in Builds, RenameProducts(b) PROVE QuietBuilds'
  <2>1. ASSUME NEW c \in Builds PROVE QuietBuilds!(c)'
    <3>1. CASE c = b
      BY <1>21, <3>1 DEF RenameProducts, QuietBuilds, Reading, InventoryOf, PhaseFacts
    <3>2. CASE c # b
      BY <1>21, <3>2 DEF RenameProducts, QuietBuilds, Reading
    <3> QED BY <3>1, <3>2
  <2> QED BY <2>1 DEF QuietBuilds
<1>22. ASSUME NEW b \in Builds, RenamesDone(b) PROVE QuietBuilds'
  <2>1. ASSUME NEW c \in Builds PROVE QuietBuilds!(c)'
    <3>1. CASE c = b
      BY <1>22, <3>1 DEF RenamesDone, QuietBuilds, Reading, InventoryOf, PhaseFacts
    <3>2. CASE c # b
      BY <1>22, <3>2 DEF RenamesDone, QuietBuilds, Reading
    <3> QED BY <3>1, <3>2
  <2> QED BY <2>1 DEF QuietBuilds
<1>23. ASSUME NEW b \in Builds, Publish(b) PROVE QuietBuilds'
  <2>1. ASSUME NEW c \in Builds PROVE QuietBuilds!(c)'
    <3>1. CASE c = b
      BY <1>23, <3>1 DEF Publish, QuietBuilds, Reading, InventoryOf, PhaseFacts
    <3>2. CASE c # b
      BY <1>23, <3>2 DEF Publish, QuietBuilds, Reading
    <3> QED BY <3>1, <3>2
  <2> QED BY <2>1 DEF QuietBuilds
<1>24. ASSUME NEW b \in Builds, LookupFails(b) PROVE QuietBuilds'
  <2>1. ASSUME NEW c \in Builds PROVE QuietBuilds!(c)'
    <3>1. CASE c = b
      BY <1>24, <3>1, MissQuiet DEF LookupFails, Reasons
    <3>2. CASE c # b
      BY <1>24, <3>2 DEF LookupFails, Miss, QuietBuilds, Reading
    <3> QED BY <3>1, <3>2
  <2> QED BY <2>1 DEF QuietBuilds
<1>25. ASSUME NEW b \in Builds, WriteFails(b) PROVE QuietBuilds'
  <2>1. ASSUME NEW c \in Builds PROVE QuietBuilds!(c)'
    <3>1. CASE c = b
      BY <1>25, <3>1 DEF WriteFails, QuietBuilds, Reading, InventoryOf, PhaseFacts
    <3>2. CASE c # b
      BY <1>25, <3>2 DEF WriteFails, QuietBuilds, Reading
    <3> QED BY <3>1, <3>2
  <2> QED BY <2>1 DEF QuietBuilds
<1>26. ASSUME NEW b \in Builds, Crash(b) PROVE QuietBuilds'
  <2>1. ASSUME NEW c \in Builds PROVE QuietBuilds!(c)'
    <3>1. CASE c = b
      BY <1>26, <3>1 DEF Crash, Drop, QuietBuilds, Reading, InventoryOf, PhaseFacts
    <3>2. CASE c # b
      BY <1>26, <3>2 DEF Crash, Drop, QuietBuilds, Reading
    <3> QED BY <3>1, <3>2
  <2> QED BY <2>1 DEF QuietBuilds
<1>27. ASSUME Remove PROVE QuietBuilds'
  BY <1>27 DEF Remove, QuietBuilds, Reading, InventoryOf
<1> QED
  BY <1>0, <1>1, <1>2, <1>3, <1>4, <1>5, <1>6, <1>7, <1>8, <1>9, <1>10,
     <1>11, <1>12, <1>13, <1>14, <1>15, <1>16, <1>17, <1>18, <1>19, <1>20,
     <1>21, <1>22, <1>23, <1>24, <1>25, <1>26, <1>27 DEF Next, Progress

LEMMA QuietInit == Init => QuietInv
BY LookupInit, SentinelAssumption
   DEF Init, QuietInv, QuietSnapshots, QuietSnapshot, QuietBuilds, Reading

\* Warm builds equal clean builds: what an incremental build takes from the
\* cache is the graph a clean build of the sources it has digested constructs,
\* unless an edit fell into the build that committed it.
THEOREM WarmIsClean == Spec => []QuietHitIsClean
<1>1. QuietInv /\ [Next]_vars => QuietInv'
  BY LookupStep, QuietSnapshotsStep, QuietBuildsStep DEF QuietInv
<1>2. QuietInv => QuietHitIsClean
  BY DEF QuietInv, LookupInv, HitIsOneCommit, QuietSnapshots, QuietSnapshot,
         QuietHitIsClean, Hit
<1> QED BY <1>1, <1>2, QuietInit, PTL DEF Spec
=============================================================================
