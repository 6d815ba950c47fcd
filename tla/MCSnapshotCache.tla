-------------------------- MODULE MCSnapshotCache --------------------------
(* Small instances of the snapshot cache. *)
EXTENDS SnapshotCacheProperties, TLC

CONSTANT Broken  \* a content no valid graph comes of

\* Hashes that do not collide.
MCStableHash(x) == <<"fnv", x>>
MCSha256(x)     == <<"sha", x>>
MCAccepts(o)    == \A f \in Files : o.tree[f] # Broken

Symmetric == Permutations(Builds)
=============================================================================
