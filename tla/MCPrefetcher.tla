----------------------------- MODULE MCPrefetcher -----------------------------
(* Bounds for TLC: two archived titles and a loose one, Depth + 1 directory   *)
(* names, so that a third copy would have a name to be made under.            *)
EXTENDS Prefetcher, TLC

ASSUME MCBounds == Cardinality(Dirs) > Depth /\ Cardinality(Titles \ Loose) >= Depth
=============================================================================
