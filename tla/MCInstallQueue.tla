---------------------------- MODULE MCInstallQueue ----------------------------
(* Bounds for TLC: two goroutines, a pass that is stopping and the next one;  *)
(* and more items than slots within one pass, none of them cleared.           *)
EXTENDS InstallQueue, TLC

ASSUME Cardinality(Passes) = 2 /\ MaxItems > Depth

MCBounds ==
  added > Depth => Cardinality({p \in Passes : worker[p] = "free"}) > 0 /\ listed = 1..added
=============================================================================
