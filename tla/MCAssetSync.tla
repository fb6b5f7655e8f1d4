---------------------------- MODULE MCAssetSync -----------------------------
(* Bounds for TLC: a sync from the interface and one of an install, over two *)
(* files, one of them the image of a PS1 title.                               *)
EXTENDS AssetSync

Screen == [full |-> TRUE, overwrite |-> FALSE, dry |-> FALSE, of |-> {1, 2}]
Install == [full |-> FALSE, overwrite |-> FALSE, dry |-> FALSE, of |-> {1}]
MCOptions ==
  [s \in Syncs |->
     IF s = "screen" THEN {Screen, [Screen EXCEPT !.overwrite = TRUE], [Screen EXCEPT !.dry = TRUE]}
                     ELSE {Install, [Install EXCEPT !.full = TRUE]}]
=============================================================================
