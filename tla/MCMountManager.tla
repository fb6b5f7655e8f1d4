---------------------------- MODULE MCMountManager ----------------------------
(* Bounds for TLC: three goroutines, three partitions of which two have one   *)
(* directory, and two managers: the session's and one made after Close.       *)
EXTENDS MountManager, TLC

CONSTANTS opl, pops, oplToo

MCDirOf == (opl :> "opl") @@ (pops :> "pops") @@ (oplToo :> "opl")

MCSymmetry == Permutations(Users)
=============================================================================
