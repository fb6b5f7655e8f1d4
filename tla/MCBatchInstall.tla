---------------------------- MODULE MCBatchInstall ----------------------------
(* A plan with a loose title among archived ones, as a mixed library has; one *)
(* archived title more than there are slots, so that two refused titles leave *)
(* a third to wait for.                                                       *)
EXTENDS BatchInstall, TLC

CONSTANTS t1, t2, t3, loose

MCPlan     == << t1, t2, loose, t3 >>
MCArchived == << t1, t2, t3 >>

ASSUME MCBounds == Cardinality(Titles \ Loose) > Depth
=============================================================================
