---------------------------- MODULE MCInterface -----------------------------
(* Bounds for TLC: two titles, a channel of one update, a few keys.           *)
EXTENDS Interface
=============================================================================
