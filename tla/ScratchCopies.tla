----------------------------- MODULE ScratchCopies -----------------------------
(***************************************************************************)
(* What the prefetcher promises about the scratch directory, without        *)
(* goroutines, locks or channels: at most Depth copies exist, each made for *)
(* one unpacking, handed to the installer at most once and only when        *)
(* complete, one at a time, and removed by whoever has it last.  The        *)
(* Prefetcher implements it.                                                *)
(***************************************************************************)
EXTENDS Integers, FiniteSets

CONSTANTS Dirs, Depth

VARIABLE stage   \* of each directory name

OnDisk == {d \in Dirs : stage[d] # "free"}

Init == stage = [d \in Dirs |-> "free"]

Unpack(d) ==
  /\ stage[d] = "free" /\ Cardinality(OnDisk) < Depth
  /\ stage' = [stage EXCEPT ![d] = "unpacking"]

Fail(d)   == stage[d] = "unpacking" /\ stage' = [stage EXCEPT ![d] = "free"]
Finish(d) == stage[d] = "unpacking" /\ stage' = [stage EXCEPT ![d] = "ready"]

Hand(d) ==
  /\ stage[d] = "ready" /\ \A e \in Dirs : stage[e] # "handed"
  /\ stage' = [stage EXCEPT ![d] = "handed"]

Return(d)  == stage[d] = "handed" /\ stage' = [stage EXCEPT ![d] = "free"]
Discard(d) == stage[d] = "ready"  /\ stage' = [stage EXCEPT ![d] = "free"]

Next == \E d \in Dirs : \/ Unpack(d) \/ Fail(d) \/ Finish(d)
                        \/ Hand(d) \/ Return(d) \/ Discard(d)

Spec == Init /\ [][Next]_stage
=============================================================================
