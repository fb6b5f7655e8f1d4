---------------------------- MODULE AssetProofs -----------------------------
(***************************************************************************)
(* Theorems about AssetSync, for any number of syncs and slots: no part of *)
(* an image stays, what the user put there is kept, and what a sync        *)
(* reports is on the partition, with its copies for the Apps page.         *)
(***************************************************************************)
EXTENDS AssetSync, FiniteSetTheorems, TLAPS

\* A temporary file has its own name until it is whole.
CacheWhole == \A d \in Slots : cache[d] # "part"

\* What a sync has open is a slot ...
Opened ==
  \A s \in Syncs :
    pc[s] \in {"create", "writing", "open", "copy", "copying"} => at[s] \in Slots

\* ... and is written from a whole download, over nothing the plan knew of.
Old(s, d) == ~call[s].overwrite /\ d \in inv[s] \cup exists[s]
Writing == \A s \in Syncs : pc[s] \in {"create", "writing"} => src[s] /\ ~Old(s, at[s])

\* There are no items before the plan, and none for what Scan found.
Early == {"idle", "scan", "plan"}
NoItemsYet == \A s \in Syncs, d \in Slots : pc[s] \in Early => item[s][d] = "none"
Missing == \A s \in Syncs, d \in Slots :
             item[s][d] # "none" /\ ~call[s].overwrite => d \notin inv[s]

Semaphore == \A s \in Syncs : Cardinality(InFlight(s)) <= Conc

Control == CacheWhole /\ Opened /\ Writing /\ NoItemsYet /\ Missing
IInv == Shape /\ Semaphore /\ Control /\ NoPartialArt

USE DEF Over

-----------------------------------------------------------------------------
\* The budget of what goes wrong is never overdrawn.
LEMMA FaultStep ==
  ASSUME Shape, Fault
  PROVE  faults' \in 0 .. MaxFaults
  BY AssetSyncAssumption DEF Shape, Fault

\* Every step of a sync, of the user or of another process keeps the types.
LEMMA ShapeStep ==
  ASSUME Shape, Opened, [Next]_vars
  PROVE  Shape'
<1>1. ASSUME UNCHANGED vars PROVE Shape'
  BY <1>1 DEF vars, part, plan, Shape
<1>2. ASSUME NEW s \in Syncs, Begin(s) PROVE Shape'
  <2>1. PICK o \in Options[s] : call' = [call EXCEPT ![s] = o]
    BY <1>2 DEF Begin
  <2>2. o \in Calls
    BY AssetSyncAssumption
  <2>3. call' \in [Syncs -> Calls]
    BY <2>1, <2>2 DEF Shape
  <2> QED
    BY <1>2, <2>3 DEF Begin, Goto, part, Shape
<1>3. ASSUME NEW s \in Syncs, Scan(s) PROVE Shape'
  <2>1. inv' \in [Syncs -> SUBSET Slots]
    <3>1. call[s].of \in SUBSET Slots
      BY DEF Shape, Calls
    <3> QED
      BY <1>3, <3>1 DEF Scan, Shape
  <2> QED
    BY <1>3, <2>1 DEF Scan, Goto, part, Shape
<1>4. ASSUME NEW s \in Syncs, PlanSync(s) PROVE Shape'
  <2>1. PICK new \in SUBSET Slots :
          /\ item' = [item EXCEPT ![s] = [d \in Slots |-> IF d \in new THEN "queued" ELSE "none"]]
          /\ exists' = [exists EXCEPT ![s] = {d \in new : There(d)}]
    <3>1. wantFor(s) \cap Supplied \in SUBSET Slots
      BY AssetSyncAssumption
    <3> QED
      BY <1>4, <3>1 DEF PlanSync
  <2>2. [d \in Slots |-> IF d \in new THEN "queued" ELSE "none"] \in [Slots -> Items]
    BY DEF Items
  <2>3. item' \in [Syncs -> [Slots -> Items]]
    BY <2>1, <2>2 DEF Shape
  <2>4. exists' \in [Syncs -> SUBSET Slots]
    BY <2>1 DEF Shape
  <2> QED
    BY <1>4, <2>3, <2>4 DEF PlanSync, Goto, part, Shape
<1>5. ASSUME NEW s \in Syncs, ProbeRemove(s) PROVE Shape'
  BY <1>5 DEF ProbeRemove, Goto, part, plan, Shape
<1>6. ASSUME NEW s \in Syncs, ProbeCreate(s) PROVE Shape'
  BY <1>6 DEF ProbeCreate, Goto, part, plan, Shape
<1>7. ASSUME NEW s \in Syncs, ProbeRefused(s) PROVE Shape'
  BY <1>7, FaultStep DEF ProbeRefused, Goto, part, plan, Shape
<1>8. ASSUME NEW s \in Syncs, ProbeDone(s) PROVE Shape'
  BY <1>8 DEF ProbeDone, Goto, part, plan, Shape
<1>9. ASSUME NEW s \in Syncs, NEW d \in Slots, FetchCached(s, d) PROVE Shape'
  BY <1>9
    DEF FetchCached, Acquire, SetItem, part, plan, Shape, Items, Reported, Fetched
<1>10. ASSUME NEW s \in Syncs, NEW d \in Slots, FetchStart(s, d) PROVE Shape'
  BY <1>10
    DEF FetchStart, Acquire, SetItem, part, plan, Shape, Items, Reported, Fetched
<1>11. ASSUME NEW s \in Syncs, NEW d \in Slots, FetchCancelled(s, d) PROVE Shape'
  BY <1>11
    DEF FetchCancelled, Acquire, SetItem, part, plan, Shape, Items, Reported,
        Fetched
<1>12. ASSUME NEW s \in Syncs, NEW d \in Slots, FetchPut(s, d) PROVE Shape'
  BY <1>12
    DEF FetchPut, Cached, SetItem, part, plan, Shape, Items, Reported, Fetched
<1>13. ASSUME NEW s \in Syncs, NEW d \in Slots, FetchFails(s, d) PROVE Shape'
  BY <1>13 DEF FetchFails, SetItem, part, plan, Shape, Items, Reported, Fetched
<1>14. ASSUME NEW s \in Syncs, NEW d \in Slots, WriteNothing(s, d) PROVE Shape'
  <2>1. PICK x \in Items : item' = [item EXCEPT ![s][d] = x]
    BY <1>14 DEF WriteNothing, SetItem, Items, Reported
  <2>2. item' \in [Syncs -> [Slots -> Items]]
    BY <2>1 DEF Shape
  <2> QED
    BY <1>14, <2>2 DEF WriteNothing, part, plan, Shape
<1>15. ASSUME NEW s \in Syncs, NEW d \in Slots, WriteRemove(s, d) PROVE Shape'
  BY <1>15
    DEF WriteRemove, Keeps, First, ToWrite, Fetched, Put, Handles, Goto, part,
        plan, Shape, Files, NoFile, Writers, Opened
<1>16. ASSUME NEW s \in Syncs, NEW d \in Slots, SweepPast(s, d) PROVE Shape'
  BY <1>16 DEF SweepPast, First, ToSweep, NeedsCopy, part, plan, Shape
<1>17. ASSUME NEW s \in Syncs, NEW d \in Slots, SweepFinds(s, d) PROVE Shape'
  BY <1>17
    DEF SweepFinds, First, ToSweep, NeedsCopy, Handles, Goto, part, plan, Shape
<1>18. ASSUME NEW s \in Syncs, FetchedAll(s) PROVE Shape'
  BY <1>18 DEF FetchedAll, Goto, part, plan, Shape
<1>19. ASSUME NEW s \in Syncs, WriteCreate(s) PROVE Shape'
  BY <1>19
    DEF WriteCreate, There, Put, Goto, part, plan, Shape, Files, NoFile, Writers,
        Opened
<1>20. ASSUME NEW s \in Syncs, WriteRefused(s) PROVE Shape'
  BY <1>20, FaultStep
    DEF WriteRefused, There, Closed, Handles, SetItem, Goto, part, plan, Shape,
        Items, Reported, Fetched, Opened
<1>21. ASSUME NEW s \in Syncs, WriteEnd(s) PROVE Shape'
  BY <1>21
    DEF WriteEnd, Put, Closed, Handles, SetItem, Goto, part, plan, Shape, Items,
        Reported, Fetched, Files, NoFile, Writers, Opened
<1>22. ASSUME NEW s \in Syncs, WriteFails(s) PROVE Shape'
  BY <1>22, FaultStep
    DEF WriteFails, Put, Closed, Handles, SetItem, Goto, part, plan, Shape, Items,
        Reported, Fetched, Files, NoFile, Writers, Opened
<1>23. ASSUME NEW s \in Syncs, WroteAll(s) PROVE Shape'
  BY <1>23 DEF WroteAll, Goto, part, plan, Shape
<1>24. ASSUME NEW s \in Syncs, CopyOpen(s) PROVE Shape'
  BY <1>24
    DEF CopyOpen, There, Put, Goto, part, plan, Shape, Files, NoFile, Writers,
        Opened
<1>25. ASSUME NEW s \in Syncs, CopyCreate(s) PROVE Shape'
  BY <1>25
    DEF CopyCreate, Put, Goto, part, plan, Shape, Files, NoFile, Writers, Opened
<1>26. ASSUME NEW s \in Syncs, CopyEnd(s) PROVE Shape'
  BY <1>26
    DEF CopyEnd, Put, Closed, Handles, Goto, part, plan, Shape, Files, NoFile,
        Writers, Opened
<1>27. ASSUME NEW s \in Syncs, CopyFails(s) PROVE Shape'
  BY <1>27, FaultStep
    DEF CopyFails, There, Put, Closed, Handles, Goto, part, plan, Shape, Files,
        NoFile, Writers, Opened
<1>28. ASSUME NEW s \in Syncs, SweptAll(s) PROVE Shape'
  BY <1>28 DEF SweptAll, Goto, part, plan, Shape
<1>29. ASSUME NEW s \in Syncs, Cancel(s) PROVE Shape'
  BY <1>29 DEF Cancel, part, plan, Shape
<1>30. ASSUME NEW s \in Syncs, Kill(s) PROVE Shape'
  BY <1>30, FaultStep DEF Kill, Goto, part, plan, Shape
<1>31. ASSUME NEW d \in Slots, CleanFile(d) PROVE Shape'
  <2>1. /\ cache' \in [Slots -> {"none", "part", "whole"}]
        /\ temps' \subseteq Syncs \X Slots
    BY <1>31 DEF CleanFile, Shape
  <2>2. faults' \in 0 .. MaxFaults
    BY <1>31, FaultStep DEF CleanFile
  <2> QED
    BY <1>31, <2>1, <2>2 DEF CleanFile, part, plan, Shape
<1>32. ASSUME NEW d \in Slots, UserPuts(d) PROVE Shape'
  BY <1>32, FaultStep
    DEF UserPuts, There, Put, part, plan, Shape, Files, NoFile, Writers, Opened
<1> QED
  BY <1>1, <1>2, <1>3, <1>4, <1>5, <1>6, <1>7, <1>8, <1>9, <1>10, <1>11, <1>12,
    <1>13, <1>14, <1>15, <1>16, <1>17, <1>18, <1>19, <1>20, <1>21, <1>22, <1>23,
    <1>24, <1>25, <1>26, <1>27, <1>28, <1>29, <1>30, <1>31, <1>32
    DEF Next, SyncStep

\* A step starts a download, or adds to nobody's.
NoMoreInFlight ==
  \/ \E s \in Syncs, d \in Slots : FetchStart(s, d)
  \/ \A s \in Syncs : InFlight(s)' \subseteq InFlight(s)

\* No step but the start of a download adds to those in flight.
LEMMA FlightStep ==
  ASSUME Shape, Semaphore, [Next]_vars
  PROVE  NoMoreInFlight
<1>1. ASSUME UNCHANGED vars PROVE NoMoreInFlight
  BY <1>1 DEF vars, part, plan, InFlight, NoMoreInFlight, Shape
<1>2. ASSUME NEW s \in Syncs, Begin(s) PROVE NoMoreInFlight
  BY <1>2 DEF Begin, Goto, part, plan, InFlight, NoMoreInFlight, Shape
<1>3. ASSUME NEW s \in Syncs, Scan(s) PROVE NoMoreInFlight
  BY <1>3 DEF Scan, There, Goto, part, plan, InFlight, NoMoreInFlight, Shape
<1>4. ASSUME NEW s \in Syncs, PlanSync(s) PROVE NoMoreInFlight
  BY <1>4 DEF PlanSync, wantFor, There, Goto, part, plan, InFlight, NoMoreInFlight, Shape
<1>5. ASSUME NEW s \in Syncs, ProbeRemove(s) PROVE NoMoreInFlight
  BY <1>5 DEF ProbeRemove, Goto, part, plan, InFlight, NoMoreInFlight, Shape
<1>6. ASSUME NEW s \in Syncs, ProbeCreate(s) PROVE NoMoreInFlight
  BY <1>6 DEF ProbeCreate, Goto, part, plan, InFlight, NoMoreInFlight, Shape
<1>7. ASSUME NEW s \in Syncs, ProbeRefused(s) PROVE NoMoreInFlight
  BY <1>7 DEF ProbeRefused, Fault, Goto, part, plan, InFlight, NoMoreInFlight, Shape
<1>8. ASSUME NEW s \in Syncs, ProbeDone(s) PROVE NoMoreInFlight
  BY <1>8 DEF ProbeDone, Goto, part, plan, InFlight, NoMoreInFlight, Shape
<1>9. ASSUME NEW s \in Syncs, NEW d \in Slots, FetchCached(s, d) PROVE NoMoreInFlight
  BY <1>9 DEF FetchCached, Acquire, SetItem, part, plan, InFlight, NoMoreInFlight, Shape
<1>10. ASSUME NEW s \in Syncs, NEW d \in Slots, FetchStart(s, d) PROVE NoMoreInFlight
  BY <1>10 DEF FetchStart, Acquire, SetItem, part, plan, InFlight, NoMoreInFlight, Shape
<1>11. ASSUME NEW s \in Syncs, NEW d \in Slots, FetchCancelled(s, d) PROVE NoMoreInFlight
  BY <1>11 DEF FetchCancelled, Acquire, SetItem, part, plan, InFlight, NoMoreInFlight, Shape
<1>12. ASSUME NEW s \in Syncs, NEW d \in Slots, FetchPut(s, d) PROVE NoMoreInFlight
  BY <1>12 DEF FetchPut, Cached, SetItem, part, plan, InFlight, NoMoreInFlight, Shape
<1>13. ASSUME NEW s \in Syncs, NEW d \in Slots, FetchFails(s, d) PROVE NoMoreInFlight
  BY <1>13 DEF FetchFails, SetItem, part, plan, InFlight, NoMoreInFlight, Shape
<1>14. ASSUME NEW s \in Syncs, NEW d \in Slots, WriteNothing(s, d) PROVE NoMoreInFlight
  <2>1. PICK x \in {"installed", "lost"} : item' = [item EXCEPT ![s][d] = x]
    BY <1>14 DEF WriteNothing, SetItem
  <2> QED
    BY <2>1 DEF InFlight, NoMoreInFlight, Shape
<1>15. ASSUME NEW s \in Syncs, NEW d \in Slots, WriteRemove(s, d) PROVE NoMoreInFlight
  BY <1>15
    DEF WriteRemove, Keeps, First, ToWrite, Fetched, Put, Handles, Goto, part,
        plan, InFlight, NoMoreInFlight, Shape
<1>16. ASSUME NEW s \in Syncs, NEW d \in Slots, SweepPast(s, d) PROVE NoMoreInFlight
  BY <1>16 DEF SweepPast, First, ToSweep, NeedsCopy, part, plan, InFlight, NoMoreInFlight, Shape
<1>17. ASSUME NEW s \in Syncs, NEW d \in Slots, SweepFinds(s, d) PROVE NoMoreInFlight
  BY <1>17
    DEF SweepFinds, First, ToSweep, NeedsCopy, Handles, Goto, part, plan, InFlight,
        NoMoreInFlight, Shape
<1>18. ASSUME NEW s \in Syncs, FetchedAll(s) PROVE NoMoreInFlight
  BY <1>18 DEF FetchedAll, Goto, part, plan, InFlight, NoMoreInFlight, Shape
<1>19. ASSUME NEW s \in Syncs, WriteCreate(s) PROVE NoMoreInFlight
  BY <1>19 DEF WriteCreate, There, Put, Goto, part, plan, InFlight, NoMoreInFlight, Shape
<1>20. ASSUME NEW s \in Syncs, WriteRefused(s) PROVE NoMoreInFlight
  BY <1>20
    DEF WriteRefused, There, Closed, Handles, Fault, SetItem, Goto, part, plan,
        InFlight, NoMoreInFlight, Shape
<1>21. ASSUME NEW s \in Syncs, WriteEnd(s) PROVE NoMoreInFlight
  BY <1>21
    DEF WriteEnd, Put, Closed, Handles, SetItem, Goto, part, plan, InFlight, NoMoreInFlight, Shape
<1>22. ASSUME NEW s \in Syncs, WriteFails(s) PROVE NoMoreInFlight
  BY <1>22
    DEF WriteFails, Put, Closed, Handles, Fault, SetItem, Goto, part, plan,
        InFlight, NoMoreInFlight, Shape
<1>23. ASSUME NEW s \in Syncs, WroteAll(s) PROVE NoMoreInFlight
  BY <1>23 DEF WroteAll, Goto, part, plan, InFlight, NoMoreInFlight, Shape
<1>24. ASSUME NEW s \in Syncs, CopyOpen(s) PROVE NoMoreInFlight
  BY <1>24 DEF CopyOpen, There, Put, Goto, part, plan, InFlight, NoMoreInFlight, Shape
<1>25. ASSUME NEW s \in Syncs, CopyCreate(s) PROVE NoMoreInFlight
  BY <1>25 DEF CopyCreate, Put, Goto, part, plan, InFlight, NoMoreInFlight, Shape
<1>26. ASSUME NEW s \in Syncs, CopyEnd(s) PROVE NoMoreInFlight
  BY <1>26 DEF CopyEnd, Put, Closed, Handles, Goto, part, plan, InFlight, NoMoreInFlight, Shape
<1>27. ASSUME NEW s \in Syncs, CopyFails(s) PROVE NoMoreInFlight
  BY <1>27
    DEF CopyFails, There, Put, Closed, Handles, Fault, Goto, part, plan, InFlight,
        NoMoreInFlight, Shape
<1>28. ASSUME NEW s \in Syncs, SweptAll(s) PROVE NoMoreInFlight
  BY <1>28 DEF SweptAll, Goto, part, plan, InFlight, NoMoreInFlight, Shape
<1>29. ASSUME NEW s \in Syncs, Cancel(s) PROVE NoMoreInFlight
  BY <1>29 DEF Cancel, part, plan, InFlight, NoMoreInFlight, Shape
<1>30. ASSUME NEW s \in Syncs, Kill(s) PROVE NoMoreInFlight
  BY <1>30 DEF Kill, Fault, Goto, part, plan, InFlight, NoMoreInFlight, Shape
<1>31. ASSUME NEW d \in Slots, CleanFile(d) PROVE NoMoreInFlight
  BY <1>31 DEF CleanFile, Fault, part, plan, InFlight, NoMoreInFlight, Shape
<1>32. ASSUME NEW d \in Slots, UserPuts(d) PROVE NoMoreInFlight
  BY <1>32 DEF UserPuts, There, Put, Fault, part, plan, InFlight, NoMoreInFlight, Shape
<1> QED
  BY <1>1, <1>2, <1>3, <1>4, <1>5, <1>6, <1>7, <1>8, <1>9, <1>10, <1>11, <1>12,
    <1>13, <1>14, <1>15, <1>16, <1>17, <1>18, <1>19, <1>20, <1>21, <1>22, <1>23,
    <1>24, <1>25, <1>26, <1>27, <1>28, <1>29, <1>30, <1>31, <1>32
    DEF Next, SyncStep

\* The semaphore counts exactly the downloads in flight.
LEMMA SemaphoreStep ==
  ASSUME Shape, Semaphore, [Next]_vars
  PROVE  Semaphore'
<1>0. \A s \in Syncs : IsFiniteSet(InFlight(s)) /\ Cardinality(InFlight(s)) \in Nat
  BY AssetSyncAssumption, FS_Subset, FS_CardinalityType DEF InFlight
<1>1. ASSUME NEW s \in Syncs, NEW d \in Slots, FetchStart(s, d) PROVE Semaphore'
  <2>1. \A t \in Syncs \ {s} : InFlight(t)' = InFlight(t)
    BY <1>1 DEF FetchStart, SetItem, InFlight, Shape
  <2>2. InFlight(s)' = InFlight(s) \cup {d}
    BY <1>1 DEF FetchStart, SetItem, InFlight, Shape
  <2>3. Cardinality(InFlight(s) \cup {d}) <= Cardinality(InFlight(s)) + 1
    <3>1. IsFiniteSet(InFlight(s)) /\ Cardinality(InFlight(s)) \in Nat
      BY <1>0
    <3>2. Cardinality(InFlight(s) \cup {d}) =
            IF d \in InFlight(s) THEN Cardinality(InFlight(s)) ELSE Cardinality(InFlight(s)) + 1
      BY <3>1, FS_AddElement
    <3> QED
      BY <3>1, <3>2
  <2>4. Cardinality(InFlight(s)) < Conc
    BY <1>1 DEF FetchStart, Acquire
  <2>5. Cardinality(InFlight(s) \cup {d}) <= Conc
    <3>1. Cardinality(InFlight(s) \cup {d}) \in Nat
      BY <1>0, FS_AddElement, FS_CardinalityType
    <3> QED
      BY <1>0, <2>3, <2>4, <3>1, AssetSyncAssumption
  <2> QED
    BY <2>1, <2>2, <2>5 DEF Semaphore
<1>2. ASSUME \A s \in Syncs : InFlight(s)' \subseteq InFlight(s) PROVE Semaphore'
  <2>1. SUFFICES ASSUME NEW s \in Syncs PROVE Cardinality(InFlight(s)') <= Conc
    BY DEF Semaphore
  <2>2. Cardinality(InFlight(s)') <= Cardinality(InFlight(s)) /\ Cardinality(InFlight(s)') \in Nat
    BY <1>0, <1>2, FS_Subset, FS_CardinalityType
  <2> QED
    BY <1>0, <2>2, AssetSyncAssumption DEF Semaphore
<1> QED
  BY <1>1, <1>2, FlightStep DEF NoMoreInFlight

\* What a sync has open, and what its plan left out, as it goes on.
LEMMA ControlStep ==
  ASSUME Shape, Control, [Next]_vars
  PROVE  Control'
<1>1. ASSUME UNCHANGED vars PROVE Control'
  BY <1>1
    DEF vars, part, plan, Control, CacheWhole, Opened, Writing, Old, NoItemsYet,
        Missing, Early, Shape
<1>2. ASSUME NEW s \in Syncs, Begin(s) PROVE Control'
  BY <1>2
    DEF Begin, Goto, part, plan, Control, CacheWhole, Opened, Writing, Old,
        NoItemsYet, Missing, Early, Shape
<1>3. ASSUME NEW s \in Syncs, Scan(s) PROVE Control'
  BY <1>3
    DEF Scan, There, Goto, part, plan, Control, CacheWhole, Opened, Writing, Old,
        NoItemsYet, Missing, Early, Shape
<1>4. ASSUME NEW s \in Syncs, PlanSync(s) PROVE Control'
  BY <1>4
    DEF PlanSync, wantFor, There, Goto, part, plan, Control, CacheWhole, Opened,
        Writing, Old, NoItemsYet, Missing, Early, Shape
<1>5. ASSUME NEW s \in Syncs, ProbeRemove(s) PROVE Control'
  BY <1>5
    DEF ProbeRemove, Goto, part, plan, Control, CacheWhole, Opened, Writing, Old,
        NoItemsYet, Missing, Early, Shape
<1>6. ASSUME NEW s \in Syncs, ProbeCreate(s) PROVE Control'
  BY <1>6
    DEF ProbeCreate, Goto, part, plan, Control, CacheWhole, Opened, Writing, Old,
        NoItemsYet, Missing, Early, Shape
<1>7. ASSUME NEW s \in Syncs, ProbeRefused(s) PROVE Control'
  BY <1>7
    DEF ProbeRefused, Fault, Goto, part, plan, Control, CacheWhole, Opened,
        Writing, Old, NoItemsYet, Missing, Early, Shape
<1>8. ASSUME NEW s \in Syncs, ProbeDone(s) PROVE Control'
  BY <1>8
    DEF ProbeDone, Goto, part, plan, Control, CacheWhole, Opened, Writing, Old,
        NoItemsYet, Missing, Early, Shape
<1>9. ASSUME NEW s \in Syncs, NEW d \in Slots, FetchCached(s, d) PROVE Control'
  BY <1>9
    DEF FetchCached, Acquire, SetItem, part, plan, Control, CacheWhole, Opened,
        Writing, Old, NoItemsYet, Missing, Early, Shape
<1>10. ASSUME NEW s \in Syncs, NEW d \in Slots, FetchStart(s, d) PROVE Control'
  BY <1>10
    DEF FetchStart, Acquire, SetItem, part, plan, Control, CacheWhole, Opened,
        Writing, Old, NoItemsYet, Missing, Early, Shape
<1>11. ASSUME NEW s \in Syncs, NEW d \in Slots, FetchCancelled(s, d) PROVE Control'
  BY <1>11
    DEF FetchCancelled, Acquire, SetItem, part, plan, Control, CacheWhole, Opened,
        Writing, Old, NoItemsYet, Missing, Early, Shape
<1>12. ASSUME NEW s \in Syncs, NEW d \in Slots, FetchPut(s, d) PROVE Control'
  BY <1>12
    DEF FetchPut, Cached, SetItem, part, plan, Control, CacheWhole, Opened,
        Writing, Old, NoItemsYet, Missing, Early, Shape
<1>13. ASSUME NEW s \in Syncs, NEW d \in Slots, FetchFails(s, d) PROVE Control'
  BY <1>13
    DEF FetchFails, SetItem, part, plan, Control, CacheWhole, Opened, Writing, Old,
        NoItemsYet, Missing, Early, Shape
<1>14. ASSUME NEW s \in Syncs, NEW d \in Slots, WriteNothing(s, d) PROVE Control'
  <2>1. PICK x \in {"installed", "lost"} : item' = [item EXCEPT ![s][d] = x]
    BY <1>14 DEF WriteNothing, SetItem
  <2>2. item[s][d] \in Fetched
    BY <1>14 DEF WriteNothing, First, ToWrite
  <2>3. NoItemsYet'
    BY <1>14, <2>1, <2>2
      DEF WriteNothing, Fetched, part, Control, NoItemsYet, Early, Shape
  <2>4. Missing'
    BY <1>14, <2>1, <2>2
      DEF WriteNothing, Fetched, part, plan, Control, Missing, Shape
  <2> QED
    BY <1>14, <2>3, <2>4
      DEF WriteNothing, part, plan, Control, CacheWhole, Opened, Writing, Old
<1>15. ASSUME NEW s \in Syncs, NEW d \in Slots, WriteRemove(s, d) PROVE Control'
  BY ZenonT(30), <1>15
    DEF WriteRemove, Keeps, First, ToWrite, Fetched, Put, Handles, Goto, part,
        plan, Control, CacheWhole, Opened, Writing, Old, NoItemsYet, Missing,
        Early, Shape
<1>16. ASSUME NEW s \in Syncs, NEW d \in Slots, SweepPast(s, d) PROVE Control'
  BY <1>16
    DEF SweepPast, First, ToSweep, NeedsCopy, part, plan, Control, CacheWhole,
        Opened, Writing, Old, NoItemsYet, Missing, Early, Shape
<1>17. ASSUME NEW s \in Syncs, NEW d \in Slots, SweepFinds(s, d) PROVE Control'
  BY <1>17
    DEF SweepFinds, First, ToSweep, NeedsCopy, Handles, Goto, part, plan, Control,
        CacheWhole, Opened, Writing, Old, NoItemsYet, Missing, Early, Shape
<1>18. ASSUME NEW s \in Syncs, FetchedAll(s) PROVE Control'
  BY <1>18
    DEF FetchedAll, Goto, part, plan, Control, CacheWhole, Opened, Writing, Old,
        NoItemsYet, Missing, Early, Shape
<1>19. ASSUME NEW s \in Syncs, WriteCreate(s) PROVE Control'
  BY <1>19
    DEF WriteCreate, There, Put, Goto, part, plan, Control, CacheWhole, Opened,
        Writing, Old, NoItemsYet, Missing, Early, Shape
<1>20. ASSUME NEW s \in Syncs, WriteRefused(s) PROVE Control'
  BY <1>20
    DEF WriteRefused, There, Closed, Handles, Fault, SetItem, Goto, part, plan,
        Control, CacheWhole, Opened, Writing, Old, NoItemsYet, Missing, Early,
        Shape
<1>21. ASSUME NEW s \in Syncs, WriteEnd(s) PROVE Control'
  BY <1>21
    DEF WriteEnd, Put, Closed, Handles, SetItem, Goto, part, plan, Control,
        CacheWhole, Opened, Writing, Old, NoItemsYet, Missing, Early, Shape
<1>22. ASSUME NEW s \in Syncs, WriteFails(s) PROVE Control'
  BY <1>22
    DEF WriteFails, Put, Closed, Handles, Fault, SetItem, Goto, part, plan,
        Control, CacheWhole, Opened, Writing, Old, NoItemsYet, Missing, Early,
        Shape
<1>23. ASSUME NEW s \in Syncs, WroteAll(s) PROVE Control'
  BY <1>23
    DEF WroteAll, Goto, part, plan, Control, CacheWhole, Opened, Writing, Old,
        NoItemsYet, Missing, Early, Shape
<1>24. ASSUME NEW s \in Syncs, CopyOpen(s) PROVE Control'
  BY <1>24
    DEF CopyOpen, There, Put, Goto, part, plan, Control, CacheWhole, Opened,
        Writing, Old, NoItemsYet, Missing, Early, Shape
<1>25. ASSUME NEW s \in Syncs, CopyCreate(s) PROVE Control'
  BY <1>25
    DEF CopyCreate, Put, Goto, part, plan, Control, CacheWhole, Opened, Writing,
        Old, NoItemsYet, Missing, Early, Shape
<1>26. ASSUME NEW s \in Syncs, CopyEnd(s) PROVE Control'
  BY <1>26
    DEF CopyEnd, Put, Closed, Handles, Goto, part, plan, Control, CacheWhole,
        Opened, Writing, Old, NoItemsYet, Missing, Early, Shape
<1>27. ASSUME NEW s \in Syncs, CopyFails(s) PROVE Control'
  BY <1>27
    DEF CopyFails, There, Put, Closed, Handles, Fault, Goto, part, plan, Control,
        CacheWhole, Opened, Writing, Old, NoItemsYet, Missing, Early, Shape
<1>28. ASSUME NEW s \in Syncs, SweptAll(s) PROVE Control'
  BY <1>28
    DEF SweptAll, Goto, part, plan, Control, CacheWhole, Opened, Writing, Old,
        NoItemsYet, Missing, Early, Shape
<1>29. ASSUME NEW s \in Syncs, Cancel(s) PROVE Control'
  BY <1>29
    DEF Cancel, part, plan, Control, CacheWhole, Opened, Writing, Old, NoItemsYet,
        Missing, Early, Shape
<1>30. ASSUME NEW s \in Syncs, Kill(s) PROVE Control'
  BY <1>30
    DEF Kill, Fault, Goto, part, plan, Control, CacheWhole, Opened, Writing, Old,
        NoItemsYet, Missing, Early, Shape
<1>31. ASSUME NEW d \in Slots, CleanFile(d) PROVE Control'
  BY <1>31
    DEF CleanFile, Fault, part, plan, Control, CacheWhole, Opened, Writing, Old,
        NoItemsYet, Missing, Early, Shape
<1>32. ASSUME NEW d \in Slots, UserPuts(d) PROVE Control'
  BY <1>32
    DEF UserPuts, There, Put, Fault, part, plan, Control, CacheWhole, Opened,
        Writing, Old, NoItemsYet, Missing, Early, Shape
<1> QED
  BY <1>1, <1>2, <1>3, <1>4, <1>5, <1>6, <1>7, <1>8, <1>9, <1>10, <1>11, <1>12,
    <1>13, <1>14, <1>15, <1>16, <1>17, <1>18, <1>19, <1>20, <1>21, <1>22, <1>23,
    <1>24, <1>25, <1>26, <1>27, <1>28, <1>29, <1>30, <1>31, <1>32
    DEF Next, SyncStep

\* What is not whole is what a sync is writing.
LEMMA NoPartialStep ==
  ASSUME Shape, Control, NoPartialArt, [Next]_vars
  PROVE  NoPartialArt'
<1>1. ASSUME UNCHANGED vars PROVE NoPartialArt'
  BY <1>1
    DEF vars, part, plan, NoPartialArt, There, NoFile, Control, Writing, Opened,
        Shape
<1>2. ASSUME NEW s \in Syncs, Begin(s) PROVE NoPartialArt'
  BY <1>2
    DEF Begin, Goto, part, plan, NoPartialArt, There, NoFile, Control, Writing,
        Opened, Shape
<1>3. ASSUME NEW s \in Syncs, Scan(s) PROVE NoPartialArt'
  BY <1>3
    DEF Scan, There, Goto, part, plan, NoPartialArt, NoFile, Control, Writing,
        Opened, Shape
<1>4. ASSUME NEW s \in Syncs, PlanSync(s) PROVE NoPartialArt'
  BY <1>4
    DEF PlanSync, wantFor, There, Goto, part, plan, NoPartialArt, NoFile, Control,
        Writing, Opened, Shape
<1>5. ASSUME NEW s \in Syncs, ProbeRemove(s) PROVE NoPartialArt'
  BY <1>5
    DEF ProbeRemove, Goto, part, plan, NoPartialArt, There, NoFile, Control,
        Writing, Opened, Shape
<1>6. ASSUME NEW s \in Syncs, ProbeCreate(s) PROVE NoPartialArt'
  BY <1>6
    DEF ProbeCreate, Goto, part, plan, NoPartialArt, There, NoFile, Control,
        Writing, Opened, Shape
<1>7. ASSUME NEW s \in Syncs, ProbeRefused(s) PROVE NoPartialArt'
  BY <1>7
    DEF ProbeRefused, Fault, Goto, part, plan, NoPartialArt, There, NoFile,
        Control, Writing, Opened, Shape
<1>8. ASSUME NEW s \in Syncs, ProbeDone(s) PROVE NoPartialArt'
  BY <1>8
    DEF ProbeDone, Goto, part, plan, NoPartialArt, There, NoFile, Control, Writing,
        Opened, Shape
<1>9. ASSUME NEW s \in Syncs, NEW d \in Slots, FetchCached(s, d) PROVE NoPartialArt'
  BY <1>9
    DEF FetchCached, Acquire, SetItem, part, plan, NoPartialArt, There, NoFile,
        Control, Writing, Opened, Shape
<1>10. ASSUME NEW s \in Syncs, NEW d \in Slots, FetchStart(s, d) PROVE NoPartialArt'
  BY <1>10
    DEF FetchStart, Acquire, SetItem, part, plan, NoPartialArt, There, NoFile,
        Control, Writing, Opened, Shape
<1>11. ASSUME NEW s \in Syncs, NEW d \in Slots, FetchCancelled(s, d)
       PROVE NoPartialArt'
  BY <1>11
    DEF FetchCancelled, Acquire, SetItem, part, plan, NoPartialArt, There, NoFile,
        Control, Writing, Opened, Shape
<1>12. ASSUME NEW s \in Syncs, NEW d \in Slots, FetchPut(s, d) PROVE NoPartialArt'
  BY <1>12
    DEF FetchPut, Cached, SetItem, part, plan, NoPartialArt, There, NoFile,
        Control, Writing, Opened, Shape
<1>13. ASSUME NEW s \in Syncs, NEW d \in Slots, FetchFails(s, d) PROVE NoPartialArt'
  BY <1>13
    DEF FetchFails, SetItem, part, plan, NoPartialArt, There, NoFile, Control,
        Writing, Opened, Shape
<1>14. ASSUME NEW s \in Syncs, NEW d \in Slots, WriteNothing(s, d)
       PROVE NoPartialArt'
  BY <1>14
    DEF WriteNothing, Keeps, First, ToWrite, Fetched, SetItem, part, plan,
        NoPartialArt, There, NoFile, Control, Writing, Opened, Shape
<1>15. ASSUME NEW s \in Syncs, NEW d \in Slots, WriteRemove(s, d)
       PROVE NoPartialArt'
  <2>1. SUFFICES ASSUME NEW e \in Slots, art'[e] # NoFile, ~art'[e].whole
                 PROVE  art'[e].by \in Syncs /\ pc'[art'[e].by] \in {"writing", "killed"} /\ at'[art'[e].by] = e
    BY DEF NoPartialArt, There
  <2>2. art'[e] = art[e]
    BY <1>15, <2>1 DEF WriteRemove, Put, Shape
  <2>3. art[e].by \in Syncs /\ pc[art[e].by] \in {"writing", "killed"} /\ at[art[e].by] = e
    BY <2>1, <2>2 DEF NoPartialArt, There
  <2> QED
    BY <1>15, <2>2, <2>3 DEF WriteRemove, Goto, Handles, Shape
<1>16. ASSUME NEW s \in Syncs, NEW d \in Slots, SweepPast(s, d) PROVE NoPartialArt'
  BY <1>16
    DEF SweepPast, First, ToSweep, NeedsCopy, part, plan, NoPartialArt, There,
        NoFile, Control, Writing, Opened, Shape
<1>17. ASSUME NEW s \in Syncs, NEW d \in Slots, SweepFinds(s, d) PROVE NoPartialArt'
  BY <1>17
    DEF SweepFinds, First, ToSweep, NeedsCopy, Handles, Goto, part, plan,
        NoPartialArt, There, NoFile, Control, Writing, Opened, Shape
<1>18. ASSUME NEW s \in Syncs, FetchedAll(s) PROVE NoPartialArt'
  BY <1>18
    DEF FetchedAll, Goto, part, plan, NoPartialArt, There, NoFile, Control,
        Writing, Opened, Shape
<1>19. ASSUME NEW s \in Syncs, WriteCreate(s) PROVE NoPartialArt'
  <2>1. at[s] \in Slots
    BY <1>19 DEF WriteCreate, Control, Opened
  <2>2. SUFFICES ASSUME NEW e \in Slots, art'[e] # NoFile, ~art'[e].whole
                 PROVE  art'[e].by \in Syncs /\ pc'[art'[e].by] \in {"writing", "killed"} /\ at'[art'[e].by] = e
    BY DEF NoPartialArt, There
  <2>3. CASE e = at[s]
    BY <1>19, <2>1, <2>2, <2>3 DEF WriteCreate, Put, Goto, Shape, NoFile
  <2>4. CASE e # at[s]
    <3>1. art'[e] = art[e]
      BY <1>19, <2>1, <2>4 DEF WriteCreate, Put, Shape
    <3>2. art[e].by \in Syncs /\ pc[art[e].by] \in {"writing", "killed"} /\ at[art[e].by] = e
      BY <2>2, <3>1 DEF NoPartialArt, There
    <3> QED
      BY <1>19, <2>1, <2>4, <3>1, <3>2 DEF WriteCreate, Goto, Shape
  <2> QED
    BY <2>3, <2>4
<1>20. ASSUME NEW s \in Syncs, WriteRefused(s) PROVE NoPartialArt'
  BY <1>20
    DEF WriteRefused, There, Closed, Handles, Fault, SetItem, Goto, part, plan,
        NoPartialArt, NoFile, Control, Writing, Opened, Shape
<1>21. ASSUME NEW s \in Syncs, WriteEnd(s) PROVE NoPartialArt'
  <2>1. at[s] \in Slots
    BY <1>21 DEF WriteEnd, Control, Opened
  <2>2. SUFFICES ASSUME NEW e \in Slots, art'[e] # NoFile, ~art'[e].whole
                 PROVE  art'[e].by \in Syncs /\ pc'[art'[e].by] \in {"writing", "killed"} /\ at'[art'[e].by] = e
    BY DEF NoPartialArt, There
  <2>3. CASE e = at[s]
    BY <1>21, <2>1, <2>2, <2>3
      DEF WriteEnd, Put, Goto, Closed, Handles, Shape, NoFile, Control, Writing,
          NoPartialArt, There
  <2>4. CASE e # at[s]
    <3>1. art'[e] = art[e]
      BY <1>21, <2>1, <2>4 DEF WriteEnd, Put, Shape
    <3>2. art[e].by \in Syncs /\ pc[art[e].by] \in {"writing", "killed"} /\ at[art[e].by] = e
      BY <2>2, <3>1 DEF NoPartialArt, There
    <3> QED
      BY <1>21, <2>1, <2>4, <3>1, <3>2 DEF WriteEnd, Goto, Closed, Handles, Shape
  <2> QED
    BY <2>3, <2>4
<1>22. ASSUME NEW s \in Syncs, WriteFails(s) PROVE NoPartialArt'
  <2>1. at[s] \in Slots
    BY <1>22 DEF WriteFails, Control, Opened
  <2>2. SUFFICES ASSUME NEW e \in Slots, art'[e] # NoFile, ~art'[e].whole
                 PROVE  art'[e].by \in Syncs /\ pc'[art'[e].by] \in {"writing", "killed"} /\ at'[art'[e].by] = e
    BY DEF NoPartialArt, There
  <2>3. CASE e = at[s]
    BY <1>22, <2>1, <2>2, <2>3
      DEF WriteFails, Put, Goto, Closed, Handles, Shape, NoFile
  <2>4. CASE e # at[s]
    <3>1. art'[e] = art[e]
      BY <1>22, <2>1, <2>4 DEF WriteFails, Put, Shape
    <3>2. art[e].by \in Syncs /\ pc[art[e].by] \in {"writing", "killed"} /\ at[art[e].by] = e
      BY <2>2, <3>1 DEF NoPartialArt, There
    <3> QED
      BY <1>22, <2>1, <2>4, <3>1, <3>2 DEF WriteFails, Goto, Closed, Handles, Shape
  <2> QED
    BY <2>3, <2>4
<1>23. ASSUME NEW s \in Syncs, WroteAll(s) PROVE NoPartialArt'
  BY <1>23
    DEF WroteAll, Goto, part, plan, NoPartialArt, There, NoFile, Control, Writing,
        Opened, Shape
<1>24. ASSUME NEW s \in Syncs, CopyOpen(s) PROVE NoPartialArt'
  BY <1>24
    DEF CopyOpen, There, Put, Goto, part, plan, NoPartialArt, NoFile, Control,
        Writing, Opened, Shape
<1>25. ASSUME NEW s \in Syncs, CopyCreate(s) PROVE NoPartialArt'
  BY <1>25
    DEF CopyCreate, Put, Goto, part, plan, NoPartialArt, There, NoFile, Control,
        Writing, Opened, Shape
<1>26. ASSUME NEW s \in Syncs, CopyEnd(s) PROVE NoPartialArt'
  BY <1>26
    DEF CopyEnd, Put, Closed, Handles, Goto, part, plan, NoPartialArt, There,
        NoFile, Control, Writing, Opened, Shape
<1>27. ASSUME NEW s \in Syncs, CopyFails(s) PROVE NoPartialArt'
  BY <1>27
    DEF CopyFails, There, Put, Closed, Handles, Fault, Goto, part, plan,
        NoPartialArt, NoFile, Control, Writing, Opened, Shape
<1>28. ASSUME NEW s \in Syncs, SweptAll(s) PROVE NoPartialArt'
  BY <1>28
    DEF SweptAll, Goto, part, plan, NoPartialArt, There, NoFile, Control, Writing,
        Opened, Shape
<1>29. ASSUME NEW s \in Syncs, Cancel(s) PROVE NoPartialArt'
  BY <1>29
    DEF Cancel, part, plan, NoPartialArt, There, NoFile, Control, Writing, Opened,
        Shape
<1>30. ASSUME NEW s \in Syncs, Kill(s) PROVE NoPartialArt'
  BY <1>30
    DEF Kill, Fault, Goto, part, plan, NoPartialArt, There, NoFile, Control,
        Writing, Opened, Shape
<1>31. ASSUME NEW d \in Slots, CleanFile(d) PROVE NoPartialArt'
  BY <1>31
    DEF CleanFile, Fault, part, plan, NoPartialArt, There, NoFile, Control,
        Writing, Opened, Shape
<1>32. ASSUME NEW d \in Slots, UserPuts(d) PROVE NoPartialArt'
  BY <1>32
    DEF UserPuts, There, Put, Fault, part, plan, NoPartialArt, NoFile, Control,
        Writing, Opened, Shape
<1> QED
  BY <1>1, <1>2, <1>3, <1>4, <1>5, <1>6, <1>7, <1>8, <1>9, <1>10, <1>11, <1>12,
    <1>13, <1>14, <1>15, <1>16, <1>17, <1>18, <1>19, <1>20, <1>21, <1>22, <1>23,
    <1>24, <1>25, <1>26, <1>27, <1>28, <1>29, <1>30, <1>31, <1>32
    DEF Next, SyncStep

-----------------------------------------------------------------------------
(* The inductive invariant: the files that are not whole are those being      *)
(* written, because what is open is whole and a slot.                         *)
THEOREM AssetInductive == Spec => []IInv
<1>1. Init => IInv
  <2> SUFFICES ASSUME Init PROVE IInv
    OBVIOUS
  <2>1. Shape
    <3>1. NoFile \in Files /\ [by |-> User, whole |-> TRUE] \in Files
      BY DEF Files, NoFile, Writers
    <3>2. art \in [Slots -> Files] /\ app \in [Slots -> Files]
      BY <3>1 DEF Init
    <3>3. NoCall \in Calls
      BY DEF NoCall, Calls
    <3>4. item \in [Syncs -> [Slots -> Items]]
      BY DEF Init, Items
    <3>5. call \in [Syncs -> Calls] /\ src \in [Syncs -> BOOLEAN] /\ at \in [Syncs -> Slots \cup {0}]
      BY <3>3 DEF Init
    <3>6. /\ inv \in [Syncs -> SUBSET Slots] /\ exists \in [Syncs -> SUBSET Slots]
          /\ swept \in [Syncs -> SUBSET Slots]
      BY DEF Init
    <3>7. faults \in 0 .. MaxFaults
      BY AssetSyncAssumption DEF Init
    <3> QED
      BY <3>2, <3>4, <3>5, <3>6, <3>7 DEF Init, Shape
  <2>2. Semaphore
    <3>1. \A s \in Syncs : InFlight(s) = {}
      BY DEF Init, InFlight
    <3> QED
      BY <3>1, FS_EmptySet, AssetSyncAssumption DEF Semaphore
  <2>3. Control /\ NoPartialArt
    BY
      DEF Init, Control, CacheWhole, Opened, Writing, NoItemsYet, Missing,
          NoPartialArt, There, NoFile
  <2> QED
    BY <2>1, <2>2, <2>3 DEF IInv
<1>2. IInv /\ [Next]_vars => IInv'
  <2> SUFFICES ASSUME IInv, [Next]_vars PROVE IInv'
    OBVIOUS
  <2>1. Shape /\ Opened /\ Semaphore /\ Control /\ NoPartialArt
    BY DEF IInv, Control
  <2> QED
    BY <2>1, ShapeStep, SemaphoreStep, ControlStep, NoPartialStep DEF IInv
<1> QED
  BY <1>1, <1>2, PTL DEF Spec

(* No sync has more downloads at once than asked for, and every value has its *)
(* type, whatever fails and whoever empties the cache.                        *)
THEOREM DownloadsBounded == Spec => []STypeOK
<1>1. IInv => STypeOK
  BY DEF IInv, STypeOK, Semaphore
<1> QED
  BY <1>1, AssetInductive, PTL

(* However many syncs write the same slots, no part of an image stays in ART. *)
THEOREM NoPartStays == Spec => []NoPartialArt
<1>1. IInv => NoPartialArt
  BY DEF IInv
<1> QED
  BY <1>1, AssetInductive, PTL

\* A step that changes a file of the user's is one of a sync that may.
Kept ==
  \A d \in Slots :
    (art[d].by = User /\ art'[d] # art[d]) =>
      \E s \in Syncs : /\ pc[s] \in {"write", "writing"}
                       /\ (call[s].overwrite \/ d \notin inv[s] \cup exists[s])

\* Nothing but the write of an image touches one, and that goes by the plan.
LEMMA KeptStep ==
  ASSUME Shape, Control, [Next]_vars
  PROVE  Kept
<1>1. ASSUME UNCHANGED art PROVE Kept
  BY <1>1 DEF Kept
<1>2. ASSUME NEW s \in Syncs, NEW d \in Slots, WriteRemove(s, d) PROVE Kept
  BY <1>2, AssetSyncAssumption
    DEF WriteRemove, Kept, Shape, Put, There, NoFile, User, First, ToWrite,
        Fetched, Keeps, Control, Missing
<1>3. ASSUME NEW s \in Syncs, WriteCreate(s) PROVE Kept
  BY <1>3, AssetSyncAssumption
    DEF WriteCreate, Kept, Shape, Put, There, NoFile, User, Control, Opened
<1>4. ASSUME NEW s \in Syncs, WriteEnd(s) PROVE Kept
  BY <1>4, AssetSyncAssumption
    DEF WriteEnd, Kept, Shape, Put, There, NoFile, User, Control, Opened
<1>5. ASSUME NEW s \in Syncs, WriteFails(s) PROVE Kept
  BY <1>5, AssetSyncAssumption
    DEF WriteFails, Kept, Shape, Put, There, NoFile, Control, Opened, Writing, Old
<1>6. ASSUME NEW d \in Slots, UserPuts(d) PROVE Kept
  BY <1>6, AssetSyncAssumption DEF UserPuts, Kept, Shape, Put, There, NoFile, User
<1>7. ASSUME NEW s \in Syncs, Begin(s) \/ Scan(s) \/ PlanSync(s) \/ ProbeRemove(s)
               \/ ProbeCreate(s) \/ ProbeRefused(s) \/ ProbeDone(s)
               \/ FetchedAll(s) \/ WriteRefused(s) \/ WroteAll(s) \/ CopyOpen(s)
               \/ CopyCreate(s) \/ CopyEnd(s) \/ CopyFails(s) \/ SweptAll(s)
               \/ Cancel(s) \/ Kill(s)
      PROVE Kept
  BY <1>1, <1>7
    DEF part, Begin, Scan, PlanSync, ProbeRemove, ProbeCreate, ProbeRefused,
        ProbeDone, FetchedAll, WriteRefused, WroteAll, CopyOpen, CopyCreate,
        CopyEnd, CopyFails, SweptAll, Cancel, Kill
<1>8. ASSUME NEW s \in Syncs, NEW d \in Slots, FetchCached(s, d)
               \/ FetchStart(s, d) \/ FetchCancelled(s, d) \/ FetchPut(s, d)
               \/ FetchFails(s, d) \/ WriteNothing(s, d) \/ SweepPast(s, d)
               \/ SweepFinds(s, d)
      PROVE Kept
  BY <1>1, <1>8
    DEF part, FetchCached, FetchStart, FetchCancelled, FetchPut, FetchFails,
        WriteNothing, SweepPast, SweepFinds
<1>9. ASSUME NEW d \in Slots, CleanFile(d) PROVE Kept
  BY <1>1, <1>9 DEF part, CleanFile
<1>10. ASSUME UNCHANGED vars PROVE Kept
  BY <1>1, <1>10 DEF part, vars
<1> QED
  BY <1>2, <1>3, <1>4, <1>5, <1>6, <1>7, <1>8, <1>9, <1>10 DEF Next, SyncStep

(* Art put there by hand before a sync made its plan outlives that sync,      *)
(* unless it was told to overwrite: for any number of syncs at once.          *)
THEOREM CuratedStays == Spec => CuratedKept
<1>1. IInv /\ [Next]_vars => [Kept]_vars
  BY KeptStep DEF IInv
<1> QED
  BY <1>1, AssetInductive, PTL DEF Spec, CuratedKept, Kept

-----------------------------------------------------------------------------
(* What is reported, and what the Apps page shows.                            *)

\* A sync that writes a slot has fetched it; only what it was given is planned,
\* and nothing is swept before everything is written.
Unswept == Early \cup {"probe", "probing", "probed", "fetch", "write", "create", "writing"}
Planning ==
  /\ \A s \in Syncs : pc[s] \in {"create", "writing"} => item[s][at[s]] = "got"
  /\ \A s \in Syncs, d \in Slots : item[s][d] # "none" => d \in call[s].of
  /\ \A s \in Syncs : pc[s] \in Unswept => swept[s] = {}
  /\ \A s \in Syncs : pc[s] = "ended" /\ ~call[s].dry => call[s].of \cap Apps \subseteq swept[s]

\* The slot is in no other sync's plan.
Alone(s, d) == \A t \in Syncs \ {s} : item[t][d] = "none"

\* A part of a file belongs to a sync that has not reported it yet; what a sync
\* found, made or reported at a slot of its own is still there.
Unreported == \A s \in Syncs, d \in Slots : art[d].by = s /\ ~art[d].whole => item[s][d] = "got"
StillThere ==
  \A s \in Syncs, d \in Slots : Alone(s, d) =>
    /\ item[s][d] = "installed" => There(d)
    /\ item[s][d] # "none" /\ d \in exists[s] /\ ~call[s].overwrite => There(d)
    /\ pc[s] = "writing" /\ at[s] = d => art[d].by = s

\* A sync ended with an error, or one reports that it could not write the slot.
Trouble(d) == \E t \in Syncs : pc[t] \in {"refused", "killed"} \/ item[t][d] = "lost"

Creates(t, d) == pc[t] = "create" /\ at[t] = d
Writes(t, d) == pc[t] \in {"create", "writing"} /\ at[t] = d

\* A file that was there and is not is about to be written, or could not be.
Gap(d) ==
  /\ ~There(d)
  /\ \E s \in Syncs : \/ d \in inv[s] \cup exists[s] \/ item[s][d] = "installed"
                      \/ pc[s] = "writing" /\ at[s] = d
GapsClose == \A d \in Slots : Gap(d) => Trouble(d) \/ \E t \in Syncs : Creates(t, d)

\* The copy is there, or about to be made anew.
Served(d) ==
  app[d] # NoFile \/ Trouble(d) \/ \E t \in Syncs : pc[t] = "copy" /\ at[t] = d

\* A sync has still to look at the slot, after its own write.
Later == {"write", "create", "writing", "sweep", "open", "copy", "copying"}
WillSweep(t, d) == pc[t] \in Later /\ item[t][d] = "installed" /\ d \notin swept[t]
Owed(d) == Served(d) \/ \E t \in Syncs : Writes(t, d) \/ WillSweep(t, d)

SweptIsServed ==
  /\ \A s \in Syncs : pc[s] = "copying" => Served(at[s])
  /\ \A s \in Syncs, d \in Slots \cap Apps :
       d \in swept[s] /\ (art[d].by = s \/ d \in inv[s]) => Owed(d)

DInv == Planning /\ Unreported /\ StillThere /\ GapsClose /\ SweptIsServed


\* The state the steps below start from.
Before == Shape /\ Control /\ NoPartialArt /\ DInv

\* A sync moves on and touches nothing: it has not written yet, has written all, has
\* nothing left to sweep, has found something to copy, or is over with an error.
Fetching == {"probe", "probing", "probed", "fetch"}
Turns(s) ==
  /\ UNCHANGED << art, app, plan, item, swept >>
  /\ \A t \in Syncs \ {s} : pc'[t] = pc[t] /\ at'[t] = at[t]
  /\ \/ pc'[s] = pc[s] /\ at'[s] = at[s]
     \/ pc'[s] \in {"refused", "killed"}
     \/ pc[s] \in Fetching /\ pc'[s] \in Fetching \cup {"write"}
     \/ pc[s] = "write" /\ pc'[s] = "sweep"
     \/ pc[s] = "sweep" /\ pc'[s] = "open"
     \/ pc[s] = "sweep" /\ pc'[s] = "ended" /\ ToSweep(s) = {}

\* An item of its plan is being fetched, or has been.
Fetches(s, d) ==
  /\ UNCHANGED << art, app, plan, pc, at, swept >> /\ pc[s] = "fetch"
  /\ item[s][d] \in {"queued", "fetching"}
  /\ \E x \in {"fetching", "got", "failed"} : item' = [item EXCEPT ![s][d] = x]

\* A sync that only moves on: nobody owes more than before.
LEMMA TurnsKeeps ==
  ASSUME Before, NEW s \in Syncs, Turns(s)
  PROVE  DInv'
<1> USE DEF Before, There
<1>1. /\ UNCHANGED << art, app, call, inv, exists, item, swept >>
      /\ \A t \in Syncs \ {s} : pc'[t] = pc[t] /\ at'[t] = at[t]
      /\ \/ pc'[s] = pc[s] /\ at'[s] = at[s]
         \/ pc'[s] \in {"refused", "killed"}
         \/ pc[s] \in Fetching /\ pc'[s] \in Fetching \cup {"write"}
         \/ pc[s] = "write" /\ pc'[s] = "sweep"
         \/ pc[s] = "sweep" /\ pc'[s] = "open"
         \/ pc[s] = "sweep" /\ pc'[s] = "ended" /\ call[s].of \cap Apps \subseteq swept[s]
  BY DEF plan, Turns, ToSweep
<1>2. \A e \in Slots : Trouble(e) => Trouble(e)'
  BY <1>1 DEF Trouble, Fetching
<1>3. \A e \in Slots : Served(e) => Served(e)'
  BY <1>1, <1>2 DEF Served, Fetching, Trouble
<1>4. \A e \in Slots \cap Apps : Owed(e) => Owed(e)'
  BY <1>1, <1>2, <1>3 DEF Owed, Writes, WillSweep, Later, Served, Trouble, Fetching, DInv, Planning
<1>5. Planning'
  BY <1>1 DEF DInv, Planning, Unswept, Early, Fetching, Control, Opened
<1>6. Unreported'
  BY <1>1 DEF DInv, Unreported, NoPartialArt
<1>7. StillThere'
  BY <1>1 DEF DInv, StillThere, Alone, Fetching
<1>8. GapsClose'
  BY <1>1, <1>2 DEF DInv, GapsClose, Gap, Creates, Fetching, plan, Trouble
<1>9. SweptIsServed'
  BY <1>1, <1>3, <1>4 DEF DInv, SweptIsServed, Control, Opened, Fetching
<1> QED BY <1>5, <1>6, <1>7, <1>8, <1>9 DEF DInv

\* A fetch leaves what is on the partition, and reports nothing yet.
LEMMA FetchesKeeps ==
  ASSUME Before, NEW s \in Syncs, NEW d \in Slots, Fetches(s, d)
  PROVE  DInv'
<1> USE DEF Before, There
<1>1. /\ UNCHANGED << art, app, call, inv, exists, pc, at, swept >> /\ pc[s] = "fetch"
      /\ item[s][d] \in {"queued", "fetching"} /\ item'[s][d] \in {"fetching", "got", "failed"}
      /\ \A t \in Syncs, e \in Slots : ~(t = s /\ e = d) => item'[t][e] = item[t][e]
  BY DEF plan, Fetches, Shape
<1>2. \A e \in Slots : Trouble(e) => Trouble(e)'
  BY <1>1 DEF Trouble
<1>3. \A e \in Slots : Served(e) => Served(e)'
  BY <1>1, <1>2 DEF Served, Trouble
<1>4. \A e \in Slots \cap Apps : Owed(e) => Owed(e)'
  BY <1>1, <1>2, <1>3 DEF Owed, Writes, WillSweep, Later, Served, Trouble
<1>5. Planning'
  BY <1>1 DEF DInv, Planning, plan, Control, Opened
<1>6. Unreported'
  BY <1>1 DEF DInv, Unreported, NoPartialArt
<1>7. StillThere'
  BY <1>1 DEF DInv, StillThere, Alone
<1>8. GapsClose'
  BY <1>1, <1>2 DEF DInv, GapsClose, Gap, Creates
<1>9. SweptIsServed'
  BY <1>1, <1>3, <1>4 DEF DInv, SweptIsServed, Control, Opened, plan, Control, Opened
<1> QED BY <1>5, <1>6, <1>7, <1>8, <1>9 DEF DInv

\* A sync that begins has no items.
LEMMA BeginKeeps ==
  ASSUME Before, NEW s \in Syncs, Begin(s)
  PROVE  DInv'
<1> USE DEF Before, There
<1>1. /\ UNCHANGED << art, app, inv, exists, item, at, swept >>
      /\ pc[s] = "idle" /\ pc'[s] = "scan"
      /\ \A t \in Syncs \ {s} : pc'[t] = pc[t] /\ call'[t] = call[t]
      /\ \A e \in Slots : item[s][e] = "none"
  <2>1. UNCHANGED << art, app, inv, exists, item, at, swept >>
    BY DEF plan, Begin, part, Goto, Shape, Control, NoItemsYet, Early
  <2>2. pc[s] = "idle" /\ pc'[s] = "scan"
    BY DEF plan, Begin, part, Goto, Shape, Control, NoItemsYet, Early
  <2>3. \A t \in Syncs \ {s} : pc'[t] = pc[t] /\ call'[t] = call[t]
    BY DEF plan, Begin, part, Goto, Shape, Control, NoItemsYet, Early
  <2>4. \A e \in Slots : item[s][e] = "none"
    BY DEF plan, Begin, part, Goto, Shape, Control, NoItemsYet, Early
  <2> QED BY <2>1, <2>2, <2>3, <2>4
<1>2. \A e \in Slots : Trouble(e) => Trouble(e)'
  BY <1>1 DEF Trouble
<1>3. \A e \in Slots : Served(e) => Served(e)'
  BY <1>1, <1>2 DEF Served, Trouble
<1>4. \A e \in Slots \cap Apps : Owed(e) => Owed(e)'
  BY <1>1, <1>2, <1>3 DEF Owed, Writes, WillSweep, Later, Served, Trouble
<1>5. Planning'
  BY <1>1 DEF DInv, Planning, Unswept, Early, Control, Opened
<1>6. Unreported'
  BY <1>1 DEF DInv, Unreported, NoPartialArt
<1>7. StillThere'
  BY <1>1 DEF DInv, StillThere, Alone, Old
<1>8. GapsClose'
  BY <1>1, <1>2 DEF DInv, GapsClose, Gap, Creates, Trouble
<1>9. SweptIsServed'
  BY <1>1, <1>3, <1>4 DEF DInv, SweptIsServed, Control, Opened
<1> QED BY <1>5, <1>6, <1>7, <1>8, <1>9 DEF DInv

\* A sync that looks at the partition finds what is there.
LEMMA ScanKeeps ==
  ASSUME Before, NEW s \in Syncs, Scan(s)
  PROVE  DInv'
<1> USE DEF Before, There
<1>1. /\ UNCHANGED << art, app, call, exists, item, at, swept >>
      /\ pc[s] = "scan" /\ pc'[s] = "plan"
      /\ \A t \in Syncs \ {s} : pc'[t] = pc[t] /\ inv'[t] = inv[t]
      /\ \A e \in inv'[s] : There(e)
      /\ swept[s] = {}
  <2>1. UNCHANGED << art, app, call, exists, item, at, swept >>
    BY DEF plan, Scan, part, Goto, Shape, DInv, Planning, Unswept, Early
  <2>2. pc[s] = "scan" /\ pc'[s] = "plan"
    BY DEF plan, Scan, part, Goto, Shape, DInv, Planning, Unswept, Early
  <2>3. \A t \in Syncs \ {s} : pc'[t] = pc[t] /\ inv'[t] = inv[t]
    BY DEF plan, Scan, part, Goto, Shape, DInv, Planning, Unswept, Early
  <2>4. \A e \in inv'[s] : There(e)
    BY DEF plan, Scan, part, Goto, Shape, DInv, Planning, Unswept, Early
  <2>5. swept[s] = {}
    BY DEF plan, Scan, part, Goto, Shape, DInv, Planning, Unswept, Early
  <2> QED BY <2>1, <2>2, <2>3, <2>4, <2>5
<1>2. \A e \in Slots : Trouble(e) => Trouble(e)'
  BY <1>1 DEF Trouble
<1>3. \A e \in Slots : Served(e) => Served(e)'
  BY <1>1, <1>2 DEF Served, Trouble
<1>4. \A e \in Slots \cap Apps : Owed(e) => Owed(e)'
  BY <1>1, <1>2, <1>3 DEF Owed, Writes, WillSweep, Later, Served, Trouble
<1>5. Planning'
  BY <1>1 DEF DInv, Planning, Unswept, Early, Control, Opened
<1>6. Unreported'
  BY <1>1 DEF DInv, Unreported, NoPartialArt
<1>7. StillThere'
  BY <1>1 DEF DInv, StillThere, Alone, Old
<1>8. GapsClose'
  BY <1>1, <1>2 DEF DInv, GapsClose, Gap, Creates, Trouble
<1>9. SweptIsServed'
  BY <1>1, <1>3, <1>4 DEF DInv, SweptIsServed, Control, Opened
<1> QED BY <1>5, <1>6, <1>7, <1>8, <1>9 DEF DInv

\* The plan is made of what the sync was given; what it says exists does.
LEMMA PlanKeeps ==
  ASSUME Before, NEW s \in Syncs, PlanSync(s)
  PROVE  DInv'
<1> USE DEF Before, There
<1>1. /\ UNCHANGED << art, app, call, inv, at, swept >>
      /\ pc[s] = "plan" /\ pc'[s] = IF call[s].full /\ call[s].dry THEN "ended"
                                   ELSE IF call[s].full THEN "probe" ELSE "fetch"
      /\ \A t \in Syncs \ {s} : pc'[t] = pc[t] /\ exists'[t] = exists[t] /\ item'[t] = item[t]
      /\ \A e \in exists'[s] : There(e)
      /\ \A e \in Slots : item[s][e] = "none" /\ item'[s][e] \in {"queued", "none"}
      /\ \A e \in Slots : item'[s][e] = "queued" => e \in call[s].of
  <2>1. UNCHANGED << art, app, call, inv, at, swept >>
    BY DEF plan, PlanSync, part, Goto, Shape, wantFor, Control, NoItemsYet, Early
  <2>2. pc[s] = "plan" /\ pc'[s] = IF call[s].full /\ call[s].dry THEN "ended"
                                   ELSE IF call[s].full THEN "probe" ELSE "fetch"
    BY DEF plan, PlanSync, part, Goto, Shape, wantFor, Control, NoItemsYet, Early
  <2>3. \A t \in Syncs \ {s} : pc'[t] = pc[t] /\ exists'[t] = exists[t] /\ item'[t] = item[t]
    BY DEF plan, PlanSync, part, Goto, Shape, wantFor, Control, NoItemsYet, Early
  <2>4. \A e \in exists'[s] : There(e)
    BY DEF plan, PlanSync, part, Goto, Shape, wantFor, Control, NoItemsYet, Early
  <2>5. \A e \in Slots : item[s][e] = "none" /\ item'[s][e] \in {"queued", "none"}
    BY DEF plan, PlanSync, part, Goto, Shape, wantFor, Control, NoItemsYet, Early
  <2>6. \A e \in Slots : item'[s][e] = "queued" => e \in call[s].of
    BY DEF plan, PlanSync, part, Goto, Shape, wantFor, Control, NoItemsYet, Early
  <2> QED BY <2>1, <2>2, <2>3, <2>4, <2>5, <2>6
<1>2. \A e \in Slots : Trouble(e) => Trouble(e)'
  BY <1>1 DEF Trouble
<1>3. \A e \in Slots : Served(e) => Served(e)'
  BY <1>1, <1>2 DEF Served, Trouble
<1>4. \A e \in Slots \cap Apps : Owed(e) => Owed(e)'
  BY <1>1, <1>2, <1>3 DEF Owed, Writes, WillSweep, Later, Served, Trouble
<1>5. Planning'
  BY <1>1 DEF DInv, Planning, Unswept, Early, Control, Opened
<1>6. Unreported'
  BY <1>1 DEF DInv, Unreported, NoPartialArt
<1>7. StillThere'
  BY <1>1 DEF DInv, StillThere, Alone, Old
<1>8. GapsClose'
  BY <1>1, <1>2 DEF DInv, GapsClose, Gap, Creates, Trouble
<1>9. SweptIsServed'
  BY <1>1, <1>3, <1>4 DEF DInv, SweptIsServed, Control, Opened
<1> QED BY <1>5, <1>6, <1>7, <1>8, <1>9 DEF DInv

\* What is reported without a write: kept, or lost.
LEMMA WriteNothingKeeps ==
  ASSUME Before, NEW s \in Syncs, NEW d \in Slots, WriteNothing(s, d)
  PROVE  DInv'
<1> USE DEF Before, There
<1>1. /\ UNCHANGED << art, app, pc, call, inv, exists, at, swept >>
      /\ pc[s] = "write" /\ item[s][d] \in {"got", "failed"}
      /\ \A t \in Syncs, e \in Slots : ~(t = s /\ e = d) => item'[t][e] = item[t][e]
      /\ item'[s][d] = "lost" \/ (item'[s][d] = "installed" /\ d \in exists[s] /\ ~call[s].overwrite)
  <2>1. UNCHANGED << art, app, pc, call, inv, exists, at, swept >>
    BY DEF plan, WriteNothing, part, SetItem, Shape, First, ToWrite, Fetched, Keeps
  <2>2. pc[s] = "write" /\ item[s][d] \in {"got", "failed"}
    BY DEF plan, WriteNothing, part, SetItem, Shape, First, ToWrite, Fetched, Keeps
  <2>3. \A t \in Syncs, e \in Slots : ~(t = s /\ e = d) => item'[t][e] = item[t][e]
    BY DEF plan, WriteNothing, part, SetItem, Shape, First, ToWrite, Fetched, Keeps
  <2>4. item'[s][d] = "lost" \/ (item'[s][d] = "installed" /\ d \in exists[s] /\ ~call[s].overwrite)
    BY DEF plan, WriteNothing, part, SetItem, Shape, First, ToWrite, Fetched, Keeps
  <2> QED BY <2>1, <2>2, <2>3, <2>4
<1>2. \A e \in Slots : Trouble(e) => Trouble(e)'
  BY <1>1 DEF Trouble
<1>3. \A e \in Slots : Served(e) => Served(e)'
  BY <1>1, <1>2 DEF Served, Trouble
<1>4. \A e \in Slots \cap Apps : Owed(e) => Owed(e)'
  BY <1>1, <1>2, <1>3 DEF Owed, Writes, WillSweep, Later, Served, Trouble
<1>5. Planning'
  BY <1>1 DEF DInv, Planning, Unswept, Early, Control, Opened
<1>6. Unreported'
  BY AssetSyncAssumption, <1>1 DEF DInv, Unreported, NoPartialArt, NoFile
<1>7. StillThere'
  BY <1>1 DEF DInv, StillThere, Alone, Old
<1>8. GapsClose'
  BY <1>1, <1>2 DEF DInv, GapsClose, Gap, Creates, Trouble
<1>9. SweptIsServed'
  BY <1>1, <1>3, <1>4 DEF DInv, SweptIsServed, Control, Opened
<1> QED BY <1>5, <1>6, <1>7, <1>8, <1>9 DEF DInv

\* A file that is removed is about to be written by the one that removed it.
LEMMA WriteRemoveKeeps ==
  ASSUME Before, NEW s \in Syncs, NEW d \in Slots, WriteRemove(s, d)
  PROVE  DInv'
<1> USE DEF Before, There
<1>1. /\ UNCHANGED << app, call, inv, exists, item, swept >>
      /\ pc[s] = "write" /\ pc'[s] = "create" /\ at'[s] = d
      /\ item[s][d] = "got"
      /\ ~(d \in exists[s] /\ ~call[s].overwrite)
      /\ \A t \in Syncs \ {s} : pc'[t] = pc[t] /\ at'[t] = at[t]
      /\ \A e \in Slots : art'[e] = IF e = d THEN NoFile ELSE art[e]
      /\ NoFile.by \notin Syncs
  <2>1. UNCHANGED << app, call, inv, exists, item, swept >>
    BY DEF plan, WriteRemove, Goto, Handles, Put, Shape, Keeps, NoFile
  <2>2. pc[s] = "write" /\ pc'[s] = "create" /\ at'[s] = d
    BY DEF plan, WriteRemove, Goto, Handles, Put, Shape, Keeps, NoFile
  <2>3. item[s][d] = "got"
    BY DEF plan, WriteRemove, Goto, Handles, Put, Shape, Keeps, NoFile
  <2>4. ~(d \in exists[s] /\ ~call[s].overwrite)
    BY DEF plan, WriteRemove, Goto, Handles, Put, Shape, Keeps, NoFile
  <2>5. \A t \in Syncs \ {s} : pc'[t] = pc[t] /\ at'[t] = at[t]
    BY DEF plan, WriteRemove, Goto, Handles, Put, Shape, Keeps, NoFile
  <2>6. \A e \in Slots : art'[e] = IF e = d THEN NoFile ELSE art[e]
    BY AssetSyncAssumption DEF plan, WriteRemove, Goto, Handles, Put, Shape, Keeps, NoFile
  <2>7. NoFile.by \notin Syncs
    BY AssetSyncAssumption DEF plan, WriteRemove, Goto, Handles, Put, Shape, Keeps, NoFile
  <2> QED BY <2>1, <2>2, <2>3, <2>4, <2>5, <2>6, <2>7
<1>2. \A e \in Slots : Trouble(e) => Trouble(e)'
  BY <1>1 DEF Trouble
<1>3. \A e \in Slots : Served(e) => Served(e)'
  BY <1>1, <1>2 DEF Served, Trouble
<1>4. \A e \in Slots \cap Apps : Owed(e) => Owed(e)'
  BY <1>1, <1>2, <1>3 DEF Owed, Writes, WillSweep, Later, Served, Trouble
<1>5. Planning'
  BY <1>1 DEF DInv, Planning, Unswept, Early, Control, Opened
<1>6. Unreported'
  BY <1>1 DEF DInv, Unreported, NoPartialArt
<1>7. StillThere'
  BY <1>1 DEF DInv, StillThere, Alone, Old
<1>8. GapsClose'
  BY <1>1, <1>2 DEF DInv, GapsClose, Gap, Creates, Trouble
<1>9. SweptIsServed'
  BY <1>1, <1>3, <1>4 DEF DInv, SweptIsServed, Control, Opened
<1> QED BY <1>5, <1>6, <1>7, <1>8, <1>9 DEF DInv

\* A file that is made is the sync's own, and no sync has swept before it wrote.
LEMMA WriteCreateKeeps ==
  ASSUME Before, NEW s \in Syncs, WriteCreate(s)
  PROVE  DInv'
<1> USE DEF Before, There
<1>1. /\ UNCHANGED << app, call, inv, exists, item, at, swept >>
      /\ pc[s] = "create" /\ pc'[s] = "writing"
      /\ at[s] \in Slots /\ item[s][at[s]] = "got" /\ swept[s] = {}
      /\ \A t \in Syncs \ {s} : pc'[t] = pc[t]
      /\ \A e \in Slots : art'[e] = IF e = at[s] THEN [by |-> s, whole |-> FALSE] ELSE art[e]
      /\ [by |-> s, whole |-> FALSE] # NoFile
  <2>1. UNCHANGED << app, call, inv, exists, item, at, swept >>
    BY DEF plan, WriteCreate, Goto, Put, Shape, Control, Opened, DInv, Planning, Unswept, Early, NoFile
  <2>2. pc[s] = "create" /\ pc'[s] = "writing"
    BY DEF plan, WriteCreate, Goto, Put, Shape, Control, Opened, DInv, Planning, Unswept, Early, NoFile
  <2>3. at[s] \in Slots /\ item[s][at[s]] = "got" /\ swept[s] = {}
    BY DEF plan, WriteCreate, Goto, Put, Shape, Control, Opened, DInv, Planning, Unswept, Early, NoFile
  <2>4. \A t \in Syncs \ {s} : pc'[t] = pc[t]
    BY DEF plan, WriteCreate, Goto, Put, Shape, Control, Opened, DInv, Planning, Unswept, Early, NoFile
  <2>5. \A e \in Slots : art'[e] = IF e = at[s] THEN [by |-> s, whole |-> FALSE] ELSE art[e]
    BY DEF plan, WriteCreate, Goto, Put, Shape, Control, Opened, DInv, Planning, Unswept, Early, NoFile
  <2>6. [by |-> s, whole |-> FALSE] # NoFile
    BY AssetSyncAssumption DEF plan, WriteCreate, Goto, Put, Shape, Control, Opened, DInv, Planning, Unswept, Early, NoFile
  <2> QED BY <2>1, <2>2, <2>3, <2>4, <2>5, <2>6
<1>2. \A e \in Slots : Trouble(e) => Trouble(e)'
  BY <1>1 DEF Trouble
<1>3. \A e \in Slots : Served(e) => Served(e)'
  BY <1>1, <1>2 DEF Served, Trouble
<1>4. \A e \in Slots \cap Apps : Owed(e) => Owed(e)'
  BY <1>1, <1>2, <1>3 DEF Owed, Writes, WillSweep, Later, Served, Trouble
<1>5. Planning'
  BY <1>1 DEF DInv, Planning, Unswept, Early, Control, Opened
<1>6. Unreported'
  BY <1>1 DEF DInv, Unreported, NoPartialArt
<1>7. StillThere'
  BY <1>1 DEF DInv, StillThere, Alone, Old
<1>8. GapsClose'
  BY <1>1, <1>2 DEF DInv, GapsClose, Gap, Creates, Trouble
<1>9. SweptIsServed'
  BY <1>1, <1>3, <1>4 DEF DInv, SweptIsServed, Control, Opened
<1> QED BY <1>5, <1>6, <1>7, <1>8, <1>9 DEF DInv

\* A file that cannot be made is reported lost.
LEMMA WriteRefusedKeeps ==
  ASSUME Before, NEW s \in Syncs, WriteRefused(s)
  PROVE  DInv'
<1> USE DEF Before, There
<1>1. /\ UNCHANGED << art, app, call, inv, exists, swept >>
      /\ pc[s] = "create" /\ pc'[s] = "write"
      /\ at[s] \in Slots /\ item[s][at[s]] = "got"
      /\ item'[s][at[s]] = "lost"
      /\ \A t \in Syncs, e \in Slots : ~(t = s /\ e = at[s]) => item'[t][e] = item[t][e]
      /\ \A t \in Syncs \ {s} : pc'[t] = pc[t] /\ at'[t] = at[t]
  <2>1. UNCHANGED << art, app, call, inv, exists, swept >>
    BY DEF plan, WriteRefused, part, Goto, SetItem, Closed, Handles, Shape, Control, Opened, DInv, Planning
  <2>2. pc[s] = "create" /\ pc'[s] = "write"
    BY DEF plan, WriteRefused, part, Goto, SetItem, Closed, Handles, Shape, Control, Opened, DInv, Planning
  <2>3. at[s] \in Slots /\ item[s][at[s]] = "got"
    BY DEF plan, WriteRefused, part, Goto, SetItem, Closed, Handles, Shape, Control, Opened, DInv, Planning
  <2>4. item'[s][at[s]] = "lost"
    BY DEF plan, WriteRefused, part, Goto, SetItem, Closed, Handles, Shape, Control, Opened, DInv, Planning
  <2>5. \A t \in Syncs, e \in Slots : ~(t = s /\ e = at[s]) => item'[t][e] = item[t][e]
    BY DEF plan, WriteRefused, part, Goto, SetItem, Closed, Handles, Shape, Control, Opened, DInv, Planning
  <2>6. \A t \in Syncs \ {s} : pc'[t] = pc[t] /\ at'[t] = at[t]
    BY DEF plan, WriteRefused, part, Goto, SetItem, Closed, Handles, Shape, Control, Opened, DInv, Planning
  <2> QED BY <2>1, <2>2, <2>3, <2>4, <2>5, <2>6
<1>2. \A e \in Slots : Trouble(e) => Trouble(e)'
  BY <1>1 DEF Trouble
<1>3. \A e \in Slots : Served(e) => Served(e)'
  BY <1>1, <1>2 DEF Served, Trouble
<1>4. \A e \in Slots \cap Apps : Owed(e) => Owed(e)'
  BY <1>1, <1>2, <1>3 DEF Owed, Writes, WillSweep, Later, Served, Trouble
<1>5. Planning'
  BY <1>1 DEF DInv, Planning, Unswept, Early, Control, Opened
<1>6. Unreported'
  BY AssetSyncAssumption, <1>1 DEF DInv, Unreported, NoPartialArt, NoFile
<1>7. StillThere'
  BY <1>1 DEF DInv, StillThere, Alone, Old
<1>8. GapsClose'
  BY <1>1, <1>2 DEF DInv, GapsClose, Gap, Creates, Trouble
<1>9. SweptIsServed'
  BY <1>1, <1>3, <1>4 DEF DInv, SweptIsServed, Control, Opened
<1> QED BY <1>5, <1>6, <1>7, <1>8, <1>9 DEF DInv

\* A file that is written is whole, and its slot is still to be swept.
LEMMA WriteEndKeeps ==
  ASSUME Before, NEW s \in Syncs, WriteEnd(s)
  PROVE  DInv'
<1> USE DEF Before, There
<1>1. /\ UNCHANGED << app, call, inv, exists, swept >>
      /\ pc[s] = "writing" /\ pc'[s] = "write"
      /\ at[s] \in Slots /\ item[s][at[s]] = "got" /\ swept[s] = {}
      /\ item'[s][at[s]] = "installed"
      /\ \A t \in Syncs, e \in Slots : ~(t = s /\ e = at[s]) => item'[t][e] = item[t][e]
      /\ \A t \in Syncs \ {s} : pc'[t] = pc[t] /\ at'[t] = at[t]
      /\ \A e \in Slots : art'[e] = IF e = at[s] /\ art[e].by = s THEN [by |-> s, whole |-> TRUE] ELSE art[e]
      /\ [by |-> s, whole |-> TRUE] # NoFile /\ NoFile.by # s
  <2>1. UNCHANGED << app, call, inv, exists, swept >>
    BY DEF plan, WriteEnd, Goto, SetItem, Closed, Handles, Put, Shape, Control, Opened, Writing, DInv, Planning, Unswept, NoFile
  <2>2. pc[s] = "writing" /\ pc'[s] = "write"
    BY DEF plan, WriteEnd, Goto, SetItem, Closed, Handles, Put, Shape, Control, Opened, Writing, DInv, Planning, Unswept, NoFile
  <2>3. at[s] \in Slots /\ item[s][at[s]] = "got" /\ swept[s] = {}
    BY DEF plan, WriteEnd, Goto, SetItem, Closed, Handles, Put, Shape, Control, Opened, Writing, DInv, Planning, Unswept, NoFile
  <2>4. item'[s][at[s]] = "installed"
    BY DEF plan, WriteEnd, Goto, SetItem, Closed, Handles, Put, Shape, Control, Opened, Writing, DInv, Planning, Unswept, NoFile
  <2>5. \A t \in Syncs, e \in Slots : ~(t = s /\ e = at[s]) => item'[t][e] = item[t][e]
    BY DEF plan, WriteEnd, Goto, SetItem, Closed, Handles, Put, Shape, Control, Opened, Writing, DInv, Planning, Unswept, NoFile
  <2>6. \A t \in Syncs \ {s} : pc'[t] = pc[t] /\ at'[t] = at[t]
    BY DEF plan, WriteEnd, Goto, SetItem, Closed, Handles, Put, Shape, Control, Opened, Writing, DInv, Planning, Unswept, NoFile
  <2>7. \A e \in Slots : art'[e] = IF e = at[s] /\ art[e].by = s THEN [by |-> s, whole |-> TRUE] ELSE art[e]
    BY DEF plan, WriteEnd, Goto, SetItem, Closed, Handles, Put, Shape, Control, Opened, Writing, DInv, Planning, Unswept, NoFile
  <2>8. [by |-> s, whole |-> TRUE] # NoFile /\ NoFile.by # s
    BY AssetSyncAssumption DEF plan, WriteEnd, Goto, SetItem, Closed, Handles, Put, Shape, Control, Opened, Writing, DInv, Planning, Unswept, NoFile
  <2> QED BY <2>1, <2>2, <2>3, <2>4, <2>5, <2>6, <2>7, <2>8
<1>2. \A e \in Slots : Trouble(e) => Trouble(e)'
  BY <1>1 DEF Trouble
<1>3. \A e \in Slots : Served(e) => Served(e)'
  BY <1>1, <1>2 DEF Served, Trouble
<1>4. \A e \in Slots \cap Apps : Owed(e) => Owed(e)'
  BY <1>1, <1>2, <1>3 DEF Owed, Writes, WillSweep, Later, Served, Trouble
<1>5. Planning'
  BY <1>1 DEF DInv, Planning, Unswept, Early, Control, Opened
<1>6. Unreported'
  BY <1>1 DEF DInv, Unreported, NoPartialArt
<1>7. StillThere'
  BY <1>1 DEF DInv, StillThere, Alone, Old
<1>8. GapsClose'
  BY <1>1, <1>2 DEF DInv, GapsClose, Gap, Creates, Trouble
<1>9. SweptIsServed'
  BY <1>1, <1>3, <1>4 DEF DInv, SweptIsServed, Control, Opened
<1> QED BY <1>5, <1>6, <1>7, <1>8, <1>9 DEF DInv

\* A write that fails takes the file with it, and says so.
LEMMA WriteFailsKeeps ==
  ASSUME Before, NEW s \in Syncs, WriteFails(s)
  PROVE  DInv'
<1> USE DEF Before, There
<1>1. /\ UNCHANGED << app, call, inv, exists, swept >>
      /\ pc[s] = "writing" /\ pc'[s] = "write"
      /\ at[s] \in Slots /\ item[s][at[s]] = "got"
      /\ ~Old(s, at[s])
      /\ item'[s][at[s]] = "lost"
      /\ \A t \in Syncs, e \in Slots : ~(t = s /\ e = at[s]) => item'[t][e] = item[t][e]
      /\ \A t \in Syncs \ {s} : pc'[t] = pc[t] /\ at'[t] = at[t]
      /\ \A e \in Slots : art'[e] = IF e = at[s] THEN NoFile ELSE art[e]
      /\ NoFile.by \notin Syncs
  <2>1. UNCHANGED << app, call, inv, exists, swept >>
    BY DEF plan, WriteFails, Goto, SetItem, Closed, Handles, Put, Shape, Control, Opened, Writing, DInv, Planning, NoFile
  <2>2. pc[s] = "writing" /\ pc'[s] = "write"
    BY DEF plan, WriteFails, Goto, SetItem, Closed, Handles, Put, Shape, Control, Opened, Writing, DInv, Planning, NoFile
  <2>3. at[s] \in Slots /\ item[s][at[s]] = "got"
    BY DEF plan, WriteFails, Goto, SetItem, Closed, Handles, Put, Shape, Control, Opened, Writing, DInv, Planning, NoFile
  <2>4. ~Old(s, at[s])
    BY DEF plan, WriteFails, Goto, SetItem, Closed, Handles, Put, Shape, Control, Opened, Writing, DInv, Planning, NoFile
  <2>5. item'[s][at[s]] = "lost"
    BY DEF plan, WriteFails, Goto, SetItem, Closed, Handles, Put, Shape, Control, Opened, Writing, DInv, Planning, NoFile
  <2>6. \A t \in Syncs, e \in Slots : ~(t = s /\ e = at[s]) => item'[t][e] = item[t][e]
    BY DEF plan, WriteFails, Goto, SetItem, Closed, Handles, Put, Shape, Control, Opened, Writing, DInv, Planning, NoFile
  <2>7. \A t \in Syncs \ {s} : pc'[t] = pc[t] /\ at'[t] = at[t]
    BY DEF plan, WriteFails, Goto, SetItem, Closed, Handles, Put, Shape, Control, Opened, Writing, DInv, Planning, NoFile
  <2>8. \A e \in Slots : art'[e] = IF e = at[s] THEN NoFile ELSE art[e]
    BY AssetSyncAssumption DEF plan, WriteFails, Goto, SetItem, Closed, Handles, Put, Shape, Control, Opened, Writing, DInv, Planning, NoFile
  <2>9. NoFile.by \notin Syncs
    BY AssetSyncAssumption DEF plan, WriteFails, Goto, SetItem, Closed, Handles, Put, Shape, Control, Opened, Writing, DInv, Planning, NoFile
  <2> QED BY <2>1, <2>2, <2>3, <2>4, <2>5, <2>6, <2>7, <2>8, <2>9
<1>2. \A e \in Slots : Trouble(e) => Trouble(e)'
  BY <1>1 DEF Trouble
<1>3. \A e \in Slots : Served(e) => Served(e)'
  BY <1>1, <1>2 DEF Served, Trouble
<1>4. \A e \in Slots \cap Apps : Owed(e) => Owed(e)'
  BY <1>1, <1>2, <1>3 DEF Owed, Writes, WillSweep, Later, Served, Trouble
<1>5. Planning'
  BY <1>1 DEF DInv, Planning, Unswept, Early, Control, Opened
<1>6. Unreported'
  BY <1>1 DEF DInv, Unreported, NoPartialArt
<1>7. StillThere'
  BY <1>1 DEF DInv, StillThere, Alone, Old
<1>8. GapsClose'
  BY <1>1, <1>2 DEF DInv, GapsClose, Gap, Creates, Trouble
<1>9. SweptIsServed'
  BY <1>1, <1>3, <1>4 DEF DInv, SweptIsServed, Control, Opened
<1> QED BY <1>5, <1>6, <1>7, <1>8, <1>9 DEF DInv

\* A slot that is passed by has its copy, has no file, or is about to be written.
LEMMA SweepPastKeeps ==
  ASSUME Before, NEW s \in Syncs, NEW d \in Slots, SweepPast(s, d)
  PROVE  DInv'
<1> USE DEF Before, There
<1>1. /\ UNCHANGED << art, app, pc, call, inv, exists, item, at >>
      /\ pc[s] = "sweep" /\ d \in Apps
      /\ There(d) => app[d] # NoFile
      /\ swept'[s] = swept[s] \cup {d}
      /\ \A t \in Syncs \ {s} : swept'[t] = swept[t]
      /\ NoFile.by # s
  <2>1. UNCHANGED << art, app, pc, call, inv, exists, item, at >>
    BY DEF plan, SweepPast, part, Shape, First, ToSweep, NeedsCopy, NoFile
  <2>2. pc[s] = "sweep" /\ d \in Apps
    BY DEF plan, SweepPast, part, Shape, First, ToSweep, NeedsCopy, NoFile
  <2>3. There(d) => app[d] # NoFile
    BY AssetSyncAssumption DEF plan, SweepPast, part, Shape, First, ToSweep, NeedsCopy, NoFile
  <2>4. swept'[s] = swept[s] \cup {d}
    BY DEF plan, SweepPast, part, Shape, First, ToSweep, NeedsCopy, NoFile
  <2>5. \A t \in Syncs \ {s} : swept'[t] = swept[t]
    BY DEF plan, SweepPast, part, Shape, First, ToSweep, NeedsCopy, NoFile
  <2>6. NoFile.by # s
    BY AssetSyncAssumption DEF plan, SweepPast, part, Shape, First, ToSweep, NeedsCopy, NoFile
  <2> QED BY <2>1, <2>2, <2>3, <2>4, <2>5, <2>6
<1>2. \A e \in Slots : Trouble(e) => Trouble(e)'
  BY <1>1 DEF Trouble
<1>3. \A e \in Slots : Served(e) => Served(e)'
  BY <1>1, <1>2 DEF Served, Trouble
<1>4. \A e \in Slots \cap Apps : Owed(e) => Owed(e)'
  <2>1. ASSUME item[s][d] = "installed" \/ d \in inv[s] PROVE Owed(d)'
    <3>1. Served(d) \/ \E t \in Syncs : Creates(t, d)
      BY <1>1, <2>1 DEF DInv, GapsClose, Gap, Served
    <3> QED BY <1>1, <1>3, <3>1 DEF Owed, Writes, Creates
  <2> QED BY <1>1, <1>3, <2>1 DEF Owed, Writes, WillSweep
<1>5. Planning'
  BY <1>1 DEF DInv, Planning, Unswept, Early, Control, Opened
<1>6. Unreported'
  BY <1>1 DEF DInv, Unreported, NoPartialArt
<1>7. StillThere'
  BY <1>1 DEF DInv, StillThere, Alone, Old
<1>8. GapsClose'
  BY <1>1, <1>2 DEF DInv, GapsClose, Gap, Creates
<1>9. SweptIsServed'
  <2>1. ASSUME art[d].by = s \/ d \in inv[s] PROVE Owed(d)'
    <3>1. Served(d) \/ \E t \in Syncs : Creates(t, d)
      BY <1>1, <2>1 DEF DInv, GapsClose, Gap, Served
    <3> QED BY <1>1, <1>3, <3>1 DEF Owed, Writes, Creates
  <2> QED BY <1>1, <1>3, <1>4, <2>1 DEF DInv, SweptIsServed, Control, Opened, plan
<1> QED BY <1>5, <1>6, <1>7, <1>8, <1>9 DEF DInv

\* A copy that is removed is about to be made anew.
LEMMA CopyOpenKeeps ==
  ASSUME Before, NEW s \in Syncs, CopyOpen(s)
  PROVE  DInv'
<1> USE DEF Before, There
<1>1. /\ UNCHANGED << art, call, inv, exists, item, at, swept >>
      /\ pc[s] = "open" /\ pc'[s] = "copy"
      /\ at[s] \in Slots
      /\ \A t \in Syncs \ {s} : pc'[t] = pc[t]
      /\ \A e \in Slots : e # at[s] => app'[e] = app[e]
  <2>1. UNCHANGED << art, call, inv, exists, item, at, swept >>
    BY DEF plan, CopyOpen, Goto, Put, Shape, Control, Opened
  <2>2. pc[s] = "open" /\ pc'[s] = "copy"
    BY DEF plan, CopyOpen, Goto, Put, Shape, Control, Opened
  <2>3. at[s] \in Slots
    BY DEF plan, CopyOpen, Goto, Put, Shape, Control, Opened
  <2>4. \A t \in Syncs \ {s} : pc'[t] = pc[t]
    BY DEF plan, CopyOpen, Goto, Put, Shape, Control, Opened
  <2>5. \A e \in Slots : e # at[s] => app'[e] = app[e]
    BY DEF plan, CopyOpen, Goto, Put, Shape, Control, Opened
  <2> QED BY <2>1, <2>2, <2>3, <2>4, <2>5
<1>2. \A e \in Slots : Trouble(e) => Trouble(e)'
  BY <1>1 DEF Trouble
<1>3. \A e \in Slots : Served(e) => Served(e)'
  BY <1>1, <1>2 DEF Served, Trouble
<1>4. \A e \in Slots \cap Apps : Owed(e) => Owed(e)'
  BY <1>1, <1>2, <1>3 DEF Owed, Writes, WillSweep, Later, Served, Trouble
<1>5. Planning'
  BY <1>1 DEF DInv, Planning, Unswept, Early, Control, Opened
<1>6. Unreported'
  BY <1>1 DEF DInv, Unreported, NoPartialArt
<1>7. StillThere'
  BY <1>1 DEF DInv, StillThere, Alone, Old
<1>8. GapsClose'
  BY <1>1, <1>2 DEF DInv, GapsClose, Gap, Creates, Trouble
<1>9. SweptIsServed'
  BY <1>1, <1>3, <1>4 DEF DInv, SweptIsServed, Control, Opened
<1> QED BY <1>5, <1>6, <1>7, <1>8, <1>9 DEF DInv

\* And then it is there.
LEMMA CopyCreateKeeps ==
  ASSUME Before, NEW s \in Syncs, CopyCreate(s)
  PROVE  DInv'
<1> USE DEF Before, There
<1>1. /\ UNCHANGED << art, call, inv, exists, item, at, swept >>
      /\ pc[s] = "copy" /\ pc'[s] = "copying"
      /\ at[s] \in Slots
      /\ \A t \in Syncs \ {s} : pc'[t] = pc[t]
      /\ \A e \in Slots : e # at[s] => app'[e] = app[e]
      /\ app'[at[s]] # NoFile
  <2>1. UNCHANGED << art, call, inv, exists, item, at, swept >>
    BY DEF plan, CopyCreate, Goto, Put, Shape, Control, Opened, NoFile
  <2>2. pc[s] = "copy" /\ pc'[s] = "copying"
    BY DEF plan, CopyCreate, Goto, Put, Shape, Control, Opened, NoFile
  <2>3. at[s] \in Slots
    BY DEF plan, CopyCreate, Goto, Put, Shape, Control, Opened, NoFile
  <2>4. \A t \in Syncs \ {s} : pc'[t] = pc[t]
    BY DEF plan, CopyCreate, Goto, Put, Shape, Control, Opened, NoFile
  <2>5. \A e \in Slots : e # at[s] => app'[e] = app[e]
    BY DEF plan, CopyCreate, Goto, Put, Shape, Control, Opened, NoFile
  <2>6. app'[at[s]] # NoFile
    BY AssetSyncAssumption DEF plan, CopyCreate, Goto, Put, Shape, Control, Opened, NoFile
  <2> QED BY <2>1, <2>2, <2>3, <2>4, <2>5, <2>6
<1>2. \A e \in Slots : Trouble(e) => Trouble(e)'
  BY <1>1 DEF Trouble
<1>3. \A e \in Slots : Served(e) => Served(e)'
  BY <1>1, <1>2 DEF Served, Trouble
<1>4. \A e \in Slots \cap Apps : Owed(e) => Owed(e)'
  BY <1>1, <1>2, <1>3 DEF Owed, Writes, WillSweep, Later, Served, Trouble
<1>5. Planning'
  BY <1>1 DEF DInv, Planning, Unswept, Early, Control, Opened
<1>6. Unreported'
  BY <1>1 DEF DInv, Unreported, NoPartialArt
<1>7. StillThere'
  BY <1>1 DEF DInv, StillThere, Alone, Old
<1>8. GapsClose'
  BY <1>1, <1>2 DEF DInv, GapsClose, Gap, Creates, Trouble
<1>9. SweptIsServed'
  BY <1>1, <1>3, <1>4 DEF DInv, SweptIsServed, Served, Control, Opened
<1> QED BY <1>5, <1>6, <1>7, <1>8, <1>9 DEF DInv

\* What was copied is served, by this copy or by who replaces it.
LEMMA CopyEndKeeps ==
  ASSUME Before, NEW s \in Syncs, CopyEnd(s)
  PROVE  DInv'
<1> USE DEF Before, There
<1>1. /\ UNCHANGED << art, call, inv, exists, item >>
      /\ pc[s] = "copying" /\ pc'[s] = "sweep"
      /\ at[s] \in Slots
      /\ \A t \in Syncs \ {s} : pc'[t] = pc[t] /\ at'[t] = at[t] /\ swept'[t] = swept[t]
      /\ \A e \in Slots : app'[e] = NoFile <=> app[e] = NoFile
      /\ swept'[s] = swept[s] \cup {at[s]}
  <2>1. UNCHANGED << art, call, inv, exists, item >>
    BY DEF plan, CopyEnd, Goto, Closed, Handles, Put, Shape, Control, Opened, NoFile
  <2>2. pc[s] = "copying" /\ pc'[s] = "sweep"
    BY DEF plan, CopyEnd, Goto, Closed, Handles, Put, Shape, Control, Opened, NoFile
  <2>3. at[s] \in Slots
    BY DEF plan, CopyEnd, Goto, Closed, Handles, Put, Shape, Control, Opened, NoFile
  <2>4. \A t \in Syncs \ {s} : pc'[t] = pc[t] /\ at'[t] = at[t] /\ swept'[t] = swept[t]
    BY DEF plan, CopyEnd, Goto, Closed, Handles, Put, Shape, Control, Opened, NoFile
  <2>5. \A e \in Slots : app'[e] = NoFile <=> app[e] = NoFile
    <3>1. \A w : [by |-> s, whole |-> w] # NoFile
      BY AssetSyncAssumption DEF NoFile
    <3>2. app[at[s]].by = s => app[at[s]] # NoFile
      BY AssetSyncAssumption DEF NoFile
    <3>3. app' = IF app[at[s]].by = s THEN [app EXCEPT ![at[s]] = [by |-> s, whole |-> src[s]]] ELSE app
      BY DEF CopyEnd, Put
    <3> QED BY <2>3, <3>1, <3>2, <3>3 DEF Shape
  <2>6. swept'[s] = swept[s] \cup {at[s]}
    BY DEF plan, CopyEnd, Goto, Closed, Handles, Put, Shape, Control, Opened, NoFile
  <2> QED BY <2>1, <2>2, <2>3, <2>4, <2>5, <2>6
<1>2. \A e \in Slots : Trouble(e) => Trouble(e)'
  BY <1>1 DEF Trouble
<1>3. \A e \in Slots : Served(e) => Served(e)'
  BY <1>1, <1>2 DEF Served, Trouble
<1>4. \A e \in Slots \cap Apps : Owed(e) => Owed(e)'
  BY <1>1, <1>3 DEF Owed, Writes, WillSweep, Later, DInv, SweptIsServed
<1>5. Planning'
  BY <1>1 DEF DInv, Planning, Unswept, Early, Control, Opened
<1>6. Unreported'
  BY <1>1 DEF DInv, Unreported, NoPartialArt
<1>7. StillThere'
  BY <1>1 DEF DInv, StillThere, Alone, Old
<1>8. GapsClose'
  BY <1>1, <1>2 DEF DInv, GapsClose, Gap, Creates, Trouble
<1>9. SweptIsServed'
  BY <1>1, <1>3, <1>4 DEF DInv, SweptIsServed, Control, Opened, Owed
<1> QED BY <1>5, <1>6, <1>7, <1>8, <1>9 DEF DInv

\* A sweep that ends with an error is trouble.
LEMMA CopyFailsKeeps ==
  ASSUME Before, NEW s \in Syncs, CopyFails(s)
  PROVE  DInv'
<1> USE DEF Before, There
<1>1. /\ UNCHANGED << art, call, inv, exists, item, swept >>
      /\ pc[s] \in {"open", "copy", "copying"} /\ pc'[s] = "refused"
      /\ \A t \in Syncs \ {s} : pc'[t] = pc[t] /\ at'[t] = at[t]
  BY DEF plan, CopyFails, Goto, Closed, Handles, Shape
<1>2. \A e \in Slots : Trouble(e) => Trouble(e)'
  BY <1>1 DEF Trouble
<1>3. \A e \in Slots : Served(e) => Served(e)'
  BY <1>1, <1>2 DEF Served, Trouble
<1>4. \A e \in Slots \cap Apps : Owed(e) => Owed(e)'
  BY <1>1, <1>2, <1>3 DEF Owed, Writes, WillSweep, Later, Served, Trouble
<1>5. Planning'
  BY <1>1 DEF DInv, Planning, Unswept, Early, Control, Opened
<1>6. Unreported'
  BY <1>1 DEF DInv, Unreported, NoPartialArt
<1>7. StillThere'
  BY <1>1 DEF DInv, StillThere, Alone, Old
<1>8. GapsClose'
  BY <1>1, <1>2 DEF DInv, GapsClose, Gap, Creates, Trouble
<1>9. SweptIsServed'
  BY <1>1, <1>3, <1>4 DEF DInv, SweptIsServed, Control, Opened
<1> QED BY <1>5, <1>6, <1>7, <1>8, <1>9 DEF DInv

\* A file put there by hand belongs to no sync.
LEMMA UserPutsKeeps ==
  ASSUME Before, NEW d \in Slots, UserPuts(d)
  PROVE  DInv'
<1> USE DEF Before, There
<1>1. /\ UNCHANGED << app, pc, call, inv, exists, item, at, swept >>
      /\ ~There(d)
      /\ \A e \in Slots : art'[e] = IF e = d THEN [by |-> User, whole |-> TRUE] ELSE art[e]
      /\ [by |-> User, whole |-> TRUE] # NoFile /\ NoFile.by \notin Syncs
      /\ User \notin Syncs
  <2>1. UNCHANGED << app, pc, call, inv, exists, item, at, swept >>
    BY AssetSyncAssumption DEF plan, UserPuts, part, Put, Shape, NoFile
  <2>2. ~There(d)
    BY AssetSyncAssumption DEF plan, UserPuts, part, Put, Shape, NoFile
  <2>3. \A e \in Slots : art'[e] = IF e = d THEN [by |-> User, whole |-> TRUE] ELSE art[e]
    BY AssetSyncAssumption DEF plan, UserPuts, part, Put, Shape, NoFile
  <2>4. [by |-> User, whole |-> TRUE] # NoFile /\ NoFile.by \notin Syncs
    BY AssetSyncAssumption DEF plan, UserPuts, part, Put, Shape, NoFile
  <2>5. User \notin Syncs
    BY AssetSyncAssumption DEF plan, UserPuts, part, Put, Shape, NoFile
  <2> QED BY <2>1, <2>2, <2>3, <2>4, <2>5
<1>2. \A e \in Slots : Trouble(e) => Trouble(e)'
  BY <1>1 DEF Trouble
<1>3. \A e \in Slots : Served(e) => Served(e)'
  BY <1>1, <1>2 DEF Served, Trouble
<1>4. \A e \in Slots \cap Apps : Owed(e) => Owed(e)'
  BY <1>1, <1>2, <1>3 DEF Owed, Writes, WillSweep, Later, Served, Trouble
<1>5. Planning'
  BY <1>1 DEF DInv, Planning, Unswept, Early, Control, Opened
<1>6. Unreported'
  BY <1>1 DEF DInv, Unreported, NoPartialArt
<1>7. StillThere'
  BY <1>1 DEF DInv, StillThere, Alone, Old
<1>8. GapsClose'
  BY <1>1, <1>2 DEF DInv, GapsClose, Gap, Creates, Trouble
<1>9. SweptIsServed'
  BY <1>1, <1>3, <1>4, art'[d].by = User DEF DInv, SweptIsServed, Control, Opened
<1> QED BY <1>5, <1>6, <1>7, <1>8, <1>9 DEF DInv

\* What a sync fetches, or does between two writes, is one or the other.
LEMMA TurnSteps ==
  ASSUME Shape, NEW s \in Syncs,
         \/ ProbeRemove(s) \/ ProbeCreate(s) \/ ProbeRefused(s) \/ ProbeDone(s)
         \/ FetchedAll(s) \/ WroteAll(s) \/ SweptAll(s) \/ Cancel(s) \/ Kill(s)
         \/ \E d \in Slots : SweepFinds(s, d)
  PROVE  Turns(s)
<1>1. ASSUME ProbeRemove(s) PROVE Turns(s)
  BY <1>1 DEF ProbeRemove, Goto, plan, Shape, Turns, Fetching
<1>2. ASSUME ProbeCreate(s) PROVE Turns(s)
  BY <1>2 DEF ProbeCreate, Goto, plan, Shape, Turns, Fetching
<1>3. ASSUME ProbeRefused(s) PROVE Turns(s)
  BY <1>3 DEF ProbeRefused, Goto, part, plan, Shape, Turns
<1>4. ASSUME ProbeDone(s) PROVE Turns(s)
  BY <1>4 DEF ProbeDone, Goto, plan, Shape, Turns, Fetching
<1>5. ASSUME FetchedAll(s) PROVE Turns(s)
  BY <1>5 DEF FetchedAll, Goto, part, plan, Shape, Turns, Fetching
<1>6. ASSUME WroteAll(s) PROVE Turns(s)
  BY <1>6 DEF WroteAll, Goto, part, plan, Shape, Turns
<1>7. ASSUME SweptAll(s) PROVE Turns(s)
  BY <1>7 DEF SweptAll, Goto, part, plan, Shape, Turns
<1>8. ASSUME Cancel(s) PROVE Turns(s)
  BY <1>8 DEF Cancel, part, plan, Turns
<1>9. ASSUME Kill(s) PROVE Turns(s)
  BY <1>9 DEF Kill, Goto, part, plan, Shape, Turns
<1>10. ASSUME NEW d \in Slots, SweepFinds(s, d) PROVE Turns(s)
  BY <1>10 DEF SweepFinds, Goto, Handles, part, plan, Shape, Turns
<1> QED
  BY <1>1, <1>2, <1>3, <1>4, <1>5, <1>6, <1>7, <1>8, <1>9, <1>10

LEMMA FetchSteps ==
  ASSUME Shape, NEW s \in Syncs, NEW d \in Slots,
         \/ FetchCached(s, d) \/ FetchStart(s, d) \/ FetchCancelled(s, d)
         \/ FetchPut(s, d) \/ FetchFails(s, d)
  PROVE  Fetches(s, d)
<1>1. ASSUME FetchCached(s, d) PROVE Fetches(s, d)
  BY <1>1 DEF FetchCached, Acquire, SetItem, part, plan, Fetches
<1>2. ASSUME FetchStart(s, d) PROVE Fetches(s, d)
  BY <1>2 DEF FetchStart, Acquire, SetItem, part, plan, Fetches
<1>3. ASSUME FetchCancelled(s, d) PROVE Fetches(s, d)
  BY <1>3 DEF FetchCancelled, Acquire, SetItem, part, plan, Fetches
<1>4. ASSUME FetchPut(s, d) PROVE Fetches(s, d)
  BY <1>4 DEF FetchPut, SetItem, part, plan, Fetches
<1>5. ASSUME FetchFails(s, d) PROVE Fetches(s, d)
  BY <1>5 DEF FetchFails, SetItem, part, plan, Fetches
<1> QED
  BY <1>1, <1>2, <1>3, <1>4, <1>5

\* And nothing changes where nothing is touched, as when the cache is emptied.
LEMMA UntouchedKeeps ==
  ASSUME DInv, UNCHANGED << art, app, call, inv, exists, item, swept, pc, at >>
  PROVE  DInv'
<1>1. Planning'
  BY DEF DInv, Planning
<1>2. Unreported'
  BY DEF DInv, Unreported
<1>3. StillThere'
  BY DEF DInv, StillThere, Alone, There
<1>4. GapsClose'
  BY DEF DInv, GapsClose, Gap, Trouble, Creates, There
<1>5. SweptIsServed'
  BY DEF DInv, SweptIsServed, Owed, Served, Trouble, Writes, WillSweep
<1> QED
  BY <1>1, <1>2, <1>3, <1>4, <1>5 DEF DInv

LEMMA DeliveryStep ==
  ASSUME Before, [Next]_vars
  PROVE  DInv'
<1>1. ASSUME UNCHANGED vars PROVE DInv'
  BY <1>1, UntouchedKeeps DEF vars, part, plan, Before
<1>2. ASSUME NEW d \in Slots, CleanFile(d) PROVE DInv'
  BY <1>2, UntouchedKeeps DEF CleanFile, part, plan, Before
<1>3. ASSUME NEW s \in Syncs,
             \/ ProbeRemove(s) \/ ProbeCreate(s) \/ ProbeRefused(s) \/ ProbeDone(s)
             \/ FetchedAll(s) \/ WroteAll(s) \/ SweptAll(s) \/ Cancel(s) \/ Kill(s)
             \/ \E d \in Slots : SweepFinds(s, d)
      PROVE  DInv'
  <2>1. Shape
    BY DEF Before
  <2>2. Turns(s)
    BY <1>3, <2>1, TurnSteps
  <2> QED
    BY <2>2, TurnsKeeps
<1>4. ASSUME NEW s \in Syncs, NEW d \in Slots,
             \/ FetchCached(s, d) \/ FetchStart(s, d) \/ FetchCancelled(s, d)
             \/ FetchPut(s, d) \/ FetchFails(s, d)
      PROVE  DInv'
  <2>1. Shape
    BY DEF Before
  <2>2. Fetches(s, d)
    BY <1>4, <2>1, FetchSteps
  <2> QED
    BY <2>2, FetchesKeeps
<1>5. ASSUME NEW s \in Syncs,
             \/ Begin(s) \/ Scan(s) \/ PlanSync(s) \/ WriteCreate(s) \/ WriteRefused(s)
             \/ WriteEnd(s) \/ WriteFails(s) \/ CopyOpen(s) \/ CopyCreate(s)
             \/ CopyEnd(s) \/ CopyFails(s)
      PROVE  DInv'
  BY <1>5, BeginKeeps, ScanKeeps, PlanKeeps, WriteCreateKeeps, WriteRefusedKeeps,
     WriteEndKeeps, WriteFailsKeeps, CopyOpenKeeps, CopyCreateKeeps, CopyEndKeeps,
     CopyFailsKeeps
<1>6. ASSUME NEW s \in Syncs, NEW d \in Slots,
             WriteNothing(s, d) \/ WriteRemove(s, d) \/ SweepPast(s, d)
      PROVE  DInv'
  BY <1>6, WriteNothingKeeps, WriteRemoveKeeps, SweepPastKeeps
<1>7. ASSUME NEW d \in Slots, UserPuts(d) PROVE DInv'
  BY <1>7, UserPutsKeeps
<1> QED
  BY <1>1, <1>2, <1>3, <1>4, <1>5, <1>6, <1>7 DEF Next, SyncStep

\* A file nobody else planned is still there, and is not one being written.
LEMMA ReportedFollows ==
  ASSUME Shape, NoPartialArt, DInv
  PROVE  ReportedIsThere
<1> SUFFICES ASSUME NEW s \in Syncs, NEW d \in Slots, item[s][d] = "installed", Alone(s, d)
             PROVE  There(d) /\ art[d].whole
  BY DEF ReportedIsThere, Alone
<1>1. There(d)
  BY DEF DInv, StillThere
<1>2. ASSUME ~art[d].whole PROVE FALSE
  <2>1. art[d].by \in Syncs
    BY <1>1, <1>2 DEF NoPartialArt
  <2>2. item[art[d].by][d] = "got"
    BY <1>2, <2>1 DEF DInv, Unreported
  <2> QED
    BY <2>1, <2>2 DEF Alone
<1> QED
  BY <1>1, <1>2

\* Once nobody writes, sweeps or is in trouble, what is owed is there.
LEMMA ServedFollows ==
  ASSUME Shape, DInv
  PROVE  AppsServed
<1> SUFFICES ASSUME \A t \in Syncs : pc[t] \in {"idle", "ended"},
                    NEW s \in Syncs, pc[s] = "ended", ~call[s].dry,
                    NEW d \in call[s].of \cap Apps,
                    art[d].by = s \/ d \in inv[s],
                    \A t \in Syncs : item[t][d] # "lost"
             PROVE  app[d] # NoFile
  BY DEF AppsServed
<1>1. d \in Slots \cap Apps
  BY AssetSyncAssumption
<1>2. d \in swept[s]
  BY DEF DInv, Planning
<1>3. Owed(d)
  BY <1>1, <1>2 DEF DInv, SweptIsServed
<1>4. ~Trouble(d)
  BY DEF Trouble
<1> QED
  BY <1>3, <1>4 DEF Owed, Served, Writes, WillSweep, Later

(* What a sync reports as installed is there and whole, and what it wrote or  *)
(* found is under the boot name as well, for any number of syncs at any       *)
(* slots, each of which may be cancelled, killed or refused at every step:    *)
(* a copy that is missing is owed by a sync that has still to sweep, or one   *)
(* of them has reported the trouble.                                          *)
THEOREM SyncsDeliver == Spec => []SyncDelivers
<1>1. Init => DInv
  <2> SUFFICES ASSUME Init PROVE DInv
    OBVIOUS
  <2>1. Planning
    BY DEF Init, Planning
  <2>2. Unreported
    BY AssetSyncAssumption DEF Init, Unreported, NoFile
  <2>3. StillThere
    BY DEF Init, StillThere
  <2>4. GapsClose
    BY DEF Init, GapsClose, Gap
  <2>5. SweptIsServed
    BY DEF Init, SweptIsServed
  <2> QED
    BY <2>1, <2>2, <2>3, <2>4, <2>5 DEF DInv
<1>2. IInv /\ DInv /\ [Next]_vars => DInv'
  <2> SUFFICES ASSUME IInv, DInv, [Next]_vars PROVE DInv'
    OBVIOUS
  <2>1. Before
    BY DEF Before, IInv
  <2> QED
    BY <2>1, DeliveryStep
<1>3. IInv /\ DInv => SyncDelivers
  BY ReportedFollows, ServedFollows DEF IInv, SyncDelivers
<1> QED
  BY <1>1, <1>2, <1>3, AssetInductive, PTL DEF Spec

=============================================================================
