--------------------------- MODULE PrefetcherProofs ---------------------------
(***************************************************************************)
(* The safety of the Prefetcher, for any titles, directories, adders and    *)
(* depth: the disk budget, one owner per copy, no wait in vain, no lost     *)
(* wake-up, at most one copy left behind by Stop.                           *)
(*                                                                         *)
(* None of these is inductive alone.  IInv adds what they rest on: slots    *)
(* count the copies and the slots in transit; a title is on its way at most *)
(* once, and its entry in the ready map is empty until it is published.     *)
(*                                                                         *)
(* A bulk install is a use of it: every behaviour of a batch is one of the  *)
(* prefetcher, so all of this holds of batches, and each title of a plan is *)
(* answered, once and in turn.                                             *)
(***************************************************************************)
EXTENDS BatchInstall, FiniteSetTheorems, SequenceTheorems, TLAPS

Busy     == {"slot", "check", "unpack", "failed"}
Stopping == {"stopWake", "stopping", "stopFree", "done"}

(* A slot is a copy on disk, or in transit: taken and not yet used, or its     *)
(* copy removed and it not yet given back.                                     *)
SlotAccount ==
  /\ IsFiniteSet(copies)
  /\ slots = Cardinality(copies)
             + (IF loop = "check" THEN 1 ELSE 0)
             + (IF taker \in {"freeing", "stopFree"} THEN 1 ELSE 0)

(* The installer's own state: Stop is its last act, only Stop holds copies    *)
(* for release, and it blocks only on a title still expected whose channel is  *)
(* open exactly until the title is published.                                  *)
TakerState ==
  /\ stopped <=> taker \in Stopping
  /\ taker \notin {"stopWake", "stopping", "stopFree"} => held = {}
  /\ taker = "waiting" => /\ taking \in expect
                          /\ taking \in waiters <=> ready[taking] = Absent

(* While the loop lives, no title is on its way twice, and none on its way is  *)
(* published already.                                                          *)
OnTheWayOnce ==
  /\ loop \in Busy => cur \in Titles /\ ready[cur] = Absent
  /\ loop \in Busy /\ ~stopped => cur \in expect
  /\ \A k \in Titles : ready[k] # Absent => k \in expect \/ stopped
  /\ stopped => expect = {} /\ pending = << >>
  /\ loop # "exit" =>
       /\ \A i, j \in 1..Len(pending) : pending[i] = pending[j] => i = j
       /\ \A i \in 1..Len(pending) : /\ pending[i] \in expect
                                     /\ ready[pending[i]] = Absent
                                     /\ ~InFlight(pending[i])

(* What is expected is published, pending, or being worked on.                 *)
PromiseKept ==
  loop # "exit" =>
    \A k \in expect : ready[k] # Absent \/ k \in Listed(pending) \/ InFlight(k)

(* Once stopped, the loop publishes at most one more title.                    *)
LastPublished ==
  stopped => /\ loop \in Busy => \A k \in Titles : ready[k] = Absent
             /\ \A j, k \in Titles :
                  ready[j] # Absent /\ ready[k] # Absent => j = k

IInv ==
  /\ TypeOK
  /\ SlotAccount
  /\ OneOwner
  /\ TakerState
  /\ OnTheWayOnce
  /\ PromiseKept
  /\ LastPublished

-----------------------------------------------------------------------------
(* Lemmas about the orders an Add may list its titles in.                      *)

(* An order of a finite set is a sequence of its elements, each listed once.   *)
LEMMA OrderProperties ==
  ASSUME NEW S, IsFiniteSet(S), NEW s \in Orders(S)
  PROVE  /\ s \in Seq(S)
         /\ Len(s) = Cardinality(S)
         /\ \A x : x \in S <=> \E i \in 1..Len(s) : s[i] = x
         /\ \A i, j \in 1..Len(s) : s[i] = s[j] => i = j
<1> DEFINE n == Cardinality(S)
<1>1. n \in Nat
  BY FS_CardinalityType
<1>2. s \in [1..n -> S] /\ Listed(s) = S
  BY DEF Orders
<1>3. s \in Seq(S) /\ Len(s) = n
  BY <1>1, <1>2
<1>4. \A x : x \in S <=> \E i \in 1..Len(s) : s[i] = x
  BY <1>2 DEF Listed
<1>5. s \in Surjection(1..n, S)
  BY <1>2, <1>3, <1>4 DEF Surjection
<1>6. IsFiniteSet(1..n) /\ Cardinality(1..n) = n
  BY <1>1, FS_Interval
<1>7. s \in Injection(1..n, S)
  BY <1>5, <1>6, FS_SurjSameCardinalityImpliesInj
<1>8. \A i, j \in 1..n : s[i] = s[j] => i = j
  BY <1>7 DEF Injection, IsInjective
<1> QED
  BY <1>3, <1>4, <1>8

-----------------------------------------------------------------------------
(* Typing.                                                                     *)

USE DEF shared, loopVars, takeVars

(* What an Add does not touch, and that it only adds promises.                 *)
LEMMA AddFrame ==
  ASSUME NEW a, NEW games, Add(a, games)
  PROVE  /\ UNCHANGED << ready, waiters, wake, stopped, ctxDone, slots, copies,
                         loopVars, takeVars >>
         /\ expect \subseteq expect'
         /\ ~stopped
  BY DEF Add

LEMMA InitType == Init => TypeOK
<1>1. << >> \in Seq(Titles \ Loose)
  BY EmptySeq
<1>2. 0 \in 0..Depth
  BY PrefetchAssumption
<1> QED
  BY <1>1, <1>2 DEF Init, TypeOK, Sources

LEMMA NextType == IInv /\ [Next]_vars => TypeOK'
<1> SUFFICES ASSUME IInv, [Next]_vars PROVE TypeOK'
  OBVIOUS
<1> USE DEF IInv
<1>1. CASE LoopPop
  <2>1. Head(pending) \in Titles \ Loose /\ Tail(pending) \in Seq(Titles \ Loose)
    BY <1>1, HeadTailProperties DEF LoopPop, TypeOK
  <2> QED
    BY <1>1, <2>1 DEF LoopPop, TypeOK
<1>2. CASE LoopIdle \/ LoopSeesStop \/ LoopWoken \/ LoopCancelled
  BY <1>2 DEF LoopIdle, LoopSeesStop, LoopWoken, LoopCancelled, TypeOK
<1>3. CASE LoopTakeSlot \/ LoopStopAtSlot
  BY <1>3, PrefetchAssumption, FS_CardinalityType
     DEF LoopTakeSlot, LoopStopAtSlot, TypeOK, SlotAccount
<1>4. CASE UnpackStart
  BY <1>4 DEF UnpackStart, TypeOK
<1>5. CASE Unpacked \/ PublishNil
  BY <1>5 DEF Unpacked, PublishNil, Publish, TypeOK, Sources, OneOwner,
              LoopDirs
<1>6. CASE UnpackFailed
  <2>1. Cardinality(copies) # 0
    BY <1>6, FS_EmptySet DEF UnpackFailed, OneOwner, LoopDirs, SlotAccount
  <2> QED
    BY <1>6, <2>1, PrefetchAssumption, FS_CardinalityType
       DEF UnpackFailed, TypeOK, SlotAccount
<1>7. ASSUME NEW a \in Adders, NEW games \in SUBSET Titles, Add(a, games)
      PROVE  TypeOK'
  <2> DEFINE new == games \ (Loose \cup expect)
  <2>1. PICK s \in Orders(new) : pending' = pending \o s
    BY <1>7 DEF Add
  <2>2. IsFiniteSet(new)
    BY PrefetchAssumption, FS_Subset
  <2>3. s \in Seq(new)
    BY <2>2, OrderProperties
  <2>4. s \in Seq(Titles \ Loose)
    BY <2>3, SeqMonotonic
  <2>5. pending' \in Seq(Titles \ Loose)
    BY <2>1, <2>4, ConcatProperties DEF TypeOK
  <2> QED
    BY <1>7, <2>5 DEF Add, TypeOK
<1>8. ASSUME NEW a \in Adders, AddWake(a)
      PROVE  TypeOK'
  BY <1>8 DEF AddWake, TypeOK
<1>9. ASSUME NEW k \in Titles, Take(k)
      PROVE  TypeOK'
  BY <1>9 DEF Take, TakeUnexpected, TakeReady, TakeWait, HandOver, TypeOK, Sources
<1>10. CASE TakeWoken
  BY <1>10 DEF TakeWoken, HandOver, TakerState, TypeOK, Sources
<1>11. CASE TakeCancelled \/ InlineDone
  BY <1>11 DEF TakeCancelled, InlineDone, TypeOK
<1>12. CASE ReleaseCopy \/ ReleaseSlot
  BY <1>12, PrefetchAssumption DEF ReleaseCopy, ReleaseSlot, TypeOK
<1>13. CASE StopLocked
  <2>1. pending' \in Seq(Titles \ Loose)
    BY <1>13, EmptySeq DEF StopLocked
  <2> QED
    BY <1>13, <2>1 DEF StopLocked, TypeOK, Sources
<1>14. CASE StopWake \/ StopReleaseCopy \/ StopReturns
  BY <1>14 DEF StopWake, StopReleaseCopy, StopReturns, TypeOK
<1>17. CASE StopReleaseSlot
  BY <1>17, PrefetchAssumption DEF StopReleaseSlot, TypeOK
<1>15. CASE Cancel
  BY <1>15 DEF Cancel, TypeOK
<1>16. CASE UNCHANGED vars
  BY <1>16 DEF vars, TypeOK
<1> QED
  BY <1>1, <1>2, <1>3, <1>4, <1>5, <1>6, <1>7, <1>8, <1>9, <1>10, <1>11,
     <1>12, <1>13, <1>14, <1>17, <1>15, <1>16 DEF Next, Loop, Stop, Ended

-----------------------------------------------------------------------------
(* Slots.                                                                      *)

LEMMA NextSlots == IInv /\ [Next]_vars => SlotAccount'
<1> SUFFICES ASSUME IInv, [Next]_vars PROVE SlotAccount'
  OBVIOUS
<1> USE DEF IInv, SlotAccount
<1>0. Cardinality(copies) \in Nat /\ slots \in Nat
  BY FS_CardinalityType, PrefetchAssumption DEF TypeOK
<1>1. CASE LoopPop \/ LoopIdle \/ LoopSeesStop \/ LoopWoken \/ LoopCancelled
  BY <1>1 DEF LoopPop, LoopIdle, LoopSeesStop, LoopWoken, LoopCancelled
<1>2. CASE LoopTakeSlot \/ LoopStopAtSlot
  BY <1>0, <1>2 DEF LoopTakeSlot, LoopStopAtSlot
<1>3. CASE UnpackStart
  <2>1. PICK d \in Dirs \ copies : copies' = copies \cup {d}
    BY <1>3 DEF UnpackStart
  <2>2. IsFiniteSet(copies') /\ Cardinality(copies') = Cardinality(copies) + 1
    BY <2>1, FS_AddElement
  <2> QED
    BY <1>0, <1>3, <2>2 DEF UnpackStart
<1>4. CASE Unpacked \/ PublishNil
  BY <1>4 DEF Unpacked, PublishNil, Publish
<1>5. CASE UnpackFailed
  <2>1. curDir \in copies
    BY <1>5 DEF UnpackFailed, OneOwner, LoopDirs
  <2>2. IsFiniteSet(copies') /\ Cardinality(copies') = Cardinality(copies) - 1
    BY <1>5, <2>1, FS_RemoveElement DEF UnpackFailed
  <2> QED
    BY <1>0, <1>5, <2>2 DEF UnpackFailed
<1>6. ASSUME NEW a \in Adders,
             AddWake(a) \/ \E games \in SUBSET Titles : Add(a, games)
      PROVE  SlotAccount'
  BY <1>6, AddFrame DEF AddWake
<1>7. ASSUME NEW k \in Titles, Take(k)
      PROVE  SlotAccount'
  BY <1>7 DEF Take, TakeUnexpected, TakeReady, TakeWait, HandOver
<1>8. CASE TakeWoken \/ TakeCancelled \/ InlineDone
  BY <1>8 DEF TakeWoken, TakeCancelled, InlineDone, HandOver
<1>9. CASE ReleaseCopy
  <2>1. takenDir \in copies
    BY <1>9 DEF ReleaseCopy, OneOwner, TakerDirs
  <2>2. IsFiniteSet(copies') /\ Cardinality(copies') = Cardinality(copies) - 1
    BY <1>9, <2>1, FS_RemoveElement DEF ReleaseCopy
  <2> QED
    BY <1>0, <1>9, <2>2 DEF ReleaseCopy
<1>10. CASE ReleaseSlot \/ StopReleaseSlot
  BY <1>0, <1>10 DEF ReleaseSlot, StopReleaseSlot
<1>11. CASE StopReleaseCopy
  <2>1. PICK d \in held : copies' = copies \ {d}
    BY <1>11 DEF StopReleaseCopy
  <2>2. d \in copies
    BY <2>1 DEF OneOwner
  <2>3. IsFiniteSet(copies') /\ Cardinality(copies') = Cardinality(copies) - 1
    BY <2>1, <2>2, FS_RemoveElement
  <2> QED
    BY <1>0, <1>11, <2>3 DEF StopReleaseCopy
<1>12. CASE StopLocked \/ StopWake \/ StopReturns
  BY <1>12 DEF StopLocked, StopWake, StopReturns
<1>13. CASE Cancel \/ UNCHANGED vars
  BY <1>13 DEF Cancel, vars
<1> QED
  BY <1>1, <1>2, <1>3, <1>4, <1>5, <1>6, <1>7, <1>8, <1>9, <1>10, <1>11,
     <1>12, <1>13 DEF Next, Loop, Stop, Ended

-----------------------------------------------------------------------------
(* Owners.                                                                     *)

LEMMA NextOwner == IInv /\ [Next]_vars => OneOwner'
<1> SUFFICES ASSUME IInv, [Next]_vars PROVE OneOwner'
  OBVIOUS
<1> USE DEF IInv, OneOwner, LoopDirs, TakerDirs, ReadyDirs
<1>1. CASE LoopPop \/ LoopIdle \/ LoopSeesStop \/ LoopWoken \/ LoopCancelled
  BY <1>1 DEF LoopPop, LoopIdle, LoopSeesStop, LoopWoken, LoopCancelled
<1>2. CASE LoopTakeSlot \/ LoopStopAtSlot
  BY <1>2 DEF LoopTakeSlot, LoopStopAtSlot
<1>3. CASE UnpackStart
  BY <1>3 DEF UnpackStart
<1>4. CASE Unpacked
  <2>1. cur \in Titles /\ ready[cur] \notin Dirs /\ curDir \in Dirs
    BY <1>4, PrefetchAssumption DEF Unpacked, OnTheWayOnce, Busy, TypeOK
  <2>2. ready' = [ready EXCEPT ![cur] = curDir]
    BY <1>4 DEF Unpacked, Publish
  <2>3. ReadyDirs' = ReadyDirs \cup {curDir}
    BY <2>1, <2>2 DEF TypeOK
  <2> QED
    BY <1>4, <2>1, <2>2, <2>3 DEF Unpacked, Publish, TypeOK
<1>5. CASE PublishNil
  <2>1. cur \in Titles /\ ready[cur] \notin Dirs
    BY <1>5, PrefetchAssumption DEF PublishNil, OnTheWayOnce, Busy
  <2>2. ready' = [ready EXCEPT ![cur] = NoSource]
    BY <1>5 DEF PublishNil, Publish
  <2>3. ReadyDirs' = ReadyDirs
    BY <2>1, <2>2, PrefetchAssumption DEF TypeOK
  <2> QED
    BY <1>5, <2>1, <2>2, <2>3, PrefetchAssumption DEF PublishNil, Publish, TypeOK
<1>6. CASE UnpackFailed
  BY <1>6 DEF UnpackFailed
<1>7. ASSUME NEW a \in Adders,
             AddWake(a) \/ \E games \in SUBSET Titles : Add(a, games)
      PROVE  OneOwner'
  BY <1>7, AddFrame DEF AddWake
<1>8. ASSUME NEW k \in Titles, taker \in {"idle", "waiting"}, HandOver(k)
      PROVE  OneOwner'
  <2>1. ready' = [ready EXCEPT ![k] = Absent]
    BY <1>8 DEF HandOver
  <2>2. ReadyDirs' = ReadyDirs \ {ready[k]}
    BY <2>1, PrefetchAssumption DEF TypeOK
  <2>3. TakerDirs = {} /\ TakerDirs' = {ready[k]} \cap Dirs
    BY <1>8 DEF HandOver
  <2> QED
    BY <1>8, <2>1, <2>2, <2>3, PrefetchAssumption DEF HandOver, TypeOK
<1>9. ASSUME NEW k \in Titles, Take(k)
      PROVE  OneOwner'
  BY <1>8, <1>9 DEF Take, TakeUnexpected, TakeReady, TakeWait
<1>10. CASE TakeWoken
  BY <1>8, <1>10 DEF TakeWoken, TakerState, TypeOK
<1>11. CASE TakeCancelled \/ InlineDone
  BY <1>11 DEF TakeCancelled, InlineDone
<1>12. CASE ReleaseCopy \/ ReleaseSlot
  BY <1>12 DEF ReleaseCopy, ReleaseSlot
<1>13. CASE StopLocked
  <2>1. ReadyDirs' = {} /\ held' = ReadyDirs /\ held = {} /\ TakerDirs = {}
    BY <1>13, PrefetchAssumption DEF StopLocked, TakerState, TypeOK
  <2> QED
    BY <1>13, <2>1, PrefetchAssumption DEF StopLocked
<1>14. CASE StopWake \/ StopReleaseSlot \/ StopReturns
  BY <1>14 DEF StopWake, StopReleaseSlot, StopReturns
<1>15. CASE StopReleaseCopy
  BY <1>15 DEF StopReleaseCopy
<1>16. CASE Cancel \/ UNCHANGED vars
  BY <1>16 DEF Cancel, vars
<1> QED
  BY <1>1, <1>2, <1>3, <1>4, <1>5, <1>6, <1>7, <1>9, <1>10, <1>11, <1>12,
     <1>13, <1>14, <1>15, <1>16 DEF Next, Loop, Stop, Ended

-----------------------------------------------------------------------------
(* The installer's own state.                                                  *)

LEMMA NextTaker == IInv /\ [Next]_vars => TakerState'
<1> SUFFICES ASSUME IInv, [Next]_vars PROVE TakerState'
  OBVIOUS
<1> USE DEF IInv, TakerState, Stopping
<1>1. CASE LoopPop \/ LoopIdle \/ LoopSeesStop \/ LoopWoken \/ LoopCancelled
  BY <1>1 DEF LoopPop, LoopIdle, LoopSeesStop, LoopWoken, LoopCancelled
<1>2. CASE LoopTakeSlot \/ LoopStopAtSlot \/ UnpackStart \/ UnpackFailed
  BY <1>2 DEF LoopTakeSlot, LoopStopAtSlot, UnpackStart, UnpackFailed
<1>3. ASSUME NEW src, src # Absent, loop \in Busy, Publish(src)
      PROVE  TakerState'
  BY <1>3 DEF Publish, OnTheWayOnce, TypeOK
<1>4. CASE Unpacked \/ PublishNil
  <2>1. curDir # Absent \/ loop # "unpack"
    BY PrefetchAssumption DEF OneOwner, LoopDirs, TypeOK
  <2> QED
    BY <1>3, <1>4, <2>1, PrefetchAssumption DEF Unpacked, PublishNil, Busy
<1>5. ASSUME NEW a \in Adders,
             AddWake(a) \/ \E games \in SUBSET Titles : Add(a, games)
      PROVE  TakerState'
  BY <1>5, AddFrame DEF AddWake
<1>6. ASSUME NEW k \in Titles, Take(k)
      PROVE  TakerState'
  BY <1>6 DEF Take, TakeUnexpected, TakeReady, TakeWait, HandOver, TypeOK
<1>7. CASE TakeWoken \/ TakeCancelled \/ InlineDone
  BY <1>7 DEF TakeWoken, TakeCancelled, InlineDone, HandOver, TypeOK
<1>8. CASE ReleaseCopy \/ ReleaseSlot
  BY <1>8 DEF ReleaseCopy, ReleaseSlot
<1>9. CASE StopLocked \/ StopWake \/ StopReleaseCopy \/ StopReleaseSlot \/ StopReturns
  BY <1>9 DEF StopLocked, StopWake, StopReleaseCopy, StopReleaseSlot, StopReturns
<1>10. CASE Cancel \/ UNCHANGED vars
  BY <1>10 DEF Cancel, vars
<1> QED
  BY <1>1, <1>2, <1>4, <1>5, <1>6, <1>7, <1>8, <1>9, <1>10
     DEF Next, Loop, Stop, Ended

-----------------------------------------------------------------------------
(* What is on its way.                                                         *)

(* An Add keeps the pending titles where they are and lists, behind them and   *)
(* once each, exactly the titles it promises.                                  *)
LEMMA AddPending ==
  ASSUME TypeOK, NEW a, NEW games \in SUBSET Titles, Add(a, games)
  PROVE  /\ Len(pending') \in Nat /\ Len(pending) <= Len(pending')
         /\ \A i \in 1..Len(pending) : pending'[i] = pending[i]
         /\ \A i \in 1..Len(pending') :
              i > Len(pending) => pending'[i] \in expect' \ expect
         /\ \A i, j \in 1..Len(pending') :
              /\ i > Len(pending) /\ j > Len(pending)
              /\ pending'[i] = pending'[j]
              => i = j
         /\ \A k \in expect' \ expect : k \in Listed(pending')
<1> DEFINE new == games \ (Loose \cup expect)
           m   == Len(pending)
<1>1. PICK s \in Orders(new) : pending' = pending \o s
  BY DEF Add
<1>2. expect' = expect \cup new
  BY DEF Add
<1>3. IsFiniteSet(new)
  BY PrefetchAssumption, FS_Subset
<1>4. /\ s \in Seq(new)
      /\ \A x : x \in new <=> \E i \in 1..Len(s) : s[i] = x
      /\ \A i, j \in 1..Len(s) : s[i] = s[j] => i = j
  BY <1>3, OrderProperties
<1>m. m = Len(pending)
  OBVIOUS
<1> HIDE DEF new, m
<1>5. s \in Seq(Titles \ Loose) /\ pending \in Seq(Titles \ Loose)
  BY <1>4, SeqMonotonic DEF TypeOK, new
<1>6. /\ m \in Nat /\ Len(s) \in Nat
      /\ Len(pending') = m + Len(s)
      /\ \A i \in 1..(m + Len(s)) :
           pending'[i] = IF i <= m THEN pending[i] ELSE s[i - m]
  BY <1>1, <1>5, <1>m, ConcatProperties, LenProperties
<1>7. new \cap expect = {}
  BY DEF new
<1>8. \A i \in 1..Len(pending') :
        i > m => i - m \in 1..Len(s) /\ pending'[i] = s[i - m]
  BY <1>6
<1>9. \A x \in new : \E i \in 1..Len(pending') : pending'[i] = x
  <2> SUFFICES ASSUME NEW x \in new
               PROVE  \E i \in 1..Len(pending') : pending'[i] = x
    OBVIOUS
  <2>1. PICK i \in 1..Len(s) : s[i] = x
    BY <1>4
  <2>2. /\ i \in Int /\ i + m \in 1..(m + Len(s))
        /\ ~(i + m <= m) /\ (i + m) - m = i
    BY <1>6, <2>1
  <2>3. pending'[i + m] = s[i]
    BY <1>6, <2>2
  <2> QED
    BY <1>6, <2>1, <2>2, <2>3
<1>10. \A i \in 1..Len(pending') : i > m => pending'[i] \in new
  BY <1>4, <1>8
<1>11. \A i, j \in 1..Len(pending') :
         i > m /\ j > m /\ pending'[i] = pending'[j] => i = j
  <2> SUFFICES ASSUME NEW i \in 1..Len(pending'), NEW j \in 1..Len(pending'),
                      i > m, j > m, pending'[i] = pending'[j]
               PROVE  i = j
    OBVIOUS
  <2>1. i - m \in 1..Len(s) /\ j - m \in 1..Len(s) /\ s[i - m] = s[j - m]
    BY <1>8
  <2>2. i - m = j - m
    BY <1>4, <2>1
  <2> QED
    BY <1>6, <2>2
<1> QED
  BY <1>2, <1>6, <1>7, <1>9, <1>10, <1>11, <1>m DEF Listed

LEMMA NextOnTheWay == IInv /\ [Next]_vars => OnTheWayOnce'
<1> SUFFICES ASSUME IInv, [Next]_vars PROVE OnTheWayOnce'
  OBVIOUS
<1> USE DEF IInv, OnTheWayOnce, Busy, InFlight
<1>0. pending \in Seq(Titles \ Loose) /\ Len(pending) \in Nat
  BY DEF TypeOK
<1>1. CASE LoopPop
  <2>1. /\ Head(pending) = pending[1] /\ Len(Tail(pending)) = Len(pending) - 1
        /\ \A i \in 1..Len(Tail(pending)) : Tail(pending)[i] = pending[i + 1]
        /\ Len(pending) >= 1
    BY <1>0, <1>1, HeadTailProperties, EmptySeq DEF LoopPop
  <2>2. /\ cur' = pending[1] /\ Len(pending') = Len(pending) - 1
        /\ \A i \in 1..Len(pending') : pending'[i] = pending[i + 1]
        /\ loop = "next" /\ loop' = "slot"
        /\ UNCHANGED << expect, ready, stopped >>
    BY <1>1, <2>1 DEF LoopPop
  <2>3. /\ pending[1] \in Titles /\ pending[1] \in expect
        /\ ready[pending[1]] = Absent /\ ~stopped
    BY <1>0, <1>1, <2>1 DEF LoopPop
  <2>4. \A i \in 1..Len(pending') : i + 1 \in 1..Len(pending) /\ i + 1 # 1
    BY <1>0, <2>1, <2>2
  <2>5. \A i, j \in 1..Len(pending') : pending'[i] = pending'[j] => i = j
    BY <2>2, <2>4
  <2>6. \A i \in 1..Len(pending') : /\ pending'[i] \in expect
                                     /\ ready[pending'[i]] = Absent
                                     /\ pending'[i] # cur'
    BY <2>1, <2>2, <2>4
  <2> QED
    BY <2>2, <2>3, <2>5, <2>6
<1>2. CASE LoopIdle \/ LoopSeesStop \/ LoopWoken \/ LoopCancelled
  BY <1>2 DEF LoopIdle, LoopSeesStop, LoopWoken, LoopCancelled
<1>3. CASE LoopTakeSlot \/ LoopStopAtSlot \/ UnpackStart \/ UnpackFailed
  BY <1>3 DEF LoopTakeSlot, LoopStopAtSlot, UnpackStart, UnpackFailed
<1>4. ASSUME NEW src, loop \in Busy, Publish(src)
      PROVE  OnTheWayOnce'
  BY <1>4 DEF Publish, TypeOK
<1>5. CASE Unpacked \/ PublishNil
  BY <1>4, <1>5 DEF Unpacked, PublishNil
<1>6. ASSUME NEW a \in Adders, AddWake(a)
      PROVE  OnTheWayOnce'
  BY <1>6 DEF AddWake
<1>7. ASSUME NEW a \in Adders, NEW games \in SUBSET Titles, Add(a, games)
      PROVE  OnTheWayOnce'
  <2>1. /\ UNCHANGED << ready, stopped, loop, cur >>
        /\ expect \subseteq expect' /\ ~stopped
    BY <1>7, AddFrame
  <2>2. /\ Len(pending') \in Nat /\ Len(pending) <= Len(pending')
        /\ \A i \in 1..Len(pending) : pending'[i] = pending[i]
        /\ \A i \in 1..Len(pending') :
             i > Len(pending) => pending'[i] \in expect' \ expect
        /\ \A i, j \in 1..Len(pending') :
             i > Len(pending) /\ j > Len(pending) /\ pending'[i] = pending'[j]
               => i = j
    BY <1>7, AddPending
  <2>3. expect' \subseteq Titles
    BY <1>7, NextType DEF TypeOK
  <2> SUFFICES ASSUME loop # "exit"
               PROVE  /\ \A i, j \in 1..Len(pending') :
                           pending'[i] = pending'[j] => i = j
                      /\ \A i \in 1..Len(pending') :
                           /\ pending'[i] \in expect'
                           /\ ready[pending'[i]] = Absent
                           /\ ~InFlight(pending'[i])
    BY <2>1
  <2>4. \A i \in 1..Len(pending') :
          \/ i \in 1..Len(pending) /\ pending'[i] = pending[i]
          \/ i > Len(pending) /\ pending'[i] \in expect' \ expect
    BY <1>0, <2>2
  <2>5. \A i \in 1..Len(pending') : /\ pending'[i] \in expect'
                                     /\ ready[pending'[i]] = Absent
                                     /\ ~InFlight(pending'[i])
    BY <2>1, <2>3, <2>4
  <2>6. \A i, j \in 1..Len(pending') : pending'[i] = pending'[j] => i = j
    BY <2>2, <2>4
  <2> QED
    BY <2>5, <2>6
<1>8. ASSUME NEW k \in Titles, HandOver(k), ready[k] # Absent \/ loop = "exit"
      PROVE  OnTheWayOnce'
  BY <1>8 DEF HandOver, TypeOK
<1>9. ASSUME NEW k \in Titles, Take(k)
      PROVE  OnTheWayOnce'
  BY <1>8, <1>9 DEF Take, TakeUnexpected, TakeReady, TakeWait
<1>10. CASE TakeWoken
  BY <1>8, <1>10 DEF TakeWoken, TakerState, TypeOK
<1>11. CASE TakeCancelled \/ InlineDone \/ ReleaseCopy \/ ReleaseSlot
  BY <1>11 DEF TakeCancelled, InlineDone, ReleaseCopy, ReleaseSlot
<1>12. CASE StopLocked
  <2>1. Len(<< >>) = 0
    BY EmptySeq
  <2> QED
    BY <1>12, <2>1 DEF StopLocked, TypeOK
<1>13. CASE StopWake \/ StopReleaseCopy \/ StopReleaseSlot \/ StopReturns
  BY <1>13 DEF StopWake, StopReleaseCopy, StopReleaseSlot, StopReturns
<1>14. CASE Cancel \/ UNCHANGED vars
  BY <1>14 DEF Cancel, vars
<1> QED
  BY <1>1, <1>2, <1>3, <1>5, <1>6, <1>7, <1>9, <1>10, <1>11, <1>12,
     <1>13, <1>14 DEF Next, Loop, Stop, Ended

-----------------------------------------------------------------------------
(* Promises.                                                                   *)

LEMMA NextPromise == IInv /\ [Next]_vars => PromiseKept'
<1> SUFFICES ASSUME IInv, [Next]_vars PROVE PromiseKept'
  OBVIOUS
<1> USE DEF IInv, PromiseKept, InFlight, Listed
<1>0. pending \in Seq(Titles \ Loose) /\ expect \subseteq Titles
  BY DEF TypeOK
<1>1. CASE LoopPop
  <2>1. /\ Head(pending) = pending[1] /\ Len(Tail(pending)) = Len(pending) - 1
        /\ \A i \in 1..Len(Tail(pending)) : Tail(pending)[i] = pending[i + 1]
        /\ Len(pending) \in Nat
    BY <1>0, <1>1, HeadTailProperties DEF LoopPop
  <2>2. \A i \in 1..Len(pending) :
          pending[i] = cur' \/ \E j \in 1..Len(pending') : pending'[j] = pending[i]
    <3> SUFFICES ASSUME NEW i \in 1..Len(pending), i # 1
                 PROVE  \E j \in 1..Len(pending') : pending'[j] = pending[i]
      BY <1>1, <2>1 DEF LoopPop
    <3>1. i - 1 \in 1..Len(Tail(pending)) /\ (i - 1) + 1 = i
      BY <2>1
    <3> QED
      BY <1>1, <2>1, <3>1 DEF LoopPop
  <2>3. loop = "next" /\ loop' = "slot" /\ UNCHANGED << expect, ready >>
    BY <1>1 DEF LoopPop
  <2> QED
    BY <2>2, <2>3
<1>2. CASE LoopIdle \/ LoopSeesStop \/ LoopWoken \/ LoopCancelled
  BY <1>2 DEF LoopIdle, LoopSeesStop, LoopWoken, LoopCancelled
<1>3. CASE LoopTakeSlot \/ LoopStopAtSlot \/ UnpackStart \/ UnpackFailed
  BY <1>3 DEF LoopTakeSlot, LoopStopAtSlot, UnpackStart, UnpackFailed
<1>4. ASSUME NEW src, src # Absent, loop \in Busy, Publish(src)
      PROVE  PromiseKept'
  BY <1>0, <1>4 DEF Publish, TypeOK, Busy
<1>5. CASE Unpacked \/ PublishNil
  <2>1. curDir # Absent \/ loop # "unpack"
    BY PrefetchAssumption DEF OneOwner, LoopDirs, TypeOK
  <2> QED
    BY <1>4, <1>5, <2>1, PrefetchAssumption DEF Unpacked, PublishNil, Busy
<1>6. ASSUME NEW a \in Adders, AddWake(a)
      PROVE  PromiseKept'
  BY <1>6 DEF AddWake
<1>7. ASSUME NEW a \in Adders, NEW games \in SUBSET Titles, Add(a, games)
      PROVE  PromiseKept'
  <2>1. UNCHANGED << ready, stopped, loop, cur >>
    BY <1>7, AddFrame
  <2>2. /\ Len(pending) \in Nat /\ Len(pending') \in Nat
        /\ Len(pending) <= Len(pending')
        /\ \A i \in 1..Len(pending) : pending'[i] = pending[i]
        /\ \A k \in expect' \ expect : k \in Listed(pending')
    BY <1>0, <1>7, AddPending
  <2>3. \A k \in Listed(pending) : k \in Listed(pending')
    BY <2>2
  <2> QED
    BY <2>1, <2>2, <2>3
<1>8. ASSUME NEW k \in Titles, HandOver(k)
      PROVE  PromiseKept'
  BY <1>0, <1>8 DEF HandOver, TypeOK
<1>9. ASSUME NEW k \in Titles, Take(k)
      PROVE  PromiseKept'
  BY <1>8, <1>9 DEF Take, TakeUnexpected, TakeReady, TakeWait
<1>10. CASE TakeWoken
  BY <1>8, <1>10 DEF TakeWoken, TakerState, TypeOK
<1>11. CASE TakeCancelled \/ InlineDone \/ ReleaseCopy \/ ReleaseSlot
  BY <1>11 DEF TakeCancelled, InlineDone, ReleaseCopy, ReleaseSlot
<1>12. CASE StopLocked
  BY <1>12 DEF StopLocked
<1>13. CASE StopWake \/ StopReleaseCopy \/ StopReleaseSlot \/ StopReturns
  BY <1>13 DEF StopWake, StopReleaseCopy, StopReleaseSlot, StopReturns
<1>14. CASE Cancel \/ UNCHANGED vars
  BY <1>14 DEF Cancel, vars
<1> QED
  BY <1>1, <1>2, <1>3, <1>5, <1>6, <1>7, <1>9, <1>10, <1>11, <1>12,
     <1>13, <1>14 DEF Next, Loop, Stop, Ended

LEMMA NextLast == IInv /\ [Next]_vars => LastPublished'
<1> SUFFICES ASSUME IInv, [Next]_vars PROVE LastPublished'
  OBVIOUS
<1> USE DEF IInv, LastPublished, Busy
<1>1. CASE LoopPop \/ LoopIdle \/ LoopSeesStop \/ LoopWoken \/ LoopCancelled
  BY <1>1 DEF LoopPop, LoopIdle, LoopSeesStop, LoopWoken, LoopCancelled
<1>2. CASE LoopTakeSlot \/ LoopStopAtSlot \/ UnpackStart \/ UnpackFailed
  BY <1>2 DEF LoopTakeSlot, LoopStopAtSlot, UnpackStart, UnpackFailed
<1>3. CASE Unpacked \/ PublishNil
  BY <1>3 DEF Unpacked, PublishNil, Publish, TypeOK
<1>4. ASSUME NEW a \in Adders,
             AddWake(a) \/ \E games \in SUBSET Titles : Add(a, games)
      PROVE  LastPublished'
  BY <1>4, AddFrame DEF AddWake
<1>5. CASE \/ \E k \in Titles : Take(k)
           \/ TakeWoken \/ TakeCancelled \/ InlineDone \/ ReleaseCopy \/ ReleaseSlot
  <2>1. ~stopped /\ stopped' = stopped
    BY <1>5 DEF Take, TakeUnexpected, TakeReady, TakeWait, TakeWoken, TakeCancelled,
                InlineDone, ReleaseCopy, ReleaseSlot, HandOver, TakerState, Stopping
  <2> QED
    BY <2>1
<1>6. CASE StopLocked
  BY <1>6 DEF StopLocked
<1>7. CASE StopWake \/ StopReleaseCopy \/ StopReleaseSlot \/ StopReturns
  BY <1>7 DEF StopWake, StopReleaseCopy, StopReleaseSlot, StopReturns
<1>8. CASE Cancel \/ UNCHANGED vars
  BY <1>8 DEF Cancel, vars
<1> QED
  BY <1>1, <1>2, <1>3, <1>4, <1>5, <1>6, <1>7, <1>8 DEF Next, Loop, Stop, Ended

-----------------------------------------------------------------------------
(* The theorems.                                                               *)

LEMMA InitInv == Init => IInv
<1> SUFFICES ASSUME Init PROVE IInv
  OBVIOUS
<1>1. Len(<< >>) = 0 /\ IsFiniteSet({}) /\ Cardinality({}) = 0
  BY FS_EmptySet, EmptySeq
<1>2. SlotAccount
  BY <1>1 DEF Init, SlotAccount
<1>3. OneOwner
  BY PrefetchAssumption DEF Init, OneOwner, LoopDirs, TakerDirs, ReadyDirs
<1>4. TakerState /\ PromiseKept /\ LastPublished
  BY DEF Init, TakerState, Stopping, PromiseKept, LastPublished
<1>5. OnTheWayOnce
  BY <1>1 DEF Init, OnTheWayOnce, Busy
<1> QED
  BY InitType, <1>2, <1>3, <1>4, <1>5 DEF IInv

THEOREM InductiveInvariant == Spec => []IInv
<1>1. IInv /\ [Next]_vars => IInv'
  BY NextType, NextSlots, NextOwner, NextTaker, NextOnTheWay, NextPromise,
     NextLast DEF IInv
<1> QED
  BY InitInv, <1>1, PTL DEF Spec

(* Every variable keeps its type, whatever the goroutines interleave.          *)
THEOREM TypeCorrect == Spec => []TypeOK
<1>1. IInv => TypeOK
  BY DEF IInv
<1> QED
  BY InductiveInvariant, <1>1, PTL

(* Every scratch directory the loop made has exactly one owner, so no copy is  *)
(* handed over twice and none is removed while it is installed from.           *)
THEOREM CopiesOwned == Spec => []OneOwner
<1>1. IInv => OneOwner
  BY DEF IInv
<1> QED
  BY InductiveInvariant, <1>1, PTL

(* The disk budget of unpacking ahead: never more than Depth copies.           *)
THEOREM Budget == Spec => []SlotBudget
<1>1. IInv => SlotBudget
  <2> SUFFICES ASSUME IInv PROVE SlotBudget
    OBVIOUS
  <2>1. Cardinality(copies) \in Nat /\ slots \in 0..Depth
    BY FS_CardinalityType DEF IInv, SlotAccount, TypeOK
  <2> QED
    BY <2>1, PrefetchAssumption DEF IInv, SlotAccount, SlotBudget
<1> QED
  BY InductiveInvariant, <1>1, PTL

(* The guard of Take does what its comment says: no Take blocks on a title     *)
(* that will never arrive.                                                     *)
THEOREM TakeNeverInVain == Spec => []NoVainWait
<1>1. IInv => NoVainWait
  BY DEF IInv, NoVainWait, TakerState, PromiseKept
<1> QED
  BY InductiveInvariant, <1>1, PTL

(* A sleeping loop that has something to do is about to be woken.              *)
THEOREM WakeNeverLost == Spec => []NoLostWake
<1>1. Init => NoLostWake
  BY DEF Init, NoLostWake
<1>2. IInv /\ NoLostWake /\ [Next]_vars => NoLostWake'
  <2> SUFFICES ASSUME IInv, NoLostWake, [Next]_vars PROVE NoLostWake'
    OBVIOUS
  <2> USE DEF NoLostWake
  <2>0. adder \in [Adders -> {"idle", "wake"}]
    BY DEF IInv, TypeOK
  <2>1. CASE Loop
    BY <2>1 DEF Loop, LoopPop, LoopIdle, LoopSeesStop, LoopWoken, LoopCancelled,
                LoopTakeSlot, LoopStopAtSlot, UnpackStart, Unpacked, UnpackFailed,
                PublishNil, Publish
  <2>2. ASSUME NEW a \in Adders, NEW games, Add(a, games)
        PROVE  NoLostWake'
    <3>1. adder'[a] = "wake"
      BY <2>0, <2>2 DEF Add
    <3> QED
      BY <3>1
  <2>3. ASSUME NEW a \in Adders, AddWake(a)
        PROVE  NoLostWake'
    BY <2>3 DEF AddWake
  <2>4. CASE \/ \E k \in Titles : Take(k)
             \/ TakeWoken \/ TakeCancelled \/ InlineDone \/ ReleaseCopy \/ ReleaseSlot
    <3>1. UNCHANGED << loop, pending, stopped, wake, adder >> /\ taker # "stopWake"
      BY <2>4 DEF Take, TakeUnexpected, TakeReady, TakeWait, TakeWoken,
                  TakeCancelled, InlineDone, ReleaseCopy, ReleaseSlot, HandOver
    <3> QED
      BY <3>1
  <2>5. CASE Stop
    BY <2>5 DEF Stop, StopLocked, StopWake, StopReleaseCopy, StopReleaseSlot,
                StopReturns
  <2>6. CASE Cancel \/ UNCHANGED vars
    BY <2>6 DEF Cancel, vars
  <2> QED
    BY <2>1, <2>2, <2>3, <2>4, <2>5, <2>6 DEF Next, Ended
<1> QED
  BY InductiveInvariant, <1>1, <1>2, PTL DEF Spec

(* When everything has ended, Stop has left at most one copy behind.           *)
THEOREM AtMostOneLeft == Spec => []StopLeavesAtMostOne
<1>1. IInv => StopLeavesAtMostOne
  <2> SUFFICES ASSUME IInv, Finished PROVE Cardinality(copies) <= 1
    BY DEF StopLeavesAtMostOne
  <2>1. stopped /\ held = {} /\ LoopDirs = {} /\ TakerDirs = {}
    BY DEF Finished, IInv, TakerState, Stopping, LoopDirs, TakerDirs
  <2>2. copies = ReadyDirs
    BY <2>1 DEF IInv, OneOwner
  <2>3. \A c, d \in ReadyDirs : c = d
    BY <2>1, PrefetchAssumption DEF ReadyDirs, IInv, LastPublished
  <2>4. CASE copies = {}
    BY <2>4, FS_EmptySet
  <2>5. CASE copies # {}
    <3>1. PICK d \in copies : TRUE
      BY <2>5
    <3>2. copies = {d}
      BY <2>2, <2>3, <3>1
    <3> QED
      BY <3>2, FS_Singleton
  <2> QED
    BY <2>4, <2>5
<1> QED
  BY InductiveInvariant, <1>1, PTL

-----------------------------------------------------------------------------
(* Refinement.                                                                 *)

(* The owners decide the stage, and every copy on disk is at one.              *)
LEMMA StageOfCopy ==
  ASSUME IInv
  PROVE  /\ Stage \in [Dirs -> {"free", "unpacking", "ready", "handed"}]
         /\ \A d \in Dirs :
              /\ Stage[d] = "unpacking" <=> d \in LoopDirs
              /\ Stage[d] = "handed"    <=> d \in TakerDirs
              /\ Stage[d] = "ready"     <=> d \in ReadyDirs \cup held
              /\ Stage[d] # "free"      <=> d \in copies
BY DEF Stage, IInv, OneOwner

(* A step that moves only d changes the stage of d and nothing else.           *)
LEMMA StageMove ==
  ASSUME IInv, IInv', NEW d \in Dirs, NEW to,
         Stage'[d] = to,
         \A e \in Dirs \ {d} :
           /\ e \in LoopDirs  <=> e \in LoopDirs'
           /\ e \in TakerDirs <=> e \in TakerDirs'
           /\ e \in ReadyDirs \cup held <=> e \in ReadyDirs' \cup held'
  PROVE  Stage' = [Stage EXCEPT ![d] = to]
<1>1. /\ Stage  \in [Dirs -> {"free", "unpacking", "ready", "handed"}]
      /\ Stage' \in [Dirs -> {"free", "unpacking", "ready", "handed"}]
  BY StageOfCopy DEF Stage
<1>2. \A e \in Dirs \ {d} : Stage'[e] = Stage[e]
  <2> SUFFICES ASSUME NEW e \in Dirs \ {d} PROVE Stage'[e] = Stage[e]
    OBVIOUS
  <2> DEFINE L == e \in LoopDirs
             T == e \in TakerDirs
             R == e \in ReadyDirs \cup held
  <2>1. Stage[e] = CASE L -> "unpacking" [] T -> "handed" [] R -> "ready" [] OTHER -> "free"
    BY DEF Stage
  <2>2. Stage'[e] = CASE L' -> "unpacking" [] T' -> "handed" [] R' -> "ready" [] OTHER -> "free"
    BY DEF Stage
  <2>3. (L <=> L') /\ (T <=> T') /\ (R <=> R')
    OBVIOUS
  <2> HIDE DEF L, T, R
  <2> QED
    BY <2>1, <2>2, <2>3
<1> QED
  BY <1>1, <1>2

LEMMA StageSame ==
  ASSUME LoopDirs' = LoopDirs, TakerDirs' = TakerDirs,
         ReadyDirs' \cup held' = ReadyDirs \cup held
  PROVE  Stage' = Stage
BY DEF Stage

LEMMA StepRefines == IInv /\ IInv' /\ [Next]_vars => [Copies!Next]_Stage
<1> SUFFICES ASSUME IInv, IInv', [Next]_vars PROVE [Copies!Next]_Stage
  OBVIOUS
<1> USE DEF LoopDirs, TakerDirs, ReadyDirs
<1>0. TypeOK /\ OneOwner
  BY DEF IInv
<1>1. CASE LoopPop \/ LoopIdle \/ LoopSeesStop \/ LoopWoken \/ LoopCancelled
           \/ LoopTakeSlot \/ LoopStopAtSlot
  BY <1>1, StageSame DEF LoopPop, LoopIdle, LoopSeesStop, LoopWoken, LoopCancelled,
                         LoopTakeSlot, LoopStopAtSlot
<1>2. CASE UnpackStart
  <2>1. PICK d \in Dirs \ copies : curDir' = d
    BY <1>2 DEF UnpackStart
  <2>2. LoopDirs = {} /\ LoopDirs' = {d} /\ UNCHANGED << TakerDirs, ReadyDirs, held >>
    BY <1>2, <2>1 DEF UnpackStart
  <2>8. d \notin TakerDirs \cup ReadyDirs \cup held
    BY <1>0, <2>1 DEF OneOwner
  <2> HIDE DEF LoopDirs, TakerDirs, ReadyDirs
  <2>3. Stage'[d] = "unpacking"
    BY <2>2, <2>8 DEF Stage
  <2>4. Stage' = [Stage EXCEPT ![d] = "unpacking"]
    BY <2>2, <2>3, StageMove
  <2>5. Stage[d] = "free" /\ Copies!OnDisk = copies
    BY <1>0, StageOfCopy DEF Copies!OnDisk, TypeOK
  <2>6. Cardinality(copies) < Depth
    <3>1. Cardinality(copies) \in Nat
      BY FS_CardinalityType DEF IInv, SlotAccount
    <3>2. slots >= Cardinality(copies) + 1 /\ slots \in 0..Depth
      BY <1>0, <1>2, <3>1 DEF UnpackStart, IInv, SlotAccount, TypeOK
    <3> QED
      BY <3>1, <3>2, PrefetchAssumption
  <2>7. Copies!Unpack(d)
    BY <2>4, <2>5, <2>6 DEF Copies!Unpack, Copies!OnDisk, Copies!Cardinality, Cardinality
  <2> QED
    BY <2>7 DEF Copies!Next
<1>3. CASE Unpacked
  <2>1. /\ cur \in Titles /\ curDir \in Dirs /\ ready[cur] = Absent
        /\ ready' = [ready EXCEPT ![cur] = curDir]
        /\ loop = "unpack" /\ loop' = "next" /\ UNCHANGED << taker, takenDir, held >>
    BY <1>0, <1>3 DEF Unpacked, Publish, IInv, OnTheWayOnce, Busy, OneOwner, TypeOK
  <2>2. ReadyDirs' = ReadyDirs \cup {curDir}
    BY <1>0, <2>1, PrefetchAssumption DEF TypeOK
  <2>3. LoopDirs = {curDir} /\ LoopDirs' = {} /\ UNCHANGED << TakerDirs, held >>
    BY <2>1
  <2>4. curDir \notin TakerDirs
    BY <1>0, <2>3 DEF OneOwner
  <2> HIDE DEF LoopDirs, TakerDirs, ReadyDirs
  <2>5. Stage'[curDir] = "ready"
    BY <2>1, <2>2, <2>3, <2>4 DEF Stage
  <2>6. Stage' = [Stage EXCEPT ![curDir] = "ready"]
    BY <2>1, <2>2, <2>3, <2>5, StageMove
  <2>7. Stage[curDir] = "unpacking"
    BY <2>1, <2>3, StageOfCopy
  <2> QED
    BY <2>1, <2>6, <2>7 DEF Copies!Next, Copies!Finish
<1>4. CASE PublishNil
  <2>1. /\ cur \in Titles /\ ready[cur] = Absent
        /\ ready' = [ready EXCEPT ![cur] = NoSource]
        /\ loop = "failed" /\ loop' = "next" /\ UNCHANGED << taker, takenDir, held >>
    BY <1>4 DEF PublishNil, Publish, IInv, OnTheWayOnce, Busy
  <2>2. ReadyDirs' = ReadyDirs
    BY <1>0, <2>1, PrefetchAssumption DEF TypeOK
  <2> QED
    BY <2>1, <2>2, StageSame
<1>5. CASE UnpackFailed
  <2>1. curDir \in Dirs /\ LoopDirs = {curDir} /\ LoopDirs' = {}
        /\ UNCHANGED << TakerDirs, ReadyDirs, held >>
    BY <1>0, <1>5 DEF UnpackFailed, OneOwner, TypeOK
  <2>2. curDir \notin TakerDirs \cup ReadyDirs \cup held
    BY <1>0, <2>1 DEF OneOwner
  <2> HIDE DEF LoopDirs, TakerDirs, ReadyDirs
  <2>3. Stage'[curDir] = "free"
    BY <2>1, <2>2 DEF Stage
  <2>4. Stage' = [Stage EXCEPT ![curDir] = "free"]
    BY <2>1, <2>3, StageMove
  <2> QED
    BY <2>1, <2>4, StageOfCopy DEF Copies!Next, Copies!Fail
<1>6. ASSUME NEW a \in Adders,
             AddWake(a) \/ \E games \in SUBSET Titles : Add(a, games)
      PROVE  [Copies!Next]_Stage
  BY <1>6, AddFrame, StageSame DEF AddWake
<1>7. ASSUME NEW k \in Titles, taker \in {"idle", "waiting"}, HandOver(k)
      PROVE  [Copies!Next]_Stage
  <2>1. /\ ready' = [ready EXCEPT ![k] = Absent]
        /\ UNCHANGED << LoopDirs, held >>
        /\ TakerDirs = {} /\ TakerDirs' = {ready[k]} \cap Dirs
    BY <1>7 DEF HandOver
  <2>2. ReadyDirs' = ReadyDirs \ {ready[k]}
    BY <1>0, <2>1, PrefetchAssumption DEF OneOwner, TypeOK
  <2>3. CASE ready[k] \notin Dirs
    BY <2>1, <2>2, <2>3, StageSame
  <2>4. CASE ready[k] \in Dirs
    <3> DEFINE d == ready[k]
    <3>1. d \in ReadyDirs /\ d \notin LoopDirs /\ d \notin held
      BY <1>0, <2>4 DEF OneOwner
    <3> HIDE DEF LoopDirs, TakerDirs, ReadyDirs
    <3>2. Stage'[d] = "handed"
      BY <2>1, <2>2, <2>4, <3>1 DEF Stage
    <3>3. Stage' = [Stage EXCEPT ![d] = "handed"]
      BY <2>1, <2>2, <2>4, <3>2, StageMove
    <3>4. Stage[d] = "ready" /\ \A e \in Dirs : Stage[e] # "handed"
      BY <2>1, <2>4, <3>1, StageOfCopy
    <3> QED
      BY <2>4, <3>3, <3>4 DEF Copies!Next, Copies!Hand
  <2> QED
    BY <2>3, <2>4
<1>8. ASSUME NEW k \in Titles, Take(k)
      PROVE  [Copies!Next]_Stage
  <2>1. CASE TakeReady(k)
    BY <1>7, <2>1 DEF TakeReady
  <2>2. CASE TakeUnexpected(k) \/ TakeWait(k)
    BY <2>2, StageSame DEF TakeUnexpected, TakeWait
  <2> QED
    BY <1>8, <2>1, <2>2 DEF Take
<1>9. CASE TakeWoken
  <2>1. taking \in Titles
    BY <1>0, <1>9 DEF TakeWoken, TypeOK, IInv, TakerState
  <2> QED
    BY <1>7, <1>9, <2>1 DEF TakeWoken
<1>10. CASE TakeCancelled \/ InlineDone \/ ReleaseSlot
  BY <1>10, StageSame DEF TakeCancelled, InlineDone, ReleaseSlot
<1>11. CASE ReleaseCopy
  <2>1. takenDir \in Dirs /\ TakerDirs = {takenDir} /\ TakerDirs' = {}
        /\ UNCHANGED << LoopDirs, ReadyDirs, held >>
    BY <1>0, <1>11 DEF ReleaseCopy, OneOwner, TypeOK
  <2>2. takenDir \notin LoopDirs \cup ReadyDirs \cup held
    BY <1>0, <2>1 DEF OneOwner
  <2> HIDE DEF LoopDirs, TakerDirs, ReadyDirs
  <2>3. Stage'[takenDir] = "free"
    BY <2>1, <2>2 DEF Stage
  <2>4. Stage' = [Stage EXCEPT ![takenDir] = "free"]
    BY <2>1, <2>3, StageMove
  <2> QED
    BY <2>1, <2>4, StageOfCopy DEF Copies!Next, Copies!Return
<1>12. CASE StopLocked
  <2>1. /\ held = {} /\ held' = ReadyDirs /\ ReadyDirs' = {}
        /\ UNCHANGED << LoopDirs, TakerDirs >>
    BY <1>0, <1>12, PrefetchAssumption DEF StopLocked, IInv, TakerState, TypeOK
  <2> QED
    BY <2>1, StageSame
<1>13. CASE StopWake \/ StopReleaseSlot \/ StopReturns
  BY <1>13, StageSame DEF StopWake, StopReleaseSlot, StopReturns
<1>14. CASE StopReleaseCopy
  <2>1. PICK d \in held : held' = held \ {d}
    BY <1>14 DEF StopReleaseCopy
  <2>2. d \in Dirs /\ UNCHANGED << LoopDirs, TakerDirs, ReadyDirs >>
    BY <1>0, <1>14 DEF StopReleaseCopy, TypeOK
  <2>3. d \notin LoopDirs \cup TakerDirs \cup ReadyDirs
    BY <1>0, <2>1 DEF OneOwner
  <2> HIDE DEF LoopDirs, TakerDirs, ReadyDirs
  <2>4. Stage'[d] = "free"
    BY <2>1, <2>2, <2>3 DEF Stage
  <2>5. Stage' = [Stage EXCEPT ![d] = "free"]
    BY <2>1, <2>2, <2>4, StageMove
  <2>6. Stage[d] = "ready"
    BY <2>1, <2>2, StageOfCopy
  <2> QED
    BY <2>2, <2>5, <2>6 DEF Copies!Next, Copies!Discard
<1>15. CASE Cancel \/ UNCHANGED vars
  BY <1>15, StageSame DEF Cancel, vars
<1> QED
  BY <1>1, <1>2, <1>3, <1>4, <1>5, <1>6, <1>8, <1>9, <1>10, <1>11, <1>12,
     <1>13, <1>14, <1>15 DEF Next, Loop, Stop, Ended

(* The prefetcher implements ScratchCopies.                                    *)
THEOREM ImplementsCopies == Spec => CopyLifecycle
<1>1. Init => Copies!Init
  BY PrefetchAssumption
     DEF Init, Copies!Init, Stage, LoopDirs, TakerDirs, ReadyDirs
<1> QED
  BY InductiveInvariant, <1>1, StepRefines, PTL DEF Spec, CopyLifecycle, Copies!Spec

-----------------------------------------------------------------------------
(* The batch.  Its properties rest on nothing of the prefetcher's but that the *)
(* context, once cancelled, stays so; but each of its steps has to be one the  *)
(* prefetcher knows, and a title is taken only while there is one.             *)

(* Where the run is in its plan.                                               *)
PlaceInPlan ==
  /\ next \in 1 .. Len(Plan) + 1
  /\ phase \in {"add", "wake", "next", "check", "source", "taking", "write", "release",
                "stop", "done"}
  /\ phase \in {"check", "source", "taking", "write", "release"} => next <= Len(Plan)
  /\ phase \in {"stop", "done"} /\ ~cancelled => next > Len(Plan)
  /\ (cancelled => ctxDone)

(* A title is behind the run once it has been installed, refused, failed or     *)
(* skipped; the one in hand is from its write on.                              *)
Behind(i) == i < next \/ (i = next /\ phase = "release")

AnsweredSoFar ==
  /\ \A i \in 1 .. Len(Plan) : Behind(i) =>
       Plan[i] \in installed \cup failed \cup onDrive \/ ctxDone
  /\ \A k \in installed \cup failed : \E i \in 1 .. Len(Plan) : Behind(i) /\ Plan[i] = k
  /\ installed \cap failed = {}
  /\ installed \subseteq onDrive

BInv == PlaceInPlan /\ AnsweredSoFar

\* A plan lists titles, each once.
LEMMA PlanLists ==
  /\ Len(Plan) \in Nat
  /\ \A i \in 1 .. Len(Plan) : Plan[i] \in Titles
  /\ \A i, j \in 1 .. Len(Plan) : Plan[i] = Plan[j] => i = j
<1>1. Plan \in Seq(Titles) /\ DOMAIN Plan = 1 .. Len(Plan)
  BY BatchAssumption, LenProperties
<1> QED BY <1>1, BatchAssumption, LenProperties, ElementOfSeq DEF IsInjective

\* A run that neither moves in its plan nor answers a title.
LEMMA BatchQuiet ==
  ASSUME BInv, ctxDone => ctxDone',
         UNCHANGED << onDrive, next, installed, failed >>,
         \/ UNCHANGED << phase, cancelled >>
         \/ /\ phase # "release" /\ (cancelled' => ctxDone')
            /\ phase' \in {"wake", "next", "check", "source", "taking", "write", "stop", "done"}
            /\ phase' \in {"check", "source", "taking", "write"} => next <= Len(Plan)
            /\ phase' \in {"stop", "done"} /\ ~cancelled' => next > Len(Plan)
  PROVE  BInv'
<1> USE DEF BInv, PlaceInPlan
<1>1. PlaceInPlan'
  OBVIOUS
<1>2. \A i \in 1 .. Len(Plan) : Behind(i)' <=> Behind(i)
  BY DEF Behind
<1>3. AnsweredSoFar'
  BY <1>2 DEF AnsweredSoFar
<1> QED BY <1>1, <1>3

\* One title is answered: installed, failed, found on the drive, or given up.
LEMMA TitleAnswered ==
  ASSUME BInv, next <= Len(Plan), phase # "release", UNCHANGED ctxDone,
         onDrive \subseteq onDrive', cancelled' => ctxDone,
         \/ Succeed /\ onDrive' = onDrive \cup {title}
         \/ Fail
         \/ Skip /\ title \in onDrive
         \/ Abandon /\ ctxDone,
         \/ next' = next + 1 /\ phase' = IF cancelled' THEN "stop" ELSE "next"
         \/ next' = next /\ phase' = "release"
  PROVE  BInv'
<1> USE DEF BInv, PlaceInPlan
<1>1. next \in 1 .. Len(Plan) /\ Len(Plan) \in Nat
  BY PlanLists
<1>2. PlaceInPlan'
  BY <1>1
<1>3. \A i \in 1 .. Len(Plan) : Behind(i)' <=> Behind(i) \/ i = next
  BY <1>1 DEF Behind
<1>4. title \notin installed \cup failed
  BY <1>1, PlanLists DEF AnsweredSoFar, Behind, title
<1>5. /\ installed \subseteq installed' /\ failed \subseteq failed'
      /\ installed' \cup failed' \subseteq installed \cup failed \cup {title}
      /\ installed' \cap failed' = {} /\ installed' \subseteq onDrive'
      /\ title \in installed' \cup failed' \cup onDrive' \/ ctxDone
  BY <1>4 DEF AnsweredSoFar, Succeed, Fail, Skip, Abandon, report
<1>6. AnsweredSoFar'
  <2>1. \A i \in 1 .. Len(Plan) : Behind(i)' =>
          Plan[i] \in installed' \cup failed' \cup onDrive' \/ ctxDone'
    BY <1>3, <1>5 DEF AnsweredSoFar, title
  <2>2. \A k \in installed' \cup failed' : \E i \in 1 .. Len(Plan) : Behind(i)' /\ Plan[i] = k
    BY <1>1, <1>3, <1>5 DEF AnsweredSoFar, title
  <2> QED BY <1>5, <2>1, <2>2 DEF AnsweredSoFar
<1> QED BY <1>2, <1>6

\* What the prefetcher and its loop do leaves the context alone; a signal cancels it.
LEMMA ContextStays ==
  /\ Loop \/ Stop \/ Add(Batch, Range(Plan)) \/ AddWake(Batch) => UNCHANGED ctxDone
  /\ \A k : Take(k) => UNCHANGED ctxDone
  /\ TakeWoken \/ TakeCancelled \/ InlineDone \/ ReleaseCopy \/ ReleaseSlot
       => UNCHANGED ctxDone
<1>1. Loop => UNCHANGED ctxDone
  BY DEF Loop, LoopPop, LoopIdle, LoopSeesStop, LoopWoken, LoopCancelled, LoopTakeSlot,
     LoopStopAtSlot, UnpackStart, Unpacked, UnpackFailed, PublishNil, Publish
<1>2. Stop => UNCHANGED ctxDone
  BY DEF Stop, StopLocked, StopWake, StopReleaseCopy, StopReleaseSlot, StopReturns
<1>3. \A k : Take(k) => UNCHANGED ctxDone
  BY DEF Take, TakeUnexpected, TakeReady, TakeWait, HandOver
<1>4. TakeWoken \/ TakeCancelled \/ InlineDone \/ ReleaseCopy \/ ReleaseSlot => UNCHANGED ctxDone
  BY DEF TakeWoken, HandOver, TakeCancelled, InlineDone, ReleaseCopy, ReleaseSlot
<1> QED BY <1>1, <1>2, <1>3, <1>4 DEF Add, AddWake

LEMMA InitBatch == BatchInit => BInv
<1> SUFFICES ASSUME BatchInit PROVE BInv
  OBVIOUS
<1>1. next = 1 /\ phase = "add" /\ installed = {} /\ failed = {} /\ cancelled = FALSE /\ ctxDone = FALSE
  BY DEF BatchInit, Init
<1> QED BY <1>1, PlanLists DEF BInv, PlaceInPlan, AnsweredSoFar, Behind

LEMMA NextBatch == BInv /\ [BatchNext]_allVars => BInv'
<1> SUFFICES ASSUME BInv, [BatchNext]_allVars PROVE BInv'
  OBVIOUS
<1>0. PlaceInPlan /\ next \in Nat /\ Len(Plan) \in Nat
  BY PlanLists DEF BInv, PlaceInPlan
<1>1. CASE BatchAdd \/ BatchAddWake \/ BeginTitle
  <2>1. UNCHANGED << ctxDone, onDrive, next, installed, failed >>
    BY <1>1, ContextStays DEF BatchAdd, BatchAddWake, BeginTitle, vars, report
  <2>2. /\ phase # "release" /\ (cancelled' => ctxDone)
        /\ phase' \in {"wake", "next", "check", "stop"}
        /\ phase' = "check" => next <= Len(Plan)
        /\ phase' = "stop" /\ ~cancelled' => next > Len(Plan)
    BY <1>0, <1>1 DEF BatchAdd, BatchAddWake, BeginTitle, report, PlaceInPlan
  <2> QED BY <1>0, <2>1, <2>2, BatchQuiet
<1>2. CASE Refuse
  <2>1. phase = "check" /\ UNCHANGED << ctxDone, onDrive >> /\ Advance
    BY <1>2 DEF Refuse, vars
  <2>2. (title \in onDrive /\ Skip) \/ Fail \/ (ctxDone /\ Abandon)
    BY <1>2 DEF Refuse, Interrupted
  <2>3. (cancelled' => ctxDone)
    BY <1>0, <2>2 DEF PlaceInPlan, Skip, Fail, Abandon, report
  <2> QED BY <1>0, <2>1, <2>2, <2>3, TitleAnswered
     DEF Advance, PlaceInPlan, Succeed, Fail, Skip, Abandon, report
<1>3. CASE Accept \/ SourceLoose \/ SourceTake \/ SourceTaken
  <2>1. UNCHANGED << ctxDone, onDrive, next, installed, failed, cancelled >>
    BY <1>3, ContextStays DEF Accept, SourceLoose, SourceTake, SourceTaken, vars, report
  <2>2. phase \in {"check", "source", "taking"} /\ phase' \in {"source", "taking", "write"}
    BY <1>3 DEF Accept, SourceLoose, SourceTake, SourceTaken
  <2> QED BY <1>0, <2>1, <2>2, BatchQuiet DEF PlaceInPlan
<1>4. CASE InlineFails
  <2>1. phase = "write" /\ UNCHANGED << ctxDone, onDrive >> /\ Advance
    BY <1>4, ContextStays DEF InlineFails
  <2>2. Fail \/ (ctxDone /\ Abandon)
    BY <1>4 DEF InlineFails, Interrupted
  <2>3. (cancelled' => ctxDone)
    BY <1>0, <2>2 DEF PlaceInPlan, Fail, Abandon
  <2> QED BY <1>0, <2>1, <2>2, <2>3, TitleAnswered
     DEF Advance, PlaceInPlan, Succeed, Fail, Skip, Abandon, report
<1>5. CASE Write
  <2>1. phase = "write" /\ phase' = "release" /\ UNCHANGED << ctxDone, next >>
        /\ onDrive \subseteq onDrive'
    BY <1>5 DEF Write, vars
  <2>2. (Succeed /\ onDrive' = onDrive \cup {title}) \/ Fail \/ (ctxDone /\ Abandon)
    BY <1>5 DEF Write, Interrupted
  <2>3. (cancelled' => ctxDone)
    BY <1>0, <2>2 DEF PlaceInPlan, Succeed, Fail, Abandon
  <2> QED BY <1>0, <2>1, <2>2, <2>3, TitleAnswered
     DEF PlaceInPlan, Succeed, Fail, Skip, Abandon, report
<1>6. CASE Release
  <2>1. phase = "release" /\ UNCHANGED << ctxDone, onDrive, installed, failed, cancelled >>
    BY <1>6, ContextStays DEF Release, vars, report
  <2>2. CASE UNCHANGED << next, phase >>
    BY <1>0, <2>1, <2>2, BatchQuiet DEF PlaceInPlan
  <2>3. CASE next' = next + 1 /\ phase' = IF cancelled THEN "stop" ELSE "next"
    <3>1. PlaceInPlan'
      BY <1>0, <2>1, <2>3 DEF PlaceInPlan
    <3>2. \A i \in 1 .. Len(Plan) : Behind(i)' <=> Behind(i)
      BY <1>0, <2>1, <2>3 DEF Behind
    <3> QED BY <2>1, <3>1, <3>2 DEF BInv, AnsweredSoFar
  <2> QED BY <1>6, <2>2, <2>3 DEF Release
<1>7. CASE BatchStop
  <2>1. /\ UNCHANGED << ctxDone, onDrive, next, installed, failed, cancelled >>
        /\ phase = "stop" /\ phase' \in {"stop", "done"}
    BY <1>7, ContextStays DEF BatchStop, report
  <2> QED BY <1>0, <2>1, BatchQuiet DEF PlaceInPlan
<1>8. CASE LoopStep \/ Interrupt \/ BatchEnded \/ UNCHANGED allVars
  <2>1. /\ UNCHANGED << onDrive, next, phase, installed, failed, cancelled >>
        /\ (ctxDone => ctxDone')
    BY <1>0, <1>8, ContextStays
       DEF LoopStep, Interrupt, Cancel, BatchEnded, allVars, batchVars, vars
  <2> QED BY <1>0, <2>1, BatchQuiet DEF PlaceInPlan
<1> QED BY <1>1, <1>2, <1>3, <1>4, <1>5, <1>6, <1>7, <1>8 DEF BatchNext, RunBatch, Install

\* The batch's own invariant: where it is, and what it has answered so far.
THEOREM BatchInductive == BatchSpec => []BInv
<1> QED BY InitBatch, NextBatch, PTL DEF BatchSpec

(* A failure stops its title and nothing else (cli/batch.go, runBatch): whatever   *)
(* the plan, and whichever titles are refused, fail or are skipped, a run that is  *)
(* not interrupted answers every title, and none twice.                           *)
THEOREM BatchAnswersAll == BatchSpec => []EveryTitleAnswered
<1>1. BInv => EveryTitleAnswered
  <2> SUFFICES ASSUME BInv, phase = "done" PROVE EveryTitleAnswered
    BY DEF EveryTitleAnswered
  <2>1. ~ctxDone => next > Len(Plan)
    BY DEF BInv, PlaceInPlan
  <2>2. ~ctxDone => \A i \in 1 .. Len(Plan) : Plan[i] \in installed \cup failed \cup onDrive
    BY <2>1, PlanLists DEF BInv, AnsweredSoFar, Behind, PlaceInPlan
  <2>3. Range(Plan) = {Plan[i] : i \in 1 .. Len(Plan)}
    BY BatchAssumption DEF Range
  <2> QED BY <2>2, <2>3 DEF EveryTitleAnswered, BInv, AnsweredSoFar
<1> QED BY <1>1, BatchInductive, PTL

\* A step of the batch is a step of the prefetcher, or leaves it alone.
LEMMA BatchStepIsStep == BInv /\ [BatchNext]_allVars => [Next]_vars
<1> SUFFICES ASSUME BInv, [BatchNext]_allVars PROVE [Next]_vars
  OBVIOUS
<1>1. CASE BatchAdd
  <2>1. Batch \in Adders /\ Range(Plan) \in SUBSET Titles
    BY BatchAssumption, PlanLists DEF Range
  <2> QED BY <1>1, <2>1 DEF BatchAdd, Next
<1>2. CASE BatchAddWake
  BY <1>2, BatchAssumption DEF BatchAddWake, Next
<1>3. CASE SourceTake
  <2>1. title \in Titles
    BY <1>3, PlanLists DEF SourceTake, BInv, PlaceInPlan, title
  <2> QED BY <1>3, <2>1 DEF SourceTake, Next
<1>4. CASE SourceTaken \/ InlineFails \/ Release \/ BatchStop
  BY <1>4 DEF SourceTaken, InlineFails, Release, BatchStop, Next
<1>5. CASE BeginTitle \/ Refuse \/ Accept \/ SourceLoose \/ Write \/ BatchEnded \/ UNCHANGED allVars
  BY <1>5 DEF BeginTitle, Refuse, Accept, SourceLoose, Write, BatchEnded, allVars
<1>6. CASE LoopStep \/ Interrupt
  BY <1>6 DEF LoopStep, Interrupt, Next
<1> QED BY <1>1, <1>2, <1>3, <1>4, <1>5, <1>6 DEF BatchNext, RunBatch, Install

(* Every behaviour of a batch is one of the prefetcher (batch.go:90, install.go:278), *)
(* with the batch its one adder and the installer: what the prefetcher promises any   *)
(* user holds in a batch.                                                            *)
THEOREM BatchUsesPrefetcher == BatchSpec => Spec
<1>1. BatchInit => Init
  BY DEF BatchInit
<1> QED BY <1>1, BatchStepIsStep, BatchInductive, PTL DEF BatchSpec, Spec

(* So a batch never has more on disk than the configured depth, and no title of its  *)
(* waits for one that is not coming while the loop lives.                            *)
THEOREM BatchKeepsBudget == BatchSpec => [](SlotBudget /\ OneOwner /\ NoVainWait)
BY BatchUsesPrefetcher, Budget, CopiesOwned, TakeNeverInVain, PTL
=============================================================================
