------------------------------ MODULE Prefetcher ------------------------------
(***************************************************************************)
(* The pipeline that unpacks archived titles ahead of the installer        *)
(* (src/internal/app/prefetch.go).  Three kinds of goroutine share one     *)
(* mutex-protected record:                                                 *)
(*                                                                         *)
(*   - the loop ("run"), which pops a title, takes a slot, unpacks it into *)
(*     a fresh scratch directory and publishes the result;                 *)
(*   - the installer, which Takes a title, uses and Releases what it got,  *)
(*     and in the end Stops the prefetcher (a deferred call of its own);   *)
(*   - adders, which feed titles at any time (the worker itself and the    *)
(*     interface's queue).                                                 *)
(*                                                                         *)
(* A critical section of the code is one step.  What the code does between *)
(* two critical sections is a step of its own wherever another goroutine   *)
(* could tell: the wake-up sent after the unlock, the copy removed before  *)
(* its slot is given back.                                                 *)
(***************************************************************************)
EXTENDS Integers, Sequences, FiniteSets

CONSTANTS
  Titles,      \* what prefetchKey tells apart
  Loose,       \* the titles with no ArchiveMember: nothing to unpack
  Dirs,        \* names a scratch directory may be given
  Adders,      \* goroutines that call Add
  Depth,       \* Config.Install.Prefetch, at least 2 or there is no prefetcher
  MaxPending,  \* bound: an Add never makes the list of pending titles longer
  Absent,      \* "no entry" in the ready map
  NoSource     \* the nil source: the title could not be unpacked ahead

ASSUME PrefetchAssumption ==
  /\ IsFiniteSet(Titles) /\ Loose \subseteq Titles
  /\ Depth \in Nat \ {0, 1}
  /\ MaxPending \in Nat
  /\ Absent \notin Dirs /\ NoSource \notin Dirs /\ Absent # NoSource

VARIABLES
  expect,      \* titles the prefetcher has promised to publish
  pending,     \* titles not yet started, in order
  ready,       \* what was published and not yet taken, per title
  waiters,     \* titles with a registered, still open, waiter channel
  wake,        \* is there a token in the wake channel (capacity 1)?
  stopped,     \* Stop has run its critical section
  ctxDone,     \* the run's context is cancelled
  slots,       \* tokens in the slots channel (capacity Depth)
  copies,      \* scratch directories on disk that the loop made
  loop,        \* where the loop is
  cur,         \* the title the loop is working on, Absent before the first
  curDir,      \* the directory it is unpacking into
  taker,       \* where the installer is
  taking,      \* the title it is taking
  takenDir,    \* the directory it was handed
  held,        \* directories Stop collected and has not yet released
  adder        \* where each adder is

vars == << expect, pending, ready, waiters, wake, stopped, ctxDone, slots,
           copies, loop, cur, curDir, taker, taking, takenDir, held, adder >>

shared   == << expect, pending, ready, waiters, stopped >>
loopVars == << loop, cur, curDir >>
takeVars == << taker, taking, takenDir, held >>

Sources == Dirs \cup {NoSource, Absent}

TypeOK ==
  /\ expect \in SUBSET (Titles \ Loose)
  /\ pending \in Seq(Titles \ Loose)
  /\ ready \in [Titles -> Sources]
  /\ waiters \in SUBSET Titles
  /\ wake \in BOOLEAN /\ stopped \in BOOLEAN /\ ctxDone \in BOOLEAN
  /\ slots \in 0..Depth
  /\ copies \in SUBSET Dirs
  /\ loop \in {"next", "idle", "slot", "check", "unpack", "failed", "exit"}
  /\ cur \in Titles \cup {Absent}
  /\ curDir \in Dirs \cup {Absent}
  /\ taker \in {"idle", "waiting", "holding", "freeing", "inline",
                "stopWake", "stopping", "stopFree", "done"}
  /\ taking \in Titles \cup {Absent}
  /\ takenDir \in Dirs \cup {Absent}
  /\ held \in SUBSET Dirs
  /\ adder \in [Adders -> {"idle", "wake"}]

\* StartPrefetch: an empty record and a loop about to ask for work.
Init ==
  /\ expect = {} /\ pending = << >> /\ waiters = {}
  /\ ready = [k \in Titles |-> Absent]
  /\ wake = FALSE /\ stopped = FALSE /\ ctxDone = FALSE
  /\ slots = 0 /\ copies = {}
  /\ loop = "next" /\ cur = Absent /\ curDir = Absent
  /\ taker = "idle" /\ taking = Absent /\ takenDir = Absent /\ held = {}
  /\ adder = [a \in Adders |-> "idle"]

-----------------------------------------------------------------------------
(* The loop.                                                               *)

\* The titles a sequence lists.
Listed(s) == {s[i] : i \in 1..Len(s)}

LoopPop ==
  /\ loop = "next" /\ ~stopped /\ pending # << >>
  /\ cur' = Head(pending) /\ pending' = Tail(pending)
  /\ loop' = "slot"
  /\ UNCHANGED << expect, ready, waiters, wake, stopped, ctxDone, slots,
                  copies, curDir, takeVars, adder >>

LoopIdle ==
  /\ loop = "next" /\ ~stopped /\ pending = << >>
  /\ loop' = "idle"
  /\ UNCHANGED << shared, wake, ctxDone, slots, copies, cur, curDir,
                  takeVars, adder >>

LoopSeesStop ==
  /\ loop = "next" /\ stopped
  /\ loop' = "exit"
  /\ UNCHANGED << shared, wake, ctxDone, slots, copies, cur, curDir,
                  takeVars, adder >>

LoopWoken ==
  /\ loop = "idle" /\ wake
  /\ wake' = FALSE /\ loop' = "next"
  /\ UNCHANGED << shared, ctxDone, slots, copies, cur, curDir,
                  takeVars, adder >>

\* Both selects of the loop also listen to the context.
LoopCancelled ==
  /\ loop \in {"idle", "slot"} /\ ctxDone
  /\ loop' = "exit"
  /\ UNCHANGED << shared, wake, ctxDone, slots, copies, cur, curDir,
                  takeVars, adder >>

LoopTakeSlot ==
  /\ loop = "slot" /\ slots < Depth
  /\ slots' = slots + 1 /\ loop' = "check"
  /\ UNCHANGED << shared, wake, ctxDone, copies, cur, curDir,
                  takeVars, adder >>

\* isStopped after the slot: give the slot back and leave.
LoopStopAtSlot ==
  /\ loop = "check" /\ stopped
  /\ slots' = slots - 1 /\ loop' = "exit"
  /\ UNCHANGED << shared, wake, ctxDone, copies, cur, curDir,
                  takeVars, adder >>

\* Not stopped: unpackFn starts in a directory no one has.
UnpackStart ==
  /\ loop = "check" /\ ~stopped
  /\ \E d \in Dirs \ copies :
       /\ curDir' = d
       /\ copies' = copies \cup {d}
  /\ loop' = "unpack"
  /\ UNCHANGED << shared, wake, ctxDone, slots, cur, takeVars, adder >>

\* publish: the entry, and the waiter's channel closed and forgotten.
Publish(src) ==
  /\ ready' = [ready EXCEPT ![cur] = src]
  /\ waiters' = waiters \ {cur}
  /\ loop' = "next"
  /\ UNCHANGED << expect, pending, wake, stopped, ctxDone, cur, curDir,
                  takeVars, adder >>

Unpacked ==
  /\ loop = "unpack"
  /\ Publish(curDir)
  /\ UNCHANGED << slots, copies >>

\* A failed extraction removes its directory before it returns; the loop gives
\* the slot back before it publishes nil.  Only the loop takes slots, so no one
\* can tell the removal from the slot.
UnpackFailed ==
  /\ loop = "unpack"
  /\ copies' = copies \ {curDir}
  /\ slots' = slots - 1
  /\ loop' = "failed"
  /\ UNCHANGED << shared, wake, ctxDone, cur, curDir, takeVars, adder >>

PublishNil ==
  /\ loop = "failed"
  /\ Publish(NoSource)
  /\ UNCHANGED << slots, copies >>

Loop ==
  \/ LoopPop \/ LoopIdle \/ LoopSeesStop \/ LoopWoken \/ LoopCancelled
  \/ LoopTakeSlot \/ LoopStopAtSlot
  \/ UnpackStart \/ Unpacked \/ UnpackFailed \/ PublishNil

-----------------------------------------------------------------------------
(* Add, by any goroutine.                                                  *)

\* The orders in which a caller may list a set of titles.
Orders(S) == {s \in [1..Cardinality(S) -> S] : Listed(s) = S}

\* Critical section of Add: what is archived and not already expected is
\* promised and appended in the caller's order.  After Stop, Add does nothing.
Add(a, games) ==
  /\ adder[a] = "idle" /\ ~stopped
  /\ LET new == games \ (Loose \cup expect)
     IN  /\ Len(pending) + Cardinality(new) <= MaxPending
         /\ expect' = expect \cup new
         /\ \E s \in Orders(new) : pending' = pending \o s
  /\ adder' = [adder EXCEPT ![a] = "wake"]
  /\ UNCHANGED << ready, waiters, wake, stopped, ctxDone, slots, copies,
                  loopVars, takeVars >>

\* The non-blocking send after the unlock.
AddWake(a) ==
  /\ adder[a] = "wake"
  /\ wake' = TRUE
  /\ adder' = [adder EXCEPT ![a] = "idle"]
  /\ UNCHANGED << shared, ctxDone, slots, copies, loopVars, takeVars >>

-----------------------------------------------------------------------------
(* Take and Release, by the installer.                                     *)

\* Mutant: the entry stays in the ready map after it was handed over.
HandOverKeepsEntry(k) ==
  /\ expect' = expect \ {k}
  /\ taking' = k
  /\ IF ready[k] \in Dirs
     THEN taker' = "holding" /\ takenDir' = ready[k]
     ELSE taker' = "inline"  /\ takenDir' = Absent
  /\ UNCHANGED << pending, ready, waiters, wake, stopped, ctxDone, slots,
                  copies, loopVars, held, adder >>

\* What Take returns with once it has looked the title up: a copy to install
\* from, or nothing, and then the installer extracts inline.
HandOver(k) ==
  /\ ready' = [ready EXCEPT ![k] = Absent]
  /\ expect' = expect \ {k}
  /\ taking' = k
  /\ IF ready[k] \in Dirs
     THEN taker' = "holding" /\ takenDir' = ready[k]
     ELSE taker' = "inline"  /\ takenDir' = Absent
  /\ UNCHANGED << pending, waiters, wake, stopped, ctxDone, slots, copies,
                  loopVars, held, adder >>

\* Never queued, or already handed over.
TakeUnexpected(k) ==
  /\ taker = "idle" /\ k \notin Loose /\ k \notin expect
  /\ taker' = "inline" /\ taking' = k /\ takenDir' = Absent
  /\ UNCHANGED << shared, wake, ctxDone, slots, copies, loopVars, held, adder >>

TakeReady(k) ==
  /\ taker = "idle" /\ k \in expect /\ ready[k] # Absent
  /\ HandOver(k)

\* Mutant: Take waits without asking whether the title was promised.
TakeWaitUnasked(k) ==
  /\ taker = "idle" /\ ready[k] = Absent /\ ~stopped
  /\ waiters' = waiters \cup {k}
  /\ taker' = "waiting" /\ taking' = k
  /\ UNCHANGED << expect, pending, ready, stopped, wake, ctxDone, slots,
                  copies, loopVars, takenDir, held, adder >>

\* Register a waiter and block on it.
TakeWait(k) ==
  /\ taker = "idle" /\ k \in expect /\ ready[k] = Absent /\ ~stopped
  /\ waiters' = waiters \cup {k}
  /\ taker' = "waiting" /\ taking' = k
  /\ UNCHANGED << expect, pending, ready, stopped, wake, ctxDone, slots,
                  copies, loopVars, takenDir, held, adder >>

\* The channel was closed, or the loop is gone.
TakeWoken ==
  /\ taker = "waiting" /\ (taking \notin waiters \/ loop = "exit")
  /\ HandOver(taking)

\* The context ended first: nothing is unregistered.
TakeCancelled ==
  /\ taker = "waiting" /\ ctxDone
  /\ taker' = "inline" /\ takenDir' = Absent
  /\ UNCHANGED << shared, wake, ctxDone, slots, copies, loopVars, taking,
                  held, adder >>

InlineDone ==
  /\ taker = "inline"
  /\ taker' = "idle"
  /\ UNCHANGED << shared, wake, ctxDone, slots, copies, loopVars, taking,
                  takenDir, held, adder >>

\* Mutant: the wrapped Release gives the slot back and forgets the cleanup.
ReleaseCopyForgotten ==
  /\ taker = "holding"
  /\ taker' = "freeing"
  /\ UNCHANGED << shared, wake, ctxDone, slots, copies, loopVars, taking,
                  takenDir, held, adder >>

\* Release: first the copy goes, then its slot.
ReleaseCopy ==
  /\ taker = "holding"
  /\ copies' = copies \ {takenDir}
  /\ taker' = "freeing"
  /\ UNCHANGED << shared, wake, ctxDone, slots, loopVars, taking, takenDir,
                  held, adder >>

ReleaseSlot ==
  /\ taker = "freeing" /\ slots > 0
  /\ slots' = slots - 1
  /\ taker' = "idle"
  /\ UNCHANGED << shared, wake, ctxDone, copies, loopVars, taking, takenDir,
                  held, adder >>

Take(k) == TakeUnexpected(k) \/ TakeReady(k) \/ TakeWait(k)

-----------------------------------------------------------------------------
(* Stop, by the installer, between two titles or after the last.           *)

StopLocked ==
  /\ taker = "idle"
  /\ stopped' = TRUE
  /\ expect' = {} /\ pending' = << >> /\ waiters' = {}
  /\ held' = {ready[k] : k \in Titles} \cap Dirs
  /\ ready' = [k \in Titles |-> Absent]
  /\ taker' = "stopWake"
  /\ UNCHANGED << wake, ctxDone, slots, copies, loopVars, taking, takenDir,
                  adder >>

\* Mutant: Stop does not wake the loop.
StopWakeMissing ==
  /\ taker = "stopWake" /\ taker' = "stopping"
  /\ UNCHANGED << shared, wake, ctxDone, slots, copies, loopVars, taking,
                  takenDir, held, adder >>

StopWake ==
  /\ taker = "stopWake"
  /\ wake' = TRUE /\ taker' = "stopping"
  /\ UNCHANGED << shared, ctxDone, slots, copies, loopVars, taking, takenDir,
                  held, adder >>

StopReleaseCopy ==
  /\ taker = "stopping"
  /\ \E d \in held : held' = held \ {d} /\ copies' = copies \ {d}
  /\ taker' = "stopFree"
  /\ UNCHANGED << shared, wake, ctxDone, slots, loopVars, taking, takenDir,
                  adder >>

StopReleaseSlot ==
  /\ taker = "stopFree" /\ slots > 0
  /\ slots' = slots - 1 /\ taker' = "stopping"
  /\ UNCHANGED << shared, wake, ctxDone, copies, loopVars, taking, takenDir,
                  held, adder >>

StopReturns ==
  /\ taker = "stopping" /\ held = {}
  /\ taker' = "done"
  /\ UNCHANGED << shared, wake, ctxDone, slots, copies, loopVars, taking,
                  takenDir, held, adder >>

Stop == StopLocked \/ StopWake \/ StopReleaseCopy \/ StopReleaseSlot \/ StopReturns

-----------------------------------------------------------------------------
\* The run is cancelled from outside (a signal, the queue's Cancel).
Cancel ==
  /\ ~ctxDone /\ ctxDone' = TRUE
  /\ UNCHANGED << shared, wake, slots, copies, loopVars, takeVars, adder >>

\* Every goroutine has returned.
Finished == taker = "done" /\ loop = "exit" /\ \A a \in Adders : adder[a] = "idle"

Ended == Finished /\ UNCHANGED vars

Next ==
  \/ Loop
  \/ \E a \in Adders : AddWake(a) \/ \E games \in SUBSET Titles : Add(a, games)
  \/ \E k \in Titles : Take(k)
  \/ TakeWoken \/ TakeCancelled \/ InlineDone \/ ReleaseCopy \/ ReleaseSlot
  \/ Stop
  \/ Cancel
  \/ Ended

Spec == Init /\ [][Next]_vars

\* Fairness: goroutines are scheduled, an extraction ends, a Take is not
\* abandoned, and once the installer has begun to stop it runs Stop to its end.
\* Nothing obliges anyone to Add, to Take another title or to stop.
Fairness ==
  /\ WF_vars(Loop)
  /\ WF_vars(TakeWoken) /\ WF_vars(InlineDone)
  /\ WF_vars(ReleaseCopy) /\ WF_vars(ReleaseSlot)
  /\ WF_vars(StopWake \/ StopReleaseCopy \/ StopReleaseSlot \/ StopReturns)
  /\ \A a \in Adders : WF_vars(AddWake(a))

FairSpec == Spec /\ Fairness

-----------------------------------------------------------------------------
(* Properties.                                                             *)

\* The copies each part of the pipeline answers for.
LoopDirs  == IF loop = "unpack" THEN {curDir} ELSE {}
TakerDirs == IF taker = "holding" THEN {takenDir} ELSE {}
ReadyDirs == {ready[k] : k \in Titles} \cap Dirs

\* Is the loop working on title k?
InFlight(k) == cur = k /\ loop \in {"slot", "check", "unpack", "failed"}

(* Every copy on disk has exactly one owner: the loop while it unpacks, the   *)
(* ready map, the installer that was handed it, or Stop.  So no copy is handed *)
(* over twice, none is removed under the installer's feet, and none is lost    *)
(* track of.                                                                   *)
OneOwner ==
  /\ copies = LoopDirs \cup TakerDirs \cup ReadyDirs \cup held
  /\ LoopDirs \cap (TakerDirs \cup ReadyDirs \cup held) = {}
  /\ TakerDirs \cap (ReadyDirs \cup held) = {}
  /\ ReadyDirs \cap held = {}
  /\ \A j, k \in Titles : ready[j] \in Dirs /\ ready[j] = ready[k] => j = k

(* The disk budget: what was unpacked ahead never holds more than Depth       *)
(* scratch directories, handed-over copies included, whatever fails, is        *)
(* cancelled or stopped.                                                       *)
SlotBudget == Cardinality(copies) <= Depth

(* A Take never blocks on a title that is not coming: while its channel is    *)
(* open and the loop lives, the title is pending or being worked on.           *)
NoVainWait ==
  taker = "waiting" /\ taking \in waiters /\ loop # "exit"
    => taking \in Listed(pending) \/ InFlight(taking)

(* The wake channel loses nothing: when the loop sleeps although there is      *)
(* work, or although it must stop, a token is there or about to be sent.       *)
NoLostWake ==
  loop = "idle" /\ (pending # << >> \/ stopped)
    => wake \/ taker = "stopWake" \/ \E a \in Adders : adder[a] = "wake"

(* What Stop may leave behind is one copy, the one that was being unpacked     *)
(* when Stop looked.                                                           *)
StopLeavesAtMostOne == Finished => Cardinality(copies) <= 1

(* Stop ends the prefetching: Stop returns and the loop leaves, even when      *)
(* it sleeps or waits for a slot.                                              *)
StopEndsLoop == stopped ~> (taker = "done" /\ loop = "exit")

-----------------------------------------------------------------------------
(* What the prefetcher implements.  A copy Stop has collected is still a ready *)
(* one; a removed copy is gone although its slot is not yet given back.        *)

Stage == [d \in Dirs |->
  CASE d \in LoopDirs           -> "unpacking"
    [] d \in TakerDirs          -> "handed"
    [] d \in ReadyDirs \cup held -> "ready"
    [] OTHER                    -> "free"]

Copies == INSTANCE ScratchCopies WITH stage <- Stage

(* The prefetcher keeps the promises of ScratchCopies: a copy is handed over   *)
(* once, complete, one at a time, and there are never more than Depth.         *)
CopyLifecycle == Copies!Spec
=============================================================================
