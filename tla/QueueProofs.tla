------------------------------ MODULE QueueProofs ------------------------------
(***************************************************************************)
(* From files to a queue, for any library and any number of items, passes  *)
(* and prefetcher slots.  InstallQueue: one install at a time, fields that *)
(* name the pass that runs, and no work a pass under way has not heard of. *)
(* Reconcile: every disc is listed once, the rows tell the truth of drive  *)
(* and sources, and a list plans what it names.                            *)
(***************************************************************************)
EXTENDS InstallQueue, Reconcile, FoldLemmas

(* The part of the type invariant the queue's own fields need; the sequences a *)
(* prefetcher is fed play a part in the last theorem.                          *)
FieldTypes ==
  /\ added \in 0..MaxItems
  /\ listed \in SUBSET Items
  /\ state \in [Items -> {"none", "waiting", "active"} \cup Terminal]
  /\ running \in BOOLEAN
  /\ cancelOf \in Passes \cup {NoPass} /\ prefetchOf \in Passes \cup {NoPass}
  /\ worker \in [Passes -> {"free", "begin", "list", "give", "next", "claimed",
                            "checks", "taking", "write", "settled", "sweep", "leave",
                            "stop"}]
  /\ claim \in [Passes -> Items \cup {0}]

\* Nothing is known of an item before it is added.
NotYetAdded == \A i \in Items : i > added => state[i] = "none" /\ i \notin listed

\* What a pass has claimed and not begun was found waiting, and may have been
\* cancelled since.
ClaimFresh ==
  \A p \in Passes :
    /\ worker[p] \in {"claimed", "checks", "taking", "write"} => claim[p] \in Items
    /\ worker[p] = "claimed" => state[claim[p]] \in {"waiting", "failed", "cancelled"}

IInv ==
  /\ FieldTypes /\ NotYetAdded /\ ClaimFresh
  /\ OneWorker /\ FieldsNamePass /\ ActiveIsWorkedOn

-----------------------------------------------------------------------------
(* The initial state.                                                          *)
LEMMA InitHolds == Init => IInv
<1> SUFFICES ASSUME Init PROVE IInv
  OBVIOUS
<1> USE QueueAssumption DEF QueueAssumption, Init, Items, Terminal
<1>1a. FieldTypes
  <2>1. MaxItems \in Nat /\ added \in 0..MaxItems
    OBVIOUS
  <2>2. state \in [Items -> {"none", "waiting", "active"} \cup Terminal]
    OBVIOUS
  <2>3. worker \in [Passes -> {"free", "begin", "list", "give", "next", "claimed",
                               "checks", "taking", "write", "settled", "sweep",
                               "leave", "stop"}]
    OBVIOUS
  <2>4. claim \in [Passes -> Items \cup {0}]
    OBVIOUS
  <2> QED BY <2>1, <2>2, <2>3, <2>4 DEF FieldTypes
<1>1b. NotYetAdded
  BY DEF NotYetAdded
<1>1c. ClaimFresh
  BY DEF ClaimFresh
<1>1. FieldTypes /\ NotYetAdded /\ ClaimFresh
  BY <1>1a, <1>1b, <1>1c
<1>2. Alive = {}
  BY DEF Alive
<1>3. OneWorker /\ FieldsNamePass /\ ActiveIsWorkedOn
  BY <1>2 DEF OneWorker, FieldsNamePass, ActiveIsWorkedOn
<1> QED BY <1>1, <1>3 DEF IInv

(* A step that changes nothing else than to drop items from the list.          *)
LEMMA Frame == IInv /\ UNCHANGED << added, state, running, cancelOf, prefetchOf,
                                   worker, claim >> /\ listed' \in SUBSET listed
               => IInv'
<1> SUFFICES ASSUME IInv, listed' \in SUBSET listed,
                    UNCHANGED << added, state, running, cancelOf, prefetchOf,
                                 worker, claim >>
             PROVE  IInv'
  OBVIOUS
<1>1. FieldTypes' /\ NotYetAdded' /\ ClaimFresh'
  BY DEF IInv, FieldTypes, NotYetAdded, ClaimFresh
<1>2. Alive' = Alive
  BY DEF Alive
<1>3. OneWorker' /\ FieldsNamePass' /\ ActiveIsWorkedOn'
  BY <1>2 DEF IInv, OneWorker, FieldsNamePass, ActiveIsWorkedOn
<1> QED BY <1>1, <1>3 DEF IInv

(* A step of a live pass that only moves it on, to another place of a live     *)
(* pass where it installs nothing.                                             *)
LEMMA MovesOn ==
  ASSUME NEW p \in Passes, NEW here, NEW there, IInv, worker[p] = here,
         worker' = [worker EXCEPT ![p] = there],
         here \in {"list", "give", "next", "settled"},
         there \in {"give", "next", "sweep", "leave"},
         UNCHANGED << added, listed, state, running, cancelOf, prefetchOf, claim >>
  PROVE  IInv'
<1> USE DEF IInv
<1>1. p \in Alive /\ Alive' = Alive
  BY DEF Alive, FieldTypes
<1>2. FieldTypes' /\ NotYetAdded' /\ ClaimFresh' /\ ActiveIsWorkedOn'
  BY DEF FieldTypes, NotYetAdded, ClaimFresh, ActiveIsWorkedOn
<1>3. OneWorker' /\ FieldsNamePass'
  BY <1>1 DEF OneWorker, FieldsNamePass, FieldTypes
<1> QED BY <1>2, <1>3

(* The interface's operations move no pass and start one only when none runs.  *)
LEMMA InterfaceKeeps == IInv /\ Interface => IInv'
<1> SUFFICES ASSUME IInv, Interface PROVE IInv'
  OBVIOUS
<1> USE QueueAssumption DEF IInv, Items, Terminal
<1>1. ASSUME NEW n \in 1..MaxGroup, Add(n) PROVE IInv'
  <2>1. n \in Nat /\ added \in Nat /\ added' = added + n /\ added' \in 0..MaxItems
    BY <1>1 DEF Add, FieldTypes, QueueAssumption
  <2>2. /\ UNCHANGED << running, cancelOf, prefetchOf, worker, claim >>
        /\ listed' = listed \cup ((added + 1)..(added + n))
        /\ state' = [i \in Items |-> IF i \in (added + 1)..(added + n)
                                     THEN "waiting" ELSE state[i]]
    BY <1>1 DEF Add
  <2>3. FieldTypes'
    BY <2>1, <2>2 DEF FieldTypes
  <2>4. \A i \in Items : state'[i] = "active" <=> state[i] = "active"
    BY <2>1, <2>2 DEF NotYetAdded, FieldTypes
  <2>5. NotYetAdded'
    BY <2>1, <2>2 DEF NotYetAdded, FieldTypes
  <2>6. ClaimFresh'
    BY <2>1, <2>2 DEF ClaimFresh, FieldTypes
  <2>7. OneWorker' /\ FieldsNamePass'
    BY <2>2 DEF OneWorker, FieldsNamePass, Alive
  <2>8. ActiveIsWorkedOn'
    BY <2>2, <2>4 DEF ActiveIsWorkedOn
  <2> QED BY <2>3, <2>5, <2>6, <2>7, <2>8
<1>2. ASSUME NEW i \in Items, Retry(i) PROVE IInv'
  <2>1. /\ UNCHANGED << added, listed, running, cancelOf, prefetchOf, worker, claim >>
        /\ state' = [state EXCEPT ![i] = "waiting"]
        /\ state[i] \in {"failed", "cancelled"}
    BY <1>2 DEF Retry, passVars
  <2>2. FieldTypes'
    BY <2>1 DEF FieldTypes
  <2>3. NotYetAdded'
    BY <2>1 DEF NotYetAdded, FieldTypes
  <2>4. ClaimFresh'
    BY <2>1 DEF ClaimFresh, FieldTypes
  <2>5. OneWorker' /\ FieldsNamePass'
    BY <2>1 DEF OneWorker, FieldsNamePass, Alive
  <2>6. ActiveIsWorkedOn'
    BY <2>1 DEF ActiveIsWorkedOn, FieldTypes
  <2> QED BY <2>2, <2>3, <2>4, <2>5, <2>6
<1>3. ASSUME RetriedAll \/ CancelContext PROVE IInv'
  <2>1. UNCHANGED << added, listed, state, running, cancelOf, prefetchOf, worker, claim >>
    BY <1>3 DEF RetriedAll, CancelContext, qVars, passVars
  <2> QED BY <2>1, Frame DEF FieldTypes
<1>4. ASSUME Start PROVE IInv'
  <2>1. UNCHANGED << added, listed, state, prefetchOf, claim >>
    BY <1>4 DEF Start
  <2>2. CASE running
    <3>1. UNCHANGED << running, cancelOf, worker >>
      BY <1>4, <2>2 DEF Start
    <3>2. listed' \in SUBSET listed
      BY <2>1
    <3> QED BY <2>1, <3>1, <3>2, Frame
  <2>3. CASE ~running
    <3>1. PICK p \in Passes :
            /\ worker[p] = "free" /\ running' = TRUE /\ cancelOf' = p
            /\ worker' = [worker EXCEPT ![p] = "begin"]
      BY <1>4, <2>3 DEF Start
    <3>2. Alive = {} /\ prefetchOf = NoPass
      BY <2>3 DEF FieldsNamePass, FieldTypes
    <3>3. Alive' = {p}
      BY <3>1, <3>2 DEF Alive, FieldTypes
    <3>4. FieldTypes'
      BY <2>1, <3>1 DEF FieldTypes
    <3>5. OneWorker'
      BY <3>3 DEF OneWorker
    <3>6. FieldsNamePass'
      BY <2>1, <3>1, <3>2, <3>3 DEF FieldsNamePass, FieldTypes
    <3>7. NotYetAdded' /\ ClaimFresh' /\ ActiveIsWorkedOn'
      BY <2>1, <3>1 DEF NotYetAdded, ClaimFresh, ActiveIsWorkedOn, FieldTypes
    <3> QED BY <3>4, <3>5, <3>6, <3>7
  <2> QED BY <2>2, <2>3
<1>5. ASSUME Cancel PROVE IInv'
  <2>1. /\ UNCHANGED << added, listed, running, cancelOf, prefetchOf, worker, claim >>
        /\ state' = [i \in Items |-> IF i \in Waiting THEN "cancelled" ELSE state[i]]
    BY <1>5 DEF Cancel, passVars
  <2>2. \A i \in Waiting : state[i] = "waiting"
    BY DEF Waiting
  <2>3. FieldTypes' /\ NotYetAdded' /\ ClaimFresh' /\ ActiveIsWorkedOn'
    BY <2>1, <2>2 DEF FieldTypes, NotYetAdded, ClaimFresh, ActiveIsWorkedOn
  <2>4. OneWorker' /\ FieldsNamePass'
    BY <2>1 DEF OneWorker, FieldsNamePass, Alive
  <2> QED BY <2>3, <2>4
<1>6. ASSUME Clear PROVE IInv'
  <2>1. UNCHANGED << added, state, running, cancelOf, prefetchOf, worker, claim >>
    BY <1>6 DEF Clear, passVars
  <2>2. listed' \in SUBSET listed
    BY <1>6 DEF Clear
  <2> QED BY <2>1, <2>2, Frame
<1> QED BY <1>1, <1>2, <1>3, <1>4, <1>5, <1>6 DEF Interface

(* A step of a pass is a step of the only pass alive, or the last of a dead    *)
(* one.                                                                        *)
LEMMA PassKeeps == ASSUME NEW p \in Passes, IInv, Pass(p) PROVE IInv'
<1> USE QueueAssumption DEF IInv, Items, Terminal, At
<1>a. ASSUME worker[p] \notin {"free", "stop"}
      PROVE  /\ Alive = {p} /\ running /\ cancelOf = p
             /\ \A q \in Passes : q # p => worker[q] \in {"free", "stop"}
  <2>1. p \in Alive
    BY <1>a DEF Alive
  <2>2. \A q \in Alive : q = p
    BY <2>1 DEF OneWorker
  <2>3. Alive = {p}
    BY <2>1, <2>2
  <2>4. running /\ cancelOf = p
    BY <2>1, <2>2 DEF FieldsNamePass
  <2>5. \A q \in Passes : q # p => worker[q] \in {"free", "stop"}
    BY <2>2 DEF Alive
  <2> QED BY <2>3, <2>4, <2>5
<1>1. ASSUME Attach(p) PROVE IInv'
  <2>1. /\ worker[p] = "begin" /\ worker' = [worker EXCEPT ![p] = "list"]
        /\ prefetchOf' = p
        /\ UNCHANGED << added, listed, state, running, cancelOf, claim >>
    BY <1>1 DEF Attach
  <2>2. FieldTypes' /\ NotYetAdded' /\ ClaimFresh' /\ ActiveIsWorkedOn'
    BY <2>1 DEF FieldTypes, NotYetAdded, ClaimFresh, ActiveIsWorkedOn
  <2>3. Alive = {p} /\ Alive' = {p}
    BY <1>a, <2>1 DEF Alive, FieldTypes
  <2>4. OneWorker' /\ FieldsNamePass'
    BY <1>a, <2>1, <2>3 DEF OneWorker, FieldsNamePass
  <2> QED BY <2>2, <2>4
<1>2. ASSUME ListWaiting(p) \/ GiveWaiting(p) \/ LookAtContext(p) PROVE IInv'
  <2>1. UNCHANGED << added, listed, state, running, cancelOf, prefetchOf, claim >>
    BY <1>2 DEF ListWaiting, GiveWaiting, LookAtContext, qVars
  <2> QED BY <1>2, <2>1, MovesOn DEF ListWaiting, GiveWaiting, LookAtContext
<1>3. ASSUME NextWaiting(p) PROVE IInv'
  <2>1. UNCHANGED qVars /\ worker[p] = "next"
    BY <1>3 DEF NextWaiting
  <2>2. CASE worker' = [worker EXCEPT ![p] = "leave"] /\ claim' = claim
    BY <2>1, <2>2, MovesOn DEF qVars
  <2>3. ASSUME NEW i \in First(Waiting), claim' = [claim EXCEPT ![p] = i],
               worker' = [worker EXCEPT ![p] = "claimed"]
        PROVE  IInv'
    <3>1. i \in Items /\ state[i] = "waiting"
      BY <2>3 DEF First, Waiting, FieldTypes
    <3>2. FieldTypes'
      BY <2>1, <2>3, <3>1 DEF qVars, FieldTypes
    <3>3. NotYetAdded' /\ ClaimFresh'
      BY <2>1, <2>3, <3>1 DEF qVars, FieldTypes, NotYetAdded, ClaimFresh
    <3>4. OneWorker' /\ FieldsNamePass'
      BY <1>a, <2>1, <2>3 DEF qVars, FieldTypes, OneWorker, FieldsNamePass, Alive
    <3>5. ActiveIsWorkedOn'
      BY <1>a, <2>1, <2>3 DEF qVars, FieldTypes, ActiveIsWorkedOn
    <3> QED BY <3>2, <3>3, <3>4, <3>5
  <2> QED BY <1>3, <2>2, <2>3 DEF NextWaiting
<1>4. ASSUME Begin(p) PROVE IInv'
  <2>1. /\ worker[p] = "claimed" /\ worker' = [worker EXCEPT ![p] = "checks"]
        /\ state' = [state EXCEPT ![claim[p]] = "active"]
        /\ UNCHANGED << added, listed, running, cancelOf, prefetchOf, claim >>
    BY <1>4 DEF Begin
  <2>2. claim[p] \in Items /\ state[claim[p]] # "none"
    BY <2>1 DEF ClaimFresh
  <2>3. FieldTypes' /\ NotYetAdded'
    BY <2>1, <2>2 DEF FieldTypes, NotYetAdded
  <2>4. ClaimFresh'
    BY <1>a, <2>1, <2>2 DEF FieldTypes, ClaimFresh
  <2>5. OneWorker' /\ FieldsNamePass'
    BY <1>a, <2>1 DEF FieldTypes, OneWorker, FieldsNamePass, Alive
  <2>6. ActiveIsWorkedOn'
    BY <1>a, <2>1, <2>2 DEF FieldTypes, ActiveIsWorkedOn
  <2> QED BY <2>3, <2>4, <2>5, <2>6
<1>5. ASSUME NEW outcome \in Terminal, Settle(p, outcome),
             worker[p] \in {"checks", "taking", "write"},
             worker' = [worker EXCEPT ![p] = "settled"]
      PROVE  IInv'
  <2>1. /\ state' = [state EXCEPT ![claim[p]] = outcome]
        /\ claim' = [claim EXCEPT ![p] = 0]
        /\ UNCHANGED << added, listed, running, cancelOf, prefetchOf >>
    BY <1>5 DEF Settle
  <2>2. claim[p] \in Items /\ state[claim[p]] = "active"
    BY <1>5 DEF ClaimFresh, ActiveIsWorkedOn
  <2>3. FieldTypes' /\ NotYetAdded'
    BY <1>5, <2>1, <2>2 DEF FieldTypes, NotYetAdded
  <2>4. ClaimFresh'
    BY <1>5, <1>a, <2>1, <2>2 DEF FieldTypes, ClaimFresh
  <2>5. OneWorker' /\ FieldsNamePass'
    BY <1>5, <1>a, <2>1 DEF FieldTypes, OneWorker, FieldsNamePass, Alive
  <2>6. ActiveIsWorkedOn'
    BY <1>5, <1>a, <2>1, <2>2 DEF FieldTypes, ActiveIsWorkedOn
  <2> QED BY <2>3, <2>4, <2>5, <2>6
<1>6. ASSUME Refuse(p) \/ Write(p) PROVE IInv'
  BY <1>5, <1>6 DEF Refuse, Write
<1>7. ASSUME Accept(p) \/ Take(p) PROVE IInv'
  <2>1. /\ \/ worker[p] = "checks" /\ worker' = [worker EXCEPT ![p] = "taking"]
           \/ worker[p] = "taking" /\ worker' = [worker EXCEPT ![p] = "write"]
        /\ UNCHANGED << added, listed, state, running, cancelOf, prefetchOf, claim >>
    BY <1>7 DEF Accept, Take, qVars
  <2>2. FieldTypes' /\ NotYetAdded' /\ ClaimFresh' /\ ActiveIsWorkedOn'
    BY <2>1 DEF FieldTypes, NotYetAdded, ClaimFresh, ActiveIsWorkedOn
  <2>3. Alive' = {p}
    BY <1>a, <2>1 DEF Alive, FieldTypes
  <2>4. OneWorker' /\ FieldsNamePass'
    BY <1>a, <2>1, <2>3 DEF OneWorker, FieldsNamePass, FieldTypes
  <2> QED BY <2>2, <2>4
<1>8. ASSUME Sweep(p) PROVE IInv'
  <2>1. /\ worker[p] = "sweep" /\ worker' = [worker EXCEPT ![p] = "leave"]
        /\ state' = [i \in Items |-> IF i \in listed /\ state[i] \notin Terminal
                                     THEN "cancelled" ELSE state[i]]
        /\ UNCHANGED << added, listed, running, cancelOf, prefetchOf, claim >>
    BY <1>8 DEF Sweep
  <2>2. \A i \in Items : state[i] # "active"
    BY <1>a, <2>1 DEF ActiveIsWorkedOn
  <2>3. FieldTypes'
    BY <2>1 DEF FieldTypes
  <2>4. ClaimFresh' /\ ActiveIsWorkedOn'
    BY <1>a, <2>1, <2>2 DEF FieldTypes, ClaimFresh, ActiveIsWorkedOn
  <2>5. OneWorker' /\ FieldsNamePass'
    BY <1>a, <2>1 DEF FieldTypes, OneWorker, FieldsNamePass, Alive
  <2>6. NotYetAdded'
    BY <2>1 DEF FieldTypes, NotYetAdded
  <2> QED BY <2>3, <2>4, <2>5, <2>6
<1>9. ASSUME Leave(p) PROVE IInv'
  <2>1. /\ worker[p] = "leave" /\ worker' = [worker EXCEPT ![p] = "stop"]
        /\ running' = FALSE /\ cancelOf' = NoPass /\ prefetchOf' = NoPass
        /\ UNCHANGED << added, listed, state, claim >>
    BY <1>9 DEF Leave
  <2>2a. FieldTypes' /\ NotYetAdded'
    BY <2>1 DEF FieldTypes, NotYetAdded
  <2>2b. ClaimFresh' /\ ActiveIsWorkedOn'
    BY <2>1 DEF FieldTypes, ClaimFresh, ActiveIsWorkedOn
  <2>2. FieldTypes' /\ NotYetAdded' /\ ClaimFresh' /\ ActiveIsWorkedOn'
    BY <2>2a, <2>2b
  <2>3. Alive' = {}
    BY <1>a, <2>1 DEF Alive, FieldTypes
  <2> QED BY <2>1, <2>2, <2>3 DEF OneWorker, FieldsNamePass
<1>10. ASSUME StopPrefetch(p) PROVE IInv'
  <2>1. /\ worker[p] = "stop" /\ worker' = [worker EXCEPT ![p] = "free"]
        /\ UNCHANGED << added, listed, state, running, cancelOf, prefetchOf, claim >>
    BY <1>10 DEF StopPrefetch, qVars
  <2>2. FieldTypes' /\ NotYetAdded' /\ ClaimFresh' /\ ActiveIsWorkedOn'
    BY <2>1 DEF FieldTypes, NotYetAdded, ClaimFresh, ActiveIsWorkedOn
  <2>3. p \notin Alive /\ Alive' = Alive
    BY <2>1 DEF Alive, FieldTypes
  <2> QED BY <2>1, <2>2, <2>3 DEF OneWorker, FieldsNamePass, FieldTypes
<1> QED BY <1>1, <1>2, <1>3, <1>4, <1>6, <1>7, <1>8, <1>9, <1>10 DEF Pass

-----------------------------------------------------------------------------
(* IInv is an invariant of the queue: of every operation of the interface and  *)
(* every step of every pass.                                                   *)
THEOREM QueueInductive == Spec => []IInv
<1>1. IInv /\ [Next]_vars => IInv'
  <2> SUFFICES ASSUME IInv, [Next]_vars PROVE IInv'
    OBVIOUS
  <2>1. CASE UNCHANGED vars
    <3>1. UNCHANGED << added, listed, state, running, cancelOf, prefetchOf, worker, claim >>
      BY <2>1 DEF vars, qVars, passVars
    <3> QED BY <3>1, Frame DEF IInv, FieldTypes
  <2>2. CASE Next
    BY <2>2, InterfaceKeeps, PassKeeps DEF Next
  <2> QED BY <2>1, <2>2
<1> QED BY <1>1, InitHolds, PTL DEF Spec

(* At most one install at a time, whatever the user starts, cancels, retries   *)
(* and starts again: hdl_dump never runs twice from one queue.                 *)
THEOREM OneInstallAtATime == Spec => []OneWorker
BY QueueInductive, PTL DEF IInv

(* Cancel always has the cancel function of the pass that runs, and Add never  *)
(* feeds a prefetcher that is being stopped.                                   *)
THEOREM FieldsNameThePass == Spec => []FieldsNamePass
BY QueueInductive, PTL DEF IInv

(* What the interface shows as being installed is being installed.             *)
THEOREM ActiveItemsAreWorkedOn == Spec => []ActiveIsWorkedOn
BY QueueInductive, PTL DEF IInv

(* A completed item stays completed: no pass picks it up again, and neither    *)
(* Cancel nor the end of a cancelled pass touches it.                          *)
THEOREM CompleteStays == Spec => CompleteIsFinal
<1>1. ASSUME IInv, [Next]_vars
      PROVE  [\A i \in Items : state[i] = "complete" => state'[i] = "complete"]_vars
  <2> SUFFICES ASSUME NEW i \in Items, state[i] = "complete", Next
               PROVE  state'[i] = "complete"
    BY <1>1
  <2> USE <1>1 DEF IInv
  <2>1. CASE Interface
    <3>1. ASSUME NEW n \in 1..MaxGroup, Add(n) PROVE state'[i] = "complete"
      <4>1. i <= added
        BY DEF NotYetAdded, FieldTypes, Items
      <4> QED BY <3>1, <4>1 DEF Add, FieldTypes, Items
    <3>2. ASSUME NEW j \in Items, Retry(j) PROVE state'[i] = "complete"
      BY <3>2 DEF Retry, FieldTypes
    <3>3. ASSUME RetriedAll \/ Start \/ CancelContext \/ Clear
          PROVE  state'[i] = "complete"
      BY <3>3 DEF RetriedAll, Start, CancelContext, Clear, qVars
    <3>4. ASSUME Cancel PROVE state'[i] = "complete"
      BY <3>4 DEF Cancel, Waiting
    <3> QED BY <2>1, <3>1, <3>2, <3>3, <3>4 DEF Interface
  <2>2. ASSUME NEW p \in Passes, Pass(p) PROVE state'[i] = "complete"
    <3>1. CASE Attach(p) \/ ListWaiting(p) \/ GiveWaiting(p) \/ NextWaiting(p)
               \/ Accept(p) \/ Take(p) \/ LookAtContext(p) \/ Leave(p) \/ StopPrefetch(p)
      BY <3>1 DEF Attach, ListWaiting, GiveWaiting, NextWaiting, Accept, Take, LookAtContext,
         Leave, StopPrefetch, qVars
    <3>2. CASE Begin(p)
      BY <3>2 DEF Begin, At, ClaimFresh, FieldTypes
    <3>3. CASE Refuse(p) \/ Write(p)
      <4>1. claim[p] # i
        BY <3>3 DEF Refuse, Write, At, ClaimFresh, ActiveIsWorkedOn
      <4> QED BY <3>3, <4>1 DEF Refuse, Write, Settle, FieldTypes
    <3>4. CASE Sweep(p)
      BY <3>4 DEF Sweep, Terminal
    <3> QED BY <2>2, <3>1, <3>2, <3>3, <3>4 DEF Pass
  <2> QED BY <2>1, <2>2 DEF Next
<1> QED BY <1>1, QueueInductive, PTL DEF Spec, CompleteIsFinal

-----------------------------------------------------------------------------
(* What a prefetcher hears.                                                    *)

(* The order of the list says which sequence lists a set of items, and it      *)
(* leaves none of them out: the positions are as many as the items, and no     *)
(* item stands at two of them.                                                 *)
LEMMA InOrderLists ==
  ASSUME NEW S \in SUBSET Items, NEW s \in InOrder(S)
  PROVE  s \in Seq(Items) /\ Listed(s) = S
<1> DEFINE n == Cardinality(S)
<1>1. IsFiniteSet(S) /\ n \in Nat
  <2>1. IsFiniteSet(Items)
    BY QueueAssumption, FS_Interval DEF QueueAssumption, Items
  <2> QED BY <2>1, FS_Subset, FS_CardinalityType
<1>2. /\ s \in [1..n -> S]
      /\ \A j, k \in 1..n : j < k => s[j] < s[k]
  BY DEF InOrder
<1> HIDE DEF n
<1>3. IsFiniteSet(1..n) /\ Cardinality(1..n) = n
  BY <1>1, FS_Interval
<1>4. s \in Injection(1..n, S)
  <2>1. ASSUME NEW j \in 1..n, NEW k \in 1..n, s[j] = s[k] PROVE j = k
    <3>1. s[j] \in S /\ s[k] \in S
      BY <1>2
    <3>2. \A i \in Items : i \in Int
      BY DEF Items
    <3>3. s[j] \in Items /\ s[k] \in Items
      BY <3>1
    <3> QED BY <1>1, <1>2, <2>1, <3>2, <3>3
  <2> QED BY <1>2, <2>1 DEF Injection, IsInjective
<1>5. s \in Surjection(1..n, S)
  BY <1>1, <1>3, <1>4, FS_Injection DEF n
<1>6. s \in Seq(Items) /\ Len(s) = n
  BY <1>1, <1>2
<1> QED BY <1>2, <1>5, <1>6 DEF Surjection, Listed

(* After Prefetcher.Add the prefetcher expects what it expected and what it    *)
(* was told of.                                                                *)
LEMMA FeedAdds ==
  ASSUME NEW p \in Passes, NEW S \in SUBSET Items, fed \in [Passes -> Seq(Items)],
         Feed(p, S)
  PROVE  /\ fed' \in [Passes -> Seq(Items)]
         /\ Listed(fed'[p]) = Listed(fed[p]) \cup S
<1>1. PICK s \in InOrder(S \ Listed(fed[p])) : fed' = [fed EXCEPT ![p] = @ \o s]
  BY DEF Feed
<1>2. s \in Seq(Items) /\ Listed(s) = S \ Listed(fed[p])
  BY InOrderLists
<1>3. fed'[p] = fed[p] \o s /\ fed[p] \in Seq(Items)
  BY <1>1
<1> DEFINE f == fed[p]
           g == f \o s
<1>4. /\ g \in Seq(Items) /\ Len(g) = Len(f) + Len(s)
      /\ Len(f) \in Nat /\ Len(s) \in Nat
      /\ \A i \in 1..Len(f) + Len(s) : g[i] = IF i <= Len(f) THEN f[i] ELSE s[i - Len(f)]
  BY <1>2, <1>3, ConcatProperties, LenProperties
<1> HIDE DEF f, g
<1>5. Listed(g) = Listed(f) \cup Listed(s)
  <2>1. ASSUME NEW k \in 1..Len(g) PROVE g[k] \in Listed(f) \cup Listed(s)
    BY <1>4, <2>1 DEF Listed
  <2>2. ASSUME NEW k \in 1..Len(f) PROVE f[k] \in Listed(g)
    <3>1. k \in 1..Len(g) /\ g[k] = f[k]
      BY <1>4
    <3> QED BY <3>1 DEF Listed
  <2>3. ASSUME NEW k \in 1..Len(s) PROVE s[k] \in Listed(g)
    <3>1. Len(f) + k \in 1..Len(g) /\ g[Len(f) + k] = s[k]
      BY <1>4
    <3> QED BY <3>1 DEF Listed
  <2> QED BY <2>1, <2>2, <2>3 DEF Listed
<1> QED BY <1>1, <1>2, <1>3, <1>4, <1>5 DEF f, g

(* What Take removes is one item.                                              *)
LEMMA RemoveAtKeeps ==
  ASSUME NEW f \in Seq(Items), NEW k \in 1..Len(f)
  PROVE  /\ RemoveAt(f, k) \in Seq(Items)
         /\ Listed(f) \ {f[k]} \subseteq Listed(RemoveAt(f, k))
<1> DEFINE a == SubSeq(f, 1, k - 1)
           b == SubSeq(f, k + 1, Len(f))
           g == a \o b
<1>1. Len(f) \in Nat /\ \A i \in 1..Len(f) : f[i] \in Items
  BY LenProperties
<1>2. /\ a \in Seq(Items) /\ Len(a) = k - 1
      /\ \A i \in 1..(k - 1) : a[i] = f[i]
  <2>1. \A i \in 1..(k - 1) : f[i] \in Items
    BY <1>1
  <2>2. /\ a \in Seq(Items) /\ Len(a) = IF 1 <= k - 1 THEN (k - 1) - 1 + 1 ELSE 0
        /\ \A i \in 1..((k - 1) - 1 + 1) : a[i] = f[1 + i - 1]
    BY <1>1, <2>1, SubSeqProperties
  <2> HIDE DEF a
  <2> QED BY <1>1, <2>2
<1>3. /\ b \in Seq(Items) /\ Len(b) = Len(f) - k
      /\ \A i \in 1..(Len(f) - k) : b[i] = f[k + i]
  <2>1. \A i \in (k + 1)..Len(f) : f[i] \in Items
    BY <1>1
  <2>2. /\ b \in Seq(Items)
        /\ Len(b) = IF k + 1 <= Len(f) THEN Len(f) - (k + 1) + 1 ELSE 0
        /\ \A i \in 1..(Len(f) - (k + 1) + 1) : b[i] = f[k + 1 + i - 1]
    BY <1>1, <2>1, SubSeqProperties
  <2> HIDE DEF b
  <2> QED BY <1>1, <2>2
<1> HIDE DEF a, b
<1>4. /\ g \in Seq(Items) /\ Len(g) = Len(a) + Len(b)
      /\ \A i \in 1..Len(a) + Len(b) : g[i] = IF i <= Len(a) THEN a[i] ELSE b[i - Len(a)]
  BY <1>2, <1>3, ConcatProperties
<1>5. RemoveAt(f, k) = g
  BY DEF RemoveAt, a, b
<1> HIDE DEF g
<1>6. ASSUME NEW i \in 1..Len(f), i # k PROVE f[i] \in Listed(g)
  <2>1. CASE i < k
    <3>1. i \in 1..(k - 1)
      BY <1>1, <2>1
    <3>2. a[i] = f[i] /\ i <= Len(a) /\ i \in 1..Len(g) /\ i \in 1..Len(a) + Len(b)
      BY <1>2, <1>3, <1>4, <3>1
    <3>3. g[i] = f[i]
      BY <1>4, <3>2
    <3> QED BY <3>2, <3>3 DEF Listed
  <2>2. CASE i > k
    <3>1. i - k \in 1..(Len(f) - k) /\ k + (i - k) = i
      BY <1>1, <2>2
    <3>2. b[i - k] = f[i]
      BY <1>3, <3>1
    <3>3. /\ i - 1 \in 1..Len(a) + Len(b) /\ ~(i - 1 <= Len(a))
          /\ (i - 1) - Len(a) = i - k
      BY <1>1, <1>2, <1>3, <2>2
    <3>4. i - 1 \in 1..Len(g) /\ g[i - 1] = f[i]
      BY <1>4, <3>2, <3>3
    <3> QED BY <3>4 DEF Listed
  <2> QED BY <1>6, <2>1, <2>2
<1> QED BY <1>4, <1>5, <1>6 DEF Listed

(* Between waitingGames and the Add that follows it, what waits is in the      *)
(* worker's hands or has already been told.                                    *)
Heard ==
  /\ fed \in [Passes -> Seq(Items)]
  /\ todo \in [Passes -> SUBSET Items]
  /\ \A p \in Alive : worker[p] = "give" =>
       Waiting \ retried \subseteq todo[p] \cup Listed(fed[p])
  /\ NewWorkHeard

\* A pass whose prefetcher has to know of what waits, or will be told.
Feeds(p) == worker[p] \notin {"free", "begin", "list", "leave", "stop"}

\* What the prefetcher of a pass knows, or is about to be told.
Knows(p) == IF worker[p] = "give" THEN todo[p] \cup Listed(fed[p]) ELSE Listed(fed[p])

LEMMA HeardIs ==
  Heard <=> /\ fed \in [Passes -> Seq(Items)]
            /\ todo \in [Passes -> SUBSET Items]
            /\ \A p \in Passes : Feeds(p) => Waiting \ retried \subseteq Knows(p)
BY DEF Heard, NewWorkHeard, Alive, Feeds, Knows

LEMMA HeardIsNext ==
  Heard' <=> /\ fed' \in [Passes -> Seq(Items)]
             /\ todo' \in [Passes -> SUBSET Items]
             /\ \A p \in Passes : Feeds(p)' => (Waiting \ retried)' \subseteq Knows(p)'
BY DEF Heard, NewWorkHeard, Alive, Feeds, Knows

(* A step that tells a prefetcher nothing, starts no telling and leaves no new *)
(* work unheard of.                                                            *)
LEMMA HeardStays ==
  ASSUME Heard, UNCHANGED << fed, todo >>,
         Waiting' \ retried' \subseteq Waiting \ retried,
         \A p \in Passes :
           Feeds(p)' => Feeds(p) /\ (worker'[p] = "give" <=> worker[p] = "give")
  PROVE  Heard'
<1>1. ASSUME NEW p \in Passes, Feeds(p)' PROVE (Waiting \ retried)' \subseteq Knows(p)'
  <2>1. Waiting \ retried \subseteq Knows(p)
    BY <1>1, HeardIs
  <2>2. Knows(p)' = Knows(p)
    BY <1>1 DEF Knows
  <2> QED BY <2>1, <2>2
<1> QED BY <1>1, HeardIs, HeardIsNext

(* The interface's operations: Add tells the prefetcher of the pass under way, *)
(* which a pass past its first step always is.                                 *)
LEMMA InterfaceHeard == IInv /\ Heard /\ Interface => Heard'
<1> SUFFICES ASSUME IInv, Heard, Interface PROVE Heard'
  OBVIOUS
<1>1. ASSUME NEW n \in 1..MaxGroup, Add(n) PROVE Heard'
  <2> DEFINE new == (added + 1)..(added + n)
  <2>1. /\ n \in Nat /\ added \in Nat /\ added + n <= MaxItems /\ MaxItems \in Nat
        /\ state' = [i \in Items |-> IF i \in new THEN "waiting" ELSE state[i]]
        /\ listed' = listed \cup new
        /\ UNCHANGED << worker, todo, retried >>
    BY <1>1, QueueAssumption DEF Add, QueueAssumption, IInv, FieldTypes
  <2>2. new \in SUBSET Items
    BY <2>1 DEF Items
  <2>3. IF prefetchOf = NoPass THEN UNCHANGED fed ELSE Feed(prefetchOf, new)
    BY <1>1 DEF Add
  <2> HIDE DEF new
  <2>4. Waiting' \subseteq Waiting \cup new
    BY <2>1 DEF Waiting, IInv, FieldTypes
  <2>5. \A p \in Passes : Feeds(p)' => prefetchOf = p
    BY <2>1 DEF Feeds, IInv, FieldsNamePass, Alive
  <2>6. CASE prefetchOf = NoPass
    <3>1. \A p \in Passes : ~Feeds(p)'
      BY <2>5, <2>6, QueueAssumption DEF QueueAssumption
    <3> QED BY <2>1, <2>3, <2>6, <3>1, HeardIs, HeardIsNext
  <2>7. CASE prefetchOf # NoPass
    <3>1. prefetchOf \in Passes
      BY <2>7 DEF IInv, FieldTypes
    <3>2. /\ fed' \in [Passes -> Seq(Items)]
          /\ Listed(fed'[prefetchOf]) = Listed(fed[prefetchOf]) \cup new
      BY <2>2, <2>3, <2>7, <3>1, FeedAdds, HeardIs
    <3>3. ASSUME NEW p \in Passes, Feeds(p)'
          PROVE  (Waiting \ retried)' \subseteq Knows(p)'
      <4>1. Waiting \ retried \subseteq Knows(p)
        BY <2>1, <3>3, HeardIs DEF Feeds
      <4>2. Knows(p)' = Knows(p) \cup new
        BY <2>1, <2>5, <3>2, <3>3 DEF Knows
      <4> QED BY <2>1, <2>4, <4>1, <4>2
    <3> QED BY <2>1, <3>2, <3>3, HeardIs, HeardIsNext
  <2> QED BY <2>6, <2>7
<1>2. ASSUME NEW i \in Items, Retry(i) PROVE Heard'
  <2>1. /\ state' = [state EXCEPT ![i] = "waiting"] /\ retried' = retried \cup {i}
        /\ UNCHANGED << listed, worker, todo, fed >>
    BY <1>2 DEF Retry, passVars
  <2>2. Waiting' \ retried' \subseteq Waiting \ retried
    BY <2>1 DEF Waiting, IInv, FieldTypes
  <2> QED BY <2>1, <2>2, HeardStays DEF Feeds
<1>3. ASSUME RetriedAll \/ CancelContext PROVE Heard'
  <2>1. UNCHANGED << listed, state, worker, todo, fed, retried >>
    BY <1>3 DEF RetriedAll, CancelContext, qVars, passVars
  <2> QED BY <2>1, HeardStays DEF Feeds, Waiting
<1>4. ASSUME Start PROVE Heard'
  <2>1. UNCHANGED << listed, state, todo, fed, retried >>
    BY <1>4 DEF Start
  <2>2. \/ UNCHANGED worker
        \/ \E p \in Passes : worker' = [worker EXCEPT ![p] = "begin"]
    BY <1>4 DEF Start
  <2>3. \A p \in Passes : Feeds(p)' => worker'[p] = worker[p]
    BY <2>2 DEF Feeds, IInv, FieldTypes
  <2> QED BY <2>1, <2>3, HeardStays DEF Feeds, Waiting
<1>5. ASSUME Cancel PROVE Heard'
  <2>1. /\ state' = [i \in Items |-> IF i \in Waiting THEN "cancelled" ELSE state[i]]
        /\ UNCHANGED << listed, worker, todo, fed >>
    BY <1>5 DEF Cancel, passVars
  <2>2. Waiting' = {}
    BY <2>1 DEF Waiting, IInv, FieldTypes
  <2> QED BY <2>1, <2>2, HeardStays DEF Feeds
<1>6. ASSUME Clear PROVE Heard'
  <2>1. /\ listed' = {i \in listed : state[i] \notin Terminal}
        /\ UNCHANGED << state, worker, todo, fed, retried >>
    BY <1>6 DEF Clear, passVars
  <2>2. Waiting' \subseteq Waiting
    BY <2>1 DEF Waiting
  <2> QED BY <2>1, <2>2, HeardStays DEF Feeds
<1> QED BY <1>1, <1>2, <1>3, <1>4, <1>5, <1>6 DEF Interface

(* The steps of a pass: what it lists it gives before it claims anything, and  *)
(* what it takes back from its prefetcher it is installing.                    *)
LEMMA PassHeard == ASSUME NEW p \in Passes, IInv, Heard, Pass(p) PROVE Heard'
<1> USE DEF At
<1>0. worker \in [Passes -> {"free", "begin", "list", "give", "next", "claimed",
                             "checks", "taking", "write", "settled", "sweep", "leave",
                             "stop"}]
  BY DEF IInv, FieldTypes
<1>a. ASSUME worker[p] \notin {"free", "stop"}
      PROVE  \A q \in Passes : q # p => ~Feeds(q)
  BY <1>a DEF Feeds, IInv, OneWorker, Alive
<1>b. ASSUME NEW there, worker' = [worker EXCEPT ![p] = there],
             worker[p] \notin {"free", "stop"}
      PROVE  \A q \in Passes : q # p => ~Feeds(q)'
  BY <1>0, <1>a, <1>b DEF Feeds
<1>1. ASSUME ListWaiting(p) PROVE Heard'
  <2>1. /\ worker' = [worker EXCEPT ![p] = "give"] /\ worker[p] = "list"
        /\ todo' = [todo EXCEPT ![p] = Waiting]
        /\ UNCHANGED << listed, state, fed, retried >>
    BY <1>1 DEF ListWaiting, qVars
  <2>2. Waiting' = Waiting /\ Waiting \subseteq Items
    BY <2>1 DEF Waiting, IInv, FieldTypes
  <2>3. todo' \in [Passes -> SUBSET Items] /\ todo'[p] = Waiting
    BY <2>1, <2>2, HeardIs
  <2>4. Knows(p)' = Waiting \cup Listed(fed[p])
    BY <1>0, <2>1, <2>3 DEF Knows
  <2>5. \A q \in Passes : Feeds(q)' => (Waiting \ retried)' \subseteq Knows(q)'
    BY <1>b, <2>1, <2>2, <2>4
  <2> QED BY <2>1, <2>3, <2>5, HeardIs, HeardIsNext
<1>2. ASSUME GiveWaiting(p) PROVE Heard'
  <2>1. /\ worker' = [worker EXCEPT ![p] = "next"] /\ worker[p] = "give"
        /\ todo' = [todo EXCEPT ![p] = {}]
        /\ UNCHANGED << listed, state, retried >>
        /\ Feed(p, todo[p])
    BY <1>2 DEF GiveWaiting, qVars
  <2>2. Waiting' = Waiting
    BY <2>1 DEF Waiting
  <2>3. todo[p] \in SUBSET Items /\ todo' \in [Passes -> SUBSET Items]
    BY <2>1, HeardIs
  <2>4. /\ fed' \in [Passes -> Seq(Items)]
        /\ Listed(fed'[p]) = Listed(fed[p]) \cup todo[p]
    BY <2>1, <2>3, FeedAdds, HeardIs
  <2>5. Waiting \ retried \subseteq todo[p] \cup Listed(fed[p])
    BY <2>1, HeardIs DEF Feeds, Knows
  <2>6. Knows(p)' = Listed(fed'[p])
    BY <1>0, <2>1 DEF Knows
  <2>7. \A q \in Passes : Feeds(q)' => (Waiting \ retried)' \subseteq Knows(q)'
    BY <1>b, <2>1, <2>2, <2>4, <2>5, <2>6
  <2> QED BY <2>3, <2>4, <2>7, HeardIsNext
<1>3. ASSUME Take(p) PROVE Heard'
  <2>1. /\ worker[p] = "taking" /\ worker' = [worker EXCEPT ![p] = "write"]
        /\ UNCHANGED << listed, state, todo, retried >>
        /\ \/ claim[p] \notin Listed(fed[p]) /\ UNCHANGED fed
           \/ \E k \in 1..Len(fed[p]) :
                fed[p][k] = claim[p] /\ fed' = [fed EXCEPT ![p] = RemoveAt(@, k)]
    BY <1>3 DEF Take, qVars
  <2>2. claim[p] \notin Waiting /\ Waiting' = Waiting
    BY <2>1 DEF Waiting, IInv, ActiveIsWorkedOn, ClaimFresh
  <2>3. fed' \in [Passes -> Seq(Items)] /\ Listed(fed[p]) \ {claim[p]} \subseteq Listed(fed'[p])
    <3>1. CASE UNCHANGED fed
      BY <3>1, HeardIs
    <3>2. ASSUME NEW k \in 1..Len(fed[p]), fed[p][k] = claim[p],
                 fed' = [fed EXCEPT ![p] = RemoveAt(@, k)]
          PROVE  /\ fed' \in [Passes -> Seq(Items)]
                 /\ Listed(fed[p]) \ {claim[p]} \subseteq Listed(fed'[p])
      <4>1. fed[p] \in Seq(Items) /\ fed'[p] = RemoveAt(fed[p], k)
        BY <3>2, HeardIs
      <4> QED BY <3>2, <4>1, RemoveAtKeeps, HeardIs
    <3> QED BY <2>1, <3>1, <3>2
  <2>4. Waiting \ retried \subseteq Listed(fed[p])
    BY <2>1, HeardIs DEF Feeds, Knows
  <2>5. Knows(p)' = Listed(fed'[p])
    BY <1>0, <2>1 DEF Knows
  <2>6. \A q \in Passes : Feeds(q)' => (Waiting \ retried)' \subseteq Knows(q)'
    BY <1>b, <2>1, <2>2, <2>3, <2>4, <2>5
  <2> QED BY <2>1, <2>3, <2>6, HeardIs, HeardIsNext
<1>4. ASSUME Attach(p) \/ Leave(p) \/ Accept(p) \/ LookAtContext(p) \/ NextWaiting(p)
      PROVE  Heard'
  <2>1. UNCHANGED << listed, state, todo, fed, retried >>
    BY <1>4 DEF Attach, Leave, Accept, LookAtContext, NextWaiting, qVars
  <2>2. \E there \in {"list", "stop", "taking", "sweep", "next", "claimed", "leave"} :
          /\ worker' = [worker EXCEPT ![p] = there]
          /\ there \notin {"list", "stop", "leave"} => Feeds(p) /\ worker[p] # "give"
    BY <1>4 DEF Attach, Leave, Accept, LookAtContext, NextWaiting, Feeds
  <2>3. \A q \in Passes :
          Feeds(q)' => Feeds(q) /\ (worker'[q] = "give" <=> worker[q] = "give")
    BY <1>0, <2>2 DEF Feeds
  <2> QED BY <2>1, <2>3, HeardStays DEF Waiting
<1>5. ASSUME Begin(p) PROVE Heard'
  <2>1. /\ worker[p] = "claimed" /\ worker' = [worker EXCEPT ![p] = "checks"]
        /\ state' = [state EXCEPT ![claim[p]] = "active"]
        /\ retried' = retried \ {claim[p]}
        /\ UNCHANGED << listed, todo, fed >>
    BY <1>5 DEF Begin
  <2>2. Waiting' \ retried' \subseteq Waiting \ retried
    BY <2>1 DEF Waiting, IInv, FieldTypes, ClaimFresh
  <2> QED BY <1>0, <2>1, <2>2, HeardStays DEF Feeds
<1>6. ASSUME Refuse(p) \/ Write(p) PROVE Heard'
  <2>1. /\ worker[p] \in {"checks", "write"}
        /\ worker' = [worker EXCEPT ![p] = "settled"]
        /\ \E outcome \in Terminal : state' = [state EXCEPT ![claim[p]] = outcome]
        /\ UNCHANGED << listed, todo, fed, retried >>
    BY <1>6 DEF Refuse, Write, Settle, Terminal
  <2>2. Waiting' \ retried' \subseteq Waiting \ retried
    BY <2>1 DEF Waiting, IInv, FieldTypes, Terminal
  <2> QED BY <1>0, <2>1, <2>2, HeardStays DEF Feeds
<1>7. ASSUME Sweep(p) PROVE Heard'
  <2>1. /\ worker' = [worker EXCEPT ![p] = "leave"]
        /\ state' = [i \in Items |-> IF i \in listed /\ state[i] \notin Terminal
                                     THEN "cancelled" ELSE state[i]]
        /\ UNCHANGED << listed, todo, fed >>
    BY <1>7 DEF Sweep
  <2>2. Waiting' = {}
    BY <2>1 DEF Waiting, Terminal, IInv, FieldTypes
  <2> QED BY <1>0, <2>1, <2>2, HeardStays DEF Feeds
<1>8. ASSUME StopPrefetch(p) PROVE Heard'
  <2>1. /\ worker' = [worker EXCEPT ![p] = "free"]
        /\ fed' = [fed EXCEPT ![p] = << >>]
        /\ UNCHANGED << listed, state, todo, retried >>
    BY <1>8 DEF StopPrefetch, qVars
  <2>2. Waiting' = Waiting /\ fed' \in [Passes -> Seq(Items)]
    BY <2>1, HeardIs DEF Waiting
  <2>3. ASSUME NEW q \in Passes, Feeds(q)' PROVE (Waiting \ retried)' \subseteq Knows(q)'
    <3>1. q # p
      BY <1>0, <2>1, <2>3 DEF Feeds
    <3>2. Feeds(q) /\ Knows(q)' = Knows(q)
      BY <1>0, <2>1, <2>3, <3>1, HeardIs DEF Feeds, Knows
    <3> QED BY <2>1, <2>2, <3>2, HeardIs
  <2> QED BY <2>1, <2>2, <2>3, HeardIs, HeardIsNext
<1> QED BY <1>1, <1>2, <1>3, <1>4, <1>5, <1>6, <1>7, <1>8 DEF Pass

(* "A pass already under way has to hear about these": between the pass's list *)
(* of what waits and its end, everything that waits is with its prefetcher, in *)
(* whatever order the interface adds and the worker lists, gives and takes.    *)
THEOREM NewWorkIsHeard == Spec => []NewWorkHeard
<1>1. Init => Heard
  BY QueueAssumption DEF Init, Heard, NewWorkHeard, Alive, Waiting, QueueAssumption
<1>2. IInv /\ Heard /\ [Next]_vars => Heard'
  <2> SUFFICES ASSUME IInv, Heard, [Next]_vars PROVE Heard'
    OBVIOUS
  <2>1. CASE UNCHANGED vars
    BY <2>1, HeardStays DEF vars, qVars, passVars, Feeds, Waiting
  <2>2. CASE Next
    BY <2>2, InterfaceHeard, PassHeard DEF Next
  <2> QED BY <2>1, <2>2
<1>3. Heard => NewWorkHeard
  BY DEF Heard
<1> QED BY <1>1, <1>2, <1>3, QueueInductive, PTL DEF Spec

-----------------------------------------------------------------------------
(* How discs become titles. *)

\* The discs that one release may have.
Bucketing(D) == {{e \in D : Bucket(e) = Bucket(d)} : d \in D}

\* The discs of one bucket, and how it is split.
LEMMA SplitIs ==
  ASSUME NEW D \in SUBSET Discs, NEW bucket \in Bucketing(D)
  PROVE  /\ bucket \in SUBSET D
         /\ UNION splitUnmarked(bucket) = bucket
         /\ \A g, h \in splitUnmarked(bucket) : g # h => g \cap h = {}
         /\ \A g \in splitUnmarked(bucket) : \A d, e \in g : d.n = 0 => e.n = 0
         /\ \A d, e \in bucket : d.n > 0 /\ e.n > 0 =>
              \E g \in splitUnmarked(bucket) : d \in g /\ e \in g
<1> DEFINE marked == {d \in bucket : d.n > 0}
<1>1. bucket \in SUBSET D
  BY DEF Bucketing
<1>2. \A d \in bucket : d.n \in Nat
  BY <1>1, LibraryAssumption
<1>3. CASE marked = {} \/ marked = bucket
  <2>1. splitUnmarked(bucket) = {bucket}
    BY <1>3 DEF splitUnmarked
  <2>2. \A d, e \in bucket : d.n = 0 => e.n = 0
    BY <1>2, <1>3
  <2> QED
    BY <1>1, <2>1, <2>2
<1>4. CASE ~(marked = {} \/ marked = bucket)
  <2>1. splitUnmarked(bucket) = {marked} \cup {{d} : d \in bucket \ marked}
    BY <1>4 DEF splitUnmarked
  <2>2. \A d \in bucket : d \in marked <=> d.n # 0
    BY <1>2
  <2>3. \A d \in bucket : d.n > 0 => d \in marked
    OBVIOUS
  <2>4. marked \subseteq bucket
    OBVIOUS
  <2> HIDE DEF marked
  <2>5. UNION splitUnmarked(bucket) = bucket
    <3>1. \A d \in bucket : \E g \in splitUnmarked(bucket) : d \in g
      <4> SUFFICES ASSUME NEW d \in bucket PROVE \E g \in splitUnmarked(bucket) : d \in g
        OBVIOUS
      <4>1. CASE d \in marked
        BY <2>1, <4>1
      <4>2. CASE d \notin marked
        <5>1. {d} \in splitUnmarked(bucket)
          BY <2>1, <4>2
        <5> QED
          BY <5>1
      <4> QED
        BY <4>1, <4>2
    <3>2. \A g \in splitUnmarked(bucket) : g \subseteq bucket
      BY <2>1, <2>4
    <3> QED
      BY <3>1, <3>2
  <2>6. \A g, h \in splitUnmarked(bucket) : g # h => g \cap h = {}
    BY <2>1
  <2>7. \A g \in splitUnmarked(bucket) : \A d, e \in g : d.n = 0 => e.n = 0
    BY <2>1, <2>2, <2>4
  <2>8. \A d, e \in bucket : d.n > 0 /\ e.n > 0 =>
          \E g \in splitUnmarked(bucket) : d \in g /\ e \in g
    BY <2>1, <2>3
  <2> QED
    BY <1>1, <2>5, <2>6, <2>7, <2>8
<1> QED
  BY <1>3, <1>4

\* The titles made of some discs, each by its group and its bucket.
LEMMA GroupIs ==
  ASSUME NEW D \in SUBSET Discs
  PROVE  /\ \A t \in Group(D) : \E b \in Bucketing(D) : \E g \in splitUnmarked(b) : t = TitleOf(g, b)
         /\ \A b \in Bucketing(D) : \A g \in splitUnmarked(b) : TitleOf(g, b) \in Group(D)
         /\ \A b \in Bucketing(D) : \A d \in b : b = {e \in D : Bucket(e) = Bucket(d)}
         /\ \A d \in D : {e \in D : Bucket(e) = Bucket(d)} \in Bucketing(D)
<1>1. Group(D) = UNION {{TitleOf(g, b) : g \in splitUnmarked(b)} : b \in Bucketing(D)}
  BY DEF Group, Bucketing
<1>2. \A b \in Bucketing(D) : \A d \in b : b = {e \in D : Bucket(e) = Bucket(d)}
  BY DEF Bucketing
<1>3. \A d \in D : {e \in D : Bucket(e) = Bucket(d)} \in Bucketing(D)
  BY DEF Bucketing
<1> HIDE DEF Bucketing
<1> QED
  BY <1>1, <1>2, <1>3

LEMMA FilesOfTitle ==
  ASSUME NEW g, NEW b
  PROVE  /\ FileSet(TitleOf(g, b)) = {d.file : d \in g}
         /\ \A x \in TitleOf(g, b).discs : \E d \in g : x.file = d.file /\ x.number = NumberIn(g, d)
                                                      /\ x = [number |-> NumberIn(g, d), file |-> d.file]
<1> DEFINE ds == {[number |-> NumberIn(g, d), file |-> d.file] : d \in g}
<1>1. TitleOf(g, b).discs = ds
  BY DEF TitleOf
<1>2. {x.file : x \in ds} = {d.file : d \in g}
  <2>1. ASSUME NEW x \in ds PROVE \E d \in g : x.file = d.file
    OBVIOUS
  <2>2. ASSUME NEW d \in g PROVE \E x \in ds : x.file = d.file
    <3> DEFINE x == [number |-> NumberIn(g, d), file |-> d.file]
    <3>1. x \in ds /\ x.file = d.file
      OBVIOUS
    <3> QED
      BY <3>1
  <2> HIDE DEF ds
  <2> QED
    BY <2>1, <2>2
<1>3. \A x \in ds : \E d \in g : x.file = d.file /\ x.number = NumberIn(g, d)
                               /\ x = [number |-> NumberIn(g, d), file |-> d.file]
  OBVIOUS
<1> HIDE DEF ds
<1> QED
  BY <1>1, <1>2, <1>3 DEF FileSet

LEMMA DiscIs == ASSUME NEW d \in Discs PROVE DiscOf(d.file) = d
  BY LibraryAssumption DEF DiscOf

\* Grouping loses no disc and lists none twice, whatever discs there are and however
\* they are named.
THEOREM DiscsAreKept == library \in Libraries => EveryDiscOnce
<1> SUFFICES ASSUME library \in Libraries PROVE EveryDiscOnce
  OBVIOUS
<1> DEFINE D == library.discs
           T == Group(D)
<1>0. D \in SUBSET Discs
  BY DEF Libraries
<1> HIDE DEF D
<1>1. /\ \A t \in T : \E b \in Bucketing(D) : \E g \in splitUnmarked(b) : t = TitleOf(g, b)
      /\ \A b \in Bucketing(D) : \A g \in splitUnmarked(b) : TitleOf(g, b) \in T
      /\ \A b \in Bucketing(D) : \A d \in b : b = {e \in D : Bucket(e) = Bucket(d)}
      /\ \A d \in D : {e \in D : Bucket(e) = Bucket(d)} \in Bucketing(D)
  BY <1>0, GroupIs
<1> HIDE DEF T
<1>2. UNION {FileSet(t) : t \in T} = {d.file : d \in D}
  <2>1. ASSUME NEW t \in T, NEW f \in FileSet(t) PROVE f \in {d.file : d \in D}
    <3>1. PICK b \in Bucketing(D) : \E g \in splitUnmarked(b) : t = TitleOf(g, b)
      BY <1>1
    <3>2. PICK g \in splitUnmarked(b) : t = TitleOf(g, b)
      BY <3>1
    <3>3. g \subseteq b /\ b \subseteq D
      BY <1>0, SplitIs
    <3>4. PICK d \in g : f = d.file
      BY <2>1, <3>2, FilesOfTitle
    <3> QED
      BY <3>3, <3>4
  <2>2. ASSUME NEW d \in D PROVE \E t \in T : d.file \in FileSet(t)
    <3> DEFINE b == {e \in D : Bucket(e) = Bucket(d)}
    <3>1. b \in Bucketing(D) /\ d \in b
      BY <1>1
    <3> HIDE DEF b
    <3>2. PICK g \in splitUnmarked(b) : d \in g
      BY <1>0, <3>1, SplitIs
    <3>3. TitleOf(g, b) \in T /\ d.file \in FileSet(TitleOf(g, b))
      BY <1>1, <3>1, <3>2, FilesOfTitle
    <3> QED
      BY <3>3
  <2> QED
    BY <2>1, <2>2
<1>3. ASSUME NEW t \in T, NEW u \in T, t # u PROVE FileSet(t) \cap FileSet(u) = {}
  <2> SUFFICES ASSUME NEW f \in FileSet(t), f \in FileSet(u) PROVE FALSE
    OBVIOUS
  <2>1. PICK b \in Bucketing(D) : \E g \in splitUnmarked(b) : t = TitleOf(g, b)
    BY <1>1
  <2>2. PICK g \in splitUnmarked(b) : t = TitleOf(g, b)
    BY <2>1
  <2>3. PICK c \in Bucketing(D) : \E h \in splitUnmarked(c) : u = TitleOf(h, c)
    BY <1>1
  <2>4. PICK h \in splitUnmarked(c) : u = TitleOf(h, c)
    BY <2>3
  <2>5. PICK d \in g : f = d.file
    BY <2>2, FilesOfTitle
  <2>6. PICK e \in h : f = e.file
    BY <2>4, FilesOfTitle
  <2>7. d \in b /\ e \in c /\ d \in Discs /\ e \in Discs
    BY <1>0, SplitIs
  <2>8. d = e
    BY <2>5, <2>6, <2>7, LibraryAssumption
  <2>9. b = c
    <3>1. b = {k \in D : Bucket(k) = Bucket(d)}
      BY <1>1, <2>7
    <3>2. c = {k \in D : Bucket(k) = Bucket(e)}
      BY <1>1, <2>7
    <3> QED
      BY <2>8, <3>1, <3>2
  <2>10. g = h
    BY <1>0, <2>8, <2>9, SplitIs
  <2> QED
    BY <1>3, <2>2, <2>4, <2>9, <2>10
<1>4. ASSUME NEW t \in T, NEW x \in t.discs, NEW y \in t.discs
      PROVE  /\ DiscOf(x.file).n = 0 => DiscOf(y.file).n = 0
             /\ x.number = y.number => x = y \/ DiscOf(x.file).n = DiscOf(y.file).n
  <2>1. PICK b \in Bucketing(D) : \E g \in splitUnmarked(b) : t = TitleOf(g, b)
    BY <1>1
  <2>2. PICK g \in splitUnmarked(b) : t = TitleOf(g, b)
    BY <2>1
  <2>3. PICK d \in g : x.file = d.file /\ x.number = NumberIn(g, d)
    BY <2>2, FilesOfTitle
  <2>4. PICK e \in g : y.file = e.file /\ y.number = NumberIn(g, e)
    BY <2>2, FilesOfTitle
  <2>5. d \in Discs /\ e \in Discs /\ (d.n = 0 => e.n = 0) /\ (e.n = 0 => d.n = 0)
    BY <1>0, SplitIs
  <2>6. DiscOf(x.file) = d /\ DiscOf(y.file) = e
    BY <2>3, <2>4, <2>5, DiscIs
  <2>7. NumberIn(g, d) = NumberIn(g, e) => d.n = e.n
    BY <2>5 DEF NumberIn
  <2> QED
    BY <2>3, <2>4, <2>5, <2>6, <2>7
<1>5. ASSUME NEW d \in D, NEW e \in D, d.n > 0, e.n > 0, Bucket(d) = Bucket(e)
      PROVE  \E t \in T : {d.file, e.file} \subseteq FileSet(t)
  <2> DEFINE b == {k \in D : Bucket(k) = Bucket(d)}
  <2>1. b \in Bucketing(D) /\ d \in b /\ e \in b
    BY <1>1, <1>5
  <2> HIDE DEF b
  <2>2. PICK g \in splitUnmarked(b) : d \in g /\ e \in g
    BY <1>0, <1>5, <2>1, SplitIs
  <2>3. TitleOf(g, b) \in T /\ {d.file, e.file} \subseteq FileSet(TitleOf(g, b))
    BY <1>1, <2>1, <2>2, FilesOfTitle
  <2> QED
    BY <2>3
<1> QED
  BY <1>2, <1>3, <1>4, <1>5 DEF EveryDiscOnce, T, D

-----------------------------------------------------------------------------
(* How titles become rows. *)

LEMMA ImageFinite ==
  ASSUME NEW S, IsFiniteSet(S), NEW f, DOMAIN f = S
  PROVE  IsFiniteSet({f[x] : x \in S})
<1> DEFINE T == {f[x] : x \in S}
           g == [x \in S |-> f[x]]
<1>1. g \in Surjection(S, T)
  BY DEF Surjection
<1> QED
  BY <1>1, FS_Surjection

\* A listing has every element of its set and no other.
LEMMA ListingIs ==
  ASSUME NEW S, IsFiniteSet(S)
  PROVE  /\ Listing(S) \in Seq(S)
         /\ \A x \in S : \E i \in DOMAIN Listing(S) : Listing(S)[i] = x
<1> DEFINE n == Cardinality(S)
           l == Listing(S)
           Fits(f) == f \in [1 .. n -> S] /\ IsInjective(f)
<1>1. n \in Nat
  BY FS_CardinalityType
<1>2. \E f : Fits(f)
  <2>1. ExistsBijection(1 .. n, S)
    BY FS_NatBijection, FS_CardinalityType
  <2> QED
    BY <2>1 DEF ExistsBijection, Bijection, Injection
<1>3. l = CHOOSE f \in [1 .. n -> S] : IsInjective(f)
  BY DEF Listing, SetToSeq
<1>4. Fits(l)
  BY <1>2, <1>3
<1> HIDE DEF l
<1>5. l \in Injection(1 .. n, S)
  BY <1>4 DEF Injection
<1>6. Cardinality(1 .. n) = n
  BY <1>1, FS_Interval
<1> HIDE DEF n
<1>7. l \in Surjection(1 .. n, S)
  BY <1>5, <1>6, FS_Injection DEF n
<1>8. l \in Seq(S) /\ DOMAIN l = 1 .. n
  BY <1>1, <1>4, SeqDef
<1> QED
  BY <1>7, <1>8 DEF Surjection, l

LEMMA GroupFinite ==
  ASSUME NEW D \in SUBSET Discs
  PROVE  IsFiniteSet(Group(D)) /\ \A t \in Group(D) : IsTitle(t)
<1>1. IsFiniteSet(D)
  BY LibraryAssumption, FS_Subset
<1> DEFINE Titles(b) == {TitleOf(g, b) : g \in splitUnmarked(b)}
<1>2. Group(D) = UNION {Titles(b) : b \in Bucketing(D)}
  BY DEF Group, Bucketing
<1>3. IsFiniteSet(Bucketing(D))
  <2> DEFINE f == [d \in D |-> {e \in D : Bucket(e) = Bucket(d)}]
  <2>1. Bucketing(D) = {f[d] : d \in D} /\ DOMAIN f = D
    BY DEF Bucketing
  <2> HIDE DEF f
  <2> QED
    BY <1>1, <2>1, ImageFinite
<1>4. ASSUME NEW b \in Bucketing(D) PROVE IsFiniteSet(Titles(b))
  <2> DEFINE f == [g \in splitUnmarked(b) |-> TitleOf(g, b)]
  <2>1. b \subseteq D
    BY DEF Bucketing
  <2>2. splitUnmarked(b) \subseteq SUBSET b
    BY DEF splitUnmarked
  <2>3. IsFiniteSet(splitUnmarked(b))
    BY <1>1, <2>1, <2>2, FS_SUBSET, FS_Subset
  <2>4. Titles(b) = {f[g] : g \in splitUnmarked(b)} /\ DOMAIN f = splitUnmarked(b)
    OBVIOUS
  <2> HIDE DEF f, Titles
  <2> QED
    BY <2>3, <2>4, ImageFinite
<1>5. IsFiniteSet(Group(D))
  <2> DEFINE U == {Titles(b) : b \in Bucketing(D)}
             f == [b \in Bucketing(D) |-> Titles(b)]
  <2>1. U = {f[b] : b \in Bucketing(D)} /\ DOMAIN f = Bucketing(D)
    OBVIOUS
  <2>2. \A T \in U : IsFiniteSet(T)
    BY <1>4
  <2>3. Group(D) = UNION U
    BY <1>2
  <2> HIDE DEF f, U
  <2>4. IsFiniteSet(U)
    BY <1>3, <2>1, ImageFinite
  <2> QED
    BY <2>2, <2>3, <2>4, FS_UNION
<1>6. ASSUME NEW t \in Group(D) PROVE IsTitle(t)
  <2>1. PICK b \in Bucketing(D) : \E g \in splitUnmarked(b) : t = TitleOf(g, b)
    BY <1>2
  <2>2. PICK g \in splitUnmarked(b) : t = TitleOf(g, b)
    BY <2>1
  <2> DEFINE first == FirstOf(g)
             ds == {[number |-> NumberIn(g, d), file |-> d.file] : d \in g}
             tt == IF g = b \/ first.n > 0 THEN BucketTitle(first) ELSE FullName[first.file]
  <2>3. t = [platform |-> "PS1", id |-> first.id, file |-> first.file, title |-> tt, discs |-> ds]
    BY <2>2, Zenon DEF TitleOf
  <2> HIDE DEF tt, ds, first
  <2> QED
    BY <2>3 DEF IsTitle
<1> QED
  BY <1>5, <1>6

\* The games and the rows there can be of what is on the drive and what the sources hold.
Like(G) == [ platform : {g.platform : g \in G}, id : {g.id : g \in G}, file : {g.file : g \in G},
             title : {g.title : g \in G}, discs : {g.discs : g \in G} ]
RowSet(G) == [ game : Like(G), installed : BOOLEAN, inSource : BOOLEAN, source : Like(G) \cup {NoSource} ]

\* What merging keeps: the rows of the drive are the first, with their titles; a row
\* after them has a key of its own; and a source title is on the last row of its key.
Tells(rows, on) ==
  /\ Len(on) <= Len(rows)
  /\ \A i \in 1 .. Len(on) : /\ rows[i].installed
                             /\ rows[i].game.platform = on[i].platform /\ rows[i].game.id = on[i].id
                             /\ rows[i].game.title = on[i].title
  /\ \A i, j \in DOMAIN rows : Len(on) < i /\ Key(rows[i].game) = Key(rows[j].game) => i = j
  /\ \A i, j \in DOMAIN rows : rows[i].inSource /\ Key(rows[i].game) = Key(rows[j].game) => j <= i

Merging(G, on) == {rows \in Seq(RowSet(G)) : Tells(rows, on)}

LEMMA KeyIs ==
  ASSUME NEW g, NEW h, g.platform = h.platform, g.id = h.id, g.id = NoId => g.title = h.title
  PROVE  Key(g) = Key(h)
  BY DEF Key

LEMMA KeyTells == ASSUME NEW g, NEW h, Key(g) = Key(h) PROVE g.id = h.id
<1> DEFINE long(x) == << x.platform, "title", x.title >>
           short(x) == << x.platform, x.id >>
<1>1. \A x, y : long(x) # short(y)
  OBVIOUS
<1>2. \A x, y : short(x) = short(y) => x.id = y.id
  OBVIOUS
<1>3. \A x : Key(x) = IF x.id # NoId THEN short(x) ELSE long(x)
  BY DEF Key
<1> HIDE DEF long, short
<1> QED
  BY <1>1, <1>2, <1>3

\* One more title of the sources.
HasRow(rows, g) == \E i \in DOMAIN rows : rows[i].inSource /\ Key(rows[i].game) = Key(g)

\* A title gets a row of its own, or the last row of its key, which keeps its title and
\* its first file.
Added(rows, g, to) ==
  /\ \A i \in DOMAIN rows : Key(rows[i].game) # Key(g) /\ to[i] = rows[i]
  /\ Len(to) = Len(rows) + 1 /\ to[Len(rows) + 1] = Row(g, FALSE)

Into(rows, g, to, i) ==
  /\ i \in DOMAIN rows /\ Key(rows[i].game) = Key(g)
  /\ \A k \in DOMAIN rows : /\ Key(rows[k].game) = Key(g) => k <= i
                            /\ k # i => to[k] = rows[k]
  /\ Len(to) = Len(rows)
  /\ to[i].inSource /\ to[i].source = g /\ to[i].installed = rows[i].installed
  /\ to[i].game.platform = rows[i].game.platform /\ to[i].game.id = rows[i].game.id
  /\ to[i].game.title = rows[i].game.title /\ to[i].game.discs = rows[i].game.discs
  /\ to[i].game.file = IF rows[i].game.file = 0 THEN g.file ELSE rows[i].game.file

LEMMA MergeIs ==
  ASSUME NEW G, NEW rows \in Seq(RowSet(G)), NEW g \in Like(G)
  PROVE  /\ MergeSource(rows, g) \in Seq(RowSet(G))
         /\ \/ Added(rows, g, MergeSource(rows, g))
            \/ \E i : Into(rows, g, MergeSource(rows, g), i)
<1> DEFINE same == {i \in DOMAIN rows : Key(rows[i].game) = Key(g)}
           n == Len(rows)
           to == MergeSource(rows, g)
<1>2. n \in Nat /\ DOMAIN rows = 1 .. n /\ \A i \in 1 .. n : rows[i] \in RowSet(G)
  BY LenProperties
<1>3. ASSUME NEW r \in RowSet(G)
      PROVE  /\ r = [game |-> r.game, installed |-> r.installed, inSource |-> r.inSource, source |-> r.source]
             /\ r.game \in Like(G) /\ r.installed \in BOOLEAN /\ r.inSource \in BOOLEAN
             /\ r.source \in Like(G) \cup {NoSource}
             /\ r.game = [platform |-> r.game.platform, id |-> r.game.id, file |-> r.game.file,
                          title |-> r.game.title, discs |-> r.game.discs]
  BY DEF RowSet, Like
<1>4. CASE same = {}
  <2> DEFINE new == Row(g, FALSE)
  <2>1. to = Append(rows, new)
    BY <1>4 DEF MergeSource
  <2>2. new \in RowSet(G)
    BY DEF Row, RowSet
  <2> HIDE DEF new
  <2>3. /\ to \in Seq(RowSet(G)) /\ Len(to) = n + 1 /\ to[n + 1] = new
        /\ \A i \in 1 .. n : to[i] = rows[i]
    BY <1>2, <2>1, <2>2, AppendProperties
  <2>4. \A i \in 1 .. n : Key(rows[i].game) # Key(g)
    BY <1>2, <1>4
  <2> HIDE DEF to
  <2>5. Added(rows, g, to)
    BY <1>2, <2>3, <2>4 DEF Added, new
  <2> QED
    BY <2>3, <2>5 DEF to
<1>5. CASE same # {}
  <2> DEFINE i == CHOOSE j \in same : \A k \in same : k <= j
             game == [rows[i].game EXCEPT !.file = IF @ = 0 THEN g.file ELSE @]
             row == [game |-> game, installed |-> rows[i].installed, inSource |-> TRUE, source |-> g]
  <2>1. same \in SUBSET (1 .. n)
    BY <1>2
  <2>2. \E x \in same : \A y \in same : y <= x
    <3> HIDE DEF same
    <3> QED
      BY <1>2, <1>5, <2>1, MaxIs
  <2>3. i \in same /\ \A y \in same : y <= i
    BY <2>2
  <2>4. to = [rows EXCEPT ![i].inSource = TRUE, ![i].source = g,
                          ![i].game.file = IF @ = 0 THEN g.file ELSE @]
    BY <1>5 DEF MergeSource
  <2>5. i \in 1 .. n /\ Key(rows[i].game) = Key(g) /\ \A k \in 1 .. n : Key(rows[k].game) = Key(g) => k <= i
    BY <1>2, <2>3
  <2> HIDE DEF i, same
  <2>6. rows[i] \in RowSet(G)
    BY <1>2, <2>5
  <2> DEFINE r == rows[i]
  <2>7. /\ r = [game |-> r.game, installed |-> r.installed, inSource |-> r.inSource, source |-> r.source]
        /\ r.game \in Like(G) /\ r.installed \in BOOLEAN
        /\ r.game = [platform |-> r.game.platform, id |-> r.game.id, file |-> r.game.file,
                     title |-> r.game.title, discs |-> r.game.discs]
    BY <1>3, <2>6
  <2>8. to = [rows EXCEPT ![i] = row]
    BY <1>2, <2>4, <2>5, <2>7, ZenonT(60)
  <2>9. /\ game \in Like(G)
        /\ game.platform = r.game.platform /\ game.id = r.game.id /\ game.title = r.game.title
        /\ game.discs = r.game.discs /\ game.file = IF r.game.file = 0 THEN g.file ELSE r.game.file
    BY <2>7 DEF Like
  <2> HIDE DEF game
  <2>10. row \in RowSet(G)
    BY <2>7, <2>9 DEF RowSet
  <2>12. row.game = game /\ row.installed = r.installed /\ row.inSource = TRUE /\ row.source = g
    OBVIOUS
  <2> HIDE DEF r, row, to
  <2>13. to \in Seq(RowSet(G)) /\ Len(to) = n
    BY <2>5, <2>8, <2>10, ExceptSeq
  <2>14. \A k \in 1 .. n : to[k] = IF k = i THEN row ELSE rows[k]
    BY <1>2, <2>8
  <2>15. Into(rows, g, to, i)
    BY <1>2, <2>5, <2>9, <2>12, <2>13, <2>14 DEF Into, r
  <2> QED
    BY <2>13, <2>15 DEF to
<1> QED
  BY <1>4, <1>5

LEMMA MergeOne ==
  ASSUME NEW G, NEW on, Len(on) \in Nat, NEW rows \in Merging(G, on), NEW g \in G,
         g \in Like(G)
  PROVE  /\ MergeSource(rows, g) \in Merging(G, on)
         /\ HasRow(MergeSource(rows, g), g)
         /\ \A h : HasRow(rows, h) => HasRow(MergeSource(rows, g), h)
<1> DEFINE n == Len(rows)
           m == Len(on)
           to == MergeSource(rows, g)
<1>1. rows \in Seq(RowSet(G)) /\ Tells(rows, on)
  BY DEF Merging
<1>2. n \in Nat /\ DOMAIN rows = 1 .. n /\ m <= n /\ m \in Nat
  BY <1>1, LenProperties DEF Tells
<1>3. to \in Seq(RowSet(G)) /\ (Added(rows, g, to) \/ \E i : Into(rows, g, to, i))
  BY <1>1, MergeIs
<1> HIDE DEF to
<1>4. CASE Added(rows, g, to)
  <2> DEFINE new == Row(g, FALSE)
  <2>2. new.game = g /\ new.inSource = TRUE
    BY DEF Row
  <2> HIDE DEF new
  <2>3. /\ Len(to) = n + 1 /\ DOMAIN to = 1 .. n + 1 /\ to[n + 1] = new
        /\ \A i \in 1 .. n : to[i] = rows[i] /\ Key(rows[i].game) # Key(g)
    <3>1. Len(to) = n + 1 /\ to[n + 1] = new /\ \A i \in 1 .. n : to[i] = rows[i] /\ Key(rows[i].game) # Key(g)
      BY <1>2, <1>4, Zenon DEF Added, new
    <3> QED
      BY <1>3, <3>1, LenProperties
  <2>5. \A i \in 1 .. n + 1 : i = n + 1 \/ i \in 1 .. n
    BY <1>2
  <2>6. Tells(to, on)
    <3>1. m <= Len(to)
      BY <1>2, <2>3
    <3>2. \A i \in 1 .. m : i \in 1 .. n
      BY <1>2
    <3>3. \A i \in 1 .. m : /\ to[i].installed
                            /\ to[i].game.platform = on[i].platform /\ to[i].game.id = on[i].id
                            /\ to[i].game.title = on[i].title
      BY <1>1, <2>3, <3>2 DEF Tells
    <3>4. ASSUME NEW i \in DOMAIN to, NEW j \in DOMAIN to, Key(to[i].game) = Key(to[j].game)
          PROVE  /\ m < i => i = j
                 /\ to[i].inSource => j <= i
      <4>1. CASE i \in 1 .. n /\ j \in 1 .. n
        BY <1>1, <1>2, <2>3, <3>4, <4>1 DEF Tells
      <4>2. CASE i = n + 1 /\ j = n + 1
        BY <1>2, <4>2
      <4>3. CASE i = n + 1 /\ j \in 1 .. n
        BY <2>2, <2>3, <3>4, <4>3
      <4>4. CASE i \in 1 .. n /\ j = n + 1
        BY <2>2, <2>3, <3>4, <4>4
      <4> QED
        BY <2>3, <2>5, <4>1, <4>2, <4>3, <4>4
    <3> QED
      BY <3>1, <3>3, <3>4 DEF Tells
  <2>7. n + 1 \in 1 .. n + 1
    BY <1>2
  <2>8. HasRow(to, g)
    BY <2>2, <2>3, <2>7 DEF HasRow
  <2>9. ASSUME NEW h, HasRow(rows, h) PROVE HasRow(to, h)
    <3>1. PICK i \in 1 .. n : rows[i].inSource /\ Key(rows[i].game) = Key(h)
      BY <1>2, <2>9 DEF HasRow
    <3>2. i \in 1 .. n + 1
      BY <1>2
    <3> QED
      BY <2>3, <3>1, <3>2 DEF HasRow
  <2> QED
    BY <1>3, <2>6, <2>8, <2>9 DEF Merging, to
<1>5. CASE \E i : Into(rows, g, to, i)
  <2>1. PICK i : Into(rows, g, to, i)
    BY <1>5
  <2>2. /\ i \in 1 .. n /\ Key(rows[i].game) = Key(g) /\ \A k \in 1 .. n : Key(rows[k].game) = Key(g) => k <= i
        /\ Len(to) = n /\ \A k \in 1 .. n : k # i => to[k] = rows[k]
        /\ to[i].inSource /\ to[i].installed = rows[i].installed
        /\ to[i].game.platform = rows[i].game.platform /\ to[i].game.id = rows[i].game.id
        /\ to[i].game.title = rows[i].game.title
    BY <1>2, <2>1 DEF Into
  <2>3. Key(to[i].game) = Key(rows[i].game)
    BY <2>2, KeyIs
  <2>14. DOMAIN to = 1 .. n
    BY <1>3, <2>2, LenProperties
  <2>15. \A k \in 1 .. n : /\ Key(to[k].game) = Key(rows[k].game)
                           /\ to[k].installed = rows[k].installed
                           /\ to[k].game.platform = rows[k].game.platform
                           /\ to[k].game.id = rows[k].game.id /\ to[k].game.title = rows[k].game.title
                           /\ k # i => to[k].inSource = rows[k].inSource
    BY <2>2, <2>3
  <2>16. Tells(to, on)
    <3>1. \A k \in 1 .. m : k \in 1 .. n
      BY <1>2
    <3>2. \A k \in 1 .. m : /\ to[k].installed
                            /\ to[k].game.platform = on[k].platform /\ to[k].game.id = on[k].id
                            /\ to[k].game.title = on[k].title
      BY <1>1, <2>15, <3>1 DEF Tells
    <3>3. ASSUME NEW k \in 1 .. n, NEW j \in 1 .. n, Key(to[k].game) = Key(to[j].game)
          PROVE  /\ m < k => k = j
                 /\ to[k].inSource => j <= k
      <4>1. Key(rows[k].game) = Key(rows[j].game)
        BY <2>15, <3>3
      <4>2. m < k => k = j
        BY <1>1, <1>2, <4>1 DEF Tells
      <4>3. CASE k = i
        BY <2>2, <4>1, <4>2, <4>3
      <4>4. CASE k # i
        BY <1>1, <1>2, <2>15, <4>1, <4>2, <4>4 DEF Tells
      <4> QED
        BY <4>3, <4>4
    <3> QED
      BY <1>2, <2>2, <2>14, <3>2, <3>3 DEF Tells
  <2>17. HasRow(to, g)
    BY <2>2, <2>14, <2>15 DEF HasRow
  <2>18. ASSUME NEW h, HasRow(rows, h) PROVE HasRow(to, h)
    <3>1. PICK k \in 1 .. n : rows[k].inSource /\ Key(rows[k].game) = Key(h)
      BY <1>2, <2>18 DEF HasRow
    <3>2. to[k].inSource /\ Key(to[k].game) = Key(h)
      BY <2>2, <2>14, <2>15, <3>1
    <3> QED
      BY <2>14, <3>2 DEF HasRow
  <2> QED
    BY <1>3, <2>16, <2>17, <2>18 DEF Merging, to
<1> QED
  BY <1>3, <1>4, <1>5

\* The rows of what is on the drive and what the sources hold.
Drive(on) == [i \in DOMAIN on |-> Row(on[i], TRUE)]

\* The rows after each title of the sources.
MergeSteps(a, G, on, source) ==
  /\ a[0] = Drive(on) /\ a[Len(source)] = Rows(on, source)
  /\ \A i \in 0 .. Len(source) : a[i] \in Merging(G, on)
  /\ \A i \in 1 .. Len(source) :
       /\ a[i - 1] \in Merging(G, on) /\ source[i] \in G /\ source[i] \in Like(G)
       /\ a[i] = MergeSource(a[i - 1], source[i])

LEMMA StepsAre ==
  ASSUME NEW G, NEW on, NEW source \in Seq(G), on \in Seq(G), \A g \in G : IsTitle(g)
  PROVE  \E a : MergeSteps(a, G, on, source)
<1> DEFINE n == Len(source)
           base == Drive(on)
           V == Merging(G, on)
           step == [i \in 1 .. n |-> [rows \in V |-> MergeSource(rows, source[i])]]
           Fix(f) == f = [S \in SUBSET (1 .. n) |->
                            IF S = {} THEN base ELSE MergeSource(f[S \ {Max(S)}], source[Max(S)])]
           fl == CHOOSE f : Fix(f)
<1>1. n \in Nat /\ DOMAIN source = 1 .. n /\ \A i \in 1 .. n : source[i] \in G
  BY LenProperties, ElementOfSeq
<1>2. Rows(on, source) = fl[1 .. n]
  BY <1>1 DEF Rows, Drive, FoldLeft, MapThenFoldSet
<1> DEFINE m == Len(on)
<1>3. m \in Nat /\ DOMAIN on = 1 .. m /\ \A i \in 1 .. m : on[i] \in G
  BY LenProperties, ElementOfSeq
<1>4. ASSUME NEW g \in G PROVE g \in Like(G)
  <2>1. g = [platform |-> g.platform, id |-> g.id, file |-> g.file, title |-> g.title, discs |-> g.discs]
    BY DEF IsTitle
  <2>2. g.platform \in {h.platform : h \in G} /\ g.id \in {h.id : h \in G} /\ g.file \in {h.file : h \in G}
        /\ g.title \in {h.title : h \in G} /\ g.discs \in {h.discs : h \in G}
    OBVIOUS
  <2> QED
    BY <2>1, <2>2 DEF Like
<1>5. base \in V
  <2>1. ASSUME NEW i \in 1 .. m
        PROVE  /\ base[i] \in RowSet(G) /\ base[i].game = on[i] /\ base[i].installed /\ ~base[i].inSource
    <3>1. on[i] \in Like(G)
      BY <1>3, <1>4
    <3> DEFINE yes == TRUE
               no == ~yes
               row == [game |-> on[i], installed |-> yes, inSource |-> no, source |-> NoSource]
    <3>2. base[i] = row
      BY <1>3, Zenon DEF Row, Drive
    <3>3. yes \in BOOLEAN /\ no \in BOOLEAN /\ yes /\ ~no
      OBVIOUS
    <3> HIDE DEF base, yes, no
    <3>4. row \in RowSet(G)
      BY <3>1, <3>3 DEF RowSet
    <3>5. row.game = on[i] /\ row.installed = yes /\ row.inSource = no
      OBVIOUS
    <3> QED
      BY <3>2, <3>3, <3>4, <3>5, Zenon
  <2>2. base \in Seq(RowSet(G)) /\ Len(base) = m /\ DOMAIN base = 1 .. m
    <3>1. base \in [1 .. m -> RowSet(G)]
      BY <1>3, <2>1 DEF Drive
    <3> HIDE DEF base, m
    <3>2. base \in Seq(RowSet(G))
      BY <1>3, <3>1, SeqDef
    <3> QED
      BY <1>3, <3>1, <3>2, LenProperties
  <2> HIDE DEF base
  <2>3. Tells(base, on)
    BY <1>3, <2>1, <2>2 DEF Tells
  <2> QED
    BY <2>2, <2>3 DEF Merging
<1> HIDE DEF base, V
<1>6. ASSUME NEW i \in 1 .. n, NEW rows \in V
      PROVE  /\ MergeSource(rows, source[i]) \in V
             /\ HasRow(MergeSource(rows, source[i]), source[i])
             /\ \A h : HasRow(rows, h) => HasRow(MergeSource(rows, source[i]), h)
  <2>1. source[i] \in G /\ source[i] \in Like(G)
    BY <1>1, <1>4
  <2> QED
    BY <1>3, <2>1, MergeOne DEF V
<1>7. step \in [1 .. n -> [V -> V]]
  BY <1>6
<1>8. ASSUME NEW S \in SUBSET (1 .. n), S # {} PROVE Max(S) \in 1 .. n
  BY <1>1, <1>8, MaxIs
<1> HIDE DEF n
<1>9. Fix(fl)
  <2> HIDE DEF step
  <2>0. PICK g : Folded(g, n, V, base, step)
    BY <1>1, <1>5, <1>7, FoldExists
  <2>1. /\ g \in [SUBSET (1 .. n) -> V]
        /\ \A S \in SUBSET (1 .. n) : g[S] = IF S = {} THEN base ELSE step[Max(S)][g[S \ {Max(S)}]]
    BY <2>0 DEF Folded
  <2>2. ASSUME NEW S \in SUBSET (1 .. n), S # {}
        PROVE  g[S] = MergeSource(g[S \ {Max(S)}], source[Max(S)])
    BY <1>8, <2>1, <2>2 DEF step
  <2>3. Fix(g)
    BY <2>1, <2>2
  <2> QED
    BY <2>3
<1> HIDE DEF fl
<1>10. FoldValues(fl, n, V, base, step)
  <2>1. \A S \in SUBSET (1 .. n) :
          /\ S = {} => fl[S] = base
          /\ S # {} /\ fl[S \ {Max(S)}] \in V => fl[S] = step[Max(S)][fl[S \ {Max(S)}]]
    BY <1>8, <1>9
  <2> HIDE DEF step
  <2> QED
    BY <1>1, <1>5, <1>7, <2>1, FoldSteps
<1>11. PICK a : Folding(a, n, V, base, step) /\ a[n] = fl[1 .. n]
  BY <1>10 DEF FoldValues
<1>12. \A i \in 0 .. n : a[i] \in V
  BY <1>11 DEF Folding
<1>13. \A i \in 1 .. n : a[i] = MergeSource(a[i - 1], source[i]) /\ a[i - 1] \in V
  <2> SUFFICES ASSUME NEW i \in 1 .. n PROVE a[i] = MergeSource(a[i - 1], source[i]) /\ a[i - 1] \in V
    OBVIOUS
  <2>1. i - 1 \in 0 .. n
    BY <1>1
  <2>2. a[i - 1] \in V /\ a[i] = step[i][a[i - 1]]
    BY <1>11, <2>1 DEF Folding
  <2> QED
    BY <2>2
<1>14. a[0] = base
  BY <1>11 DEF Folding
<1>15. \A i \in 1 .. n : source[i] \in G /\ source[i] \in Like(G)
  BY <1>1, <1>4 DEF n
<1> QED
  BY <1>2, <1>11, <1>12, <1>13, <1>14, <1>15 DEF MergeSteps, V, n, base

LEMMA RowsAre ==
  ASSUME NEW G, NEW on, NEW source \in Seq(G), on \in Seq(G), \A g \in G : IsTitle(g)
  PROVE  /\ Rows(on, source) \in Merging(G, on)
         /\ \A k \in DOMAIN source : HasRow(Rows(on, source), source[k])
<1> DEFINE n == Len(source)
           V == Merging(G, on)
<1>1. n \in Nat /\ DOMAIN source = 1 .. n /\ Len(on) \in Nat
  BY LenProperties
<1>2. PICK a : MergeSteps(a, G, on, source)
  BY StepsAre
<1>3. /\ a[n] = Rows(on, source) /\ \A i \in 0 .. n : a[i] \in V
      /\ \A i \in 1 .. n : /\ a[i - 1] \in V /\ source[i] \in G /\ source[i] \in Like(G)
                           /\ a[i] = MergeSource(a[i - 1], source[i])
  BY <1>2 DEF MergeSteps
<1> HIDE DEF n, V
<1>6. ASSUME NEW i \in 1 .. n, NEW rows \in V
      PROVE  /\ HasRow(MergeSource(rows, source[i]), source[i])
             /\ \A h : HasRow(rows, h) => HasRow(MergeSource(rows, source[i]), h)
  BY <1>1, <1>3, MergeOne DEF V
<1> DEFINE E == {k \in Nat : k <= n => \A j \in 1 .. k : HasRow(a[k], source[j])}
<1>14. 0 \in E
  OBVIOUS
<1>15. ASSUME NEW k \in Nat, k \in E PROVE k + 1 \in E
  <2> SUFFICES ASSUME k + 1 <= n, NEW j \in 1 .. k + 1 PROVE HasRow(a[k + 1], source[j])
    OBVIOUS
  <2>1. k + 1 \in 1 .. n /\ (k + 1) - 1 = k /\ k <= n
    BY <1>1 DEF n
  <2>2. a[k + 1] = MergeSource(a[k], source[k + 1]) /\ a[k] \in V
    BY <1>3, <2>1
  <2>3. CASE j = k + 1
    BY <1>6, <2>1, <2>2, <2>3
  <2>4. CASE j # k + 1
    <3>1. j \in 1 .. k
      BY <2>4
    <3>2. HasRow(a[k], source[j])
      BY <1>15, <2>1, <3>1
    <3> QED
      BY <1>6, <2>1, <2>2, <3>2
  <2> QED
    BY <2>3, <2>4
<1>16. n \in E
  BY <1>1, <1>14, <1>15, SetInduction DEF n
<1>17. \A j \in 1 .. n : HasRow(a[n], source[j])
  BY <1>1, <1>16 DEF n
<1>18. n \in 0 .. n
  BY <1>1 DEF n
<1> QED
  BY <1>1, <1>3, <1>17, <1>18 DEF V, n

\* Of a key no two rows are of the sources.
LEMMA OneRow ==
  ASSUME NEW G, NEW on, NEW rows \in Merging(G, on), NEW g, HasRow(rows, g)
  PROVE  OneOfKey(rows, g)
<1> DEFINE S == {i \in DOMAIN rows : rows[i].inSource /\ Key(rows[i].game) = Key(g)}
<1>1. PICK i \in DOMAIN rows : rows[i].inSource /\ Key(rows[i].game) = Key(g)
  BY DEF HasRow
<1>2. DOMAIN rows = 1 .. Len(rows) /\ Len(rows) \in Nat /\ Tells(rows, on)
  BY LenProperties DEF Merging
<1>3. \A j \in S : j = i
  BY <1>1, <1>2 DEF Tells
<1>4. S = {i}
  BY <1>1, <1>3
<1> HIDE DEF S
<1>5. Cardinality(S) = 1
  BY <1>4, FS_Singleton
<1> QED
  BY <1>5 DEF OneOfKey, S

\* No title of the drive that was read is shown as available, and every title has its
\* row: in whatever order the titles come, for any library.
THEOREM RowsAreTrue == library \in Libraries => RowsTell
<1> SUFFICES ASSUME library \in Libraries PROVE RowsTell
  OBVIOUS
<1> DEFINE d == library.drive
           l2 == Listing(library.on2)
           l1 == Listing(library.on1)
           read == InstalledRead(IF d \in {"none", "unread"} THEN Unread ELSE l2,
                                 IF d = "partial" THEN Unread ELSE l1)
           c == CatalogWith(d # "none", read, Source)
           T == Group(library.discs) \cup library.images
           G == T \cup library.on2 \cup library.on1
<1>1. /\ library.discs \in SUBSET Discs /\ library.images \in SUBSET Images
      /\ library.on2 \in SUBSET Installed2 /\ library.on1 \in SUBSET Installed1
      /\ d \in {"none", "unread", "partial", "read"}
  BY DEF Libraries
<1>2. /\ IsFiniteSet(T) /\ IsFiniteSet(library.on2) /\ IsFiniteSet(library.on1)
      /\ \A g \in G : IsTitle(g)
  <2>1. IsFiniteSet(Group(library.discs)) /\ \A t \in Group(library.discs) : IsTitle(t)
    BY <1>1, GroupFinite
  <2>2. IsFiniteSet(library.images) /\ IsFiniteSet(library.on2) /\ IsFiniteSet(library.on1)
    BY <1>1, LibraryAssumption, FS_Subset
  <2>3. \A g \in library.images \cup library.on2 \cup library.on1 : IsTitle(g)
    BY <1>1, LibraryAssumption
  <2> QED
    BY <2>1, <2>2, <2>3, FS_Union
<1> HIDE DEF T
<1>3. /\ Source \in Seq(T) /\ l2 \in Seq(library.on2) /\ l1 \in Seq(library.on1)
      /\ \A g \in library.on2 : \E i \in DOMAIN l2 : l2[i] = g
      /\ \A g \in library.on1 : \E i \in DOMAIN l1 : l1[i] = g
  <2>1. Source = Listing(T)
    BY DEF Source, T
  <2> QED
    BY <1>2, <2>1, ListingIs
<1> HIDE DEF l1, l2, G
<1>4. Source \in Seq(G) /\ l2 \in Seq(G) /\ l1 \in Seq(G) /\ << >> \in Seq(G)
  <2>1. T \subseteq G /\ library.on2 \subseteq G /\ library.on1 \subseteq G
    BY DEF G
  <2> QED
    BY <1>3, <2>1, SeqMonotonic, EmptySeq
<1> SUFFICES ASSUME ~c.failed
             PROVE  /\ \A g \in library.on2 \cup library.on1, i \in DOMAIN c.rows :
                         SameTitle(g, c.rows[i].game) => c.rows[i].installed \/ c.warned
                    /\ \A g \in library.on2 : d # "none" =>
                         \E i \in DOMAIN c.rows : c.rows[i].installed /\ c.rows[i].game.title = g.title
                    /\ \A i \in DOMAIN Source : OneOfKey(c.rows, Source[i])
  BY DEF RowsTell, l1, l2
\* What the drive told, and whether anything is missing from it.
<1> DEFINE on == IF d # "none" THEN read.games ELSE << >>
<1>5. /\ c.rows = Rows(on, Source) /\ on \in Seq(G)
      /\ c.warned \/ on = l2 \o l1
      /\ d # "none" => on = l2 \/ on = l2 \o l1
  <2>1. CASE d = "none"
    <3>1. c.rows = Rows(<< >>, Source) /\ c.warned
      BY <2>1 DEF CatalogWith
    <3> QED
      BY <1>4, <2>1, <3>1
  <2>2. CASE d # "none"
    <3>1. read.games # Unread /\ c.rows = Rows(read.games, Source) /\ c.warned = (read.partial \/ FALSE)
      BY <2>2 DEF CatalogWith
    <3>2. d # "unread"
      BY <2>2, <3>1 DEF InstalledRead
    <3>3. \/ read.games = l2 /\ read.partial
          \/ read.games = l2 \o l1 /\ ~read.partial
      BY <1>1, <2>2, <3>1, <3>2 DEF InstalledRead
    <3>4. l2 \o l1 \in Seq(G)
      BY <1>4, ConcatProperties
    <3> HIDE DEF read, c
    <3> QED
      BY <1>4, <2>2, <3>1, <3>3, <3>4
  <2> QED
    BY <2>1, <2>2
<1> HIDE DEF on, c, read
<1>6. c.rows \in Merging(G, on) /\ \A k \in DOMAIN Source : HasRow(c.rows, Source[k])
  BY <1>2, <1>4, <1>5, RowsAre
<1>7. Tells(c.rows, on) /\ Len(on) \in Nat /\ DOMAIN on = 1 .. Len(on)
      /\ Len(c.rows) \in Nat /\ DOMAIN c.rows = 1 .. Len(c.rows)
  BY <1>5, <1>6, LenProperties DEF Merging
<1>8. /\ \A i \in DOMAIN l2 : l2[i] \in {(l2 \o l1)[j] : j \in DOMAIN (l2 \o l1)}
      /\ \A i \in DOMAIN l1 : l1[i] \in {(l2 \o l1)[j] : j \in DOMAIN (l2 \o l1)}
  <2> DEFINE w == l2 \o l1
  <2>1. /\ Len(l2) \in Nat /\ DOMAIN l2 = 1 .. Len(l2) /\ Len(l1) \in Nat /\ DOMAIN l1 = 1 .. Len(l1)
        /\ Len(w) = Len(l2) + Len(l1) /\ DOMAIN w = 1 .. Len(w)
        /\ \A j \in 1 .. Len(w) : w[j] = IF j <= Len(l2) THEN l2[j] ELSE l1[j - Len(l2)]
    BY <1>4, ConcatProperties, LenProperties
  <2> HIDE DEF w
  <2>2. ASSUME NEW i \in DOMAIN l2 PROVE i \in DOMAIN w /\ w[i] = l2[i]
    BY <2>1
  <2>3. ASSUME NEW i \in DOMAIN l1 PROVE Len(l2) + i \in DOMAIN w /\ w[Len(l2) + i] = l1[i]
    <3>1. Len(l2) + i \in 1 .. Len(w) /\ ~(Len(l2) + i <= Len(l2)) /\ (Len(l2) + i) - Len(l2) = i
      BY <2>1
    <3> QED
      BY <2>1, <3>1
  <2> QED
    BY <2>2, <2>3 DEF w
<1>9. ASSUME NEW g \in library.on2 \cup library.on1, NEW i \in DOMAIN c.rows,
             SameTitle(g, c.rows[i].game), ~c.warned
      PROVE  c.rows[i].installed
  <2>1. PICK j \in DOMAIN on : on[j] = g
    <3>1. on = l2 \o l1
      BY <1>5, <1>9
    <3>2. CASE g \in library.on2
      <4>1. PICK k \in DOMAIN l2 : l2[k] = g
        BY <1>3, <3>2
      <4> QED
        BY <1>8, <3>1, <4>1
    <3>3. CASE g \in library.on1
      <4>1. PICK k \in DOMAIN l1 : l1[k] = g
        BY <1>3, <3>3
      <4> QED
        BY <1>8, <3>1, <4>1
    <3> QED
      BY <1>9, <3>2, <3>3
  <2>2. j \in 1 .. Len(on) /\ j \in DOMAIN c.rows /\ c.rows[j].installed
        /\ c.rows[j].game.platform = g.platform /\ c.rows[j].game.id = g.id
        /\ c.rows[j].game.title = g.title
    BY <1>7, <2>1 DEF Tells
  <2>3. Key(c.rows[i].game) = Key(c.rows[j].game)
    BY <1>9, <2>2, KeyIs DEF SameTitle
  <2>4. CASE i <= Len(on)
    BY <1>7, <2>4 DEF Tells
  <2>5. CASE ~(i <= Len(on))
    <3>1. i \in 1 .. Len(c.rows) /\ Len(on) < i
      BY <1>7, <2>5
    <3>2. \A k, h \in DOMAIN c.rows : Len(on) < k /\ Key(c.rows[k].game) = Key(c.rows[h].game) => k = h
      BY <1>7, Zenon DEF Tells
    <3>3. i = j
      BY <2>2, <2>3, <3>1, <3>2
    <3> QED
      BY <2>2, <3>3
  <2> QED
    BY <2>4, <2>5
<1>10. ASSUME NEW g \in library.on2, d # "none"
       PROVE  \E i \in DOMAIN c.rows : c.rows[i].installed /\ c.rows[i].game.title = g.title
  <2>1. PICK j \in DOMAIN on : on[j] = g
    <3>1. PICK k \in DOMAIN l2 : l2[k] = g
      BY <1>3
    <3>2. CASE on = l2
      BY <3>1, <3>2
    <3>3. CASE on = l2 \o l1
      <4>1. g \in {(l2 \o l1)[j] : j \in DOMAIN (l2 \o l1)}
        BY <1>8, <3>1
      <4> QED
        BY <3>3, <4>1
    <3> QED
      BY <1>5, <1>10, <3>2, <3>3
  <2>2. j \in 1 .. Len(on) /\ j \in DOMAIN c.rows /\ c.rows[j].installed /\ c.rows[j].game.title = g.title
    BY <1>7, <2>1 DEF Tells
  <2> QED
    BY <2>2
<1>11. \A i \in DOMAIN Source : OneOfKey(c.rows, Source[i])
  BY <1>6, OneRow
<1> QED
  BY <1>9, <1>10, <1>11

-----------------------------------------------------------------------------
(* How lines become titles to install. *)

\* What a row is named by: the files of the last copy of its title, and of the first its
\* own, with those of its discs on a row after those of the drive.
FirstFile(rows, on, g) ==
  \E r \in DOMAIN rows : /\ Key(rows[r].game) = Key(g) /\ rows[r].game.file = g.file
                         /\ Len(on) < r => rows[r].game.discs = g.discs
LastCopy(rows, g) ==
  \E r \in DOMAIN rows : Key(rows[r].game) = Key(g) /\ g \in {rows[r].game, rows[r].source}

FirstOfKey(source, j) == \A h \in 1 .. j - 1 : Key(source[h]) # Key(source[j])
LastOfKey(source, j, k) == \A h \in 1 .. k : j < h => Key(source[h]) # Key(source[j])

\* After k titles of the sources.
Rowed(r, on, source, k, i) ==
  /\ Len(on) < i => ~r.installed /\ r.game.file # 0
  /\ r.source # NoSource => Key(r.source) = Key(r.game)
  /\ r.game.file # 0 => \E j \in 1 .. k : Key(source[j]) = Key(r.game)

Named(rows, on, source, k) ==
  /\ \A i \in DOMAIN rows : Rowed(rows[i], on, source, k, i)
  /\ \A j \in 1 .. k : /\ FirstOfKey(source, j) => FirstFile(rows, on, source[j])
                       /\ LastOfKey(source, j, k) => LastCopy(rows, source[j])

LEMMA NamedOne ==
  ASSUME NEW G, NEW on, NEW source, NEW k \in Nat, NEW rows \in Merging(G, on), Len(on) \in Nat,
         Named(rows, on, source, k), source[k + 1] \in Like(G),
         \A j \in 1 .. k + 1 : source[j].file # 0
  PROVE  Named(MergeSource(rows, source[k + 1]), on, source, k + 1)
<1> DEFINE g == source[k + 1]
           n == Len(rows)
           to == MergeSource(rows, g)
<1>1. rows \in Seq(RowSet(G)) /\ n \in Nat /\ DOMAIN rows = 1 .. n /\ Len(on) <= n /\ Len(on) \in Nat
  BY LenProperties DEF Merging, Tells
<1>2. to \in Seq(RowSet(G)) /\ (Added(rows, g, to) \/ \E i : Into(rows, g, to, i))
  BY <1>1, MergeIs
<1>4. 1 .. k \subseteq 1 .. k + 1 /\ k + 1 \in 1 .. k + 1 /\ (k + 1) - 1 = k
      /\ \A j \in 1 .. k + 1 : j \in 1 .. k \/ j = k + 1
  OBVIOUS
<1>5. ASSUME NEW j \in 1 .. k, LastOfKey(source, j, k + 1)
      PROVE  LastOfKey(source, j, k) /\ Key(source[j]) # Key(g)
  <2>1. j < k + 1
    OBVIOUS
  <2> QED
    BY <1>4, <1>5, <2>1 DEF LastOfKey
<1> HIDE DEF to
<1>6. CASE Added(rows, g, to)
  <2> DEFINE new == Row(g, FALSE)
  <2>1. new.game = g /\ new.source = NoSource /\ ~new.installed
    BY DEF Row
  <2> HIDE DEF new
  <2>2. /\ Len(to) = n + 1 /\ to[n + 1] = new
        /\ \A i \in 1 .. n : to[i] = rows[i] /\ Key(rows[i].game) # Key(g)
    BY <1>1, <1>6, Zenon DEF Added, new
  <2>3. DOMAIN to = 1 .. n + 1 /\ 1 .. n \subseteq 1 .. n + 1 /\ n + 1 \in 1 .. n + 1
    BY <1>1, <1>2, <2>2, LenProperties
  <2>4. ASSUME NEW i \in DOMAIN to PROVE Rowed(to[i], on, source, k + 1, i)
    <3>1. CASE i \in 1 .. n
      BY <1>1, <1>4, <2>2, <3>1 DEF Named, Rowed
    <3>2. CASE i = n + 1
      <4>1. /\ Key(source[k + 1]) = Key(to[i].game) /\ to[i].source = NoSource /\ ~to[i].installed
            /\ to[i].game.file # 0
        <5>1. g.file # 0
          BY <1>4
        <5> QED
          BY <2>1, <2>2, <3>2, <5>1
      <4> QED
        BY <1>4, <4>1 DEF Rowed
    <3>3. i \in 1 .. n \/ i = n + 1
      BY <1>1, <2>3
    <3> QED
      BY <3>1, <3>2, <3>3
  <2>5. FirstFile(to, on, g) /\ LastCopy(to, g)
    BY <2>1, <2>2, <2>3 DEF FirstFile, LastCopy
  <2>6. ASSUME NEW h PROVE /\ FirstFile(rows, on, h) => FirstFile(to, on, h)
                           /\ LastCopy(rows, h) => LastCopy(to, h)
    <3>1. \A r \in DOMAIN rows : r \in DOMAIN to /\ to[r] = rows[r]
      BY <1>1, <2>2, <2>3
    <3> QED
      BY <3>1 DEF FirstFile, LastCopy
  <2>7. ASSUME NEW j \in 1 .. k + 1
        PROVE  /\ FirstOfKey(source, j) => FirstFile(to, on, source[j])
               /\ LastOfKey(source, j, k + 1) => LastCopy(to, source[j])
    <3>1. CASE j = k + 1
      BY <2>5, <3>1
    <3>2. CASE j \in 1 .. k
      BY <1>5, <2>6, <3>2 DEF Named
    <3> QED
      BY <1>4, <3>1, <3>2
  <2> QED
    BY <2>4, <2>7 DEF Named, to
<1>7. CASE \E i : Into(rows, g, to, i)
  <2>1. PICK i : Into(rows, g, to, i)
    BY <1>7
  <2>2. /\ i \in 1 .. n /\ Key(rows[i].game) = Key(g)
        /\ Len(to) = n /\ \A r \in 1 .. n : r # i => to[r] = rows[r]
        /\ to[i].source = g /\ to[i].installed = rows[i].installed
        /\ to[i].game.platform = rows[i].game.platform /\ to[i].game.id = rows[i].game.id
        /\ to[i].game.title = rows[i].game.title
        /\ to[i].game.discs = rows[i].game.discs
        /\ to[i].game.file = IF rows[i].game.file = 0 THEN g.file ELSE rows[i].game.file
    BY <1>1, <2>1 DEF Into
  <2>3. Key(to[i].game) = Key(rows[i].game)
    BY <2>2, KeyIs
  <2>4. DOMAIN to = 1 .. n
    BY <1>2, <2>2, LenProperties
  <2>5. ASSUME NEW r \in DOMAIN to PROVE Rowed(to[r], on, source, k + 1, r)
    <3>1. Rowed(rows[r], on, source, k, r)
      BY <1>1, <2>4 DEF Named
    <3>2. CASE r = i
      <4>1. Len(on) < r => ~to[r].installed /\ to[r].game.file # 0
        BY <2>2, <3>1, <3>2 DEF Rowed
      <4>2. Key(to[r].source) = Key(to[r].game)
        BY <2>2, <2>3, <3>2
      <4>3. Key(source[k + 1]) = Key(to[r].game)
        BY <2>2, <2>3, <3>2
      <4> QED
        BY <1>4, <4>1, <4>2, <4>3 DEF Rowed
    <3>3. CASE r # i
      <4>1. to[r] = rows[r]
        BY <2>2, <2>4, <3>3
      <4> QED
        BY <1>4, <3>1, <4>1 DEF Rowed
    <3> QED
      BY <3>2, <3>3
  <2>6. LastCopy(to, g)
    BY <2>2, <2>3, <2>4 DEF LastCopy
  <2>7. ASSUME FirstOfKey(source, k + 1) PROVE FirstFile(to, on, g)
    <3>1. rows[i].game.file = 0
      <4>1. Rowed(rows[i], on, source, k, i)
        BY <1>1, <2>2 DEF Named
      <4>2. \A j \in 1 .. k : Key(source[j]) # Key(g)
        BY <1>4, <2>7 DEF FirstOfKey
      <4> QED
        BY <2>2, <4>1, <4>2 DEF Rowed
    <3>2. i <= Len(on)
      <4>1. Rowed(rows[i], on, source, k, i)
        BY <1>1, <2>2 DEF Named
      <4>2. ~(Len(on) < i)
        BY <3>1, <4>1 DEF Rowed
      <4> QED
        BY <1>1, <2>2, <4>2
    <3>3. to[i].game.file = g.file /\ Key(to[i].game) = Key(g)
      BY <2>2, <2>3, <3>1
    <3> QED
      BY <2>2, <2>4, <3>2, <3>3 DEF FirstFile
  <2>8. ASSUME NEW h, h.file # 0, FirstFile(rows, on, h) PROVE FirstFile(to, on, h)
    <3>1. PICK r \in 1 .. n : /\ Key(rows[r].game) = Key(h) /\ rows[r].game.file = h.file
                              /\ Len(on) < r => rows[r].game.discs = h.discs
      BY <1>1, <2>8 DEF FirstFile
    <3>2. /\ Key(to[r].game) = Key(h) /\ to[r].game.file = h.file
          /\ Len(on) < r => to[r].game.discs = h.discs
      BY <2>2, <2>3, <2>8, <3>1
    <3> QED
      BY <2>4, <3>2 DEF FirstFile
  <2>9. ASSUME NEW h, Key(h) # Key(g), LastCopy(rows, h) PROVE LastCopy(to, h)
    <3>1. PICK r \in 1 .. n : Key(rows[r].game) = Key(h) /\ h \in {rows[r].game, rows[r].source}
      BY <1>1, <2>9 DEF LastCopy
    <3>2. to[r] = rows[r]
      BY <2>2, <2>9, <3>1
    <3> QED
      BY <2>4, <3>1, <3>2 DEF LastCopy
  <2>10. ASSUME NEW j \in 1 .. k + 1
         PROVE  /\ FirstOfKey(source, j) => FirstFile(to, on, source[j])
                /\ LastOfKey(source, j, k + 1) => LastCopy(to, source[j])
    <3>1. CASE j = k + 1
      BY <2>6, <2>7, <3>1
    <3>2. CASE j \in 1 .. k
      BY <1>5, <2>8, <2>9, <3>2 DEF Named
    <3> QED
      BY <1>4, <3>1, <3>2
  <2> QED
    BY <2>5, <2>10 DEF Named, to
<1> QED
  BY <1>2, <1>6, <1>7

\* Of the titles of the sources, each with a file, and those of the drive, without.
LEMMA NamedAll ==
  ASSUME NEW G, NEW on, NEW source \in Seq(G), on \in Seq(G), \A g \in G : IsTitle(g),
         \A i \in DOMAIN on : on[i].file = 0, \A i \in DOMAIN source : source[i].file # 0
  PROVE  Named(Rows(on, source), on, source, Len(source))
<1> DEFINE n == Len(source)
           V == Merging(G, on)
<1>1. n \in Nat /\ DOMAIN source = 1 .. n /\ Len(on) \in Nat /\ DOMAIN on = 1 .. Len(on)
  BY LenProperties
<1>2. PICK a : MergeSteps(a, G, on, source)
  BY StepsAre
<1>3. /\ a[n] = Rows(on, source) /\ a[0] = Drive(on) /\ \A i \in 0 .. n : a[i] \in V
      /\ \A i \in 1 .. n : /\ a[i - 1] \in V /\ source[i] \in G /\ source[i] \in Like(G)
                           /\ a[i] = MergeSource(a[i - 1], source[i])
  BY <1>2 DEF MergeSteps
<1> HIDE DEF n, V
<1> DEFINE E == {k \in Nat : k <= n => Named(a[k], on, source, k)}
<1>4. 0 \in E
  <2>1. ASSUME NEW i \in DOMAIN Drive(on) PROVE Rowed(Drive(on)[i], on, source, 0, i)
    <3>1. i \in DOMAIN on /\ Drive(on)[i] = Row(on[i], TRUE)
      BY <2>1 DEF Drive
    <3>2. /\ Drive(on)[i].game = on[i] /\ Drive(on)[i].source = NoSource
      BY <3>1 DEF Row
    <3>3. ~(Len(on) < i)
      BY <1>1, <3>1
    <3>4. on[i].file = 0
      BY <3>1
    <3> QED
      BY <3>2, <3>3, <3>4 DEF Rowed
  <2>2. 1 .. 0 = {}
    OBVIOUS
  <2> QED
    BY <1>3, <2>1, <2>2 DEF Named
<1>5. ASSUME NEW k \in Nat, k \in E PROVE k + 1 \in E
  <2> SUFFICES ASSUME k + 1 <= n PROVE Named(a[k + 1], on, source, k + 1)
    OBVIOUS
  <2>1. k + 1 \in 1 .. n /\ (k + 1) - 1 = k /\ k <= n /\ 1 .. k + 1 \subseteq 1 .. n
    BY <1>1
  <2>2. a[k + 1] = MergeSource(a[k], source[k + 1]) /\ a[k] \in V /\ source[k + 1] \in Like(G)
    BY <1>3, <2>1
  <2>3. Named(a[k], on, source, k)
    BY <1>5, <2>1
  <2>4. \A j \in 1 .. k + 1 : source[j].file # 0
    BY <1>1, <2>1 DEF n
  <2>5. a[k] \in Merging(G, on) /\ k \in Nat /\ Len(on) \in Nat
    BY <1>1, <1>5, <2>2 DEF V
  <2> HIDE DEF E
  <2>6. Named(MergeSource(a[k], source[k + 1]), on, source, k + 1)
    BY <2>2, <2>3, <2>4, <2>5, NamedOne, SMTT(30)
  <2> QED
    BY <2>2, <2>6
<1>6. n \in E
  BY <1>1, <1>4, <1>5, SetInduction DEF n
<1> QED
  BY <1>1, <1>3, <1>6 DEF n

\* What a plan is made of: titles its lines mean, each told by its serial and name.
NameOf(g) == << g.id, g.title >>
NoPlan == [games |-> << >>, skipped |-> 0, seen |-> {}, unresolved |-> 0]
PlanSet(W) == [ games : Seq(W), skipped : Nat, seen : SUBSET {NameOf(v) : v \in W}, unresolved : Nat ]
MeantBy(rows, line) == {m.game : m \in resolveListEntry(rows, line)}

\* A line fails, or means one title: that was seen, is on the drive, or is planned.
Takes(p, to, m) ==
  /\ to.unresolved = p.unresolved
  /\ \/ NameOf(m.game) \in p.seen /\ to = p
     \/ /\ NameOf(m.game) \notin p.seen /\ to.seen = p.seen \cup {NameOf(m.game)}
        /\ \/ m.installed /\ to.skipped = p.skipped + 1 /\ to.games = p.games
           \/ ~m.installed /\ to.skipped = p.skipped /\ to.games = Append(p.games, m.game)

Means(rows, line, m) == resolveListEntry(rows, line) = {m}

\* What a line means is a row, or the image at its path.
Meaning(rows, line, m) ==
  \/ \E r \in DOMAIN rows : m = OfRow(rows, r)
  \/ line.path # NoSource /\ m = OfPath(rows, line.path)

LEMMA MeaningIs ==
  ASSUME NEW X, NEW rows \in Seq(X), NEW line
  PROVE  /\ IsFiniteSet(resolveListEntry(rows, line))
         /\ \A m \in resolveListEntry(rows, line) : Meaning(rows, line, m)
<1> DEFINE meant == resolveListEntry(rows, line)
           R == RowsMeant(rows, line)
           of == [i \in R |-> OfRow(rows, i)]
<1>1. R \subseteq DOMAIN rows
  <2>1. FindSourceFile(rows, line) \subseteq DOMAIN rows
    BY DEF FindSourceFile
  <2>2. \A text : resolveSourceEntry(rows, text) \subseteq DOMAIN rows
    BY DEF resolveSourceEntry, Find
  <2> QED
    BY <2>1, <2>2 DEF RowsMeant
<1>2. IsFiniteSet(R)
  BY <1>1, LenProperties, FS_Interval, FS_Subset
<1>3. DOMAIN of = R /\ {OfRow(rows, i) : i \in R} = {of[i] : i \in R}
  OBVIOUS
<1>4. \/ meant = {}
      \/ line.path # NoSource /\ meant = {OfPath(rows, line.path)}
      \/ meant = {OfRow(rows, i) : i \in R}
  BY DEF resolveListEntry
<1> HIDE DEF R, of, meant
<1>5. IsFiniteSet({OfRow(rows, i) : i \in R})
  BY <1>2, <1>3, ImageFinite
<1>6. IsFiniteSet(meant)
  BY <1>4, <1>5, FS_EmptySet, FS_Singleton
<1>7. \A m \in meant : Meaning(rows, line, m)
  BY <1>1, <1>4 DEF Meaning
<1> QED
  BY <1>6, <1>7 DEF meant

LEMMA TakeIs ==
  ASSUME NEW X, NEW rows \in Seq(X), NEW W, NEW p \in PlanSet(W), NEW line,
         MeantBy(rows, line) \subseteq W
  PROVE  /\ TakeLine(rows, p, line) \in PlanSet(W)
         /\ \/ TakeLine(rows, p, line).unresolved = p.unresolved + 1
            \/ \E m : Means(rows, line, m) /\ Takes(p, TakeLine(rows, p, line), m)
<1> DEFINE meant == resolveListEntry(rows, line)
           to == TakeLine(rows, p, line)
           K == {NameOf(v) : v \in W}
<1>1. /\ p = [games |-> p.games, skipped |-> p.skipped, seen |-> p.seen, unresolved |-> p.unresolved]
      /\ p.games \in Seq(W) /\ p.skipped \in Nat /\ p.seen \in SUBSET K /\ p.unresolved \in Nat
  BY DEF PlanSet
<1>2. CASE Cardinality(meant) # 1
  <2>1. to = [p EXCEPT !.unresolved = @ + 1]
    BY <1>2 DEF TakeLine
  <2>2. /\ to = [games |-> p.games, skipped |-> p.skipped, seen |-> p.seen, unresolved |-> p.unresolved + 1]
        /\ p.unresolved + 1 \in Nat
    BY <1>1, <2>1
  <2> HIDE DEF to
  <2>3. to.unresolved = p.unresolved + 1 /\ to \in PlanSet(W)
    BY <1>1, <2>2 DEF PlanSet
  <2> QED
    BY <2>3 DEF to
<1>3. CASE Cardinality(meant) = 1
  <2> DEFINE c == CHOOSE x \in meant : TRUE
             ckey == << c.game.id, c.game.title >>
  <2>0. to = IF ckey \in p.seen THEN p
             ELSE IF c.installed THEN [p EXCEPT !.seen = @ \cup {ckey}, !.skipped = @ + 1]
             ELSE [p EXCEPT !.seen = @ \cup {ckey}, !.games = Append(@, c.game)]
    BY <1>3, Zenon DEF TakeLine
  <2>1. IsFiniteSet(meant)
    BY MeaningIs
  <2>2. MeantBy(rows, line) = {m.game : m \in meant}
    BY DEF MeantBy
  <2> HIDE DEF meant
  <2>3. PICK m : meant = {m}
    BY <1>3, <2>1, FS_Singleton
  <2>4. c = m
    BY <2>3
  <2> HIDE DEF c
  <2> DEFINE key == NameOf(m.game)
  <2>5. m.game \in W /\ key \in K
    BY <2>2, <2>3
  <2>6. to = IF key \in p.seen THEN p
             ELSE IF m.installed THEN [p EXCEPT !.seen = @ \cup {key}, !.skipped = @ + 1]
             ELSE [p EXCEPT !.seen = @ \cup {key}, !.games = Append(@, m.game)]
    BY <2>0, <2>4 DEF NameOf
  <2>7. Append(p.games, m.game) \in Seq(W) /\ p.skipped + 1 \in Nat /\ p.seen \cup {key} \in SUBSET K
    BY <1>1, <2>5, AppendProperties
  <2> HIDE DEF to, K
  <2>8. to \in PlanSet(W) /\ Takes(p, to, m)
    <3>1. CASE key \in p.seen
      <4>1. to = p
        BY <2>6, <3>1
      <4> QED
        BY <3>1, <4>1 DEF Takes
    <3>2. CASE key \notin p.seen /\ m.installed
      <4>1. to = [p EXCEPT !.seen = @ \cup {key}, !.skipped = @ + 1]
        BY <2>6, <3>2
      <4> HIDE DEF key
      <4>2. to = [games |-> p.games, skipped |-> p.skipped + 1, seen |-> p.seen \cup {key},
                  unresolved |-> p.unresolved]
        BY <1>1, <4>1
      <4>3. to \in PlanSet(W)
        BY <1>1, <2>7, <4>2 DEF PlanSet, K
      <4> QED
        BY <3>2, <4>2, <4>3 DEF Takes, key
    <3>3. CASE key \notin p.seen /\ ~m.installed
      <4>1. to = [p EXCEPT !.seen = @ \cup {key}, !.games = Append(@, m.game)]
        BY <2>6, <3>3
      <4> HIDE DEF key
      <4>2. to = [games |-> Append(p.games, m.game), skipped |-> p.skipped, seen |-> p.seen \cup {key},
                  unresolved |-> p.unresolved]
        BY <1>1, <4>1
      <4>3. to \in PlanSet(W)
        BY <1>1, <2>7, <4>2 DEF PlanSet, K
      <4> QED
        BY <3>3, <4>2, <4>3 DEF Takes, key
    <3> QED
      BY <3>1, <3>2, <3>3
  <2> QED
    BY <2>3, <2>8 DEF to, Means, meant
<1> QED
  BY <1>2, <1>3

LEMMA TwoLines ==
  ASSUME NEW X, NEW rows \in Seq(X), NEW k, NEW l
  PROVE  LET q == TakeLine(rows, TakeLine(rows, NoPlan, k), l) IN
         planList(rows, << k, l >>) =
           IF q.unresolved > 0 THEN [failed |-> TRUE, games |-> << >>, skipped |-> 0]
           ELSE [failed |-> FALSE, games |-> q.games, skipped |-> q.skipped]
<1> DEFINE lines == << k, l >>
           W == MeantBy(rows, k) \cup MeantBy(rows, l)
           V == PlanSet(W)
           step == [i \in 1 .. 2 |-> [p \in V |-> TakeLine(rows, p, lines[i])]]
           Fix(f) == f = [S \in SUBSET (1 .. 2) |->
                            IF S = {} THEN NoPlan ELSE TakeLine(rows, f[S \ {Max(S)}], lines[Max(S)])]
           fl == CHOOSE f : Fix(f)
           q == TakeLine(rows, TakeLine(rows, NoPlan, k), l)
<1>1. NoPlan \in V
  BY EmptySeq DEF NoPlan, PlanSet
<1>2. ASSUME NEW p \in V, NEW i \in 1 .. 2 PROVE TakeLine(rows, p, lines[i]) \in V
  <2>1. MeantBy(rows, lines[i]) \subseteq W
    OBVIOUS
  <2> HIDE DEF lines, W
  <2> QED
    BY <2>1, TakeIs
<1>3. step \in [1 .. 2 -> [V -> V]]
  BY <1>2
<1>4. ASSUME NEW S \in SUBSET (1 .. 2), S # {} PROVE Max(S) \in 1 .. 2
  BY <1>4, MaxIs
<1>5. lines[1] = k /\ lines[2] = l /\ Len(lines) = 2 /\ DOMAIN lines = 1 .. 2
  OBVIOUS
<1>6. planList(rows, lines) =
           IF fl[1 .. 2].unresolved > 0 THEN [failed |-> TRUE, games |-> << >>, skipped |-> 0]
           ELSE [failed |-> FALSE, games |-> fl[1 .. 2].games, skipped |-> fl[1 .. 2].skipped]
  BY <1>5, Zenon DEF planList, FoldLeft, MapThenFoldSet, NoPlan
<1> HIDE DEF V, lines
<1>7. Fix(fl)
  <2> HIDE DEF step
  <2>1. PICK g : Folded(g, 2, V, NoPlan, step)
    BY <1>1, <1>3, FoldExists
  <2>2. /\ g \in [SUBSET (1 .. 2) -> V]
        /\ \A S \in SUBSET (1 .. 2) : g[S] = IF S = {} THEN NoPlan ELSE step[Max(S)][g[S \ {Max(S)}]]
    BY <2>1 DEF Folded
  <2>3. ASSUME NEW S \in SUBSET (1 .. 2), S # {}
        PROVE  g[S] = TakeLine(rows, g[S \ {Max(S)}], lines[Max(S)])
    BY <1>4, <2>2, <2>3 DEF step
  <2>4. Fix(g)
    BY <2>2, <2>3
  <2> QED
    BY <2>4
<1> HIDE DEF fl
<1>8. FoldValues(fl, 2, V, NoPlan, step)
  <2>1. \A S \in SUBSET (1 .. 2) :
          /\ S = {} => fl[S] = NoPlan
          /\ S # {} /\ fl[S \ {Max(S)}] \in V => fl[S] = step[Max(S)][fl[S \ {Max(S)}]]
    BY <1>4, <1>7
  <2> HIDE DEF step
  <2> QED
    BY <1>1, <1>3, <2>1, FoldSteps
<1>9. PICK a : Folding(a, 2, V, NoPlan, step) /\ a[2] = fl[1 .. 2]
  BY <1>8 DEF FoldValues
<1>10. /\ a[0] = NoPlan /\ \A i \in 1 .. 2 : a[i - 1] \in V /\ a[i] = step[i][a[i - 1]]
  <2>1. \A i \in 1 .. 2 : i - 1 \in 0 .. 2
    OBVIOUS
  <2> HIDE DEF step
  <2> QED
    BY <1>9, <2>1 DEF Folding
<1>11. a[1] = TakeLine(rows, NoPlan, k)
  <2>1. a[1 - 1] \in V /\ a[1] = step[1][a[1 - 1]] /\ 1 - 1 = 0
    BY <1>10
  <2> QED
    BY <1>5, <1>10, <2>1
<1>12. a[2] = q
  <2>1. a[2 - 1] \in V /\ a[2] = step[2][a[2 - 1]] /\ 2 - 1 = 1
    BY <1>10
  <2> QED
    BY <1>5, <1>11, <2>1
<1> HIDE DEF q
<1> QED
  BY <1>6, <1>9, <1>12 DEF lines, q

\* A plan of two lines: what the first says, and titles the lines mean, each once.
PlansOnce(rows, p, k, l, m) ==
  /\ Means(rows, k, m)
  /\ m.installed => p.skipped > 0
  /\ ~m.installed => \E x \in DOMAIN p.games : p.games[x] = m.game
  /\ \A x \in DOMAIN p.games :
       \E n : ~n.installed /\ p.games[x] = n.game /\ (Means(rows, k, n) \/ Means(rows, l, n))
  /\ \A x, y \in DOMAIN p.games : NameOf(p.games[x]) = NameOf(p.games[y]) => x = y

LEMMA AppendToOne == ASSUME NEW W, NEW u \in W, NEW v \in W PROVE Append(<< u >>, v) = << u, v >>
<1> DEFINE one == << u >>
           two == Append(one, v)
<1>1. one \in Seq(W) /\ Len(one) = 1 /\ one[1] = u
  OBVIOUS
<1> HIDE DEF one
<1>2. two \in Seq(W)
  BY <1>1, AppendProperties
<1>3. Len(two) = Len(one) + 1
  BY <1>1, AppendProperties
<1>4. two[Len(one) + 1] = v
  BY <1>1, AppendProperties
<1>5. \A z \in 1 .. Len(one) : two[z] = one[z]
  BY <1>1, AppendProperties
<1> HIDE DEF two
<1>6. two[1] = u /\ two[2] = v /\ Len(two) = 2
  BY <1>1, <1>3, <1>4, <1>5
<1>7. two = << u, v >>
  BY <1>2, <1>6
<1> QED
  BY <1>7 DEF one, two

LEMMA PlanTwo ==
  ASSUME NEW X, NEW rows \in Seq(X), NEW k, NEW l, ~planList(rows, << k, l >>).failed
  PROVE  \E m : PlansOnce(rows, planList(rows, << k, l >>), k, l, m)
<1> DEFINE p1 == TakeLine(rows, NoPlan, k)
           q == TakeLine(rows, p1, l)
           p == planList(rows, << k, l >>)
           W == MeantBy(rows, k) \cup MeantBy(rows, l)
<1>1. p = IF q.unresolved > 0 THEN [failed |-> TRUE, games |-> << >>, skipped |-> 0]
          ELSE [failed |-> FALSE, games |-> q.games, skipped |-> q.skipped]
  BY TwoLines
<1>2. NoPlan \in PlanSet(W) /\ NoPlan.games = << >> /\ NoPlan.skipped = 0
      /\ NoPlan.seen = {} /\ NoPlan.unresolved = 0
  BY EmptySeq DEF NoPlan, PlanSet
<1>3. /\ p1 \in PlanSet(W)
      /\ \/ p1.unresolved = 1
         \/ \E m : Means(rows, k, m) /\ Takes(NoPlan, p1, m)
  <2>1. MeantBy(rows, k) \subseteq W
    OBVIOUS
  <2> HIDE DEF W
  <2> QED
    BY <1>2, <2>1, TakeIs
<1> HIDE DEF p1
<1>4. /\ q \in PlanSet(W)
      /\ \/ q.unresolved = p1.unresolved + 1
         \/ \E n : Means(rows, l, n) /\ Takes(p1, q, n)
  <2>1. MeantBy(rows, l) \subseteq W
    OBVIOUS
  <2> HIDE DEF W
  <2> QED
    BY <1>3, <2>1, TakeIs
<1> HIDE DEF q
<1>5. ~p.failed
  OBVIOUS
<1> HIDE DEF p
<1>6. p1.unresolved \in Nat /\ p1.skipped \in Nat /\ p1.games \in Seq(W)
      /\ q.unresolved \in Nat /\ q.skipped \in Nat /\ q.games \in Seq(W)
  BY <1>3, <1>4 DEF PlanSet
<1>7. q.unresolved = 0 /\ p.games = q.games /\ p.skipped = q.skipped
  <2>1. CASE q.unresolved > 0
    <3>1. p = [failed |-> TRUE, games |-> << >>, skipped |-> 0]
      BY <1>1, <2>1
    <3> QED
      BY <1>5, <3>1
  <2>2. CASE ~(q.unresolved > 0)
    <3>1. p = [failed |-> FALSE, games |-> q.games, skipped |-> q.skipped]
      BY <1>1, <2>2
    <3> QED
      BY <1>6, <2>2, <3>1
  <2> QED
    BY <2>1, <2>2
<1>8. PICK n : Means(rows, l, n) /\ Takes(p1, q, n)
  BY <1>4, <1>6, <1>7
<1>9. p1.unresolved = 0
  BY <1>7, <1>8 DEF Takes
<1>10. PICK m : Means(rows, k, m) /\ Takes(NoPlan, p1, m)
  BY <1>3, <1>9
<1> DEFINE vi == m.game
           vj == n.game
           ki == NameOf(vi)
           kj == NameOf(vj)
<1>11. /\ p1.seen = {ki}
       /\ \/ m.installed /\ p1.skipped = 1 /\ p1.games = << >>
          \/ ~m.installed /\ p1.skipped = 0 /\ p1.games = << vi >>
  <2>1. ki \notin NoPlan.seen
    BY <1>2
  <2>2. /\ p1.seen = NoPlan.seen \cup {ki}
        /\ \/ m.installed /\ p1.skipped = NoPlan.skipped + 1 /\ p1.games = NoPlan.games
           \/ ~m.installed /\ p1.skipped = NoPlan.skipped /\ p1.games = Append(NoPlan.games, vi)
    BY <1>10, <2>1 DEF Takes
  <2>3. vi \in W
    BY <1>10 DEF Means, MeantBy
  <2>4. Append(<< >>, vi) = << vi >>
    BY <2>3
  <2> HIDE DEF vi, ki
  <2> QED
    BY <1>2, <2>2, <2>4
<1>12.    \/ q = p1
          \/ kj # ki /\ n.installed /\ q.skipped = p1.skipped + 1 /\ q.games = p1.games
          \/ kj # ki /\ ~n.installed /\ q.skipped = p1.skipped /\ q.games = Append(p1.games, vj)
  <2>1. kj \notin p1.seen => kj # ki
    BY <1>11
  <2> QED
    BY <1>8, <2>1 DEF Takes
<1>14. \/ q.games = << >> /\ m.installed
       \/ q.games = << vi >> /\ ~m.installed
       \/ q.games = << vj >> /\ ~n.installed /\ m.installed
       \/ q.games = << vi, vj >> /\ ~m.installed /\ ~n.installed /\ kj # ki
  <2>1. vi \in W /\ vj \in W
    BY <1>8, <1>10 DEF Means, MeantBy
  <2> HIDE DEF vi, vj, ki, kj
  <2>2. Append(<< >>, vj) = << vj >> /\ Append(<< vi >>, vj) = << vi, vj >>
    <3>2. Append(<< vi >>, vj) = << vi, vj >>
      BY <2>1, AppendToOne
    <3>3. Append(<< >>, vj) = << vj >>
      BY <2>1
    <3> QED
      BY <3>2, <3>3
  <2> QED
    BY <1>11, <1>12, <2>2
<1>15. m.installed => q.skipped > 0
  BY <1>6, <1>11, <1>12
<1> HIDE DEF vi, vj, ki, kj
<1>16. ~m.installed => \E x \in DOMAIN q.games : q.games[x] = vi
  <2>1. 1 \in DOMAIN << vi >> /\ << vi >>[1] = vi /\ 1 \in DOMAIN << vi, vj >> /\ << vi, vj >>[1] = vi
    OBVIOUS
  <2> QED
    BY <1>14, <2>1
<1>17. \A x \in DOMAIN q.games : (q.games[x] = vi /\ ~m.installed) \/ (q.games[x] = vj /\ ~n.installed)
  <2> SUFFICES ASSUME NEW x \in DOMAIN q.games
               PROVE  (q.games[x] = vi /\ ~m.installed) \/ (q.games[x] = vj /\ ~n.installed)
    OBVIOUS
  <2>1. CASE q.games = << >>
    BY <2>1
  <2>2. CASE q.games = << vi >> /\ ~m.installed
    BY <2>2
  <2>3. CASE q.games = << vj >> /\ ~n.installed
    BY <2>3
  <2>4. CASE q.games = << vi, vj >> /\ ~m.installed /\ ~n.installed
    <3>1. x = 1 \/ x = 2
      BY <2>4
    <3> QED
      BY <2>4, <3>1
  <2> QED
    BY <1>14, <2>1, <2>2, <2>3, <2>4
<1>18. \A x, y \in DOMAIN q.games : NameOf(q.games[x]) = NameOf(q.games[y]) => x = y
  <2> SUFFICES ASSUME NEW x \in DOMAIN q.games, NEW y \in DOMAIN q.games,
                      NameOf(q.games[x]) = NameOf(q.games[y])
               PROVE  x = y
    OBVIOUS
  <2>1. CASE q.games = << >>
    BY <2>1
  <2>2. CASE q.games = << vi >>
    BY <2>2
  <2>3. CASE q.games = << vj >>
    BY <2>3
  <2>4. CASE q.games = << vi, vj >> /\ kj # ki
    <3>1. (x = 1 \/ x = 2) /\ (y = 1 \/ y = 2)
      BY <2>4
    <3>2. q.games[1] = vi /\ q.games[2] = vj
      BY <2>4
    <3> QED
      BY <2>4, <3>1, <3>2 DEF ki, kj
  <2> QED
    BY <1>14, <2>1, <2>2, <2>3, <2>4
<1>19. PlansOnce(rows, p, k, l, m)
  BY <1>7, <1>8, <1>10, <1>15, <1>16, <1>17, <1>18 DEF PlansOnce, vi, vj
<1> QED
  BY <1>19 DEF p

\* A group has a first disc.
LEMMA FirstIs ==
  ASSUME NEW g \in SUBSET Discs, g # {}
  PROVE  FirstOf(g) \in g
<1>1. \A d \in Discs : d.n \in Nat /\ d.file \in Nat
  BY LibraryAssumption
<1>2. \A d, e \in Discs : d # e => d.file # e.file
  BY LibraryAssumption
<1> DEFINE Least(d, S) == d \in S /\ \A e \in S : d.file <= e.file
<1>3. ASSUME NEW S \in SUBSET g, S # {} PROVE \E d : Least(d, S)
  <2> DEFINE F == {d.file : d \in S}
  <2>1. F \in SUBSET Nat /\ F # {}
    BY <1>1, <1>3
  <2>2. PICK f \in F : \A h \in F : f <= h
    BY <2>1, LeastNumber
  <2>3. PICK d \in S : f = d.file
    OBVIOUS
  <2>4. Least(d, S)
    BY <2>2, <2>3
  <2> QED
    BY <2>4
<1> DEFINE marked == {d \in g : d.n # 0}
<1>4. \E d \in g : \A e \in g \ {d} : Before(d, e)
  <2>1. CASE marked = {}
    <3>1. PICK d : Least(d, g)
      BY <1>3
    <3>2. \A e \in g \ {d} : d.n = e.n /\ d.file < e.file
      BY <1>1, <1>2, <2>1, <3>1
    <3> QED
      BY <3>1, <3>2 DEF Before
  <2>2. CASE marked # {}
    <3> DEFINE N == {d.n : d \in marked}
    <3>1. N \in SUBSET Nat /\ N # {}
      BY <1>1, <2>2
    <3>2. PICK n \in N : \A m \in N : n <= m
      BY <3>1, LeastNumber
    <3> DEFINE S == {d \in marked : d.n = n}
    <3>3. S \in SUBSET g /\ S # {}
      OBVIOUS
    <3> HIDE DEF S, Least
    <3>4. PICK d : Least(d, S)
      BY <1>3, <3>3
    <3>5. d \in g /\ d.n = n /\ n # 0 /\ \A e \in S : d.file <= e.file
      BY <3>2, <3>4 DEF S, Least
    <3>6. ASSUME NEW e \in g \ {d} PROVE Before(d, e)
      <4>1. CASE e.n = 0
        BY <3>5, <4>1 DEF Before
      <4>2. CASE e.n # 0 /\ e.n = n
        <5>1. e \in S
          BY <3>6, <4>2 DEF S
        <5>2. d.file # e.file /\ d.file \in Nat /\ e.file \in Nat
          BY <1>1, <1>2, <3>5
        <5>3. d.file < e.file /\ d.n = e.n
          BY <3>5, <4>2, <5>1, <5>2
        <5> QED
          BY <5>3 DEF Before
      <4>3. CASE e.n # 0 /\ e.n # n
        <5>1. e.n \in N
          BY <3>6, <4>3
        <5> HIDE DEF N
        <5>2. n \in Nat /\ e.n \in Nat /\ n <= e.n
          BY <3>1, <3>2, <5>1
        <5>3. n < e.n
          BY <4>3, <5>2
        <5> QED
          BY <3>5, <4>3, <5>3 DEF Before
      <4> QED
        BY <4>1, <4>2, <4>3
    <3> QED
      BY <3>5, <3>6
  <2> QED
    BY <2>1, <2>2
<1> QED
  BY <1>4 DEF FirstOf

\* Every title of the sources has a file.
LEMMA SourceHasFiles ==
  ASSUME library \in Libraries
  PROVE  \A t \in Group(library.discs) \cup library.images : t.file \in Nat \ {0}
<1> DEFINE D == library.discs
<1>1. D \in SUBSET Discs /\ library.images \in SUBSET Images
  BY DEF Libraries
<1> HIDE DEF D
<1>2. ASSUME NEW t \in Group(D) PROVE t.file \in Nat \ {0}
  <2>1. PICK b \in Bucketing(D) : \E g \in splitUnmarked(b) : t = TitleOf(g, b)
    BY <1>1, GroupIs
  <2>2. PICK g \in splitUnmarked(b) : t = TitleOf(g, b)
    BY <2>1
  <2>3. g \in SUBSET Discs
    <3>1. b \in SUBSET D /\ UNION splitUnmarked(b) = b
      BY <1>1, SplitIs
    <3> QED
      BY <1>1, <3>1
  <2>4. g # {}
    <3>1. b # {}
      BY DEF Bucketing
    <3> QED
      BY <3>1 DEF splitUnmarked
  <2>5. t.file = FirstOf(g).file
    BY <2>2 DEF TitleOf
  <2> QED
    BY <2>3, <2>4, <2>5, FirstIs, LibraryAssumption
<1>3. \A t \in library.images : t.file \in Nat \ {0}
  BY <1>1, LibraryAssumption
<1> QED
  BY <1>2, <1>3 DEF D

LEMMA FilesAre ==
  ASSUME NEW row, NEW g \in {row.game, row.source}, NEW f \in {g.file} \cup {d.file : d \in g.discs},
         f # 0
  PROVE  f \in FilesOf(row)
<1> DEFINE names == {g.file} \cup {d.file : d \in g.discs}
<1>1. names \in {{h.file} \cup {d.file : d \in h.discs} : h \in {row.game, row.source}}
  OBVIOUS
<1>2. f \in names /\ f \notin {0}
  OBVIOUS
<1> HIDE DEF names
<1> QED
  BY <1>1, <1>2, Zenon DEF FilesOf

\* A list plans what it names: by whatever lines, for any library and any drive that was
\* read.
THEOREM PlansAreMeant == library \in Libraries => NamedIsMeant
<1> SUFFICES ASSUME library \in Libraries PROVE NamedIsMeant
  OBVIOUS
<1> DEFINE on == Listing(library.on2)
           T == Group(library.discs) \cup library.images
           G == T \cup library.on2
           rows == Rows(on, Source)
           names == {Line(BaseName[g.file], FullName[g.file], NoId, NoSource) :
                       g \in library.discs \cup library.images}
           others == {Line(g.title, g.title, NoId, NoSource) : g \in Images}
                     \cup {Line(g.id, g.id, NoId, NoSource) : g \in Images}
                     \cup {Line(Unread, Unread, g.id, NoSource) : g \in Images}
                     \cup {Line(BaseName[g.file], FullName[g.file], NoId, g) : g \in Images}
<1>1. /\ library.discs \in SUBSET Discs /\ library.images \in SUBSET Images
      /\ library.on2 \in SUBSET Installed2
  BY DEF Libraries
<1>2. /\ IsFiniteSet(T) /\ IsFiniteSet(library.on2) /\ \A g \in G : IsTitle(g)
      /\ \A t \in T : t.file \in Nat \ {0}
  <2>1. IsFiniteSet(Group(library.discs)) /\ \A t \in Group(library.discs) : IsTitle(t)
    BY <1>1, GroupFinite
  <2>2. IsFiniteSet(library.images) /\ IsFiniteSet(library.on2)
    BY <1>1, LibraryAssumption, FS_Subset
  <2>3. \A g \in library.images \cup library.on2 : IsTitle(g)
    BY <1>1, LibraryAssumption
  <2> QED
    BY <2>1, <2>2, <2>3, FS_Union, SourceHasFiles
<1> HIDE DEF T
<1>3. /\ Source \in Seq(T) /\ on \in Seq(library.on2)
      /\ \A g \in library.on2 : \E i \in DOMAIN on : on[i] = g
  <2>1. Source = Listing(T)
    BY DEF Source, T
  <2> QED
    BY <1>2, <2>1, ListingIs
<1> HIDE DEF on, G
<1>4. Source \in Seq(G) /\ on \in Seq(G)
  <2>1. T \subseteq G /\ library.on2 \subseteq G
    BY DEF G
  <2> QED
    BY <1>3, <2>1, SeqMonotonic
<1>5. /\ \A i \in DOMAIN on : on[i] \in library.on2 /\ on[i].file = 0
      /\ \A i \in DOMAIN Source : Source[i].file \in Nat \ {0}
  <2>1. \A i \in DOMAIN on : on[i] \in library.on2
    BY <1>3, ElementOfSeq, LenProperties
  <2>2. \A i \in DOMAIN Source : Source[i] \in T
    BY <1>3, ElementOfSeq, LenProperties
  <2> QED
    BY <1>1, <1>2, <2>1, <2>2, LibraryAssumption
<1>6. rows \in Merging(G, on) /\ Named(rows, on, Source, Len(Source))
  <2>1. rows \in Merging(G, on)
    BY <1>2, <1>4, RowsAre DEF G
  <2>2. \A i \in DOMAIN Source : Source[i].file # 0
    BY <1>5
  <2> QED
    BY <1>2, <1>4, <1>5, <2>1, <2>2, NamedAll
<1> HIDE DEF rows
<1>7. /\ rows \in Seq(RowSet(G)) /\ DOMAIN rows = 1 .. Len(rows) /\ Len(rows) \in Nat /\ Tells(rows, on)
      /\ DOMAIN on = 1 .. Len(on) /\ Len(on) \in Nat /\ DOMAIN Source = 1 .. Len(Source) /\ Len(Source) \in Nat
  BY <1>4, <1>6, LenProperties DEF Merging
\* A row after those of the drive is of no title of the drive, and the view of a row is
\* of its title.
<1>8. \A r \in DOMAIN rows : r <= Len(on) <=> rows[r].installed
  <2> SUFFICES ASSUME NEW r \in DOMAIN rows PROVE r <= Len(on) <=> rows[r].installed
    OBVIOUS
  <2>1. r <= Len(on) => rows[r].installed
    BY <1>7 DEF Tells
  <2>2. Len(on) < r => ~rows[r].installed
    BY <1>6 DEF Named, Rowed
  <2> QED
    BY <1>7, <2>1, <2>2
<1>9. \A r \in DOMAIN rows : Key(sourceView(rows[r])) = Key(rows[r].game)
  BY <1>6 DEF Named, Rowed, sourceView
<1>10. \A r \in 1 .. Len(on) : r \in DOMAIN rows /\ on[r] \in library.on2 /\ Key(rows[r].game) = Key(on[r])
  <2> SUFFICES ASSUME NEW r \in 1 .. Len(on)
               PROVE  r \in DOMAIN rows /\ on[r] \in library.on2 /\ Key(rows[r].game) = Key(on[r])
    OBVIOUS
  <2>1. r \in DOMAIN rows /\ on[r] \in library.on2
    BY <1>5, <1>7 DEF Tells
  <2>2. rows[r].game.platform = on[r].platform /\ rows[r].game.id = on[r].id /\ rows[r].game.title = on[r].title
    BY <1>7 DEF Tells
  <2> QED
    BY <2>1, <2>2, KeyIs
<1>11. \A r, s \in DOMAIN rows : ~rows[r].installed /\ Key(rows[r].game) = Key(rows[s].game) => r = s
  <2> SUFFICES ASSUME NEW r \in DOMAIN rows, NEW s \in DOMAIN rows, ~rows[r].installed,
                      Key(rows[r].game) = Key(rows[s].game)
               PROVE  r = s
    OBVIOUS
  <2>1. Len(on) < r
    BY <1>7, <1>8
  <2> QED
    BY <1>7, <2>1 DEF Tells
<1> SUFFICES ASSUME NEW k \in names, NEW l \in others, ~planList(rows, << k, l >>).failed
             PROVE  LET p == planList(rows, << k, l >>) IN
                    /\ IsInjective([i \in DOMAIN p.games |-> << Key(p.games[i]), p.games[i].title >>])
                    /\ l.path = NoSource => IsInjective([i \in DOMAIN p.games |-> Key(p.games[i])])
                    /\ \A i \in DOMAIN p.games : \A g \in library.on2 :
                         Key(p.games[i]) = Key(g) => p.games[i] = l.path /\ g.id = NoId
                    /\ \A i \in DOMAIN Source : \A f \in ({Source[i].file} \cup FileSet(Source[i])) \ {0} :
                       BaseName[f] = k.text /\ Shown(i, f) =>
                         \/ \E j \in DOMAIN p.games : Key(p.games[j]) = Key(Source[i])
                         \/ p.skipped > 0 /\ \E g \in library.on2 : Key(g) = Key(Source[i])
  BY DEF NamedIsMeant, rows, on
<1> DEFINE p == planList(rows, << k, l >>)
<1>12. k.path = NoSource /\ k.path # Unread
  <2>1. k.path = NoSource
    BY DEF Line
  <2>2. resolveListEntry(rows, k) # {}
    <3>1. PICK m : PlansOnce(rows, p, k, l, m)
      BY <1>7, PlanTwo
    <3> QED
      BY <3>1 DEF PlansOnce, Means
  <2> QED
    BY <2>1, <2>2 DEF resolveListEntry
<1> HIDE DEF names, others
<1>13. PICK m0 : PlansOnce(rows, p, k, l, m0)
  BY <1>7, PlanTwo
<1> HIDE DEF p
\* What is planned is a row that is not on the drive, or the path of the second line.
<1>14. ASSUME NEW x \in DOMAIN p.games
       PROVE  \/ \E r \in DOMAIN rows : ~rows[r].installed /\ p.games[x] = sourceView(rows[r])
              \/ /\ l.path # NoSource /\ p.games[x] = l.path
                 /\ ~installedInCatalog(rows, l.path.id)
  <2>1. PICK n : ~n.installed /\ p.games[x] = n.game /\ (Means(rows, k, n) \/ Means(rows, l, n))
    BY <1>13 DEF PlansOnce
  <2>2. Meaning(rows, k, n) \/ Meaning(rows, l, n)
    BY <1>7, <2>1, MeaningIs DEF Means
  <2>3. CASE \E r \in DOMAIN rows : n = OfRow(rows, r)
    BY <2>1, <2>3 DEF OfRow
  <2>4. CASE l.path # NoSource /\ n = OfPath(rows, l.path)
    BY <2>1, <2>4 DEF OfPath
  <2> QED
    BY <1>12, <2>2, <2>3, <2>4 DEF Meaning
<1>15. IsInjective([i \in DOMAIN p.games |-> << Key(p.games[i]), p.games[i].title >>])
  <2>1. ASSUME NEW x \in DOMAIN p.games, NEW y \in DOMAIN p.games,
               Key(p.games[x]) = Key(p.games[y]), p.games[x].title = p.games[y].title
        PROVE  x = y
    <3>1. p.games[x].id = p.games[y].id
      BY <2>1, KeyTells
    <3> QED
      BY <1>13, <2>1, <3>1 DEF PlansOnce, NameOf
  <2>2. ASSUME NEW x \in DOMAIN p.games, NEW y \in DOMAIN p.games,
               << Key(p.games[x]), p.games[x].title >> = << Key(p.games[y]), p.games[y].title >>
        PROVE  x = y
    BY <2>1, <2>2
  <2> QED
    BY <2>2 DEF IsInjective
<1>16. ASSUME l.path = NoSource PROVE IsInjective([i \in DOMAIN p.games |-> Key(p.games[i])])
  <2>1. ASSUME NEW x \in DOMAIN p.games, NEW y \in DOMAIN p.games, Key(p.games[x]) = Key(p.games[y])
        PROVE  x = y
    <3>1. PICK r \in DOMAIN rows : ~rows[r].installed /\ p.games[x] = sourceView(rows[r])
      BY <1>14, <1>16
    <3>2. PICK s \in DOMAIN rows : ~rows[s].installed /\ p.games[y] = sourceView(rows[s])
      BY <1>14, <1>16
    <3>3. r = s
      BY <1>9, <1>11, <2>1, <3>1, <3>2
    <3> QED
      BY <1>13, <3>1, <3>2, <3>3 DEF PlansOnce
  <2> QED
    BY <2>1 DEF IsInjective
<1>18. ASSUME NEW x \in DOMAIN p.games, NEW g \in library.on2, Key(p.games[x]) = Key(g)
       PROVE  p.games[x] = l.path /\ g.id = NoId
  <2>1. PICK s \in 1 .. Len(on) : on[s] = g
    BY <1>3, <1>7
  <2>2. s \in DOMAIN rows /\ Key(rows[s].game) = Key(g) /\ rows[s].installed /\ rows[s].game.id = g.id
    BY <1>7, <1>8, <1>10, <2>1 DEF Tells
  <2>3. ASSUME NEW r \in DOMAIN rows, ~rows[r].installed, p.games[x] = sourceView(rows[r]) PROVE FALSE
    <3>1. Key(rows[s].game) = Key(rows[r].game)
      BY <1>9, <1>18, <2>2, <2>3
    <3> QED
      BY <1>11, <2>2, <2>3, <3>1
  <2>4. /\ l.path # NoSource /\ p.games[x] = l.path
        /\ ~installedInCatalog(rows, l.path.id)
    BY <1>14, <2>3
  <2>5. l.path.id = g.id
    BY <1>18, <2>4, KeyTells
  <2> QED
    BY <2>2, <2>4, <2>5 DEF installedInCatalog
<1>17. ASSUME NEW i \in DOMAIN Source, NEW f \in ({Source[i].file} \cup FileSet(Source[i])) \ {0},
              BaseName[f] = k.text, Shown(i, f)
       PROVE  \/ \E j \in DOMAIN p.games : Key(p.games[j]) = Key(Source[i])
              \/ p.skipped > 0 /\ \E g \in library.on2 : Key(g) = Key(Source[i])
  <2>1. \E r \in DOMAIN rows : Key(rows[r].game) = Key(Source[i]) /\ f \in FilesOf(rows[r])
    <3>1. i \in 1 .. Len(Source)
      BY <1>7
    <3>2. CASE \A j \in DOMAIN Source : i < j => Key(Source[j]) # Key(Source[i])
      <4>1. LastOfKey(Source, i, Len(Source))
        BY <1>7, <3>2 DEF LastOfKey
      <4>2. PICK r \in DOMAIN rows : Key(rows[r].game) = Key(Source[i])
                                     /\ Source[i] \in {rows[r].game, rows[r].source}
        BY <1>6, <3>1, <4>1 DEF Named, LastCopy
      <4>3. f \in {Source[i].file} \cup {d.file : d \in Source[i].discs}
        BY <1>17 DEF FileSet
      <4>4. f \in FilesOf(rows[r])
        BY <1>17, <4>2, <4>3, FilesAre
      <4> QED
        BY <4>2, <4>4
    <3>3. CASE /\ \A j \in DOMAIN Source : j < i => Key(Source[j]) # Key(Source[i])
               /\ f = Source[i].file \/ \A g \in library.on2 : Key(g) # Key(Source[i])
      <4>1. FirstOfKey(Source, i)
        <5>1. \A h \in 1 .. i - 1 : h \in DOMAIN Source /\ h < i
          BY <1>7, <3>1
        <5> QED
          BY <3>3, <5>1 DEF FirstOfKey
      <4>2. PICK r \in DOMAIN rows : /\ Key(rows[r].game) = Key(Source[i])
                                     /\ rows[r].game.file = Source[i].file
                                     /\ Len(on) < r => rows[r].game.discs = Source[i].discs
        BY <1>6, <3>1, <4>1 DEF Named, FirstFile
      <4>3. CASE f = Source[i].file
        <5>1. f \in FilesOf(rows[r])
          BY <1>17, <4>2, <4>3, FilesAre
        <5> QED
          BY <4>2, <5>1
      <4>4. CASE \A g \in library.on2 : Key(g) # Key(Source[i])
        <5>1. Len(on) < r
          BY <1>7, <1>10, <4>2, <4>4
        <5>2. f \in {Source[i].file} \cup {d.file : d \in Source[i].discs}
          BY <1>17 DEF FileSet
        <5>3. f \in FilesOf(rows[r])
          BY <1>17, <4>2, <5>1, <5>2, FilesAre
        <5> QED
          BY <4>2, <5>3
      <4> QED
        BY <3>3, <4>3, <4>4
    <3> QED
      BY <1>17, <3>2, <3>3 DEF Shown
  <2>2. PICK r \in DOMAIN rows : Key(rows[r].game) = Key(Source[i]) /\ f \in FilesOf(rows[r])
    BY <2>1
  <2>3. m0 = OfRow(rows, r)
    <3>1. resolveListEntry(rows, k) = {m0}
      BY <1>13 DEF PlansOnce, Means
    <3>2. r \in FindSourceFile(rows, k)
      BY <1>17, <2>2 DEF FindSourceFile
    <3>3. r \in RowsMeant(rows, k)
      BY <3>2 DEF RowsMeant
    <3>4. OfRow(rows, r) \in resolveListEntry(rows, k)
      BY <1>12, <3>3 DEF resolveListEntry
    <3> QED
      BY <3>1, <3>4
  <2>4. CASE rows[r].installed
    <3>1. r \in 1 .. Len(on)
      BY <1>7, <1>8, <2>4
    <3>2. on[r] \in library.on2 /\ Key(on[r]) = Key(Source[i])
      BY <1>10, <2>2, <3>1
    <3>3. p.skipped > 0
      BY <1>13, <2>3, <2>4 DEF PlansOnce, OfRow
    <3> QED
      BY <3>2, <3>3
  <2>5. CASE ~rows[r].installed
    <3>1. PICK x \in DOMAIN p.games : p.games[x] = sourceView(rows[r])
      BY <1>13, <2>3, <2>5 DEF PlansOnce, OfRow
    <3> QED
      BY <1>9, <2>2, <3>1
  <2> QED
    BY <2>4, <2>5
<1> QED
  BY <1>15, <1>16, <1>17, <1>18 DEF p

=============================================================================
