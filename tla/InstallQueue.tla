----------------------------- MODULE InstallQueue -----------------------------
(***************************************************************************)
(* The interface's install queue (src/internal/app/queue.go): items added, *)
(* retried, cancelled and cleared by the interface's update loop, and a    *)
(* worker goroutine per pass that installs what waits, one item at a time. *)
(* Each pass has its own context and its own Prefetcher.                   *)
(*                                                                         *)
(* A critical section under q.mu is one step.  Of an install the queue     *)
(* sees three things: whether its checks refuse it, whether Take returns,  *)
(* and how the rest ends.  Of a Prefetcher it sees the order in which it   *)
(* was told of the titles: the first Depth of those it has promised and    *)
(* not handed over are the ones with a slot.                               *)
(***************************************************************************)
EXTENDS Integers, Sequences, FiniteSets, SequencesExt

CONSTANTS
  MaxItems,   \* bound: items ever added; their IDs are 1..MaxItems
  MaxGroup,   \* bound: items one enqueue adds
  Passes,     \* bound: worker goroutines that exist at once
  NoPass,     \* the nil cancel function and the nil prefetcher
  Depth,      \* slots of a prefetcher
  Refusable   \* items the checks before Take may refuse

ASSUME QueueAssumption ==
  /\ MaxItems \in Nat \ {0} /\ MaxGroup \in Nat \ {0} /\ Depth \in Nat \ {0}
  /\ NoPass \notin Passes

Items == 1..MaxItems

VARIABLES
  added,      \* how many items have been added (nextID - 1)
  listed,     \* items in q.items; their order is the order of their IDs
  state,      \* of every item, the cleared ones a worker still holds included
  running,    \* q.running
  cancelOf,   \* the pass whose context q.cancel cancels
  prefetchOf, \* the pass whose prefetcher q.prefetch is
  ctxDone,    \* per pass: its context is cancelled
  worker,     \* per pass: where its goroutine is
  claim,      \* per pass: the item nextWaiting gave it, 0 between two items
  todo,       \* per pass: what waitingGames returned
  fed,        \* per pass: promised by its prefetcher and not handed over, in order
  ui,         \* where the interface's update loop is
  uiCancel,   \* the cancel function Cancel read under the lock
  retried,    \* history: waiting items that Retry moved back
  stranded    \* history: items that the pass under way refused before Take, or
              \* that were promised to it before what it found waiting

qVars == << added, listed, state, running, cancelOf, prefetchOf >>
uiVars == << ui, uiCancel >>
passVars == << ctxDone, worker, claim, todo, fed >>
vars == << qVars, passVars, uiVars, retried, stranded >>

Terminal == {"complete", "failed", "cancelled"}

Waiting == {i \in listed : state[i] = "waiting"}

Alive == {p \in Passes : worker[p] \notin {"free", "stop"}}

QTypeOK ==
  /\ added \in 0..MaxItems
  /\ listed \in SUBSET Items
  /\ state \in [Items -> {"none", "waiting", "active"} \cup Terminal]
  /\ running \in BOOLEAN
  /\ cancelOf \in Passes \cup {NoPass} /\ prefetchOf \in Passes \cup {NoPass}
  /\ ctxDone \in [Passes -> BOOLEAN]
  /\ worker \in [Passes -> {"free", "begin", "list", "give", "next", "claimed",
                            "checks", "taking", "write", "settled", "sweep", "leave",
                            "stop"}]
  /\ claim \in [Passes -> Items \cup {0}]
  /\ todo \in [Passes -> SUBSET Items] /\ fed \in [Passes -> Seq(Items)]
  /\ ui \in {"idle", "retry", "start", "cancel"}
  /\ uiCancel \in Passes \cup {NoPass}
  /\ retried \in SUBSET Items /\ stranded \in SUBSET Items

Init ==
  /\ added = 0 /\ listed = {} /\ state = [i \in Items |-> "none"]
  /\ running = FALSE /\ cancelOf = NoPass /\ prefetchOf = NoPass
  /\ ctxDone = [p \in Passes |-> FALSE]
  /\ worker = [p \in Passes |-> "free"]
  /\ claim = [p \in Passes |-> 0]
  /\ todo = [p \in Passes |-> {}] /\ fed = [p \in Passes |-> << >>]
  /\ ui = "idle" /\ uiCancel = NoPass
  /\ retried = {} /\ stranded = {}

-----------------------------------------------------------------------------
(* Helpers.                                                                *)

Listed(s) == {s[k] : k \in 1..Len(s)}

\* A set of items in the order of the list (there is one such sequence).
InOrder(S) ==
  {s \in [1..Cardinality(S) -> S] :
     \A j, k \in 1..Cardinality(S) : j < k => s[j] < s[k]}

First(S) == {i \in S : \A j \in S : i <= j}

\* Prefetcher.Add, of items in the order of the list: what it already expects is
\* not queued twice.
Feed(p, S) == \E s \in InOrder(S \ Listed(fed[p])) : fed' = [fed EXCEPT ![p] = @ \o s]

-----------------------------------------------------------------------------
(* The interface: one goroutine, one operation at a time.                  *)

\* Mutant: Add forgets the pass under way.
AddUnheard(n) ==
  /\ ui = "idle" /\ added + n <= MaxItems
  /\ LET new == (added + 1)..(added + n)
     IN  /\ added' = added + n
         /\ listed' = listed \cup new
         /\ state' = [i \in Items |-> IF i \in new THEN "waiting" ELSE state[i]]
  /\ ui' = "start"
  /\ UNCHANGED << running, cancelOf, prefetchOf, passVars, uiCancel, retried, stranded >>

\* enqueue, first half: Add, which also tells the prefetcher of the pass under
\* way.
Add(n) ==
  /\ ui = "idle" /\ added + n <= MaxItems
  /\ LET new == (added + 1)..(added + n)
     IN  /\ added' = added + n
         /\ listed' = listed \cup new
         /\ state' = [i \in Items |-> IF i \in new THEN "waiting" ELSE state[i]]
         /\ \/ prefetchOf = NoPass /\ UNCHANGED << fed, stranded >>
            \/ /\ prefetchOf # NoPass /\ Feed(prefetchOf, new)
               /\ stranded' = IF worker[prefetchOf] \in {"list", "give"}
                              THEN stranded \cup new ELSE stranded
  /\ ui' = "start"
  /\ UNCHANGED << running, cancelOf, prefetchOf, ctxDone, worker, claim, todo,
                  uiCancel, retried >>

\* The retry key calls Retry for every item, each under its own lock.
Retry(i) ==
  /\ ui \in {"idle", "retry"} /\ i \in listed /\ state[i] \in {"failed", "cancelled"}
  /\ state' = [state EXCEPT ![i] = "waiting"]
  /\ retried' = retried \cup {i}
  /\ ui' = "retry"
  /\ UNCHANGED << added, listed, running, cancelOf, prefetchOf, passVars, uiCancel, stranded >>

RetriedAll ==
  /\ ui = "retry" /\ ui' = "start"
  /\ UNCHANGED << qVars, passVars, uiCancel, retried, stranded >>

\* Mutant: Start does not look whether a pass is running.
StartAnyway ==
  /\ ui = "start"
  /\ \E p \in Passes :
       /\ worker[p] = "free"
       /\ running' = TRUE /\ cancelOf' = p
       /\ worker' = [worker EXCEPT ![p] = "begin"]
  /\ ui' = "idle"
  /\ UNCHANGED << added, listed, state, prefetchOf, ctxDone, claim, todo, fed,
                  uiCancel, retried, stranded >>

\* Start: nothing when a pass is running, otherwise a pass with a context of
\* its own.
Start ==
  /\ ui = "start"
  /\ \/ running /\ UNCHANGED << running, cancelOf, worker >>
     \/ /\ ~running
        /\ \E p \in Passes :
             /\ worker[p] = "free"
             /\ running' = TRUE /\ cancelOf' = p
             /\ worker' = [worker EXCEPT ![p] = "begin"]
  /\ ui' = "idle"
  /\ UNCHANGED << added, listed, state, prefetchOf, ctxDone, claim, todo, fed,
                  uiCancel, retried, stranded >>

\* Cancel under the lock: what waits is cancelled there and then.
Cancel ==
  /\ ui = "idle"
  /\ state' = [i \in Items |-> IF i \in Waiting THEN "cancelled" ELSE state[i]]
  /\ uiCancel' = cancelOf
  /\ retried' = {}
  /\ ui' = "cancel"
  /\ UNCHANGED << added, listed, running, cancelOf, prefetchOf, passVars, stranded >>

\* And after it: the pass's context, unless the pass has ended meanwhile.
CancelContext ==
  /\ ui = "cancel"
  /\ ctxDone' = [p \in Passes |-> ctxDone[p] \/ (p = uiCancel /\ worker[p] # "free")]
  /\ ui' = "idle" /\ uiCancel' = NoPass
  /\ UNCHANGED << qVars, worker, claim, todo, fed, retried, stranded >>

Clear ==
  /\ ui = "idle"
  /\ \E i \in listed : state[i] \in Terminal
  /\ listed' = {i \in listed : state[i] \notin Terminal}
  /\ UNCHANGED << added, state, running, cancelOf, prefetchOf, passVars, uiVars,
                  retried, stranded >>

Interface ==
  \/ \E n \in 1..MaxGroup : Add(n)
  \/ \E i \in Items : Retry(i)
  \/ RetriedAll \/ Start \/ Cancel \/ CancelContext \/ Clear

-----------------------------------------------------------------------------
(* A pass.                                                                 *)

At(p, here, there) == worker[p] = here /\ worker' = [worker EXCEPT ![p] = there]

\* StartPrefetch and q.prefetch = pre.
Attach(p) ==
  /\ At(p, "begin", "list")
  /\ prefetchOf' = p
  /\ UNCHANGED << added, listed, state, running, cancelOf, ctxDone, claim, todo,
                  fed, uiVars, retried, stranded >>

\* waitingGames, and then, the lock released, pre.Add of what it returned.
ListWaiting(p) ==
  /\ At(p, "list", "give")
  /\ todo' = [todo EXCEPT ![p] = Waiting]
  /\ UNCHANGED << qVars, ctxDone, claim, fed, uiVars, retried, stranded >>

GiveWaiting(p) ==
  /\ At(p, "give", "next")
  /\ Feed(p, todo[p])
  /\ todo' = [todo EXCEPT ![p] = {}]
  /\ UNCHANGED << qVars, ctxDone, claim, uiVars, retried, stranded >>

\* nextWaiting: the first waiting item, or the end of the pass.
NextWaiting(p) ==
  /\ \/ /\ At(p, "next", "claimed")
        /\ \E i \in First(Waiting) : claim' = [claim EXCEPT ![p] = i]
     \/ /\ Waiting = {} /\ At(p, "next", "leave")
        /\ UNCHANGED claim
  /\ UNCHANGED << qVars, ctxDone, todo, fed, uiVars, retried, stranded >>

\* process, first update.  The item is not looked at again: it may have been
\* cancelled, or cleared, since it was found waiting.  Then installOpts: the
\* prefetcher it reads is this pass's, until this pass ends.
Begin(p) ==
  /\ At(p, "claimed", "checks")
  /\ state' = [state EXCEPT ![claim[p]] = "active"]
  /\ retried' = retried \ {claim[p]}
  /\ UNCHANGED << added, listed, running, cancelOf, prefetchOf, ctxDone, claim,
                  todo, fed, uiVars, stranded >>

\* process, last update.  An interrupted install ends in any of three ways: it
\* was already done, its error says it was cancelled, or it is the error of a
\* command that was killed, which does not.
Settle(p, outcome) ==
  /\ state' = [state EXCEPT ![claim[p]] = outcome]
  /\ claim' = [claim EXCEPT ![p] = 0]
  /\ UNCHANGED << added, listed, running, cancelOf, prefetchOf, ctxDone, todo,
                  uiVars, retried >>

\* The checks before the source is read refuse the title, or are interrupted.
Refuse(p) ==
  /\ At(p, "checks", "settled")
  /\ \/ (claim[p] \in Refusable \/ ctxDone[p]) /\ Settle(p, "failed")
     \/ ctxDone[p] /\ Settle(p, "cancelled")
  /\ stranded' = stranded \cup ({claim[p]} \cap Listed(fed[p]))
  /\ UNCHANGED fed

Accept(p) ==
  /\ At(p, "checks", "taking")
  /\ UNCHANGED << qVars, ctxDone, claim, todo, fed, uiVars, retried, stranded >>

\* Mutant: Take waits for a title nobody promised.
TakeReturnsPromised(p) ==
  ctxDone[p] \/ \E k \in 1..Len(fed[p]) : k <= Depth /\ fed[p][k] = claim[p]

\* Does Take return?  At once when the title is not expected, and when the
\* context is done; otherwise when a slot is left for it.
TakeReturns(p) ==
  \/ claim[p] \notin Listed(fed[p])
  \/ ctxDone[p]
  \/ \E k \in 1..Len(fed[p]) : k <= Depth /\ fed[p][k] = claim[p]

Take(p) ==
  /\ At(p, "taking", "write") /\ TakeReturns(p)
  /\ \/ claim[p] \notin Listed(fed[p]) /\ UNCHANGED fed
     \/ \E k \in 1..Len(fed[p]) :
          fed[p][k] = claim[p] /\ fed' = [fed EXCEPT ![p] = RemoveAt(@, k)]
  /\ stranded' = stranded \ {claim[p]}
  /\ UNCHANGED << qVars, ctxDone, claim, todo, uiVars, retried >>

Write(p) ==
  /\ At(p, "write", "settled")
  /\ \/ Settle(p, "complete") \/ Settle(p, "failed")
     \/ ctxDone[p] /\ Settle(p, "cancelled")
  /\ UNCHANGED << fed, stranded >>

\* Mutant: the pass goes on although it was cancelled.
LookAtContextNot(p) ==
  /\ At(p, "settled", "next")
  /\ UNCHANGED << qVars, ctxDone, claim, todo, fed, uiVars, retried, stranded >>

LookAtContext(p) ==
  /\ At(p, "settled", IF ctxDone[p] THEN "sweep" ELSE "next")
  /\ UNCHANGED << qVars, ctxDone, claim, todo, fed, uiVars, retried, stranded >>

\* cancelRemaining.
Sweep(p) ==
  /\ At(p, "sweep", "leave")
  /\ state' = [i \in Items |-> IF i \in listed /\ state[i] \notin Terminal
                               THEN "cancelled" ELSE state[i]]
  /\ retried' = {}
  /\ UNCHANGED << added, listed, running, cancelOf, prefetchOf, ctxDone, claim,
                  todo, fed, uiVars, stranded >>

\* The deferred end of a pass: first the queue lets go of it ...
Leave(p) ==
  /\ At(p, "leave", "stop")
  /\ running' = FALSE /\ cancelOf' = NoPass /\ prefetchOf' = NoPass
  /\ stranded' = {}
  /\ UNCHANGED << added, listed, state, ctxDone, claim, todo, fed, uiVars, retried >>

\* ... then, out of the lock, its prefetcher is stopped.
StopPrefetch(p) ==
  /\ At(p, "stop", "free")
  /\ fed' = [fed EXCEPT ![p] = << >>]
  /\ ctxDone' = [ctxDone EXCEPT ![p] = FALSE]
  /\ UNCHANGED << qVars, claim, todo, uiVars, retried, stranded >>

Pass(p) ==
  \/ Attach(p) \/ ListWaiting(p) \/ GiveWaiting(p) \/ NextWaiting(p) \/ Begin(p)
  \/ Refuse(p) \/ Accept(p) \/ Take(p) \/ Write(p) \/ LookAtContext(p) \/ Sweep(p)
  \/ Leave(p) \/ StopPrefetch(p)

Next == Interface \/ \E p \in Passes : Pass(p)

Spec == Init /\ [][Next]_vars

\* A pass is scheduled and its extractions and writes end; a key the interface
\* has begun to handle is handled to the end.  Nobody is obliged to press one.
Fairness ==
  /\ \A p \in Passes : WF_vars(Pass(p))
  /\ WF_vars(RetriedAll \/ Start \/ CancelContext)

FairSpec == Spec /\ Fairness

-----------------------------------------------------------------------------
(* Properties.                                                             *)

(* "Queue runs installs one at a time": whatever is started, cancelled and    *)
(* started again, at most one pass is between its first and its last step, and *)
(* at most one install runs.                                                   *)
OneWorker == \A p, q \in Alive : p = q

(* The queue's fields name the pass that runs, and nothing once it has left:   *)
(* so Cancel always reaches the pass under way and never a later one, and Add  *)
(* never feeds a prefetcher that is being stopped.                             *)
FieldsNamePass ==
  /\ running <=> Alive # {}
  /\ running => cancelOf \in Alive
  /\ ~running => cancelOf = NoPass
  /\ prefetchOf # NoPass => prefetchOf \in Alive
  /\ \A p \in Alive : worker[p] # "begin" => prefetchOf = p

(* An item shows as being installed exactly while some pass installs it.       *)
ActiveIsWorkedOn ==
  \A i \in Items : state[i] = "active" <=>
    \E p \in Passes : claim[p] = i /\ worker[p] \in {"checks", "taking", "write"}

(* "A pass already under way has to hear about these": whatever was added      *)
(* while a pass starts or runs, its prefetcher hears of it.  Items put back by *)
(* Retry are not fed, the code never says they are.                            *)
NewWorkHeard ==
  \A p \in Alive : worker[p] \notin {"begin", "list", "give", "leave"} =>
    Waiting \ retried \subseteq Listed(fed[p])

(* What was installed is never installed again, nor called anything else.      *)
CompleteIsFinal ==
  [][\A i \in Items : state[i] = "complete" => state'[i] = "complete"]_vars

(* A cancelled pass comes to its end, whatever it was doing and however much   *)
(* is added or retried meanwhile.                                              *)
CancelEnds ==
  \A p \in Passes : ctxDone[p] /\ p \in Alive ~> p \notin Alive

(* The item a pass has claimed ends, or its install waits while every slot is   *)
(* held for a title the pass does not come back to before it: one its checks    *)
(* refused after it was promised, or one that Add promised between q.prefetch   *)
(* and what the pass then found waiting, which it overtook (queue.go:261).      *)
(* Those two waits last until the pass is cancelled, and are the only ones:     *)
(* whatever else is added, retried and cleared meanwhile, a slot comes, because *)
(* the titles are promised in the order they are installed in.                  *)
SlotsStranded(p) ==
  Len(fed[p]) > Depth /\ \A k \in 1..Depth : fed[p][k] \in stranded

WorkEnds ==
  \A p \in Passes : claim[p] # 0 ~> claim[p] = 0 \/ SlotsStranded(p)

=============================================================================
