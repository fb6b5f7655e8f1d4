----------------------------- MODULE BatchInstall -----------------------------
(***************************************************************************)
(* `install --all` and its relatives: runBatch (src/internal/cli/batch.go)  *)
(* installs the plan's titles one after the other, each by Services.Install *)
(* (src/internal/app/install.go), with a Prefetcher unpacking ahead.  The   *)
(* batch is the Prefetcher's one adder and its installer: every step of it  *)
(* that touches the Prefetcher is a step of that module.                    *)
(***************************************************************************)
EXTENDS Prefetcher, SequencesExt

CONSTANTS
  Plan,      \* the titles that fit, in the order splitPlan gives them
  Batch,     \* the one adder
  MaxEarly   \* bound: titles whose checks refuse them before their source is read

ASSUME BatchAssumption ==
  /\ Plan \in Seq(Titles) /\ IsInjective(Plan)
  /\ Adders = {Batch}
  /\ MaxPending >= Len(Plan)

VARIABLES
  onDrive,   \* titles on the drive
  unfit,     \* titles the space or media check refuses
  next,      \* index in Plan of the title being installed
  phase,     \* where runBatch and Install are
  installed, \* rep.Installed
  failed,    \* rep.Failed
  cancelled  \* rep.Cancelled

batchVars == << onDrive, unfit, next, phase, installed, failed, cancelled >>
allVars   == << vars, batchVars >>

report == << installed, failed, cancelled >>

title == Plan[next]

BatchInit ==
  /\ Init
  /\ \E refused \in SUBSET Range(Plan) :
       /\ Cardinality(refused) <= MaxEarly
       /\ onDrive \in SUBSET refused
       /\ unfit = refused \ onDrive
  /\ next = 1 /\ phase = "add"
  /\ installed = {} /\ failed = {} /\ cancelled = FALSE

-----------------------------------------------------------------------------
\* pre.Add(todo...), in the plan's order.
BatchAdd ==
  /\ phase = "add" /\ phase' = "wake"
  /\ Add(Batch, Range(Plan))
  /\ pending' = SelectSeq(Plan, LAMBDA k : k \notin Loose)
  /\ UNCHANGED << onDrive, unfit, next, report >>

BatchAddWake ==
  /\ phase = "wake" /\ phase' = "next"
  /\ AddWake(Batch)
  /\ UNCHANGED << onDrive, unfit, next, report >>

\* The head of the loop: the next title, or the end of the list, or an
\* interrupt noticed between two titles.
BeginTitle ==
  /\ phase = "next"
  /\ \/ /\ next > Len(Plan) /\ phase' = "stop" /\ UNCHANGED cancelled
     \/ /\ next <= Len(Plan) /\ ctxDone
        /\ phase' = "stop" /\ cancelled' = TRUE
     \/ /\ next <= Len(Plan) /\ ~ctxDone
        /\ phase' = "check" /\ UNCHANGED cancelled
  /\ UNCHANGED << vars, onDrive, unfit, next, installed, failed >>

\* Mutant: the first failure ends the run.
FailStops ==
  /\ failed' = failed \cup {title} /\ cancelled' = TRUE
  /\ UNCHANGED installed

\* How runBatch classifies what Install returned.
Succeed  == installed' = installed \cup {title} /\ UNCHANGED << failed, cancelled >>
Fail     == failed' = failed \cup {title} /\ UNCHANGED << installed, cancelled >>
Skip     == UNCHANGED report
Abandon  == cancelled' = TRUE /\ UNCHANGED << installed, failed >>

\* What an error under a cancelled context is taken for: a command killed by the
\* context returns an error of its own, which does not say it was cancelled.
Interrupted == ctxDone /\ (Fail \/ Abandon)

\* After Install has returned.
Advance == /\ next' = next + 1
           /\ phase' = IF cancelled' THEN "stop" ELSE "next"

\* The checks before the source is read.  A title on the drive, without room
\* or of unknown media ends here, and nobody Takes what was unpacked for it.
Refuse ==
  /\ phase = "check"
  /\ \/ title \in onDrive /\ Skip
     \/ title \in unfit /\ Fail
     \/ Interrupted
  /\ Advance
  /\ UNCHANGED << vars, onDrive, unfit >>

Accept ==
  /\ phase = "check" /\ title \notin onDrive \cup unfit
  /\ phase' = "source"
  /\ UNCHANGED << vars, onDrive, unfit, next, report >>

\* A loose title is read where it is; an archived one is taken.
SourceLoose ==
  /\ phase = "source" /\ title \in Loose
  /\ phase' = "write"
  /\ UNCHANGED << vars, onDrive, unfit, next, report >>

SourceTake ==
  /\ phase = "source" /\ Take(title)
  /\ phase' = IF taker' = "waiting" THEN "taking" ELSE "write"
  /\ UNCHANGED << onDrive, unfit, next, report >>

SourceTaken ==
  /\ phase = "taking" /\ (TakeWoken \/ TakeCancelled)
  /\ phase' = "write"
  /\ UNCHANGED << onDrive, unfit, next, report >>

\* The inline extraction fails: its own directory is removed before it returns.
InlineFails ==
  /\ phase = "write" /\ taker = "inline" /\ InlineDone
  /\ Fail \/ Interrupted
  /\ Advance
  /\ UNCHANGED << onDrive, unfit >>

\* Writing, and what follows it under the drive lock.  A write that did not
\* succeed may have left a partition the next reader lists.
Write ==
  /\ phase = "write"
  /\ \/ Succeed /\ onDrive' = onDrive \cup {title}
     \/ (Fail \/ Interrupted) /\ onDrive' \in {onDrive, onDrive \cup {title}}
  /\ phase' = "release"
  /\ UNCHANGED << vars, unfit, next >>

\* Mutant: Install drops what Take handed over without releasing it.
ReleaseDropped ==
  /\ phase = "release"
  /\ next' = next + 1 /\ taker' = "idle"
  /\ phase' = IF cancelled THEN "stop" ELSE "next"
  /\ UNCHANGED << shared, wake, ctxDone, slots, copies, loopVars, taking,
                  takenDir, held, adder, onDrive, unfit, report >>

\* The deferred cleanup of whatever source was used.
Release ==
  /\ phase = "release"
  /\ \/ /\ taker \in {"holding", "freeing", "inline"}
        /\ ReleaseCopy \/ ReleaseSlot \/ InlineDone
        /\ UNCHANGED << next, phase >>
     \/ /\ taker = "idle"
        /\ next' = next + 1
        /\ phase' = IF cancelled THEN "stop" ELSE "next"
        /\ UNCHANGED vars
  /\ UNCHANGED << onDrive, unfit, report >>

\* The deferred Stop.
BatchStop ==
  /\ phase = "stop" /\ Stop
  /\ phase' = IF taker' = "done" THEN "done" ELSE "stop"
  /\ UNCHANGED << onDrive, unfit, next, report >>

\* The other goroutine, and the user's Ctrl-C.
LoopStep  == Loop /\ UNCHANGED batchVars
Interrupt == Cancel /\ UNCHANGED batchVars

\* The command returns when runBatch does; the loop may outlive it.
BatchEnded == phase = "done" /\ UNCHANGED allVars

Install == \/ Refuse \/ Accept \/ SourceLoose \/ SourceTake \/ SourceTaken
           \/ InlineFails \/ Write \/ Release

RunBatch == BatchAdd \/ BatchAddWake \/ BeginTitle \/ Install \/ BatchStop

BatchNext == RunBatch \/ LoopStep \/ Interrupt \/ BatchEnded

BatchSpec == BatchInit /\ [][BatchNext]_allVars

\* runBatch runs, the loop's goroutine is scheduled, extractions and writes
\* end.  Nobody is obliged to interrupt.
BatchFairSpec == BatchSpec /\ WF_allVars(RunBatch) /\ WF_allVars(LoopStep)

-----------------------------------------------------------------------------
(* Properties.                                                             *)

(* "A failure stops that title and nothing else" (runBatch): unless it was    *)
(* interrupted, a run that ends has installed, skipped or reported every      *)
(* title of the plan, and each once.                                           *)
EveryTitleAnswered ==
  phase = "done" =>
    /\ ~ctxDone => Range(Plan) \subseteq installed \cup failed \cup onDrive
    /\ installed \cap failed = {}
    /\ installed \subseteq onDrive

(* A run comes to its end: with fewer titles refused early than there are      *)
(* slots, and when interrupted.  (With Depth refused titles it does not, and  *)
(* the run batch_refused_titles shows that.)                                   *)
BatchEnds == <>(phase = "done")
=============================================================================
