------------------------------ MODULE SourceScan ------------------------------
(***************************************************************************)
(* A scan of a source directory (src/internal/catalog/source.go) with its   *)
(* persistent cache (cache.go): the walk, the feed that hands file after    *)
(* file to a pool of workers, and what each worker does with one.           *)
(*                                                                         *)
(* Scans share one Cache (Services.sourceCache); the files may change under *)
(* all of them, a scan may be cancelled at any step and the program killed. *)
(* A version stands for a size and a modification time.  A walk may pass   *)
(* over directories it cannot read.                                        *)
(***************************************************************************)
EXTENDS Integers, Sequences, FiniteSets, SequencesExt

CONSTANTS
  Order,        \* the files that may be there, as sort.Strings orders them
  Image,        \* of a file: the one its sheet names, or itself
  Folder,       \* of a file: the directory it is in
  Junk,         \* <<file, version>> pairs that hold nothing recognisable
  MaxScans,     \* bound: calls of ScanPS1 or ScanPS2, numbered as they start
  Stocks,       \* what may be there at first: a set of files, and as a bound how
                \* many events befall it (a file appears, changes or goes away, a
                \* directory, a reading or a save fails, the user interrupts, kills
                \* or clears)
  Concurrency,  \* of each scan, how many workers
  None          \* no entry, no outcome, no file in hand

Files == Range(Order)
Scans == 1..MaxScans
Workers(s) == 1..Concurrency[s]

ASSUME ScanAssumption ==
  /\ IsInjective(Order) /\ IsFiniteSet(Files) /\ Image \in [Files -> Files]
  /\ DOMAIN Folder = Files
  /\ MaxScans \in Nat /\ Stocks \subseteq [there : SUBSET Files, events : Nat]
  /\ Concurrency \in [Scans -> Nat \ {0}]
  /\ None \notin (Nat \X Nat) \cup [ver : Nat, res : Nat \X Nat]

VARIABLES
  disk,      \* version of each file, 0 when it is not there
  edits,     \* how often a file changed
  events,    \* how many events are still to come
  mem,       \* Cache.entries
  dirty,     \* Cache.dirty
  saved,     \* the cache file
  pc,        \* where each scan is
  ctxDone,   \* the scan's context is cancelled
  referenced,\* what cueReferences found
  files,     \* what collect found
  fed,       \* how many files went into the queue
  worker,    \* each worker of each scan
  out,       \* outcome per index
  told,      \* last ScanProgress: Done and Path (an index)
  began,     \* history: the disk as the scan began
  walked     \* history: the files there at the second walk, the folders it passed over

diskVars == << disk, edits, events >>
cache    == << mem, dirty, saved >>
scanVars == << pc, ctxDone, referenced, files, fed, worker, out, told, began,
               walked >>
vars     == << diskVars, cache, scanVars >>

\* Why there is no game: the file is none, or this reading of it failed.
NoGame == << 0, 0 >>
Fault  == << 0, 1 >>
Failures == {NoGame, Fault}

Idle == [at |-> "idle", i |-> 0, ver |-> 0]
Gone == [Idle EXCEPT !.at = "gone"]

\* Entry: an inspection result under the version it was stored with.
Entry(v, r) == [ver |-> v, res |-> r]
NoEntries   == [f \in Files |-> None]
NoDisk      == [f \in Files |-> 0]
NoWorkers(s) == [w \in Workers(s) |-> Idle]
NotTold     == [done |-> 0, path |-> 0]
NoWalk      == [there |-> {}, hidden |-> {}]

Init ==
  /\ \E l \in Stocks : /\ disk = [f \in Files |-> IF f \in l.there THEN 1 ELSE 0]
                          /\ events = l.events
  /\ edits = 0
  /\ mem = NoEntries /\ saved = NoEntries /\ dirty = FALSE
  /\ pc = [s \in Scans |-> "idle"]
  /\ ctxDone = [s \in Scans |-> FALSE]
  /\ referenced = [s \in Scans |-> {}]
  /\ files = [s \in Scans |-> << >>]
  /\ fed = [s \in Scans |-> 0]
  /\ worker = [s \in Scans |-> NoWorkers(s)]
  /\ out = [s \in Scans |-> << >>]
  /\ told = [s \in Scans |-> NotTold]
  /\ began = [s \in Scans |-> NoDisk] /\ walked = [s \in Scans |-> NoWalk]

\* Something goes wrong, or the user steps in.
Event == events > 0 /\ events' = events - 1

-----------------------------------------------------------------------------
(* What is read of a file.                                                 *)

\* Inspecting: the identity comes from the file and, for a sheet, from the image
\* beside it; both as they are at the time.
Identity(f) ==
  IF disk[f] = 0 \/ disk[Image[f]] = 0 THEN Fault
  ELSE IF \E g \in {f, Image[f]} : << g, disk[g] >> \in Junk THEN NoGame
  ELSE << disk[f], disk[Image[f]] >>

IsGame(r) == r # None /\ r \notin Failures

\* Mutant: size and time are not compared.
FreshAlways(f) == mem[f] # None

\* Cache.Get
Fresh(f) == mem[f] # None /\ mem[f].ver = disk[f]

-----------------------------------------------------------------------------
(* A scan.                                                                 *)

\* collect passes over a directory it cannot read (WalkDir's error), and over every
\* file in it: of what is there, a walk finds the files in the other ones.
Walk(hidden) == \/ hidden = {} /\ UNCHANGED events
                \/ hidden # {} /\ Event

There == {f \in Files : disk[f] # 0}
InSight(hidden) == {f \in There : Folder[f] \notin hidden}
Folders == Range(Folder)

\* cueReferences: what the sheets that are found and can be parsed speak for.
Begin(s) ==
  /\ pc[s] = "idle" /\ \A r \in 1..(s - 1) : pc[r] # "idle"
  /\ pc' = [pc EXCEPT ![s] = "collect"]
  /\ began' = [began EXCEPT ![s] = disk]
  /\ \E hidden \in SUBSET Folders :
       /\ Walk(hidden)
       /\ referenced' = [referenced EXCEPT ![s] =
            {Image[f] : f \in {g \in InSight(hidden) : Image[g] # g /\ << g, disk[g] >> \notin Junk}}]
  /\ UNCHANGED << disk, edits, cache, ctxDone, files, fed, worker, out, told,
                  walked >>

\* The files of a set as sort.Strings leaves them.
Listings(S) ==
  {l \in [1..Cardinality(S) -> S] :
     /\ Range(l) = S
     /\ \A i, j \in DOMAIN l : i < j =>
          \E p, q \in DOMAIN Order : p < q /\ l[i] = Order[p] /\ l[j] = Order[q]}

\* The second walk: what is there now and was not spoken for in the first.
Collect(s) ==
  /\ pc[s] = "collect" /\ pc' = [pc EXCEPT ![s] = "feed"]
  /\ \E hidden \in SUBSET Folders :
       /\ Walk(hidden)
       /\ walked' = [walked EXCEPT ![s] = [there |-> There, hidden |-> hidden]]
       /\ \E l \in Listings(InSight(hidden) \ referenced[s]) :
            /\ files' = [files EXCEPT ![s] = l]
            /\ out' = [out EXCEPT ![s] = [i \in DOMAIN l |-> None]]
  /\ UNCHANGED << disk, edits, cache, ctxDone, referenced, fed, worker, told, began >>

\* Mutant: a goroutine per file, reaching the queue in any order.
HandAny(s, w) ==
  /\ pc[s] = "feed" /\ worker[s][w].at = "idle"
  /\ \E i \in DOMAIN files[s] :
       /\ out[s][i] = None /\ \A v \in Workers(s) : worker[s][v].i # i
       /\ worker' = [worker EXCEPT ![s][w] = [Idle EXCEPT !.at = "got", !.i = i]]
  /\ fed' = [fed EXCEPT ![s] = Cardinality({i \in DOMAIN out[s] : out[s][i] # None})]
  /\ UNCHANGED << diskVars, cache, pc, ctxDone, referenced, files, out, told,
                  began, walked >>

\* queue <- i, an unbuffered channel: a worker receives as the feed sends.
Hand(s, w) ==
  /\ pc[s] = "feed" /\ worker[s][w].at = "idle"
  /\ fed[s] < Len(files[s]) /\ fed' = [fed EXCEPT ![s] = @ + 1]
  /\ worker' = [worker EXCEPT ![s][w] = [Idle EXCEPT !.at = "got", !.i = fed'[s]]]
  /\ UNCHANGED << diskVars, cache, pc, ctxDone, referenced, files, out, told,
                  began, walked >>

\* Mutant: the feed does not listen to the context.
FeedEndsDeaf(s) ==
  /\ pc[s] = "feed" /\ fed[s] = Len(files[s])
  /\ pc' = [pc EXCEPT ![s] = "wait"]
  /\ UNCHANGED << diskVars, cache, ctxDone, referenced, files, fed, worker, out,
                  told, began, walked >>

\* The feed has sent everything, or is told to stop; close(queue).
FeedEnds(s) ==
  /\ pc[s] = "feed" /\ (fed[s] = Len(files[s]) \/ ctxDone[s])
  /\ pc' = [pc EXCEPT ![s] = "wait"]
  /\ UNCHANGED << diskVars, cache, ctxDone, referenced, files, fed, worker, out,
                  told, began, walked >>

\* A worker's state, its outcome and its report change together.
Work(s, w, to) == worker' = [worker EXCEPT ![s][w] = to]

Report(s, i, r) ==
  /\ out' = [out EXCEPT ![s][i] = r]
  /\ told' = [told EXCEPT ![s] = [done |-> @.done + 1, path |-> IF i > @.path THEN i ELSE @.path]]

\* After receiving: go home, dropping the file in hand.
GoHome(s, w) ==
  /\ worker[s][w].at = "got" /\ ctxDone[s]
  /\ Work(s, w, Gone)
  /\ UNCHANGED << diskVars, cache, pc, ctxDone, referenced, files, fed, out, told,
                  began, walked >>

\* Or look at it: os.Stat, and the cache.
LookMissing(s, w) ==
  LET i == worker[s][w].i IN
  /\ worker[s][w].at = "got" /\ ~ctxDone[s] /\ disk[files[s][i]] = 0
  /\ Work(s, w, Idle) /\ Report(s, i, Fault)
  /\ UNCHANGED << diskVars, cache, pc, ctxDone, referenced, files, fed, began,
                  walked >>

LookCached(s, w) ==
  LET i == worker[s][w].i
      f == files[s][i] IN
  /\ worker[s][w].at = "got" /\ ~ctxDone[s] /\ disk[f] # 0 /\ Fresh(f)
  /\ Work(s, w, Idle) /\ Report(s, i, mem[f].res)
  /\ UNCHANGED << diskVars, cache, pc, ctxDone, referenced, files, fed, began,
                  walked >>

LookFresh(s, w) ==
  LET f == files[s][worker[s][w].i] IN
  /\ worker[s][w].at = "got" /\ ~ctxDone[s] /\ disk[f] # 0 /\ ~Fresh(f)
  /\ Work(s, w, [worker[s][w] EXCEPT !.at = "inspect", !.ver = disk[f]])
  /\ UNCHANGED << diskVars, cache, pc, ctxDone, referenced, files, fed, out, told,
                  began, walked >>

\* Mutant: the file is looked at after it was read.
InspectThenStat(s, w) ==
  LET i == worker[s][w].i
      f == files[s][i]
      r == << worker[s][w].ver, worker[s][w].ver >> IN
  /\ worker[s][w].at = "inspect" /\ disk[f] # 0
  /\ mem' = [mem EXCEPT ![f] = Entry(disk[f], r)] /\ dirty' = TRUE
  /\ Work(s, w, Idle) /\ Report(s, i, r)
  /\ UNCHANGED << diskVars, saved, pc, ctxDone, referenced, files, fed, began,
                  walked >>

\* `inspect`, which may fail for reasons that are not the file's (an archive tool
\* that is not installed, a share that is gone, an interrupt), and Cache.Put of
\* whatever came of it under the version looked at before.
Inspect(s, w) ==
  LET i == worker[s][w].i
      f == files[s][i]
      put(r) == /\ mem' = [mem EXCEPT ![f] = Entry(worker[s][w].ver, r)] /\ dirty' = TRUE
                /\ Work(s, w, Idle) /\ Report(s, i, r) IN
  /\ worker[s][w].at = "inspect"
  /\ \/ put(Identity(f)) /\ UNCHANGED events
     \/ put(Fault) /\ Event
  /\ UNCHANGED << disk, edits, saved, pc, ctxDone, referenced, files, fed, began,
                  walked >>

\* The queue is closed and every worker has come home; the map of seen files.
Seen(s) == {files[s][i] : i \in {j \in DOMAIN files[s] : out[s][j] # None}}

\* Mutant: an interrupted scan prunes as well.
PruneAlways(s) ==
  /\ pc[s] = "wait" /\ \A w \in Workers(s) : worker[s][w].at \in {"idle", "gone"}
  /\ pc' = [pc EXCEPT ![s] = "save"]
  /\ mem' = [f \in Files |-> IF f \in Seen(s) THEN mem[f] ELSE None]
  /\ dirty' = (dirty \/ mem' # mem)
  /\ UNCHANGED << diskVars, saved, ctxDone, referenced, files, fed, worker, out,
                  told, began, walked >>

\* wg.Wait() over, Prune unless interrupted.
Prune(s) ==
  /\ pc[s] = "wait" /\ \A w \in Workers(s) : worker[s][w].at \in {"idle", "gone"}
  /\ pc' = [pc EXCEPT ![s] = "save"]
  /\ mem' = [f \in Files |-> IF ctxDone[s] \/ f \in Seen(s) THEN mem[f] ELSE None]
  /\ dirty' = (dirty \/ mem' # mem)
  /\ UNCHANGED << diskVars, saved, ctxDone, referenced, files, fed, worker, out,
                  told, began, walked >>

\* A scan's own variables end with it.
Returned(S) ==
  /\ pc' = [s \in Scans |-> IF s \in S THEN "done" ELSE pc[s]]
  /\ ctxDone' = [s \in Scans |-> s \notin S /\ ctxDone[s]]
  /\ referenced' = [s \in Scans |-> IF s \in S THEN {} ELSE referenced[s]]
  /\ files' = [s \in Scans |-> IF s \in S THEN << >> ELSE files[s]]
  /\ fed' = [s \in Scans |-> IF s \in S THEN 0 ELSE fed[s]]
  /\ worker' = [s \in Scans |-> IF s \in S THEN NoWorkers(s) ELSE worker[s]]
  /\ out' = [s \in Scans |-> IF s \in S THEN << >> ELSE out[s]]
  /\ told' = [s \in Scans |-> IF s \in S THEN NotTold ELSE told[s]]
  /\ began' = [s \in Scans |-> IF s \in S THEN NoDisk ELSE began[s]]
  /\ walked' = [s \in Scans |-> IF s \in S THEN NoWalk ELSE walked[s]]

\* collect cannot read the directory itself (os.Stat): an error, and nothing pruned.
RootGone(s) ==
  /\ pc[s] = "collect" /\ Event /\ Returned({s})
  /\ UNCHANGED << disk, edits, cache >>

\* Save: a temporary file renamed over the old one, or an error that is logged.
Save(s) ==
  /\ pc[s] = "save" /\ Returned({s})
  /\ \/ saved' = (IF dirty THEN mem ELSE saved) /\ dirty' = FALSE /\ UNCHANGED events
     \/ dirty /\ Event /\ UNCHANGED << saved, dirty >>
  /\ UNCHANGED << disk, edits, mem >>

-----------------------------------------------------------------------------
(* Around the scans.                                                       *)

Cancel(s) ==
  /\ pc[s] \in {"collect", "feed", "wait"} /\ ~ctxDone[s]
  /\ Event /\ ctxDone' = [ctxDone EXCEPT ![s] = TRUE]
  /\ UNCHANGED << disk, edits, cache, pc, referenced, files, fed, worker, out, told, began,
                  walked >>

\* The program is killed, and the cache opened anew (OpenCache).
Restart ==
  /\ mem' = saved /\ dirty' = FALSE
  /\ Event /\ Returned({s \in Scans : pc[s] # "idle"})
  /\ UNCHANGED << disk, edits, saved >>

\* `ps2hdd source clear`, a run of its own.
Clear ==
  /\ \A s \in Scans : pc[s] \in {"idle", "done"}
  /\ mem' = NoEntries /\ saved' = NoEntries /\ dirty' = FALSE
  /\ Event /\ UNCHANGED << disk, edits, scanVars >>

\* A file appears, is replaced or goes away.  No version comes back.
Edit(f) ==
  /\ Event /\ edits' = edits + 1
  /\ \E v \in {0, edits + 2} : v # disk[f] /\ disk' = [disk EXCEPT ![f] = v]
  /\ UNCHANGED << cache, scanVars >>

Worker(s, w) == \/ GoHome(s, w) \/ LookMissing(s, w) \/ LookCached(s, w) \/ LookFresh(s, w)
                \/ Inspect(s, w)

Scan(s) == \/ Collect(s) \/ RootGone(s) \/ FeedEnds(s) \/ Prune(s) \/ Save(s)
           \/ \E w \in Workers(s) : Hand(s, w) \/ Worker(s, w)

Next == \/ \E s \in Scans : Begin(s) \/ Scan(s) \/ Cancel(s)
        \/ \E f \in Files : Edit(f)
        \/ Restart \/ Clear

Spec == Init /\ [][Next]_vars

\* The goroutines of a scan that was started are scheduled, readings end.
FairSpec == Spec /\ \A s \in Scans : WF_vars(Scan(s))

Versions == 1..(edits + 1)
Results  == Failures \cup (Versions \X Versions)
Entries  == [ver : Versions, res : Results]

CTypeOK ==
  /\ disk \in [Files -> {0} \cup Versions] /\ edits \in Nat /\ events \in Nat
  /\ mem \in [Files -> Entries \cup {None}] /\ saved \in [Files -> Entries \cup {None}]
  /\ dirty \in BOOLEAN
  /\ pc \in [Scans -> {"idle", "collect", "feed", "wait", "save", "done"}]
  /\ ctxDone \in [Scans -> BOOLEAN]
  /\ referenced \in [Scans -> SUBSET Files]
  /\ \A s \in Scans :
       /\ files[s] \in Seq(Files) /\ IsInjective(files[s])
       /\ fed[s] \in 0..Len(files[s])
       /\ out[s] \in [DOMAIN files[s] -> Results \cup {None}] \/ pc[s] = "collect"
       /\ \A w \in Workers(s) :
            worker[s][w].at \in {"idle", "gone"} \/ worker[s][w].i \in 1..fed[s]

-----------------------------------------------------------------------------
(* Properties.                                                             *)

\* What an entry says of the file it is fresh for.
Honest(f, e) ==
  e # None /\ e.ver = disk[f] =>
    \/ e.res = Fault
    \/ e.res = NoGame /\ (<< f, e.ver >> \in Junk \/ Image[f] # f)
    \/ IsGame(e.res) /\ e.res[1] = e.ver

(* "Path, size and modification time together are enough" (Entry.fresh): an     *)
(* entry that will be served, of this process or of the next, holds what its   *)
(* own file holds, however the file changed while it was read.  Excepted: what *)
(* comes from the image beside a sheet, and readings that failed, which are    *)
(* stored like the others.                                                     *)
CacheTruth == \A f \in Files : Honest(f, mem[f]) /\ Honest(f, saved[f])

(* A scan never lists a game the file no longer held when the scan began.      *)
ListedIsRecent ==
  \A s \in Scans : \A i \in DOMAIN out[s] :
    IsGame(out[s][i]) => out[s][i][1] >= began[s][files[s][i]]

Answered(s) == {i \in DOMAIN out[s] : out[s][i] # None}

(* "A prefix of it", as inspectAll promises of a cancelled scan: below the     *)
(* furthest file reported at most one per other worker is without an answer,   *)
(* and a scan that was let run has answered and reported every file once.      *)
AnsweredIsPrefix ==
  \A s \in Scans :
    LET holes == {i \in 1..told[s].path : i \notin Answered(s)} IN
    /\ Cardinality(holes) < Concurrency[s]
    /\ told[s].done = Cardinality(Answered(s))
    /\ pc[s] = "save" /\ ~ctxDone[s] => told[s].done = Len(files[s])

\* What a scan has to answer for: what its walk had in sight, unspoken for.
Walked(s) == {f \in walked[s].there : Folder[f] \notin walked[s].hidden} \ referenced[s]

(* "A cancelled scan has visited only a prefix of the library, so pruning      *)
(* against that set deletes every entry beyond": while the program runs, what  *)
(* was learned of a file is dropped only by a scan that was let run and has an *)
(* answer for all its own walk had in sight, the file not among it: it was not *)
(* there then, a sheet spoke for it, or it was there in a directory the walk   *)
(* could not read.  The last is a loss, and so is what another scan put of a   *)
(* file that appeared after the walk: the walk is all Prune knows of the disk. *)
PrunedWasGone ==
  [][\A f \in Files : mem[f] # None /\ mem'[f] = None =>
       \/ \A s \in Scans : pc'[s] \in {"idle", "done"}
       \/ \E s \in Scans : /\ pc[s] = "wait" /\ pc'[s] = "save" /\ ~ctxDone[s]
                           /\ f \notin Walked(s)
                           /\ \A g \in Walked(s) : \E i \in Answered(s) : files[s][i] = g]_vars

(* "The select is what keeps this from blocking forever once the workers have  *)
(* gone home": a scan that was started ends, cancelled or not.                 *)
ScanEnds == \A s \in Scans : pc[s] # "idle" ~> pc[s] = "done"
=============================================================================
