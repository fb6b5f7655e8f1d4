----------------------------- MODULE AssetSync -----------------------------
(* Artwork synchronisation: what is on the mounted +OPL partition is read, a  *)
(* plan made of what is missing, the files fetched through a cache and then   *)
(* written, and each PS1 image copied to the name its launcher goes by.  The  *)
(* lock that serialises the writes is local to one sync: the interface starts *)
(* as many as it is asked for, and every install of the queue makes its own.  *)
EXTENDS Naturals, FiniteSets

CONSTANTS
  Syncs,     \* runs of SyncAssets and of syncAssetsFor
  Slots,     \* files in question, a game and an asset type each, in plan order
  Apps,      \* images of installed PS1 titles, wanted under the boot name too
  Supplied,  \* what a provider's Lookup offers, whether it has it or not
  Options,   \* of each sync, how it may be called, and for which slots
  Conc,      \* Manager.Concurrency: downloads at once
  MaxFaults  \* bound on kills, refused writes, and files put or cleaned from outside

Calls == [full : BOOLEAN,       \* SyncAssets, and not syncAssetsFor
          overwrite : BOOLEAN, dry : BOOLEAN,
          of : SUBSET Slots]    \* the slots of the games it is given
NoCall == [full |-> FALSE, overwrite |-> FALSE, dry |-> FALSE, of |-> {}]
User == "user"
Writers == Syncs \cup {User}

ASSUME AssetSyncAssumption ==
  /\ Slots \subseteq Nat /\ IsFiniteSet(Slots)
  /\ Apps \subseteq Slots /\ Supplied \subseteq Slots
  /\ Options \in [Syncs -> SUBSET Calls]
  /\ Conc \in Nat \ {0} /\ MaxFaults \in Nat
  /\ User \notin Syncs /\ "none" \notin Syncs

\* A file is known by who wrote it, as no sync writes one twice.
NoFile == [by |-> "none", whole |-> FALSE]
Files == {NoFile} \cup [by : Writers, whole : BOOLEAN]

\* An item of a plan: waiting for the semaphore, being fetched, fetched or
\* failed; then whether the report lists it as installed.  One that the source
\* does not have is listed as skipped and not as failed, which is wording here.
Fetched == {"got", "failed"}
Reported == {"installed", "lost"}
Items == {"none", "queued", "fetching"} \cup Fetched \cup Reported

VARIABLES
  art,       \* slot -> the file in ART or CFG
  app,       \* slot -> the copy under the boot name
  probe,     \* the probe of CheckWritable exists
  cache,     \* slot -> "none", "part" or "whole": the download cache
  temps,     \* <<sync, slot>>: temporary files beside it
  pc,        \* sync -> where it is
  call,      \* sync -> how it was called
  inv,       \* sync -> those Scan found
  exists,    \* sync -> items that existed when the plan was made
  item,      \* sync -> slot -> the item
  at,        \* sync -> the slot it writes, or copies
  src,       \* sync -> what it is copying from is whole
  swept,     \* sync -> slots EnsureAppArtwork is done with
  cancelled, \* syncs whose context is cancelled
  faults

part == <<art, app, probe>>
plan == <<call, inv, exists>>
vars == <<part, cache, temps, pc, plan, item, at, src, swept, cancelled, faults>>

-----------------------------------------------------------------------------
There(d) == art[d] # NoFile
Planned(s) == {d \in Slots : item[s][d] # "none"}
First(d, S) == d \in S /\ \A e \in S : d <= e
Goto(s, l) == pc' = [pc EXCEPT ![s] = l]
SetItem(s, d, x) == item' = [item EXCEPT ![s][d] = x]
Put(files, d, f) == [files EXCEPT ![d] = f]
Handles(s, d, w) == at' = [at EXCEPT ![s] = d] /\ src' = [src EXCEPT ![s] = w]
Closed(s) == Handles(s, 0, FALSE)
Fault == faults < MaxFaults /\ faults' = faults + 1

Init ==
  /\ art \in [Slots -> {NoFile, [by |-> User, whole |-> TRUE]}]
  /\ app = [d \in Slots |-> NoFile]
  /\ probe = FALSE
  /\ cache = [d \in Slots |-> "none"] /\ temps = {}
  /\ pc = [s \in Syncs |-> "idle"]
  /\ call = [s \in Syncs |-> NoCall]
  /\ inv = [s \in Syncs |-> {}] /\ exists = [s \in Syncs |-> {}]
  /\ item = [s \in Syncs |-> [d \in Slots |-> "none"]]
  /\ at \in [Syncs -> {0}] /\ src = [s \in Syncs |-> FALSE]
  /\ swept = [s \in Syncs |-> {}]
  /\ cancelled = {} /\ faults = 0

-----------------------------------------------------------------------------
(* Scan, PlanSync, CheckWritable *)

Begin(s) ==
  /\ pc[s] = "idle" /\ Goto(s, "scan")
  /\ \E o \in Options[s] : call' = [call EXCEPT ![s] = o]
  /\ UNCHANGED <<part, cache, temps, inv, exists, item, at, src, swept, cancelled, faults>>

Scan(s) ==
  /\ pc[s] = "scan" /\ Goto(s, "plan")
  /\ inv' = [inv EXCEPT ![s] = {d \in call[s].of : There(d)}]
  /\ UNCHANGED <<part, cache, temps, call, exists, item, at, src, swept, cancelled, faults>>

wantFor(s) == IF call[s].overwrite THEN call[s].of ELSE call[s].of \ inv[s]

\* The partition is looked at once more for what is planned.
PlanSync(s) ==
  /\ pc[s] = "plan"
  /\ LET new == wantFor(s) \cap Supplied
     IN /\ item' = [item EXCEPT ![s] = [d \in Slots |-> IF d \in new THEN "queued" ELSE "none"]]
        /\ exists' = [exists EXCEPT ![s] = {d \in new : There(d)}]
  /\ Goto(s, IF call[s].full /\ call[s].dry THEN "ended"
             ELSE IF call[s].full THEN "probe" ELSE "fetch")
  /\ UNCHANGED <<part, cache, temps, call, inv, at, src, swept, cancelled, faults>>

\* CheckWritable calls pfs.Create, which removes the file and makes it anew.
ProbeRemove(s) ==
  /\ pc[s] = "probe" /\ Goto(s, "probing")
  /\ probe' = FALSE
  /\ UNCHANGED <<art, app, cache, temps, plan, item, at, src, swept, cancelled, faults>>

ProbeCreate(s) ==
  /\ pc[s] = "probing" /\ ~probe /\ Goto(s, "probed")
  /\ probe' = TRUE
  /\ UNCHANGED <<art, app, cache, temps, plan, item, at, src, swept, cancelled, faults>>

\* Another sync has made it in between, or the mount cannot be written to.
ProbeRefused(s) ==
  /\ pc[s] = "probing" /\ Goto(s, "refused")
  /\ \/ probe /\ UNCHANGED faults
     \/ ~probe /\ Fault
  /\ UNCHANGED <<part, cache, temps, plan, item, at, src, swept, cancelled>>

ProbeDone(s) ==
  /\ pc[s] = "probed" /\ Goto(s, "fetch")
  /\ probe' = FALSE
  /\ UNCHANGED <<art, app, cache, temps, plan, item, at, src, swept, cancelled, faults>>

-----------------------------------------------------------------------------
(* Apply: a goroutine for each item fetches it, Conc of them at once. *)

InFlight(s) == {d \in Slots : item[s][d] = "fetching"}

Acquire(s, d) ==
  pc[s] = "fetch" /\ item[s][d] = "queued" /\ Cardinality(InFlight(s)) < Conc

\* fetch: from the cache, without a download.
FetchCached(s, d) ==
  /\ Acquire(s, d) /\ s \notin cancelled
  /\ cache[d] # "none"
  /\ SetItem(s, d, "got")
  /\ UNCHANGED <<part, cache, temps, pc, plan, at, src, swept, cancelled, faults>>

FetchStart(s, d) ==
  /\ Acquire(s, d) /\ s \notin cancelled
  /\ cache[d] = "none"
  /\ SetItem(s, d, "fetching")
  /\ temps' = temps \cup {<<s, d>>}
  /\ UNCHANGED <<part, cache, pc, plan, at, src, swept, cancelled, faults>>

FetchCancelled(s, d) ==
  /\ Acquire(s, d) /\ s \in cancelled
  /\ SetItem(s, d, "failed")
  /\ UNCHANGED <<part, cache, temps, pc, plan, at, src, swept, cancelled, faults>>

\* Mutant: the download is written under its own name.
CachedDirectly(s, d) ==
  /\ <<s, d>> \in temps
  /\ cache' = [cache EXCEPT ![d] = "part"]

\* DownloadCache.Put: the temporary file is renamed once it is whole.
Cached(s, d) ==
  /\ <<s, d>> \in temps
  /\ cache' = [cache EXCEPT ![d] = "whole"]

FetchPut(s, d) ==
  /\ pc[s] = "fetch" /\ item[s][d] = "fetching"
  /\ Cached(s, d)
  /\ temps' = temps \ {<<s, d>>}
  /\ SetItem(s, d, "got")
  /\ UNCHANGED <<part, pc, plan, at, src, swept, cancelled, faults>>

\* Mutant: a rename that fails is tried again.
FetchFailsRetried(s, d) ==
  /\ pc[s] = "fetch" /\ item[s][d] = "fetching" /\ <<s, d>> \in temps
  /\ SetItem(s, d, "failed")
  /\ temps' = temps \ {<<s, d>>}
  /\ UNCHANGED <<part, cache, pc, plan, at, src, swept, cancelled, faults>>

\* The provider has none, or the transport, the context or the cache fails.
FetchFails(s, d) ==
  /\ pc[s] = "fetch" /\ item[s][d] = "fetching"
  /\ SetItem(s, d, "failed")
  /\ temps' = temps \ {<<s, d>>}
  /\ UNCHANGED <<part, cache, pc, plan, at, src, swept, cancelled, faults>>

FetchedAll(s) ==
  /\ pc[s] = "fetch" /\ Goto(s, "write")
  /\ \A d \in Planned(s) : item[s][d] \in Fetched
  /\ cancelled' = cancelled \ {s}   \* asked by nothing after this
  /\ UNCHANGED <<part, cache, temps, plan, item, at, src, swept, faults>>

-----------------------------------------------------------------------------
(* Apply: install, one item after the other, whatever the context says. *)

ToWrite(s) == {d \in Slots : item[s][d] \in Fetched}

\* The answer is the plan's: the file is not looked for again.
Keeps(s, d) == d \in exists[s] /\ ~call[s].overwrite

\* Reported without a write: not fetched, or kept, which counts as installed.
WriteNothing(s, d) ==
  /\ pc[s] = "write" /\ First(d, ToWrite(s))
  /\ \/ item[s][d] = "failed" /\ SetItem(s, d, "lost")
     \/ item[s][d] = "got" /\ Keeps(s, d) /\ SetItem(s, d, "installed")
     \/ \* os.Open: the cache was emptied since
        item[s][d] = "got" /\ ~Keeps(s, d) /\ cache[d] = "none" /\ SetItem(s, d, "lost")
  /\ UNCHANGED <<part, cache, temps, pc, plan, at, src, swept, cancelled, faults>>

\* pfs.Create removes what is there ...
WriteRemove(s, d) ==
  /\ pc[s] = "write" /\ First(d, ToWrite(s))
  /\ item[s][d] = "got" /\ ~Keeps(s, d) /\ cache[d] # "none"
  /\ art' = Put(art, d, NoFile)
  /\ Handles(s, d, cache[d] = "whole")
  /\ Goto(s, "create")
  /\ UNCHANGED <<app, probe, cache, temps, plan, item, swept, cancelled, faults>>

\* ... and makes it, which fails when another sync has made it in between.
WriteCreate(s) ==
  /\ pc[s] = "create" /\ ~There(at[s]) /\ Goto(s, "writing")
  /\ art' = Put(art, at[s], [by |-> s, whole |-> FALSE])
  /\ UNCHANGED <<app, probe, cache, temps, plan, item, at, src, swept, cancelled, faults>>

WriteRefused(s) ==
  /\ pc[s] = "create" /\ Goto(s, "write")
  /\ \/ There(at[s]) /\ UNCHANGED faults
     \/ ~There(at[s]) /\ Fault
  /\ SetItem(s, at[s], "lost") /\ Closed(s)
  /\ UNCHANGED <<part, cache, temps, plan, swept, cancelled>>

\* What is written is the file that was opened, removed since or not.
WriteEnd(s) ==
  /\ pc[s] = "writing" /\ Goto(s, "write")
  /\ art' = IF art[at[s]].by = s THEN Put(art, at[s], [by |-> s, whole |-> src[s]]) ELSE art
  /\ SetItem(s, at[s], "installed")
  /\ Closed(s)
  /\ UNCHANGED <<app, probe, cache, temps, plan, swept, cancelled, faults>>

\* Mutant: the file that could not be written stays.
WriteFailsLeaves(s) ==
  /\ pc[s] = "writing" /\ Goto(s, "write") /\ Fault
  /\ SetItem(s, at[s], "lost")
  /\ Closed(s)
  /\ UNCHANGED <<part, cache, temps, plan, swept, cancelled>>

\* Mutant: its error is not looked at.
WriteFailsUnseen(s) ==
  /\ pc[s] = "writing" /\ Goto(s, "write") /\ Fault
  /\ art' = Put(art, at[s], NoFile)
  /\ SetItem(s, at[s], "installed")
  /\ Closed(s)
  /\ UNCHANGED <<app, probe, cache, temps, plan, swept, cancelled>>

\* writeForOPL fails: not an image, or no room.  What has the name is removed.
WriteFails(s) ==
  /\ pc[s] = "writing" /\ Goto(s, "write") /\ Fault
  /\ art' = Put(art, at[s], NoFile)
  /\ SetItem(s, at[s], "lost")
  /\ Closed(s)
  /\ UNCHANGED <<app, probe, cache, temps, plan, swept, cancelled>>

WroteAll(s) ==
  /\ pc[s] = "write" /\ ToWrite(s) = {} /\ Goto(s, "sweep")
  /\ UNCHANGED <<part, cache, temps, plan, item, at, src, swept, cancelled, faults>>

-----------------------------------------------------------------------------
(* EnsureAppArtwork *)

\* The images of the titles it was given, new or not.
ToSweep(s) == (call[s].of \cap Apps) \ swept[s]

NeedsCopy(s, d) == There(d) /\ (app[d] = NoFile \/ call[s].overwrite)

SweepPast(s, d) ==
  /\ pc[s] = "sweep" /\ First(d, ToSweep(s)) /\ ~NeedsCopy(s, d)
  /\ swept' = [swept EXCEPT ![s] = @ \cup {d}]
  /\ UNCHANGED <<part, cache, temps, pc, plan, item, at, src, cancelled, faults>>

SweepFinds(s, d) ==
  /\ pc[s] = "sweep" /\ First(d, ToSweep(s)) /\ NeedsCopy(s, d)
  /\ Handles(s, d, FALSE) /\ Goto(s, "open")
  /\ UNCHANGED <<part, cache, temps, plan, item, swept, cancelled, faults>>

\* copyOPLFile: the image is opened as it is, and the copy removed.
CopyOpen(s) ==
  /\ pc[s] = "open" /\ There(at[s]) /\ Goto(s, "copy")
  /\ src' = [src EXCEPT ![s] = art[at[s]].whole]
  /\ app' = Put(app, at[s], NoFile)
  /\ UNCHANGED <<art, probe, cache, temps, plan, item, at, swept, cancelled, faults>>

CopyCreate(s) ==
  /\ pc[s] = "copy" /\ app[at[s]] = NoFile /\ Goto(s, "copying")
  /\ app' = Put(app, at[s], [by |-> s, whole |-> FALSE])
  /\ UNCHANGED <<art, probe, cache, temps, plan, item, at, src, swept, cancelled, faults>>

CopyEnd(s) ==
  /\ pc[s] = "copying" /\ Goto(s, "sweep")
  /\ app' = IF app[at[s]].by = s THEN Put(app, at[s], [by |-> s, whole |-> src[s]]) ELSE app
  /\ swept' = [swept EXCEPT ![s] = @ \cup {at[s]}]
  /\ Closed(s)
  /\ UNCHANGED <<art, probe, cache, temps, plan, item, cancelled, faults>>

\* The image is gone, another sync made the copy, or a write fails: what has
\* the copy's name is removed, and the sweep and the sync end with the error.
CopyFails(s) ==
  /\ \/ pc[s] = "open" /\ ~There(at[s]) /\ UNCHANGED faults
     \/ pc[s] = "copy" /\ app[at[s]] # NoFile /\ UNCHANGED faults
     \/ pc[s] = "copying" /\ Fault
  /\ Goto(s, "refused")
  /\ app' = Put(app, at[s], NoFile)
  /\ Closed(s)
  /\ UNCHANGED <<art, probe, cache, temps, plan, item, swept, cancelled>>

SweptAll(s) ==
  /\ pc[s] = "sweep" /\ ToSweep(s) = {} /\ Goto(s, "ended")
  /\ UNCHANGED <<part, cache, temps, plan, item, at, src, swept, cancelled, faults>>

-----------------------------------------------------------------------------
(* Around it: other processes, the user, the context *)

Over == {"ended", "refused", "killed"}

\* Nothing but the goroutines of Apply asks: one earlier is one at their start.
Cancel(s) ==
  /\ pc[s] = "fetch" /\ s \notin cancelled
  /\ cancelled' = cancelled \cup {s}
  /\ UNCHANGED <<part, cache, temps, pc, plan, item, at, src, swept, faults>>

Kill(s) ==
  /\ pc[s] \notin Over \cup {"idle"} /\ Goto(s, "killed") /\ Fault
  /\ UNCHANGED <<part, cache, temps, plan, item, at, src, swept, cancelled>>

\* `ps2hdd assets clean` takes every file there, temporary ones too, one by one.
CleanFile(d) ==
  /\ \/ /\ cache[d] # "none" /\ cache' = [cache EXCEPT ![d] = "none"] /\ UNCHANGED temps
     \/ /\ \E s \in Syncs : <<s, d>> \in temps /\ temps' = temps \ {<<s, d>>}
        /\ UNCHANGED cache
  /\ Fault
  /\ UNCHANGED <<part, pc, plan, item, at, src, swept, cancelled>>

\* A file put there by hand, in a partition mounted with `ps2hdd mount`.
UserPuts(d) ==
  /\ ~There(d) /\ Fault
  /\ art' = Put(art, d, [by |-> User, whole |-> TRUE])
  /\ UNCHANGED <<app, probe, cache, temps, pc, plan, item, at, src, swept, cancelled>>

SyncStep(s) ==
  \/ Scan(s) \/ PlanSync(s)
  \/ ProbeRemove(s) \/ ProbeCreate(s) \/ ProbeRefused(s) \/ ProbeDone(s)
  \/ \E d \in Slots :
       \/ FetchCached(s, d) \/ FetchStart(s, d) \/ FetchCancelled(s, d)
       \/ FetchPut(s, d) \/ FetchFails(s, d)
       \/ WriteNothing(s, d) \/ WriteRemove(s, d)
       \/ SweepPast(s, d) \/ SweepFinds(s, d)
  \/ FetchedAll(s) \/ WriteCreate(s) \/ WriteRefused(s) \/ WriteEnd(s) \/ WriteFails(s) \/ WroteAll(s)
  \/ CopyOpen(s) \/ CopyCreate(s) \/ CopyEnd(s) \/ CopyFails(s) \/ SweptAll(s)

Next ==
  \/ \E s \in Syncs : Begin(s) \/ SyncStep(s) \/ Cancel(s) \/ Kill(s)
  \/ \E d \in Slots : CleanFile(d) \/ UserPuts(d)

\* A download ends by its client's timeout, and a goroutine is scheduled.
Spec == Init /\ [][Next]_vars /\ \A s \in Syncs : WF_vars(SyncStep(s))

-----------------------------------------------------------------------------
(* The types of the variables. *)
Shape ==
  /\ art \in [Slots -> Files] /\ app \in [Slots -> Files]
  /\ probe \in BOOLEAN
  /\ cache \in [Slots -> {"none", "part", "whole"}]
  /\ temps \subseteq Syncs \X Slots
  /\ pc \in [Syncs -> {"idle", "scan", "plan", "probe", "probing", "probed", "fetch",
                       "write", "create", "writing", "sweep", "open", "copy", "copying"}
                      \cup Over]
  /\ call \in [Syncs -> Calls]
  /\ inv \in [Syncs -> SUBSET Slots] /\ exists \in [Syncs -> SUBSET Slots]
  /\ item \in [Syncs -> [Slots -> Items]]
  /\ at \in [Syncs -> Slots \cup {0}] /\ src \in [Syncs -> BOOLEAN]
  /\ swept \in [Syncs -> SUBSET Slots]
  /\ cancelled \subseteq Syncs
  /\ faults \in 0 .. MaxFaults

(* Types, with the semaphore's bound: no more downloads at once than asked. *)
STypeOK == Shape /\ \A s \in Syncs : Cardinality(InFlight(s)) <= Conc

(* A file in ART or CFG that is not whole is being written by the sync that   *)
(* made it, or that sync was killed at it: no failed write, no interrupted    *)
(* download and no second sync at the same slot leaves a part of an image     *)
(* that the console would try to draw.                                        *)
NoPartialArt ==
  \A d \in Slots :
    There(d) /\ ~art[d].whole => /\ art[d].by \in Syncs
                                 /\ pc[art[d].by] \in {"writing", "killed"}
                                 /\ at[art[d].by] = d

(* Art a user put there is replaced or removed only by a sync that was told   *)
(* to overwrite, or whose plan is older than the file.                        *)
CuratedKept ==
  [][\A d \in Slots :
       (art[d].by = User /\ art'[d] # art[d]) =>
         \E s \in Syncs : /\ pc[s] \in {"write", "writing"}
                          /\ (call[s].overwrite \/ d \notin inv[s] \cup exists[s])]_vars

(* What a sync that ended reported as installed is there and whole, unless    *)
(* another sync had the same slot in its plan.                                *)
ReportedIsThere ==
  \A s \in Syncs, d \in Slots :
    (/\ item[s][d] = "installed"
     /\ \A t \in Syncs \ {s} : item[t][d] = "none")
      => There(d) /\ art[d].whole

(* Once the syncs have ended well, every PS1 image that one of them wrote, or *)
(* left as it found it for a title it was given, is there under its           *)
(* launcher's name too, so the Apps page shows it: the sweep looks at what is *)
(* on the partition and not at what was fetched.                              *)
AppsServed ==
  (\A s \in Syncs : pc[s] \in {"idle", "ended"}) =>
    \A s \in Syncs : pc[s] = "ended" /\ ~call[s].dry =>
      \A d \in call[s].of \cap Apps :
        (/\ There(d) /\ (art[d].by = s \/ d \in inv[s])
         /\ \A t \in Syncs : item[t][d] # "lost") => app[d] # NoFile

(* What a sync is for, on the partition once it has ended.                    *)
SyncDelivers == ReportedIsThere /\ AppsServed

(* A sync that was started ends: a goroutine that fails gives its turn to the *)
(* next, and whatever was removed meanwhile ends a step and not the others.   *)
SyncEnds == \A s \in Syncs : pc[s] = "scan" ~> pc[s] \in Over

=============================================================================
