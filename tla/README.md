# A formal model of ps2hdd

ps2hdd is a Go program that looks after a PlayStation 2 hard disk from a PC: it
lists what is installed, installs and removes PS2 and PS1 titles, fetches
artwork and mounts the drive's PFS partitions, from a command line and from a
terminal interface. This directory holds TLA+ modules translated from its
source, configurations that model-check them with TLC, and theorems about them
proved with TLAPS.

Source paths below are relative to `src/internal/`. `PROJECT.json` maps every
definition to the lines it stands for.

## 1. Inventory

### Parts, state and operations

| Part | State | Operations | Talks to |
|---|---|---|---|
| Prefetcher (`app/prefetch.go`) | promised, pending and ready titles, waiters, a wake channel of one, a slot channel of `install.prefetch` | `Add`, `Take`, `Release`, `Stop`, the `run` goroutine | scratch directory; fed by batch and queue, used by `Install` |
| Bulk install (`cli/batch.go`) | the report of the run | `runBatch` | `Services.Install`, a prefetcher of its own |
| Install queue (`app/queue.go`) | items, their states, `running`, `cancel`, `prefetch` | `Add`, `Start`, `Cancel`, `Retry`, `Clear`, `Snapshot`; a goroutine per pass | `Services.Install`, a prefetcher per pass, the interface (`Updates`) |
| Services (`app/services.go`) | cached target, mount manager, source caches, `hddLock` | `Target`, `Mounts`, `Close`, `Installed`, `Status`, `LockHDD` | everything below |
| Installing (`app/install.go`) | none of its own; the drive | `installPS1`, `installPS2`, support files, launchers, artwork afterwards | hdl_dump, mounts, prefetcher |
| Removing (`app/remove.go`) | the drive | `removePS1`, `removePS2`, `purgeAssets` | pfsshell, mounts |
| Mount manager (`drive/mounts.go`) | `owned` map with counts, mount root | `Mount`, `Unmount`, `With`, `Close`, persistent mounts | pfsfuse, fusermount |
| Drive safety (`drive/safety.go`, `identify.go`) | none; `Services` caches what it returns | `Validate`: block device, by-id path, not the system disk, identity, APA | lsblk, mountinfo |
| APA (`apa/`) | none | `ReadTOC`, `AllocationFor`, `Place`, `ReadGames` | the device |
| Plan and audit (`app/plan.go`, `allocaudit.go`) | none | what fits, what a bulk install would do | APA, catalog |
| Source catalog (`catalog/source.go`, `cache.go`, `archive.go`) | the scan cache, in memory and on disk | `ScanPS1`, `ScanPS2` with a pool of workers; `Get`, `Put`, `Prune`, `Save`, `Clear` | source directories, archives |
| Reconciliation (`catalog/reconcile.go`, `installed.go`) | none | `Reconcile`, `Find`, `FindSourceFile`, `All` | catalog, APA, mounts |
| Artwork (`asset/`, `app/assets.go`) | download cache, files on +OPL | inventory, plan, fetch, install, sync | providers (HTTP, local) |
| Interface (`tui/`) | the model, three event channels of 64 | keys, messages, loads | services, queue |
| Command line (`cli/`) | flags | one command per file | services |
| External commands (`external/`) | none | `Run`, `Stream`, under a context | sudo, hdl_dump, pfsfuse, pfsshell |
| Platforms (`platform/`, `iso9660/`) | none | reading sheets and images, VCD conversion, POPStarter files | files |
| Configuration, titles, logging, demo | files | load, save, look up | |

### How they interact

The command line and the interface call the services. An install takes its
source from a prefetcher when there is one, takes `hddLock`, writes through
hdl_dump or through a PFS mount from the mount manager, and then syncs artwork.
The queue runs installs on a goroutine of its own and reports them through a
callback to a channel the interface reads; artwork syncs and catalog loads are
further goroutines of the interface. All of them share one `Services` value.

### What is hard

* The prefetcher: four kinds of goroutine, a budget of tens of gigabytes kept by
  tokens, waiters, a wake-up channel of one, and a `Stop` that may come at any
  moment.
* The queue: its fields change hands between a pass that ends and the next one,
  the interface acts on them in between, and items are used after the lock that
  found them was released.
* Mounts: counted, shared by goroutines, closed under them when the program
  quits, refused by the kernel when in use, left behind by crashes.
* A PS1 title lives in three partitions with no transaction between them.
* Interrupts arrive anywhere; a killed command reports an error that does not
  say it was cancelled.
* A drive is configured by a stable name, validated, and then worked on by a kernel
  name that another disk may take at any moment; the target is cached, the mount
  manager is made once, and a write is validated before it waits for the lock.
* Files change, appear and go away while a scan reads them; the scan can be
  cancelled at any file, and two scans share one cache.
* A VCD's header says where the tracks are before a byte of it is copied; sheets
  come in four shapes, split or not, with gaps that are there or only declared.
* A bulk run goes on after failures; nothing may be lost, done twice or wait
  for ever because of one title.

### What makes each part correct

* Prefetcher: never more copies than slots; every copy has one owner; `Take`
  never waits for what is not coming; `Stop` ends the loop and leaves as little
  as it can. Its comment says it removes anything unpacked but never taken, but
  `publish` does not look at `stopped`, so the title being unpacked meanwhile is
  published after Stop has collected the others: what holds is
  `StopLeavesAtMostOne`.
* Bulk install: every title answered once, in turn; the run ends.
* Queue: one install at a time; `Cancel` reaches the pass under way; what shows
  as active is worked on; nothing added is forgotten; finished is finished.
* Mount manager: counts equal holders; holders keep their partition; no mount
  is lost sight of; nobody else's mount is touched. A mount still in use when
  the program quits is refused by the kernel and stays (`refused`), which is
  what `NoneLost` excepts.
* Installing and removing: a title that looks installed is complete, a retry
  completes it, removal removes all that install wrote.
* APA: the replayed allocation is within its own bounds on any drive, what the
  plan promises the run does.
* Artwork: a file on the partition is whole or being written, by whichever of
  several syncs; art the user put there is kept; the report is true.
* Interface: the updates of the queue keep coming; a library that is out of date
  when nothing is under way is so for a reason that can be named; what a question
  named is what its answer acts on; nothing but a key moves the cursor off a title.
* Drive safety: a write reaches the disk that was configured, or a disk moved under
  it; never a disk of this machine; the lock comes back on every way out.
* Source catalog: what the cache serves is what the file holds; a cancelled scan is a
  prefix and forgets nothing; every scan ends.
* Reconciliation: every disc in one title, every title in one row, "not installed"
  only of what was looked at, and a list plans what it names, once.
* Platforms: a header that tells the truth about the stream behind it, a space check
  that never understates, an archive that is what its files are.

## 2. Plan

Modules, most important first; the ones with a check mark exist.

1. [x] `Prefetcher`, with `ScratchCopies`, the abstract life of one copy, which it
   implements. Proofs: `PrefetcherProofs`.
2. [x] `BatchInstall`, which composes `runBatch` and `Install` with `Prefetcher`. Its
   proofs are in `PrefetcherProofs` too, as a batch is a use of the prefetcher.
3. [x] `InstallQueue`, with a small picture of a prefetcher (the order it was fed
   in). Proofs: `QueueProofs`.
4. [x] `MountManager`: services, manager, kernel, goroutines. Proofs: `SessionProofs`.
5. [x] `TitleFiles`: what an install, a removal and `setup ps1 --launchers` write
   for PS1 titles over three partitions, each write failing or interrupted.
   Proofs: `TitleProofs`. Its abstract specification (a title is absent, partial or
   playable) and the artwork are left open.
6. [x] `ApaAlloc`: `AllocationFor` and `Place` as functions, the merge against a
   reference definition, and the bulk plan against the run that follows it. Proofs:
   `DriveProofs`.
7. [x] `AssetSync`: plan, fetch and install with the download cache, a failing
   provider and a second sync. Proofs: `AssetProofs`.
8. [x] `Interface`: loads that answer out of order, removals, syncs and the updates
   of the queue as messages, the tables and the questions. Proofs:
   `SessionProofs`, with those of `MountManager`.
9. [x] `DeviceGate`: `Validate`, the cached target, `hddLock` and the time between
   check and write. Proofs: `DriveProofs`, with those of `ApaAlloc`.
10. [x] `SourceScan`; `Reconcile`; `VcdConvert`, which `DiscImage` extends. `MCCatalog`
   checks the four in one run. Proofs: `CatalogProofs` (`SourceScan`, `VcdConvert`,
   `DiscImage`) and `QueueProofs` (`Reconcile`).

`FoldLemmas` holds what `DriveProofs`, `CatalogProofs` and `QueueProofs` need of folds
and sequences.

Theorems still wanted: `MergeIsBuddy` of `ApaAlloc`, and the refinement of an abstract
title by `TitleFiles`.

Every module declares its parameters as CONSTANTS with named assumptions, has
one action per operation or critical section and no RECURSIVE operator.

## 3. The modules

Conventions: a critical section of the code is one step, and what happens
between two of them is a step of its own wherever another goroutine can tell.
Time, progress reports, logging and wording are left out. A command or an
extraction ends in success or failure; which one is a nondeterministic choice.
An operator named after another with a suffix, introduced by "Mutant:", is a
deliberately wrong variant that shows a property can fail; it is not part of
any specification.

### Prefetcher, ScratchCopies

The variables are the fields of `Prefetcher`, the two channels (`wake` as a
token, `slots` as a count), the program counters of the loop, the installer and
the adders, and the scratch directories on disk. `Loop` is `run`: it pops a
title (`LoopPop`, `LoopIdle`), takes a slot (`LoopTakeSlot`), unpacks
(`UnpackStart`), publishes (`Publish`, `PublishNil`). `Take` is the method with
its four outcomes: not expected, ready, wait then woken, wait then cancelled.
`Release` removes the copy, then gives the slot back. `Stop` is three parts: the
critical section, the wake-up, the release of what it collected. `ScratchCopies`
is what a slot is for: a directory is unpacked, handed on, returned or
discarded, never more than the depth of them.

### BatchInstall

EXTENDS `Prefetcher`; the batch is its one adder and its installer. `Plan` is the
list `splitPlan` made. Each title goes through `Refuse` or `Accept` (the checks
before the source is read), `SourceLoose` or `SourceTake`, `Write`, `Release`;
`report` is the batch's report. An interrupt shows as an error that may or may
not say so (`Interrupted`), because `ToolError` does not wrap the context's.

### InstallQueue

The fields of `Queue`, one `worker` program counter per pass, the interface's
update loop as a second actor (`ui`), which starts, cancels, retries, clears and
adds, each with the unlocked second half the code gives it (`Start` after `Add`,
the cancel function called after the lock). Of a pass's prefetcher the model
keeps the order in which it was told of titles: the first `Depth` of those not
yet handed over have slots. What the pass has listed and not yet told it of is a set, as
only what is missing from it can go wrong. `retried` and `stranded` are history: the
waiting items Retry put back, and those whose copies may keep their slots for good.

### MountManager

`Services.Target`, `Mounts` and `Close` with their separate critical sections;
`Mount`, `Unmount`, `With` and `Close` of the manager; per directory what the
kernel has mounted there. `ours`, `refused` and `closed` are history. Two ids may
map to one directory (`DirOf`), a stale mount may be there from the start, a mount
command may fail, an unmount may be refused when something has the mount in use.

### ApaAlloc

`table` is the partition table, a header per extent with its slice, first chunk,
length and owner; a removed partition keeps its header with owner `Empty`, as it
does on the drive. `ReadTOC` makes of it what `setupStatistics` makes, a chunk map
and counters per slice; `allocationChunks`, `Place` and the rest of `alloc.go` are
operators on slices, the merge loop a recursive function over its passes. `Sorted` is
`SortGames` as an order of all titles (`Order`).
`planPS2` folds `Place` over the titles (`PlaceEach`) or, when the table cannot be read,
lists each at the worst case and says that it fits (`Unmeasured`); `freeKnown` tells which.
The batch then takes what fits, title by
title, each against the table as it is by then; the interface queues single titles
without a plan (`QueueTitle`). `HdlAllocate` is what hdl_dump
does, taken from the comments the code replays it by. A write may fail before the
table is written or leave a partition behind. Sizes are in bytes, with a
megabyte, a chunk and the share of a slice an extent may have as parameters.

### TitleFiles

`disk` says of every file what it holds, `None` for no file and `Part` for one whose
writing was cut short. An operation of the queue (`StartInstall`), the interface
(`StartRemove`) or `setup ps1 --launchers` (`StartRepair`) makes its checks, waits for
`hddLock` (`TakeLock`), and goes through the three partitions in turn; `Steps` lists what
it does in each, in the order of the code. A write is two steps, as `pfs.Create`
removes the old file first. `Failed` is what the code makes of a failure: in
`__.POPS` it ends the operation, in the other two it is a warning and the next
partition follows. `ScanPOPS` is the library made of the files that are there;
`catalog` is what the interface last read of it, which is what it removes.
Between operations the console may be played on (a memory card appears) and the
user may edit `CHEATS.TXT`; `mine` remembers those files, `repaired` the discs a repair
was to make an entry for. An install and a removal know the launcher by the first disc
alone (`app/remove.go:190`), a repair by any. Several removals queued
behind each other are one actor; `setup` is a process of its own, run alone.

### AssetSync

Two or more runs of `SyncAssets` (the interface, the command line) and of
`syncAssetsFor` (the end of an install) share the partition and the download cache;
the mutex of `Apply` is local to one of them. A slot is a game and an asset type. A
file is known by who wrote it and whether it is whole: `art` in ART and CFG, `app`
for the copy under the name a PS1 launcher goes by, `probe` for the file
`CheckWritable` makes; `cache` and `temps` are the download cache and its temporary
files. Each sync has its place in the code (`pc`), how it was called, what `Scan`
found (`inv`), what `PlanSync` found to exist (`exists`) and its items. `Scan` and
`PlanSync` look at the partition one after the other; `ProbeRemove` to `ProbeDone` are
`CheckWritable`; the `Fetch` actions are the goroutines of `Apply` under their
semaphore; the `Write` actions are `install`, in which `pfs.Create` removes the file
before it makes it anew, so another sync may come between; the `Sweep` and `Copy`
actions are `EnsureAppArtwork`. Around them the context is cancelled, the process
killed, a cached file cleaned and a file put by hand. `Supplied` are the slots a
provider offers; that it then does not have one is `FetchFails`.

### Interface

The state of `tui.Model` that its handlers decide by, and what its commands do
behind it. A key is one action of `handleKey`: the keys of the tables (`Move`,
`ToggleSelection`, ...), those that open a dialog (`confirmInstall`, `confirmRemove`,
`AskOrTell`), the answers (`Dismiss`, `runDialogAction`). `Update` has an action per
message: `catalogLoaded`, `removeDone`, `assetSyncDone`, `queueUpdate`. The rest is what
goroutines do: a load reads the drive (`LoadReads`) and answers at some later time, in
any order with the others; a sequence of removals goes title by title (`RemoveNext`);
the queue takes, installs or fails and tells the channel (`Notify`), which drops what
does not fit; a command takes one update off it (`Receive`). A cancelled pass cancels
what was queued behind it as it ends (`cancelRemaining`). The details of a pass are
`InstallQueue`'s: here a title waits, is written, or has failed (or was cancelled).

A cursor is a number, a row a title, and the rows of a table are the titles of the
catalog it lists, less those the search and the filter hide, in the catalog's order;
the two source tables are one, the artwork table is left out, and the keys `a` and `A`
on it are the ones that start or ask for a sync. `drive` is what is really there.
Two variables are history: `overtaken`, that the catalog shown is from a load that
began before one which had answered, and `unread`, that the drive was last changed by
what loads nothing: an install or a removal that failed after it had written, or a
complete install whose update was dropped.

### SourceScan

`Begin` is the first walk (`cueReferences`: which images are spoken for by a sheet),
`Collect` the second. Each passes over any set of directories it cannot read (`Walk`:
`WalkDir`'s error), and finds the source directory gone or not (`RootGone`). `Hand` sends an index over the unbuffered channel to a worker that
is free; `FeedEnds` is the other branch of the `select`. A worker that has received an
index goes home (`GoHome`) or looks at the file (`LookMissing`, `LookCached`, `LookFresh`:
`os.Stat` and `Cache.Get`) and, if it must, reads it (`Inspect`, which ends with
`Cache.Put`): between the two the file may change. `Prune`, `Save` and the return
(`Returned`) follow when the workers are home. A version stands for a size and a
modification time and does not come back; an identity is the version of the file and
of the image it names. `Fault` is any reading that failed for a reason of the
moment, which `Put` stores like any other. Around the scans a file appears, changes
or goes away, a context is cancelled, the program is killed, the cache is cleared;
`events` bounds them. `began` and `walked`, what was there at the second walk and which
directories it passed over, are history.

### Reconcile

Functions of one `library`: the discs and images in the source directories, the titles
on the drive, and how much of it can be read. A disc is what inspecting it told, with
the base title and the marker of its name; the parsing of names is not modelled.
`Group`, `splitUnmarked`, `GroupExplicit` are the functions of `multidisc.go`, `Rows` is
`Reconcile`, `CatalogWith` the service that decides whether there is a catalogue at
all, `planList` and `resolveListEntry` those of `cli/plan.go`. A line of a list is its
text, that without an extension, the serial inside it and the title of the image it is
the path of, if any; the three ways to read it are tried as the code tries them. A file
goes by its base name, whatever directory it is in, so one name may be two rows'. The order
`SortGames` gives, that of names, is left open (`Listing`): TLC checks one, and
`RowsTell` is proved for any.

### VcdConvert, DiscImage

A rip is a directory of files with sizes, and a sheet: the statements of a
cuesheet, the sections of a CloneCD control file, or none. `ParseCue`, `ParseCCDFile`
and `sheetForRawImage` make the same record of it, `Joined` the single-file sheet of a
split one, `BuildHeader` the header's entries, in BCD. `Open`, `Chunk` and `Publish` are
`Convert`: the temporary file is a sequence of pieces of the source and the pregap,
`Abort` a failure or a kill at any chunk.

`DiscImage` follows an image from its volume descriptor to its serial. An image is
what each sector stride finds in it; `Reach` is how far the reader may go, which for an
image in an archive is its head. `InspectArchivedPS1` and `InspectArchivedPS2` are what
the scan says of an archive, `InspectUnpacked` and `InspectAt` what an install finds;
`DataFile` is the file that is opened for a sheet. `ArchiveTellsDisc` compares the two
for a disc that keeps its boot file in the root directory (`HasBootFile`), as discs of both
consoles do, and the charges for a sheet that names no file twice (`EachOnce`).

### DeviceGate

Kernel names with disks behind them, the by-id link, and per process `Services.target`,
the mount manager's device and `hddLock`. An operation is of a kind: an install, a
removal or a creation of a partition writes the table through hdl_dump or pfsshell;
a PS1 install or removal and the import of the runtime write files through a mount,
as do the launcher repair and the artwork sync, which take the cached target; a
listing reads. Each goes through `Begin` (`Target`), `Resolve`, `Identify`, `Admit`
(`Validate` in its parts, which read the machine one after the other), `Check`,
`Acquire`, then `Write` and `Confirm` or `Mount` and `Files`. Meanwhile disks move,
udev follows later, lsblk is there, cannot read serials or is missing, and `Close` takes
the manager away. `seen` is history: how many moves there had been as the operation
began.

## 4. The runs

| Run | Expect | Shows |
|---|---|---|
| `prefetcher` | pass | budget (`SlotBudget`), ownership (`OneOwner`), no vain wait (`NoVainWait`), Stop ends the loop (`StopEndsLoop`), implements `ScratchCopies` (`CopyLifecycle`) |
| `batch` | pass | every title answered (`EveryTitleAnswered`), the run ends with fewer early refusals than slots (`BatchEnds`) |
| `batch_refused_titles` | violation | as many early refusals as slots: the run waits for ever (`BatchEnds` fails) |
| `queue` | pass | one pass at a time (`OneWorker`), new work is heard of (`NewWorkHeard`), a cancelled pass ends (`CancelEnds`), and so does an item taken up, unless every slot is held for titles refused or promised out of turn (`WorkEnds`) |
| `mounts` | pass | counts are exact (`RefsCountHolders`); who is inside `With` has its partition and no mount is lost sight of (`HeldAndReleased`) |
| `apa` | pass | plans are kept and priced right (`PlanKept`), the audit is clean and the worst case suffices (`AllocationBounded`), the merge is the buddy decomposition (`MergeIsBuddy`) |
| `titles` | pass | the user's files survive (`UserFilesKept`), an install without warnings is whole (`InstalledIsWhole`), a removal without warnings leaves nothing of the discs it names but entries the code does not look for, and repair lists every title (`ReportedIsDone`), no install writes over a disc (`DiscsStay`) |
| `assets` | pass | no part of an image is left (`NoPartialArt`), what the report lists is there and the Apps page's copies are made (`SyncDelivers`), every sync ends (`SyncEnds`) |
| `interface` | pass | the stream of updates never ends (`StreamAlive`), an out-of-date library at rest has one of three causes (`FreshWhenQuiet`), a removal is of what the dialog named (`RemovesWhatWasShown`) |
| `catalog` | pass | scans: `CacheTruth`, `ListedIsRecent`, `AnsweredIsPrefix`, `PrunedWasGone`, `ScanEnds`; libraries: `EveryDiscOnce`, `RowsTell`, `NamedIsMeant`; rips and archives: `HeaderTells`, `SpaceIsEnough`, `ArchiveTellsDisc` |
| `device` | pass | a replug before an operation is seen (`SwapSeen`), disks of the machine are safe even without the cross-check (`HostDiskSafe`), the lock comes back (`LockIsLive`) |
| `device_stale_mount` | violation | files of a validated write go through a manager of the old kernel name (`FilesReachValidated` fails) |

### Bounds, and why they are enough

* `prefetcher`: two archived titles and a loose one, depth 2, three directory
  names, one adder (the queue's interface), at most `MaxPending` pending titles.
  A third copy would have a directory to appear in; two archived titles give a
  ready one, one in work and one re-added. The safety properties are proved for
  every value of these constants.
* `batch`: three archived titles, one more than the depth, and a loose one;
  `MaxEarly = 1` titles refused early. `MaxEarly = 2` is the deadlock of
  `batch_refused_titles`. That every title is answered is proved for any plan.
* `queue`: two items in groups of up to two, two goroutines (the pass that is
  stopping and the next), depth 2; and a third item, one more than there are slots,
  while there is one pass and nothing was cleared (`MCBounds`). With it a pass waits
  until it is cancelled behind two titles its checks refused, and behind two that an `Add` promised
  before what the pass had found: `WorkEnds` names both, fails if either is left out,
  and so shows that there is no third way. Its safety properties are proved for all
  values.
* `mounts`: three goroutines, two partitions with one directory between them and
  one more, two managers (a session makes at most one more after Close),
  unmounts refused at will. Proved for all values.
* `apa`: a slice of six chunks and a drive of two slices (two and four), every
  subset of the chunks taken from the start, on which installs and removals are
  followed; and, as they are found, a slice of eight chunks with any of them taken and
  one of sixteen with at most four, whose extents of two and of four join again in a
  second and a third pass (a merge of one pass violates `MergeIsBuddy`); chunks of eight megabytes of two
  bytes, extents of up to half a slice; images of one, two and three chunks that
  differ in what the overhead does to them. With chunks of eight megabytes an
  image of up to four chunks behaves as one of up to 124 does with chunks of 128;
  a dual-layer DVD has 68. On a drive of two slices a failed write may leave the
  extents of the two unlike what the plan assumed, so `PlanKept` is stated for plans
  that were carried out as made or a drive of one slice.
* `titles`: two releases of two discs with one title, which the drive lists
  merged; three commands and one failure or crash among them, which is enough to
  install both and remove or repair, or to reinstall over what a failure left.
  One of the four discs is played and given codes. With four commands or two
  failures the same properties hold, on two releases of which one has one disc;
  those runs take too long to keep. The properties are proved for any number of
  releases, discs, commands and failures.
* `assets`: two syncs, the interface's over two slots (plain, overwriting or a dry
  run) and an install's over one of them (as `syncAssetsFor` and as the whole
  `SyncAssets`); one slot is an image of a PS1 title; one download at a time, so the
  second waits; every choice of files there from the start; one fault. Two syncs
  at a slot is what a collision takes, and one fault is a kill, a refused write
  or a clean at any step. The safety properties are proved for all values.
* `interface`: two titles, either of them on the drive at the start, one of which is
  PS1; a channel of one update, so that every drop there can be happens; three keys
  besides the answers to dialogs, which are not counted. Three keys start any two
  operations after a selection, or cancel a pass and queue behind it while it ends;
  loads overtake one another with two. Its properties are proved for all values.
* `catalog`: two scans, of two workers and of one; three files, of which one is a sheet
  that names another, all there with one event or none with two. Two workers are
  what leaves a hole in the prefix, two scans what reads a stale cache; the
  safety properties of the scans are proved for all values. The
  libraries are all sets of six discs (a numbered release, an unmarked disc beside it,
  a copy of one of its discs, a directory named for its title) with four images, three
  of one serial, and three installed titles. The rips vary every declared gap, INDEX 00, the mode of a
  second track, one file and three, another case of a name, a file cut short,
  CloneCD, bare images and broken sheets; a buffer holds 600 sectors and a half, so that it ends
  inside sectors and on both sides of the pregap. The archives vary stride,
  descriptors, the size of the directory, where SYSTEM.CNF is and what the directory
  names; a sheet gives its files in another case, misses one or names one twice; the head
  holds 30, 100 or all blocks of 500. A behaviour is of one of the four
  kinds, which do not influence one another.
* `device`: two operations of every pair of different kinds, in one process; three disks, two
  kernel names, two moves. One move and one of another disk is what it takes to put a
  disk under the name the configured one had. In two processes the operations share only the
  disks. The properties are proved for all values. `device_stale_mount` has the same
  constants with an lsblk that always speaks.
* `Dirs`, `Passes` and `Managers` are supplies of names: a step that needs a new
  one is disabled when they run out, which the chosen sizes make impossible
  except for re-validation after a second Close.

### Fairness

`prefetcher`: the loop, a taker that is not blocked and a Stop in progress are
scheduled; extractions end. Nobody is obliged to add, take, stop or cancel.
`batch`: `runBatch` runs and the loop is scheduled (they are goroutines of one
process; commands end). `queue`: every pass is scheduled, and a key that the
update loop has begun to handle is handled to its end; nobody is obliged to
press one. `assets`: a sync that was started is scheduled and a download ends, by
the thirty seconds its client allows; nobody is obliged to start one. `catalog`: the goroutines of a
scan that was started are scheduled and a reading ends; nobody need start or cancel one.
`mounts`, `apa`, `titles`, `interface` and `device` state safety only: a user need not press a key, and the
program may quit at any of them. All fairness is weak.

### Findings

The two violation runs are disagreements between the code and its own comments; each
is described, with the lines on both sides, under "findings" in `PROJECT.json`. The
deadlock of `batch_refused_titles` is the queue's as well: a slot is held by a copy
nobody will take, and `Take` waits for a title the loop cannot start without it.

Others have no run of their own. The properties except them, or say what holds instead.

* Queue: `nextWaiting` returns nil under one lock (`app/queue.go:274`) and `running`
  becomes false under a later one (263-266). An `Add` and a `Start` in between find a
  pass running, and the item waits for the next `Start`, although
  `tui/commands.go:83` says that enqueue starts the queue if it is idle.
* Removal: the discs are those of the listing (`app/remove.go:171`), read without the
  lock. Read while disc 2 is being written, the title has one, and the removal leaves
  the other, although remove.go:169-170 says that every disc goes.
  The launcher goes by the name of the first disc (190). Where `ScanPOPS` has put two
  releases of one title in one row (`ps1/pops.go:429`), the entry of the second stays in OPL's
  menu, "an entry on OPL's Apps page that boots nothing" (187): install both, load the
  library, remove. So does one that a repair made for a later disc while the first
  was missing. The support directories go disc by disc.
* Launchers: the audit asks for a title.cfg and not for the program beside it
  (`app/launchers.go:100`): what a removal that warned has left of a launcher is never repaired.
* Scan: a directory that cannot be read is passed over (`catalog/source.go:421-427`), and the
  entries of its files are pruned (386) though they are still there; so is one that
  another scan of the cache put for a file that came after this one's walk. Both are
  read again by the next scan that sees them; what is lost is time.
* Artwork: the lock around the writes is local to one `Apply`
  (`asset/manager.go:184`). Another sync takes an image being written for one that is
  present, and its sweep copies what there is of it (279) under the launcher's name.
* Scan cache: a reading that was cancelled, or failed for want of a tool, is stored like
  any other (`catalog/source.go:336-338`) and served until the file changes, although
  384-385 says that what was inspected before an interrupt is real. A sheet's entry is
  fresh by the sheet's own size and time, whatever became of its image (`cache.go:39`).
  A cancelled scan returns no error, so a partial catalogue has no warning.
* Reconciliation: of two source files of one serial the row shows the first and its
  `SourceGame`, which an install takes, is the last. A list may name the other by its
  path: the two have one serial and, with another name, another title, and the game is
  planned and counted twice, although `cli/plan.go:70` says it is not; one without a serial is
  planned though the drive has it (`installedInCatalog`). Of three, the one between is on no
  row (`catalog/reconcile.go:95-106`), and so are the first's other discs when the drive has
  the title: a list that names such a file finds nothing or, by the name without its extension,
  another title, although 265-267 says that any file of a release names it (`Shown`). `ScanPS1` builds its discs anew
  (source.go:240-244) without their VCD size, so a grouped title has none.
* Grouping: `InspectSources` numbers each unmarked disc 1, as each was grouped alone before
  (`app/install.go:107-199`); `ps1/multidisc.go:234-236` says by position.
* VCD: in a sheet with one PREGAP, a data track after the first and before any audio
  is moved in the header and not in the stream (`Misplaced`). Nothing asks the tracks to be in
  order (`InOrder`): where the first audio track starts at byte 0 the pregap goes to the end of
  the stream (`done == padAt` is looked at after a chunk, vcd.go:301), and the header moves
  the tracks all the same. Minutes beyond 159 do not go into a byte. Of a sheet with
  another number of PREGAPs or any POSTGAP the header's sector count and `VCDSize` count
  gaps that are not written. `Validate` looks at the first data file only, the
  conversion at all.
* Archives: the first data file by name is taken for the first track whatever the sheet
  says, and the first sheet for the sheet. A file a sheet names twice counts twice once
  unpacked and once in the archive: the scan then tells fewer bytes than the install
  asks for. A PS2 image in the PS1 directory whose
  SYSTEM.CNF is beyond the head passes for a PS1 disc, by its boot file's name.
* Device: sync, repair and listing take the cached target; the checks of an install come
  before it waits for the lock; its verification reads the cached target's table.
  After `Close` the target is cached and the manager nil (`app/services.go:142`):
  whoever asks next panics, which is the outcome "panicked". One that validates after
  `Close` makes a manager nobody closes.

## 5. Proofs

* `PrefetcherProofs`: `InductiveInvariant` and from it type correctness,
  `OneOwner`, `SlotBudget`, `NoVainWait`, `NoLostWake`, `StopLeavesAtMostOne`; and
  `ImplementsCopies`, that every step of the prefetcher is a step of
  `ScratchCopies` or a stutter. The invariant adds to the properties that the
  slots taken equal the copies alive plus the one about to be made, that a title
  is on its way at most once, and that what is expected is pending, in work or
  ready. None of the properties is inductive alone: the budget needs the owner
  of every slot, and a wait is in vain only if a promise was lost.
  For the batch `BatchInductive`, then `BatchAnswersAll` (`EveryTitleAnswered`):
  the title in hand is the one of the plan the report has reached, what was answered
  is what came before it, and no title is answered twice as no plan names one twice.
  `BatchUsesPrefetcher` shows every behaviour of a batch to be one of the prefetcher, so
  that what is proved of any use of it is proved of a batch (`BatchKeepsBudget`).
* `QueueProofs`: `QueueInductive`, then `OneInstallAtATime`, `FieldsNameThePass`,
  `ActiveItemsAreWorkedOn`, `CompleteStays`. The invariant says besides that an
  item a pass has claimed is waiting or was cancelled since, which is what makes
  a complete item safe from the stale claim. `NewWorkIsHeard` (`NewWorkHeard`) is by an
  invariant of its own on top: a pass that has not finished telling its prefetcher has
  told it or has still to tell it of everything that waits, and an item fed and handed
  over is no longer waiting.
* `SessionProofs`, of `MountManager`: `MountInductive`, then `MountTypes`, `CountsExact`,
  `HeldStaysMounted`, `NoMountIsLost`, the two together as `HeldUntilReleased`, and
  `ForeignStays`. The invariant relates the
  three views of a mount: an entry stands for a mount this process made, no two
  entries for one, every mount made has an entry until its unmount is refused,
  and a count is at most the number of holders, exactly that until Close.
* `AssetProofs`: `AssetInductive`, then `DownloadsBounded` (types and the semaphore's
  bound), `NoPartStays` and `CuratedStays`. The invariant adds that nothing in the
  download cache is partial, that a sync which writes from it holds a whole file,
  and that a sync at a file has a slot in hand; without the first, a part of a
  download could reach the partition through a later sync. `SyncsDeliver`
  (`SyncDelivers`) is about all the syncs together. A file one of them reports may be
  removed by the next that writes it, and then that one has it to write again; a copy
  for the Apps page that is missing is owed by a sync that has still to sweep, and the
  last to sweep owes them all. The invariant keeps who owes what (`GapsClose`,
  `SweptIsServed`); of the copies that are there at the end alone nothing follows.
* `SessionProofs`, of `Interface`: `InterfaceInductive`, then `StreamNeverEnds`, `LibraryIsFresh`,
  `CursorKept` and `RemovesWhatIsNamed`. That the library is fresh at rest says
  nothing of the loads under way and is not inductive. The invariant follows the
  newest of them: either some update will start another, or the newest load has not
  been overtaken and has read the drive as it is or has yet to read it, or it has
  answered, all the others are late, and the library is its own unless it says
  otherwise. The cursor's theorem rests on a lemma that no two rows of a finite table
  have the same place.
* `CatalogProofs`, of `SourceScan`: `ScanInductive`, then `CacheIsTrue`, `ListingIsRecent` and `PruneIsSafe`.
  The invariant has the versions dated: none is later than the last edit, and those a
  scan saw as it began are not later than the file's own, so an entry that is fresh is
  of the file as it is. A worker's version is one the file has had, and the answer it
  will store is honest for it. What was fed is answered or in a worker's hand while the
  scan is not cancelled, which at `Prune`, with every worker home, makes the files seen
  all those of the listing: without it nothing says that a scan which prunes has
  seen everything. `walked` ties the listing to what the walk had in sight. `PrefixIsAnswered` (`AnsweredIsPrefix`) counts: an index fed and not
  answered is accounted for by a worker, which has it in hand or dropped it and went home;
  so the indices fed and open are at most as many as the workers that are off, and when
  one of them answers a file, the others are fewer than the workers.
* `QueueProofs`, of `Reconcile`: `DiscsAreKept` (`EveryDiscOnce`), `RowsAreTrue`
  (`RowsTell`) and `PlansAreMeant` (`NamedIsMeant`), of every library the constants allow. Each bucket is split into the
  unmarked discs, one by one, and the marked together, so a disc is in one group of one
  bucket, and a title's file tells which. The rows are a fold over the source titles, and
  what merging one more keeps is `Tells`: the rows of the drive come first and keep their
  titles, a row behind them has a key of its own, and a source title is on the last
  row of its key, the one `MergeSource` writes to. From the last it follows that no
  key has two rows with a source, though the drive may hold a title twice. A title
  may come at any place in a listing, so nothing hangs on the order.
  That a list plans what it names needs more of the fold (`Named`): a row behind those of
  the drive is not installed, what a row installs is of its key, a row of the drive has a file only
  from the sources, so that the first copy of a title leaves its file there (`FirstFile`),
  and the last copy of it so far is on a row (`LastCopy`). A line that is a file's name
  then fits that row, and no other or there is no plan; what two lines plan is
  of rows behind the drive's, each once (`PlansOnce`).
* `CatalogProofs`, of `VcdConvert`: `VcdInductive`, then `SpaceHolds` (`SpaceIsEnough`) and `HeaderHolds`
  (`HeaderTells`). The
  pieces written are the bytes copied, and the pregap once it is no longer wanted; they
  stay within the files as the last chunk is cut short. That the charge covers them is
  arithmetic on what the sheet declares, and needs to know what a sheet is: its gaps are
  flags of its tracks, of which a parsed sheet, a control file and a joined sheet each
  have a finite sequence with timecodes (`Fit`), by the lemmas on folds. The header needs
  three things more. The tracks of the joined sheet are where the sheet has them in the files
  laid end to end (`Located`), as whole files are whole sectors and sectors and timecodes
  are each other's inverse (`SectorsIs`). Every piece of the stream stands where its first
  byte goes once the pregap is in, lies on one side of it, and no byte of the source is
  without a piece (`Laid`); `needPad` says on which side the copy is (`HInv`). And in
  order, the tracks behind the pregap are those the header moves (`ShiftIs`).
* `CatalogProofs`, of `DiscImage`: `ArchivesTell` (`ArchiveTellsDisc`), of every archive the
  constants allow. The
  descriptors end before block 24 and a head that is no whole image is 16 MiB, so the head
  opens the volume the whole opens, at the same stride (`OpenedIs`). If the head reaches
  SYSTEM.CNF it is the one the whole reads; if not, the directory has one name that looks
  like a serial, which is then the boot file's (`SerialIs`). That nothing is charged too
  little is of sums: a name of the sheet is resolved to a file of the directory with that
  name but for its case, so names that differ have different files, and numbers taken
  each from a place of its own add up to no more than all (`SumOfSome`, by induction on
  how many are taken).
* `DriveProofs`, of `DeviceGate`: `DeviceInductive`, then `LockComesBack`, `ReplugIsSeen` and `HostIsSafe`.
  The invariant says of an operation that validates for itself, while no disk has moved
  since it began, that past the cross-check its path is the configured disk, unless the
  check was skipped, and past the admission a disk with a table and without mounts;
  that a mount is of the manager's device; and that the lock follows the program
  counters. `SwapSeen` alone says nothing before the write.
* `DriveProofs`, of `ApaAlloc`: `AllocTypes`, `AllocationsBounded` (`AllocationBounded`) and
  `PlansKept` (`PlanKept`). The arithmetic comes first. A fold is a chain of values, one
  for each element (`FoldExists`, `FoldSteps`), so that what it keeps follows step by step;
  the merge exists as a function because a pass that joins something leaves a shorter
  list (`EndsFollow`, `MergesExists`), and it keeps the chunks it is given (`MergeIs`);
  the chunks a title takes are the lowest free ones (`LowestIs`, `ClaimIs`), and how many
  is between `chunksToCover` and `MaxChunks` however they merge (`AllocationIs`). Then the
  table: no two partitions share a chunk, and a title that is there occupies what some
  slice once asked of it (`AInv`), which an install adds to and a removal keeps
  (`AddsSoundly`, `RemovesSoundly`). Last the plan (`PInv`): the titles it said would fit
  have each a board it was placed on (`Foretold`, `PlanForetells`), and at any time there is a
  place in that list the batch has reached (`OnPlan`). While no write fails the drive is
  the board of that place; on a drive of one slice, whatever fails, its free chunks are
  those of the board and more (`AheadStep`). `PlanKept` alone says nothing of what is yet to
  be installed.
* `TitleProofs`: `TitleInductive`, then `UsersStay` (`UserFilesKept`), `InstallsWhole`
  (`InstalledIsWhole`), `ReportsHold` (`ReportedIsDone`), `DiscsKept` (`DiscsStay`) and
  `TitleTypes`. The properties speak of an operation that has ended; the invariant
  follows it from the lock on. Of the phase it is in, and of those behind it, every
  step is done on the disk or left in its list, unless it has warned (`Progress`); what
  is left is of its phase's steps, so that no phase undoes an earlier one
  (`Follows`); the file a writer is at has been emptied (`HalfWritten`); a file is in
  a directory that exists, so a removal that finds no directory has nothing to remove
  (`Housed`); every title is still on a repair's list or has its entry (`Repairing`), and
  until something fails an entry without its program is one being written or removed
  (`Entries`). One operation has the lock at a time (`Turn`), so no other step comes
  between what an operation did and what the disk says of it. The lists of
  steps are flattened sequences: `FlattenProperties` says which steps are in them and in
  what order, by an induction over the numbers in the form that needs no operator
  (`SetInduction`: a set with 0 and the successor of each of its members has them all).

Assumptions are those the modules name: finite sets of titles or goroutines, a
depth of at least two, nil values that are not members of the sets they stand
beside, titles and discs of finitely many with the fields theirs have, rips whose files
have sizes and whose sheets have timecodes, archives of such files and of images whose
heads reach past the descriptors.

Model-checked only: everything about liveness and fairness, which is out of the
prover's reach as ENABLED is; and `MergeIsBuddy` of `ApaAlloc`, whose reference definition
enumerates blocks of at most 32 chunks and so is one for small drives. No module uses a RECURSIVE operator.

## 6. Not modelled

`hits`, a statistic of the prefetcher. Persistent mounts (`ps2hdd mount`), which
other processes share: `MountPersistent` looks at its own directory only, and
`UnmountPath` looks at a mount and unmounts it without a lock. Artwork taken away with
its title (`remove --purge-assets`), and what decoding and scaling make of an image
beyond whether it succeeds. Of the interface: the status of the drive, the progress
of a scan, the artwork table, the view of the settings and the layout. What a killed
`sudo` leaves behind. The sweep of scratch directories (`ReapStaleScratch`), which goes by
the age of a directory against the time an extraction takes. The widths of the header
fields of the partition table: sectors are 32 bits, and the models count chunks. The
cross-check of the table against hdl_dump's own listing, the drive's detection and its
status, disk images in place of devices. And the parts `PROJECT.json` gives as `not_modelled` with the
reason: the lookup of titles, configuration, preflight checks, demo and logging. Rendering
and the parsing of text are abstracted throughout.
