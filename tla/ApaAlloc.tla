------------------------------- MODULE ApaAlloc -------------------------------
(***************************************************************************)
(* What a PS2 title costs on the drive and whether a bulk plan is kept:    *)
(* internal/apa/alloc.go replays hdl_dump's allocator on the chunk map     *)
(* that internal/apa/apa.go reads from the partition table,                *)
(* internal/app/plan.go walks a list of titles over a working copy of it,  *)
(* internal/cli/batch.go installs what the plan said will fit, each title  *)
(* checked again by internal/app/install.go, and internal/app/             *)
(* allocaudit.go holds the drive against the arithmetic.                   *)
(*                                                                         *)
(* hdl_dump and pfsshell are programs of their own: the table they leave   *)
(* is modelled from what the code expects of them (alloc.go:5-24,          *)
(* apa.go:53-61).                                                          *)
(***************************************************************************)
EXTENDS Integers, Sequences, FiniteSets, SequencesExt, FiniteSetsExt

CONSTANTS
  Titles,       \* the PS2 titles available in the source directories
  Size,         \* bytes of each title's image
  Order,        \* the titles as model.SortGames orders them
  MB,           \* bytes in a megabyte
  ChunkMB,      \* megabytes in a chunk
  MergeShare,   \* a merged extent holds at most total chunks / MergeShare
  Drives,       \* the drives considered: a sequence of chunks per slice each
  System,       \* owner of the partitions that are not PS2 titles
  Empty         \* "__empty", the name of a removed partition

ASSUME UnitsAssumption == {MB, ChunkMB, MergeShare} \subseteq Nat \ {0}
ASSUME SizeAssumption == Size \in [Titles -> Nat \ {0}]
ASSUME OrderAssumption == Order \in Seq(Titles) /\ IsInjective(Order)
ASSUME DrivesAssumption == Drives \subseteq Seq(Nat)
ASSUME OwnersAssumption == System # Empty /\ {System, Empty} \cap Titles = {}

VARIABLES
  drive,    \* chunks in each slice of this drive
  table,    \* the partition table: headers of main partitions and extents
  plan,     \* the plan's entries, in the order it placed them
  freeKnown, \* whether the plan was measured on the drive
  todo,     \* what the batch has still to install
  refused,  \* titles of the plan an install refused
  failures, \* titles of the plan whose write failed
  whole     \* titles whose last write succeeded

allocVars == <<drive, table, plan, freeKnown, todo, refused, failures, whole>>

-----------------------------------------------------------------------------
(* Sizes. *)

Bytes(chunks) == chunks * ChunkMB * MB

megabytes(b) == (b + MB - 1) \div MB

chunksToCover(b) == (megabytes(b) + ChunkMB - 1) \div ChunkMB

overheadMB(extents) == 3 + extents

\* n chunks in this many extents do not hold the image and its overhead.
Short(n, b, extents) == ChunkMB * n < megabytes(b) + overheadMB(extents)

\* Mutant: the worst case leaves the overhead out.
MaxChunksNoOverhead(b) == chunksToCover(b)

MaxChunks(b) ==
  LET n == chunksToCover(b) IN IF Short(n, b, n) THEN n + 1 ELSE n

MaxAllocationFor(b) == Bytes(MaxChunks(b))

MinAllocationFor(b) == Bytes(chunksToCover(b))

-----------------------------------------------------------------------------
(* One slice: total, used and free chunks and the map of occupied ones.    *)

Statistics(total, occupied) ==
  [total |-> total, used |-> Cardinality(occupied),
   free |-> total - Cardinality(occupied),
   chunkMap |-> [c \in 0 .. total - 1 |-> c \in occupied]]

\* A removed partition is in the table still and its chunks are free.
setupStatistics(total, headers) ==
  Statistics(total, {c \in 0 .. total - 1 :
     \E h \in headers : h.owner # Empty /\ c \in h.start .. h.start + h.len - 1})

ReadTOC(t) ==
  [i \in DOMAIN drive |->
     setupStatistics(drive[i], {h \in t : h.slice = i})]

\* Lowest first.
freeChunkIndices(s) ==
  LET F == {c \in DOMAIN s.chunkMap : ~ s.chunkMap[c]}
  IN [i \in 1 .. Cardinality(F) |->
        CHOOSE c \in F : Cardinality({d \in F : d < c}) = i - 1]

maxExtentChunks(s) ==
  IF s.total < MergeShare THEN 1 ELSE s.total \div MergeShare

-----------------------------------------------------------------------------
(* The merge: passes over the extents until one joins nothing.             *)

Extents == [start : Nat, size : Nat \ {0}]

Joins(x, y, maxExtent) ==
  /\ x.size * 2 <= maxExtent
  /\ x.start + x.size = y.start
  /\ x.size = y.size
  /\ x.start % (x.size * 2) = 0

\* One pass from the left; an extent just joined is not looked at again in it.
Pass(ex, maxExtent) ==
  FoldLeft(LAMBDA acc, e :
             IF acc.open /\ Joins(Last(acc.out), e, maxExtent)
             THEN [open |-> FALSE,
                   out  |-> [acc.out EXCEPT ![Len(acc.out)].size = 2 * @]]
             ELSE [open |-> TRUE, out |-> Append(acc.out, e)],
           [open |-> FALSE, out |-> <<>>], ex).out

\* Mutant: one pass and no more.
MergeOnce(chunks, maxExtent) ==
  Pass([i \in DOMAIN chunks |-> [start |-> chunks[i], size |-> 1]], maxExtent)

Merge(chunks, maxExtent) ==
  LET merged[ex \in Seq(Extents)] ==
        LET next == Pass(ex, maxExtent)
        IN IF next = ex THEN ex ELSE merged[next]
  IN merged[[i \in DOMAIN chunks |-> [start |-> chunks[i], size |-> 1]]]

mergedExtents(chunks, maxExtent) == Len(Merge(chunks, maxExtent))

Taken(s, n) == SubSeq(freeChunkIndices(s), 1, n)

\* Chunks an image asks for in a slice, the overhead's included.
Wanted(s, b) ==
  LET want == chunksToCover(b)
      extents == mergedExtents(Taken(s, want), maxExtentChunks(s))
  IN IF Short(want, b, extents) THEN want + 1 ELSE want

\* Chunks an image takes in a slice, 0 when it does not fit.
allocationChunks(s, b) ==
  LET want == chunksToCover(b)
      free == Len(freeChunkIndices(s))
  IN IF want = 0 \/ free < want THEN 0
     ELSE IF Wanted(s, b) > free THEN 0 ELSE Wanted(s, b)

\* The slices are tried in order; 0 when none holds the image.
FirstFit(slices, b) ==
  LET fits == {i \in DOMAIN slices : allocationChunks(slices[i], b) # 0}
  IN IF fits = {} THEN 0 ELSE Min(fits)

Fits(slices, b) == FirstFit(slices, b) # 0

AllocationFor(slices, b) ==
  IF Fits(slices, b)
  THEN Bytes(allocationChunks(slices[FirstFit(slices, b)], b)) ELSE 0

Claim(s, n) ==
  LET claimed == {c \in DOMAIN s.chunkMap :
                    \E i \in DOMAIN freeChunkIndices(s) :
                       i <= n /\ freeChunkIndices(s)[i] = c}
  IN [total |-> s.total, used |-> s.used + n, free |-> s.free - n,
      chunkMap |-> [c \in DOMAIN s.chunkMap |-> s.chunkMap[c] \/ c \in claimed]]

\* Mutant: every title is placed on the drive as it is.
PlaceNothing(slices, b) == slices

Place(slices, b) ==
  IF Fits(slices, b)
  THEN [slices EXCEPT ![FirstFit(slices, b)] = Claim(@, allocationChunks(@, b))]
  ELSE slices

-----------------------------------------------------------------------------
(* The drive. *)

Owners == Titles \cup {System, Empty}

Headers == [slice : DOMAIN drive, start : Nat, len : Nat \ {0}, owner : Owners]

HeadersOf(t, tab) == {h \in tab : h.owner = t}

\* ReadGames: what the table lists is installed, whole or not.
Installed(tab) == {t \in Titles : HeadersOf(t, tab) # {}}

Footprint(t) == MapThenSumSet(LAMBDA h : h.len, HeadersOf(t, table))

\* hdl_dump drops the removed partitions, takes the chunks and writes one
\* header for each merged extent and one for the overhead chunk.
HdlAllocate(t, tab) ==
  LET slices == ReadTOC(tab)
      i == FirstFit(slices, Size[t])
      s == slices[i]
      want == chunksToCover(Size[t])
      extents == Range(Merge(Taken(s, want), maxExtentChunks(s)))
      extra == {[start |-> c, size |-> 1] :
                  c \in Range(SubSeq(freeChunkIndices(s), want + 1,
                                    allocationChunks(s, Size[t])))}
  IN {h \in tab : h.owner # Empty} \cup
     {[slice |-> i, start |-> e.start, len |-> e.size, owner |-> t] :
        e \in extents \cup extra}

-----------------------------------------------------------------------------
(* Any part of the drive may be taken by other partitions already.         *)
AllocInit ==
  /\ drive \in Drives
  /\ table \in SUBSET UNION {{[slice |-> i, start |-> c, len |-> 1, owner |-> System] :
                              c \in 0 .. drive[i] - 1} : i \in DOMAIN drive}
  /\ plan = <<>> /\ todo = <<>> /\ freeKnown = FALSE
  /\ refused = {} /\ failures = {} /\ whole = {}

\* Each title is placed on what the ones before it left.
PlaceEach(games) ==
  FoldLeft(LAMBDA acc, t :
             [slices  |-> Place(acc.slices, Size[t]),
              entries |-> Append(acc.entries,
                 [game  |-> t, fits |-> Fits(acc.slices, Size[t]),
                  bytes |-> IF Fits(acc.slices, Size[t])
                            THEN AllocationFor(acc.slices, Size[t])
                            ELSE MaxAllocationFor(Size[t])])],
           [slices |-> ReadTOC(table), entries |-> <<>>], games).entries

\* Nothing was measured: every title is listed at the worst case and said to fit.
Unmeasured(games) ==
  [i \in DOMAIN games |->
     [game |-> games[i], fits |-> TRUE, bytes |-> MaxAllocationFor(Size[games[i]])]]

\* PlanInstall and planPS2, with a drive and a table that could be read or not.
planPS2(games, read) == IF read THEN PlaceEach(games) ELSE Unmeasured(games)

splitPlan(entries) ==
  FoldLeft(LAMBDA acc, e : IF e.fits THEN Append(acc, e.game) ELSE acc, <<>>, entries)

Sorted(S) == FoldLeft(LAMBDA acc, t : IF t \in S THEN Append(acc, t) ELSE acc, <<>>, Order)

\* `install --all` or `--from-list`: any titles that are not on the drive.
MakePlan ==
  /\ todo = <<>>
  /\ freeKnown' \in BOOLEAN
  /\ \E S \in SUBSET (Titles \ Installed(table)) \ {{}} :
       plan' = planPS2(Sorted(S), freeKnown')
  /\ todo' = splitPlan(plan')
  /\ refused' = {} /\ failures' = {}
  /\ UNCHANGED <<drive, table, whole>>

\* The interface queues a title without a plan: it may be on the drive already,
\* or find no room.
QueueTitle ==
  /\ todo = <<>>
  /\ \E t \in Titles : todo' = <<t>>
  /\ plan' = <<>> /\ freeKnown' = FALSE /\ refused' = {} /\ failures' = {}
  /\ UNCHANGED <<drive, table, whole>>

\* The checks before the write: already on the drive, or no room for it.
Refuses(t) == t \in Installed(table) \/ ~ Fits(ReadTOC(table), Size[t])

NextTitle ==
  /\ todo # <<>>
  /\ todo' = Tail(todo)
  /\ UNCHANGED <<drive, plan, freeKnown>>

InstallRefused ==
  /\ NextTitle
  /\ Refuses(Head(todo))
  /\ refused' = refused \cup {Head(todo)}
  /\ UNCHANGED <<table, failures, whole>>

InstallWrites ==
  /\ NextTitle
  /\ ~ Refuses(Head(todo))
  /\ table' = HdlAllocate(Head(todo), table)
  /\ whole' = whole \cup {Head(todo)}
  /\ UNCHANGED <<refused, failures>>

\* The write fails before the table is written, or leaves a partition behind.
InstallFails ==
  /\ NextTitle
  /\ ~ Refuses(Head(todo))
  /\ table' \in {table, HdlAllocate(Head(todo), table)}
  /\ failures' = failures \cup {Head(todo)}
  /\ whole' = whole \ {Head(todo)}
  /\ UNCHANGED refused

\* pfsshell renames the headers in place; the plan was of a command now over.
RemoveTitle(t) ==
  /\ todo = <<>>
  /\ t \in Installed(table)
  /\ table' = {IF h.owner = t THEN [h EXCEPT !.owner = Empty] ELSE h : h \in table}
  /\ plan' = <<>> /\ freeKnown' = FALSE /\ refused' = {} /\ failures' = {}
  /\ whole' = whole \ {t}
  /\ UNCHANGED <<drive, todo>>

AllocNext ==
  \/ MakePlan
  \/ QueueTitle
  \/ InstallRefused
  \/ InstallWrites
  \/ InstallFails
  \/ \E t \in Titles : RemoveTitle(t)

AllocSpec == AllocInit /\ [][AllocNext]_allocVars

-----------------------------------------------------------------------------
(* Properties. *)

Live == {h \in table : h.owner # Empty}

\* Types, and the partitions lie inside their slice and on chunks of their own.
ATypeOK ==
  /\ drive \in Drives
  /\ table \subseteq Headers
  /\ \A h \in table : h.start + h.len <= drive[h.slice]
  /\ \A h, k \in Live :
       h # k /\ h.slice = k.slice =>
         h.start + h.len <= k.start \/ k.start + k.len <= h.start
  /\ plan \in Seq([game : Titles, fits : BOOLEAN, bytes : Nat])
  /\ freeKnown \in BOOLEAN
  /\ todo \in Seq(Titles)
  /\ {refused, failures, whole} \subseteq SUBSET Titles

\* What a plan says fits is not refused, whatever failed on the way (cli/plan.go:16).
PlanKeptAlways ==
  \A i \in DOMAIN plan : plan[i].fits => plan[i].game \notin refused

\* "The same plan is what a dry run prints and what a real run then installs,
\* so the two cannot disagree about which titles fit" (cli/plan.go:16): no
\* title a plan measured on the drive said would fit is refused, on a drive of
\* one slice whatever writes fail on the way, on one of two if none does; while
\* no write fails every title takes what that plan said it would (plan.go:210),
\* as the working copy of the free space and the drive stay alike. A plan made
\* without the table claims no more than sizes (plan.go:196-206): whatever then
\* fails, no title takes more than it lists.
PlanKept ==
  /\ freeKnown /\ (Len(drive) = 1 \/ failures = {}) => PlanKeptAlways
  /\ \A i \in DOMAIN plan :
       plan[i].fits /\ plan[i].game \in whole =>
         /\ freeKnown /\ failures = {} =>
              Bytes(Footprint(plan[i].game)) = plan[i].bytes
         /\ ~ freeKnown => Bytes(Footprint(plan[i].game)) <= plan[i].bytes

\* AuditAllocations finds nothing outside: what a title occupies, whatever the
\* holes it went into, is between the least and the most the arithmetic says.
AuditClean ==
  \A t \in Installed(table) :
    Bytes(Footprint(t)) \in MinAllocationFor(Size[t]) .. MaxAllocationFor(Size[t])

\* The bound a check without the drive uses (alloc.go:46-50): a slice with that
\* much free holds the title however its chunks lie.
MaxIsEnough ==
  \A t \in Titles : \A i \in DOMAIN drive :
    LET s == ReadTOC(table)[i]
    IN Bytes(s.free) >= MaxAllocationFor(Size[t]) =>
         allocationChunks(s, Size[t]) \in 1 .. MaxChunks(Size[t])

\* The arithmetic without the drive bounds what the drive does, before an install
\* (the space check) and after it (the audit).
AllocationBounded == AuditClean /\ MaxIsEnough

\* The aligned blocks of 2^k chunks, no larger than the limit, inside a set.
Blocks(S, maxExtent) ==
  {b \in {c .. c + 2^k - 1 : c \in S, k \in 0 .. 5} :
     /\ b \subseteq S
     /\ Cardinality(b) <= maxExtent
     /\ Min(b) % Cardinality(b) = 0}

\* mergedExtents (alloc.go:138-145) leaves one extent for each largest aligned
\* block of the chunks taken: the order of the passes loses no join.
MergeIsBuddy ==
  \A i \in DOMAIN drive :
    LET s == ReadTOC(table)[i]
    IN \A n \in 1 .. s.free :
         LET B == Blocks(Range(Taken(s, n)), maxExtentChunks(s))
         IN mergedExtents(Taken(s, n), maxExtentChunks(s)) =
              Cardinality({b \in B : \A c \in B : b \subseteq c => b = c})

=============================================================================
