----------------------------- MODULE MountManager -----------------------------
(***************************************************************************)
(* The PFS mounts of one session: drive.MountManager                       *)
(* (src/internal/drive/mounts.go), the part of app.Services that creates,  *)
(* hands out and closes the manager (src/internal/app/services.go), and    *)
(* the goroutines of the interface that mount partitions for as long as    *)
(* one operation takes.                                                    *)
(*                                                                         *)
(* A critical section under m.mu or s.mu is one step, the commands it runs *)
(* included.  Of the kernel the model keeps what is mounted on each        *)
(* directory of this process's mount root.                                 *)
(***************************************************************************)
EXTENDS Integers, FiniteSets

CONSTANTS
  Users,      \* goroutines that use mounts; a nested With counts as another
  Partitions,
  DirOf,      \* mountDirName: two ids may give one directory
  Managers,   \* bound: managers one session creates
  NoManager,  \* nil
  Nothing,    \* no partition; nothing mounted
  Foreign,    \* a mount this process did not make
  Busy        \* may something outside the process keep a mount busy?

ASSUME MountAssumption ==
  /\ IsFiniteSet(Users)
  /\ DirOf \in [Partitions -> {DirOf[p] : p \in Partitions}]
  /\ NoManager \notin Managers /\ Nothing \notin Partitions
  /\ Foreign \notin Partitions \cup {Nothing}
  /\ Busy \in BOOLEAN

Dirs == {DirOf[p] : p \in Partitions}

VARIABLES
  mounts,    \* s.mounts
  validated, \* s.target is set
  created,   \* managers made so far
  owned,     \* per manager and partition: refs, 0 when it is not in the map
  kernel,    \* what is mounted on each directory
  at,        \* where each goroutine is
  mgr,       \* the manager it got
  part,      \* the partition it mounted
  main,      \* where Services.Close is
  closing,   \* the manager it closes
  closes,    \* how many Closes have returned
  process,   \* "alive", "exited" or "crashed"
  ours,      \* history: directories with a mount this process made
  refused,   \* history: of those, the ones whose unmount failed
  closed     \* history: managers that were closed

sVars   == << mounts, validated, created >>
kVars   == << kernel, ours, refused >>
uVars   == << at, mgr, part >>
cVars   == << main, closing, closes, closed, process >>
mountVars == << sVars, owned, kVars, uVars, cVars >>

MTypeOK ==
  /\ mounts \in Managers \cup {NoManager} /\ validated \in BOOLEAN
  /\ created \in SUBSET Managers
  /\ owned \in [Managers -> [Partitions -> 0..Cardinality(Users)]]
  /\ kernel \in [Dirs -> Partitions \cup {Nothing, Foreign}]
  /\ at \in [Users -> {"idle", "target", "ready", "using"}]
  /\ mgr \in [Users -> Managers \cup {NoManager}]
  /\ part \in [Users -> Partitions \cup {Nothing}]
  /\ main \in {"open", "closing"} /\ closing \in Managers \cup {NoManager}
  /\ closes \in 0..2 /\ closed \in SUBSET Managers
  /\ process \in {"alive", "exited", "crashed"}
  /\ ours \in SUBSET Dirs /\ refused \in SUBSET ours

\* A directory may still be a mount that a crashed run with the same process id
\* left behind.
MountInit ==
  /\ mounts = NoManager /\ validated = FALSE /\ created = {}
  /\ owned = [m \in Managers |-> [p \in Partitions |-> 0]]
  /\ kernel \in [Dirs -> {Nothing, Foreign}]
  /\ at = [u \in Users |-> "idle"]
  /\ mgr = [u \in Users |-> NoManager] /\ part = [u \in Users |-> Nothing]
  /\ main = "open" /\ closing = NoManager /\ closes = 0 /\ closed = {}
  /\ process = "alive"
  /\ ours = {} /\ refused = {}

Holds(u, m, p) == at[u] = "using" /\ mgr[u] = m /\ part[u] = p

InUse(d) == \E u \in Users : at[u] = "using" /\ DirOf[part[u]] = d

-----------------------------------------------------------------------------
(* Services.                                                               *)

Goes(u, here, there) == at[u] = here /\ at' = [at EXCEPT ![u] = there]

\* What a validation that succeeds leaves behind; one that fails changes nothing.
Validate ==
  /\ validated' = TRUE
  /\ \/ mounts # NoManager /\ UNCHANGED << mounts, created >>
     \/ /\ mounts = NoManager
        /\ \E m \in Managers \ created : mounts' = m /\ created' = created \cup {m}

\* Target: the cached validation will do to read; to write, the device is
\* validated again.
Target(u) ==
  /\ Goes(u, "idle", "target")
  /\ Validate \/ (validated /\ UNCHANGED sVars)
  /\ UNCHANGED << owned, kVars, mgr, part, cVars >>

\* Mounts reads s.mounts in a critical section of its own.
GetMounts(u) ==
  /\ Goes(u, "target", "ready")
  /\ mgr' = [mgr EXCEPT ![u] = mounts]
  /\ UNCHANGED << sVars, owned, kVars, part, cVars >>

-----------------------------------------------------------------------------
(* MountManager.                                                           *)

Holding(u, m, p) ==
  /\ Goes(u, "ready", "using")
  /\ part' = [part EXCEPT ![u] = p]

\* Mutant: the reference is not counted.
MountAgainUncounted(u, m, p) ==
  /\ owned[m][p] > 0
  /\ Holding(u, m, p)
  /\ UNCHANGED << owned, kVars >>

\* Mounted already by this manager: one more reference.
MountAgain(u, m, p) ==
  /\ owned[m][p] > 0
  /\ owned' = [owned EXCEPT ![m][p] = @ + 1]
  /\ Holding(u, m, p)
  /\ UNCHANGED kVars

MountNew(u, m, p) ==
  /\ owned[m][p] = 0 /\ kernel[DirOf[p]] = Nothing
  /\ kernel' = [kernel EXCEPT ![DirOf[p]] = p]
  /\ ours' = ours \cup {DirOf[p]}
  /\ owned' = [owned EXCEPT ![m][p] = 1]
  /\ Holding(u, m, p)
  /\ UNCHANGED refused

\* The directory is a mount already, or the command fails: With returns the
\* error and so does its caller.
MountFails(u, m, p) ==
  /\ owned[m][p] = 0
  /\ Goes(u, "ready", "idle")
  /\ UNCHANGED << owned, kVars, part >>

Mount(u) ==
  /\ mgr[u] # NoManager
  /\ \E p \in Partitions : \/ MountAgain(u, mgr[u], p) \/ MountNew(u, mgr[u], p)
                           \/ MountFails(u, mgr[u], p)
  /\ UNCHANGED << sVars, mgr, cVars >>

\* A nil manager: Mount locks a mutex that is not there.
NilManager(u) ==
  /\ at[u] = "ready" /\ mgr[u] = NoManager
  /\ process' = "crashed"
  /\ UNCHANGED << sVars, owned, kVars, uVars, main, closing, closes, closed >>

\* Commands that release the directories ds: those in no are refused, which
\* needs someone in them.
Releases(ds, no) ==
  /\ no \subseteq ds /\ \A d \in no : Busy \/ InUse(d)
  /\ kernel' = [d \in Dirs |-> IF d \in ds \ no THEN Nothing ELSE kernel[d]]
  /\ ours' = ours \ (ds \ no)
  /\ refused' = (refused \ (ds \ no)) \cup (no \cap ours)

\* Mutant: the first to leave unmounts.
UnmountAtOnce(m, p) ==
  /\ owned[m][p] > 0
  /\ owned' = [owned EXCEPT ![m][p] = 0]
  /\ \E no \in SUBSET {DirOf[p]} : Releases({DirOf[p]}, no)

\* unmountLocked, last reference: the entry goes before the command runs.
UnmountLast(m, p) ==
  /\ owned[m][p] = 1
  /\ owned' = [owned EXCEPT ![m][p] = 0]
  /\ \E no \in SUBSET {DirOf[p]} : Releases({DirOf[p]}, no)

\* Not the last one, or not in the map: Close has been here.
UnmountEarlier(m, p) ==
  /\ owned[m][p] # 1
  /\ owned' = [owned EXCEPT ![m][p] = IF @ > 1 THEN @ - 1 ELSE 0]
  /\ UNCHANGED kVars

\* fn has ended, and so does With.
Unmount(u) ==
  /\ Goes(u, "using", "ready")
  /\ part' = [part EXCEPT ![u] = Nothing]
  /\ UnmountLast(mgr[u], part[u]) \/ UnmountEarlier(mgr[u], part[u])
  /\ UNCHANGED << sVars, mgr, cVars >>

\* The operation that asked for the manager is over.
Return(u) ==
  /\ Goes(u, "ready", "idle")
  /\ mgr' = [mgr EXCEPT ![u] = NoManager]
  /\ UNCHANGED << sVars, owned, kVars, part, cVars >>

-----------------------------------------------------------------------------
(* Close.  The interface calls it when it quits, the command line again at    *)
(* its end; the goroutines of the interface run on.                           *)

CloseServices ==
  /\ main = "open" /\ closes < 2
  /\ closing' = mounts /\ mounts' = NoManager
  /\ main' = "closing"
  /\ UNCHANGED << validated, created, owned, kVars, uVars, closes, closed, process >>

\* MountManager.Close: every entry goes, whoever still holds it.
CloseManager(m) ==
  /\ closed' = closed \cup {m}
  /\ owned' = [owned EXCEPT ![m] = [p \in Partitions |-> 0]]
  /\ LET ds == {DirOf[p] : p \in {q \in Partitions : owned[m][q] > 0}}
     IN  \E no \in SUBSET ds : Releases(ds, no)

CloseMounts ==
  /\ main = "closing" /\ main' = "open"
  /\ \/ closing = NoManager /\ UNCHANGED << owned, kVars, closed >>
     \/ closing # NoManager /\ CloseManager(closing)
  /\ closing' = NoManager
  /\ closes' = closes + 1
  /\ UNCHANGED << sVars, uVars, process >>

Exit ==
  /\ main = "open" /\ closes = 2
  /\ process' = "exited"
  /\ UNCHANGED << sVars, owned, kVars, uVars, main, closing, closes, closed >>

User(u) ==
  \/ Target(u) \/ GetMounts(u) \/ Mount(u) \/ NilManager(u) \/ Unmount(u)
  \/ Return(u)

Close == CloseServices \/ CloseMounts

MountNext == process = "alive" /\ ((\E u \in Users : User(u)) \/ Close \/ Exit)

MountSpec == MountInit /\ [][MountNext]_mountVars

-----------------------------------------------------------------------------
(* Properties.                                                             *)

(* "bumps a reference count instead of mounting again ... the partition is     *)
(* released only when the last of them is done": until it is closed, a manager's *)
(* count of a partition is the number of goroutines that hold it.              *)
RefsCountHolders ==
  \A m \in Managers \ closed, p \in Partitions :
    owned[m][p] = Cardinality({u \in Users : Holds(u, m, p)})

(* "nested callers each get a valid path": whoever is inside With has its own  *)
(* partition under the path, until the manager is closed.                      *)
HeldIsMounted ==
  \A u \in Users : at[u] = "using" /\ mgr[u] \notin closed =>
    kernel[DirOf[part[u]]] = part[u]

(* "every mount this process did create is released on exit": none is lost     *)
(* sight of.  A mount the process made is in the map of a manager that will be *)
(* closed, or of one that was closed under the goroutine that made it, unless  *)
(* its unmount was refused.                                                    *)
NoneLost ==
  \A d \in ours \ refused :
    \E m \in Managers, p \in Partitions :
      /\ owned[m][p] > 0 /\ DirOf[p] = d /\ kernel[d] = p
      /\ m \in closed \/ m \in {mounts, closing}

(* The two together, which is what a mount is for: there while somebody needs  *)
(* it, and found again by whoever has to release it.                           *)
HeldAndReleased == HeldIsMounted /\ NoneLost

(* "a mount this process did not create is never unmounted", nor covered.      *)
ForeignUntouched ==
  [][\A d \in Dirs : kernel[d] = Foreign => kernel'[d] = Foreign]_mountVars
=============================================================================
