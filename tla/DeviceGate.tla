----------------------------- MODULE DeviceGate -----------------------------
(***************************************************************************)
(* Which disk an operation's writes reach.  The drive is configured by a   *)
(* /dev/disk/by-id link; drive.Validate resolves it to a kernel name and   *)
(* cross-checks what stands behind that name, app.Services caches the      *)
(* target and builds the mount manager once, and every operation then      *)
(* works on a kernel name while disks come and go behind it.  Several      *)
(* operations run at once: the queue's worker, a removal, a listing, an    *)
(* artwork sync, in one process or in two.                                 *)
(*                                                                         *)
(* Source: internal/drive/safety.go, identify.go, lsblk.go and             *)
(* internal/app/services.go, install.go, remove.go, assets.go.             *)
(***************************************************************************)
EXTENDS Naturals, FiniteSets

CONSTANTS
  Paths,        \* the kernel names: /dev/sda, /dev/sdb
  Disks,        \* the disks that can be attached
  Configured,   \* the disk the configured by-id link was made for
  APA,          \* the disks whose first sector carries an APA table
  Mounted,      \* the disks with a filesystem this machine has mounted
  Ops,          \* the operations
  Lsblk,        \* how lsblk may answer, of {"speaks", "no serial", "absent"}
  Mixes,        \* what they may be: a set of functions from Ops to Kinds
  Procs,        \* the processes they run in
  MaxMoves,     \* how often a disk may be unplugged or moved
  None

ASSUME DeviceAssumption ==
  /\ Configured \in Disks /\ Configured \in APA \ Mounted
  /\ None \notin Paths \cup Disks \cup Ops
  /\ MaxMoves \in Nat /\ Paths # {}

\* What an operation is: hdl_dump's install, pfsshell's removal and partition
\* creation write the table; "files" (PS1 install and removal, the runtime
\* import) and "repair" (launchers) write through a PFS mount, as does "sync"
\* (artwork), which takes no lock; "list" only reads.
TableKinds == {"install", "remove", "create"}
FileKinds == {"files", "repair", "sync"}
\* The operations that ask for Target(ctx, false): the cached one will do.
CachedKinds == {"repair", "sync", "list"}
Kinds == TableKinds \cup FileKinds \cup {"list"}

ASSUME MixesAssumption == Mixes \subseteq [Ops -> Kinds]

\* The partition an operation makes or deletes.
NameOf(k) == IF k = "create" THEN "pops" ELSE "title"

VARIABLES
  at,        \* the disk behind each kernel name
  link,      \* what the by-id link resolves to
  moves,     \* replugs so far
  partitions, \* the partitions of each disk's APA table
  files,     \* the operations whose files are on each disk
  kind,      \* what each operation does
  proc,      \* the process it runs in
  pc,        \* where it stands
  path,      \* Target.Path of its own validation
  blind,     \* the identity cross-check was skipped
  seen,      \* `moves` when the operation began
  mount,     \* the disk behind the PFS mount it holds
  target,    \* Services.target of each process
  mgr,       \* MountManager.Device of each process: Services.mounts
  lock,      \* the holder of Services.hddLock
  closed     \* the processes whose Services were closed

world == <<at, link, moves>>
disks == <<partitions, files>>
op == <<kind, proc, pc, path, blind, seen, mount>>
services == <<target, mgr, lock, closed>>
vars == <<world, disks, op, services>>

Init ==
  /\ link = CHOOSE p \in Paths : TRUE
  /\ at = [p \in Paths |-> IF p = link THEN Configured ELSE None]
  /\ moves = 0
  /\ \E n \in {"title", "pops"} : partitions = [d \in Disks |-> IF d \in APA THEN {n} ELSE {}]
  /\ files = [d \in Disks |-> {}]
  /\ kind \in Mixes
  /\ proc \in [Ops -> Procs]
  /\ pc = [o \in Ops |-> "idle"]
  /\ path = [o \in Ops |-> None]
  /\ blind = [o \in Ops |-> FALSE]
  /\ seen = [o \in Ops |-> 0]
  /\ mount = [o \in Ops |-> None]
  /\ target = [q \in Procs |-> None]
  /\ mgr = [q \in Procs |-> None]
  /\ lock = [q \in Procs |-> None]
  /\ closed = {}

-----------------------------------------------------------------------------
\* A disk is unplugged, or comes back under another name, and another disk may
\* take the name it had.
Move(d, p) ==
  /\ moves < MaxMoves
  /\ \/ p = None /\ \E q \in Paths : at[q] = d
     \/ p \in Paths /\ at[p] = None
  /\ at' = [q \in Paths |-> IF q = p THEN d ELSE IF at[q] = d THEN None ELSE at[q]]
  /\ moves' = moves + 1
  /\ UNCHANGED <<link, disks, op, services>>

\* udev rewrites the link some time after the disk moved.
Udev ==
  LET home == {p \in Paths : at[p] = Configured}
  IN  /\ link' = IF home = {} THEN None ELSE CHOOSE p \in home : TRUE
      /\ link' # link
      /\ UNCHANGED <<at, moves, disks, op, services>>

\* An operation that ends gives the lock back (defer unlock()) and releases its
\* mount (MountManager.With); its own variables go with its stack.
Finish(o, how) ==
  /\ pc' = [pc EXCEPT ![o] = how]
  /\ mount' = [mount EXCEPT ![o] = None]
  /\ lock' = [q \in Procs |-> IF lock[q] = o THEN None ELSE lock[q]]
  /\ path' = [path EXCEPT ![o] = None]
  /\ blind' = [blind EXCEPT ![o] = FALSE]
  /\ seen' = [seen EXCEPT ![o] = 0]

\* An operation goes on, with what it knows of its target.
Goto(o, where, p, b) ==
  /\ pc' = [pc EXCEPT ![o] = where]
  /\ path' = [path EXCEPT ![o] = p]
  /\ blind' = [blind EXCEPT ![o] = b]
  /\ UNCHANGED <<mount, lock, seen>>

Proceed(o, where) == Goto(o, where, path[o], blind[o])

\* MUTANT: a write takes the cached target too.
BeginCached(o) ==
  /\ pc[o] = "idle" /\ proc[o] \notin closed
  /\ LET t == target[proc[o]]
     IN  IF t # None
         THEN pc' = [pc EXCEPT ![o] = "check"] /\ path' = [path EXCEPT ![o] = t]
         ELSE pc' = [pc EXCEPT ![o] = "resolve"] /\ UNCHANGED path
  /\ seen' = [seen EXCEPT ![o] = moves]
  /\ UNCHANGED <<world, disks, kind, proc, blind, mount, services>>

\* Services.Target: a write always validates again, a read takes the cache.
Begin(o) ==
  /\ pc[o] = "idle" /\ proc[o] \notin closed
  /\ LET t == target[proc[o]]
     IN  IF kind[o] \in CachedKinds /\ t # None
         THEN pc' = [pc EXCEPT ![o] = "check"] /\ path' = [path EXCEPT ![o] = t]
         ELSE pc' = [pc EXCEPT ![o] = "resolve"] /\ UNCHANGED path
  /\ seen' = [seen EXCEPT ![o] = moves]
  /\ UNCHANGED <<world, disks, kind, proc, blind, mount, services>>

\* Validate (1)-(3): a stable name that exists and leads to a device.
Resolve(o) ==
  /\ pc[o] = "resolve"
  /\ IF link = None \/ at[link] = None
     THEN Finish(o, "refused")
     ELSE Goto(o, "identify", link, FALSE)
  /\ UNCHANGED <<world, disks, kind, proc, target, mgr, closed>>

\* What the by-id name says of serial and model is not what lsblk reports
\* (hintedSerial, modelConsistent).  A name is made for one disk.
Contradicts(lsblk, d) == lsblk = "speaks" /\ d # Configured

\* checkIdentity (4) (5) (12) (13): lsblk may be missing or unable to read
\* serials, and then the check is skipped with a warning.
Identify(o) ==
  /\ pc[o] = "identify"
  /\ \E lsblk \in Lsblk :
       LET behind == at[path[o]]
       IN  IF \/ lsblk # "absent" /\ behind = None
              \/ Contradicts(lsblk, behind)
           THEN Finish(o, "refused")
           ELSE Goto(o, "admit", path[o], lsblk # "speaks")
  /\ UNCHANGED <<world, disks, kind, proc, target, mgr, closed>>

\* checkNotSystemDisk (9)-(11): the mount table names the disk or a part of it.
OnSystemDisk(d) == d \in Mounted

\* MUTANT: the mount table is consulted only for a disk whose identity is known.
AdmitSighted(o) ==
  LET q == proc[o]
      behind == at[path[o]]
  IN  /\ pc[o] = "admit"
      /\ IF (OnSystemDisk(behind) /\ ~blind[o]) \/ behind \notin APA
         THEN Finish(o, "refused") /\ UNCHANGED <<target, mgr>>
         ELSE /\ target' = [target EXCEPT ![q] = path[o]]
              /\ mgr' = [mgr EXCEPT ![q] = IF @ = None THEN path[o] ELSE @]
              /\ Proceed(o, "check")
      /\ UNCHANGED <<world, disks, kind, proc, closed>>

\* The system disk (9)-(11), capacity and the APA header (6)-(8); then
\* Services.validate caches the target and makes the mount manager if there is
\* none.
Admit(o) ==
  LET q == proc[o]
      behind == at[path[o]]
  IN  /\ pc[o] = "admit"
      /\ IF OnSystemDisk(behind) \/ behind \notin APA
         THEN Finish(o, "refused") /\ UNCHANGED <<target, mgr>>
         ELSE /\ target' = [target EXCEPT ![q] = path[o]]
              /\ mgr' = [mgr EXCEPT ![q] = IF @ = None THEN path[o] ELSE @]
              /\ Proceed(o, "check")
      /\ UNCHANGED <<world, disks, kind, proc, closed>>

\* The questions asked before anything is written, without the lock: an install
\* and a creation read the table, a file operation asks whether __.POPS is there
\* (Readiness, on the cached target), a removal and a sync ask nothing.
Check(o) ==
  LET k == kind[o]
      asked == IF k \in {"files", "repair", "list"} THEN target[proc[o]] ELSE path[o]
      unread == k \notin {"remove", "sync"} /\ at[asked] = None
      refused == IF k \in {"install", "create"} THEN NameOf(k) \in partitions[at[asked]]
                 ELSE k \in {"files", "repair"} /\ "pops" \notin partitions[at[asked]]
  IN  /\ pc[o] = "check"
      /\ IF unread THEN Finish(o, "failed")
         ELSE IF refused THEN Finish(o, "refused")
         ELSE Proceed(o, IF k \in {"sync", "list"} THEN "mounts" ELSE "lock")
      /\ UNCHANGED <<world, disks, kind, proc, target, mgr, closed>>

\* LockHDD: a process's raw mutations one at a time.
Acquire(o) ==
  /\ pc[o] = "lock" /\ lock[proc[o]] = None
  /\ lock' = [lock EXCEPT ![proc[o]] = o]
  /\ pc' = [pc EXCEPT ![o] = IF kind[o] \in TableKinds THEN "write" ELSE "mounts"]
  /\ UNCHANGED <<world, disks, kind, proc, path, blind, seen, mount, target, mgr, closed>>

\* hdl_dump or pfsshell on Target.Path.  hdl_dump's failure ends the
\* operation; pfsshell exits 0 whether or not it did anything.
Write(o) ==
  LET d == at[path[o]]
      n == NameOf(kind[o])
  IN  /\ pc[o] = "write"
      /\ \/ /\ d # None
            /\ partitions' = [partitions EXCEPT ![d] = IF kind[o] = "remove" THEN @ \ {n} ELSE @ \cup {n}]
            /\ Proceed(o, "confirm")
         \/ /\ IF kind[o] = "install" THEN Finish(o, "failed") ELSE Proceed(o, "confirm")
            /\ UNCHANGED partitions
      /\ UNCHANGED <<world, files, kind, proc, target, mgr, closed>>

\* The table is read back: by an install on the cached target, by the others on
\* their own.
Confirm(o) ==
  LET d == at[IF kind[o] = "install" THEN target[proc[o]] ELSE path[o]]
  IN  /\ pc[o] = "confirm"
      /\ IF d # None /\ ((NameOf(kind[o]) \in partitions[d]) <=> (kind[o] # "remove"))
         THEN Finish(o, "ok") ELSE Finish(o, "failed")
      /\ UNCHANGED <<world, disks, kind, proc, target, mgr, closed>>

\* Services.Mounts and MountManager.With: pfsfuse opens the manager's device.
\* After Close the target is still cached and the manager is nil.
Mount(o) ==
  LET m == mgr[proc[o]]
  IN  /\ pc[o] = "mounts"
      /\ IF m = None THEN Finish(o, "panicked")
         ELSE IF at[m] = None \/ "pops" \notin partitions[at[m]] THEN Finish(o, "failed")
         ELSE /\ mount' = [mount EXCEPT ![o] = at[m]]
              /\ pc' = [pc EXCEPT ![o] = "files"]
              /\ UNCHANGED <<lock, path, blind, seen>>
      /\ UNCHANGED <<world, disks, kind, proc, target, mgr, closed>>

\* MUTANT: the lock is given back only by an operation whose files were written.
FilesKeepLock(o) ==
  LET d == mount[o]
  IN  /\ pc[o] = "files"
      /\ IF d # None /\ \E p \in Paths : at[p] = d
         THEN /\ files' = IF kind[o] = "list" THEN files ELSE [files EXCEPT ![d] = @ \cup {o}]
              /\ Finish(o, "ok")
         ELSE /\ pc' = [pc EXCEPT ![o] = "failed"]
              /\ UNCHANGED <<files, mount, lock, path, blind, seen>>
      /\ UNCHANGED <<world, partitions, kind, proc, target, mgr, closed>>

\* The files are copied through the mount; it dies with the disk, and Close
\* takes it away.
Files(o) ==
  LET d == mount[o]
  IN  /\ pc[o] = "files"
      /\ IF d # None /\ \E p \in Paths : at[p] = d
         THEN /\ files' = IF kind[o] = "list" THEN files ELSE [files EXCEPT ![d] = @ \cup {o}]
              /\ Finish(o, "ok")
         ELSE Finish(o, "failed") /\ UNCHANGED files
      /\ UNCHANGED <<world, partitions, kind, proc, target, mgr, closed>>

\* Services.Close, when the interface ends with operations still running.
Close(q) ==
  /\ q \notin closed /\ target[q] # None
  /\ closed' = closed \cup {q}
  /\ mgr' = [mgr EXCEPT ![q] = None]
  /\ mount' = [o \in Ops |-> IF proc[o] = q THEN None ELSE mount[o]]
  /\ UNCHANGED <<world, disks, kind, proc, pc, path, blind, seen, target, lock>>

Work(o) ==
  \/ Resolve(o) \/ Identify(o) \/ Admit(o) \/ Check(o)
  \/ Write(o) \/ Confirm(o) \/ Mount(o) \/ Files(o)

Next ==
  \/ \E d \in Disks, p \in Paths \cup {None} : Move(d, p)
  \/ Udev
  \/ \E o \in Ops : Begin(o) \/ Work(o) \/ Acquire(o)
  \/ \E q \in Procs : Close(q)

Spec == Init /\ [][Next]_vars
-----------------------------------------------------------------------------
Ends == {"ok", "failed", "refused", "panicked"}

\* Types of the state.
GTypeOK ==
  /\ at \in [Paths -> Disks \cup {None}] /\ link \in Paths \cup {None}
  /\ moves \in 0 .. MaxMoves
  /\ partitions \in [Disks -> SUBSET {"title", "pops"}]
  /\ files \in [Disks -> SUBSET Ops]
  /\ kind \in [Ops -> Kinds] /\ proc \in [Ops -> Procs]
  /\ pc \in [Ops -> Ends \cup {"idle", "resolve", "identify", "admit", "check",
                               "lock", "write", "confirm", "mounts", "files"}]
  /\ path \in [Ops -> Paths \cup {None}]
  /\ blind \in [Ops -> BOOLEAN] /\ seen \in [Ops -> 0 .. MaxMoves]
  /\ mount \in [Ops -> Disks \cup {None}]
  /\ target \in [Procs -> Paths \cup {None}] /\ mgr \in [Procs -> Paths \cup {None}]
  /\ lock \in [Procs -> Ops \cup {None}]
  /\ closed \subseteq Procs

\* Operation o's step changes what is on disk d.
Wrote(o, d) == pc'[o] # pc[o] /\ <<partitions[d], files[d]>>' # <<partitions[d], files[d]>>

\* The cross-check ran and no disk has moved since the operation began.
Sighted(o) == ~blind[o] /\ seen[o] = moves

\* A replug that happened before an operation began is never missed: with the
\* identity cross-check in place, an operation writes on another disk only
\* after a disk moved under it -- or through the mount manager, when the manager
\* still has an earlier target's path or the operation did not validate at all
\* (services.go Target, validate; safety.go checkIdentity).
SwapSeen ==
  [][\A o \in Ops : \A d \in Disks \ {Configured} :
       Wrote(o, d) /\ Sighted(o)
         => /\ kind[o] \in FileKinds
            /\ kind[o] \in CachedKinds \/ mgr[proc[o]] # path[o]]_vars

\* Even with the cross-check skipped, an operation never writes a partition
\* table it did not find, nor one of a disk this machine has mounted, unless a
\* disk moved after the operation began (safety.go Validate (7) (9)-(11)).
HostDiskSafe ==
  [][\A o \in Ops : \A d \in Disks \ (APA \ Mounted) :
       ~ (Wrote(o, d) /\ seen[o] = moves /\ kind[o] \in TableKinds)]_vars

\* Where an operation stands while it holds the lock.
Holding(o) ==
  \/ pc[o] \in {"write", "confirm"}
  \/ pc[o] \in {"mounts", "files"} /\ kind[o] \in {"files", "repair"}

\* The raw mutations of a process never overlap, and the lock comes back on every
\* way out: it is held exactly by the operation that is between taking it and
\* its end, whatever failed, whatever was closed (services.go:455 LockHDD and the
\* defer unlock() of its callers).
LockIsLive == \A o \in Ops : lock[proc[o]] = o <=> Holding(o)

\* What services.go:96 and install.go:229 say: a write validates the device
\* again, so it reaches the disk that was validated.
FilesReachValidated ==
  [][\A o \in Ops : \A d \in Disks \ {Configured} :
       ~ (Wrote(o, d) /\ Sighted(o) /\ kind[o] = "files")]_vars
=============================================================================
