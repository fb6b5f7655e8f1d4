----------------------------- MODULE DriveProofs -----------------------------
(***************************************************************************)
(* What is guaranteed of the drive whatever the constants: by DeviceGate,  *)
(* for any number of disks, names, operations, processes and moves, which  *)
(* disk a write may reach, and a lock that comes back on every way out; by *)
(* ApaAlloc, for any drives, titles and sizes, what a title takes of the   *)
(* drive and that a plan is kept.                                          *)
(***************************************************************************)
EXTENDS DeviceGate, ApaAlloc, FoldLemmas

-----------------------------------------------------------------------------
(* Which disk a write reaches. *)

\* Where an operation's identity check is behind it, and where its target has been
\* admitted.
Identified == {"admit", "check", "lock", "write", "confirm", "mounts", "files"}
Admitted == Identified \ {"admit"}

\* A target that was validated stands for the configured disk, and for one with an
\* APA table that this machine has not mounted, until a disk moves.
Validated(o) ==
  /\ pc[o] \in Identified \cup {"identify"} => path[o] \in Paths
  /\ pc[o] \in Identified /\ Sighted(o) => at[path[o]] = Configured
  /\ pc[o] \in Admitted /\ seen[o] = moves => at[path[o]] \in APA \ Mounted

\* A mount that is held stands for what is behind the manager's device, until a disk
\* moves.
Behind(o) ==
  pc[o] = "files" /\ mount[o] # None /\ seen[o] = moves =>
    mgr[proc[o]] \in Paths /\ mount[o] = at[mgr[proc[o]]]

\* What an operation is decides where it stands: a listing and an artwork sync never
\* ask for the lock, and only the writers of the table write it.
Asks(o) ==
  /\ pc[o] = "lock" => kind[o] \notin {"sync", "list"}
  /\ pc[o] \in {"write", "confirm"} => kind[o] \in TableKinds
  /\ pc[o] \in {"mounts", "files"} => kind[o] \in FileKinds \cup {"list"}

\* The inductive invariant.
DInv ==
  /\ GTypeOK
  /\ \A o \in Ops : seen[o] <= moves
  /\ \A o \in Ops : kind[o] \notin CachedKinds => Validated(o)
  /\ \A o \in Ops : Behind(o) /\ Asks(o)
  /\ LockIsLive

-----------------------------------------------------------------------------
\* A step of an operation leaves the world and the other operations alone: their
\* program counters, their targets, their mounts and whether they hold their lock.
LEMMA OthersStay ==
  ASSUME GTypeOK, NEW o \in Ops, Begin(o) \/ Work(o) \/ Acquire(o), LockIsLive
  PROVE  /\ UNCHANGED <<at, moves, kind, proc>>
         /\ \A u \in Ops \ {o} : /\ pc'[u] = pc[u] /\ path'[u] = path[u] /\ blind'[u] = blind[u]
                                 /\ seen'[u] = seen[u] /\ mount'[u] = mount[u]
                                 /\ lock'[proc[u]] = u <=> lock[proc[u]] = u
         /\ \A q \in Procs : mgr[q] # None => mgr'[q] = mgr[q]
<1> USE DeviceAssumption DEF GTypeOK
<1>1. CASE Begin(o)
  BY <1>1 DEF Begin, world, disks, services
<1>2. CASE Acquire(o)
  BY <1>2 DEF Acquire, world, disks
<1>3. CASE Resolve(o)
  BY <1>3 DEF Resolve, Finish, Goto, world, disks
<1>4. CASE Identify(o)
  BY <1>4 DEF Identify, Finish, Goto, world, disks
<1>5. CASE Admit(o)
  BY <1>5 DEF Admit, Finish, Goto, Proceed, world, disks
<1>6. CASE Check(o)
  BY <1>6 DEF Check, Finish, Goto, Proceed, world, disks
<1>7. CASE Write(o)
  BY <1>7 DEF Write, Finish, Goto, Proceed, world
<1>8. CASE Confirm(o)
  BY <1>8 DEF Confirm, Finish, Goto, Proceed, world, disks
<1>9. CASE Mount(o)
  BY <1>9 DEF Mount, Finish, world, disks
<1>10. CASE Files(o)
  BY <1>10 DEF Files, Finish, world
<1> QED BY <1>1, <1>2, <1>3, <1>4, <1>5, <1>6, <1>7, <1>8, <1>9, <1>10 DEF Work

\* The part of the types that an operation's own variables have.
Places == Ends \cup {"idle", "resolve", "identify", "admit", "check",
                     "lock", "write", "confirm", "mounts", "files"}
OpTypes ==
  /\ pc \in [Ops -> Places] /\ path \in [Ops -> Paths \cup {None}]
  /\ blind \in [Ops -> BOOLEAN] /\ seen \in [Ops -> 0 .. MaxMoves]
  /\ mount \in [Ops -> Disks \cup {None}] /\ lock \in [Procs -> Ops \cup {None}]

\* An operation that ends, and one that goes on with a target, keep them.
LEMMA FinishTypes ==
  ASSUME OpTypes, NEW o \in Ops, NEW how \in Ends, Finish(o, how)
  PROVE  OpTypes'
BY DeviceAssumption DEF OpTypes, Finish, Places

LEMMA GotoTypes ==
  ASSUME OpTypes, NEW o \in Ops, NEW where \in Places, NEW p \in Paths \cup {None},
         NEW b \in BOOLEAN, Goto(o, where, p, b)
  PROVE  OpTypes'
BY DEF OpTypes, Goto

LEMMA ProceedTypes ==
  ASSUME OpTypes, NEW o \in Ops, NEW where \in Places, Proceed(o, where)
  PROVE  OpTypes'
<1>1. path[o] \in Paths \cup {None} /\ blind[o] \in BOOLEAN
  BY DEF OpTypes
<1> QED BY <1>1, GotoTypes DEF Proceed

\* Types: every operation and every move keeps them.
LEMMA InitTypes == Init => GTypeOK
<1>1. (CHOOSE p \in Paths : TRUE) \in Paths
  BY DeviceAssumption
<1> QED BY <1>1, DeviceAssumption, MixesAssumption DEF Init, GTypeOK

LEMMA NextTypes == ASSUME GTypeOK, [Next]_vars PROVE GTypeOK'
<1> USE DeviceAssumption
<1>2. GTypeOK'
  <2> USE DEF GTypeOK
  <2>1. ASSUME NEW d \in Disks, NEW p \in Paths \cup {None}, Move(d, p) PROVE GTypeOK'
    BY <2>1 DEF Move, disks, op, services
  <2>2. CASE Udev
    <3>1. LET home == {p \in Paths : at[p] = Configured}
          IN  home # {} => (CHOOSE p \in home : TRUE) \in Paths
      OBVIOUS
    <3> QED BY <2>2, <3>1 DEF Udev, disks, op, services
  <2>3. ASSUME NEW o \in Ops, Begin(o) PROVE GTypeOK'
    BY <2>3 DEF Begin, world, disks, services
  <2>4. ASSUME NEW o \in Ops, Acquire(o) PROVE GTypeOK'
    BY <2>4 DEF Acquire, world, disks
  <2>5. ASSUME NEW o \in Ops, Resolve(o) PROVE GTypeOK'
    <3>1. OpTypes'
      BY <2>5, FinishTypes, GotoTypes DEF Resolve, Ends, Places, OpTypes
    <3> QED BY <2>5, <3>1 DEF Resolve, world, disks, OpTypes, Places
  <2>6. ASSUME NEW o \in Ops, Identify(o) PROVE GTypeOK'
    <3>1. OpTypes'
      BY <2>6, FinishTypes, GotoTypes DEF Identify, Ends, Places, OpTypes
    <3> QED BY <2>6, <3>1 DEF Identify, world, disks, OpTypes, Places
  <2>7. ASSUME NEW o \in Ops, Admit(o) PROVE GTypeOK'
    <3>1. OpTypes'
      BY <2>7, FinishTypes, ProceedTypes DEF Admit, Ends, Places, OpTypes
    <3> QED BY <2>7, <3>1 DEF Admit, world, disks, OpTypes, Places
  <2>8. ASSUME NEW o \in Ops, Check(o) PROVE GTypeOK'
    <3>1. OpTypes'
      BY <2>8, FinishTypes, ProceedTypes DEF Check, Ends, Places, OpTypes
    <3> QED BY <2>8, <3>1 DEF Check, world, disks, OpTypes, Places
  <2>9. ASSUME NEW o \in Ops, Write(o) PROVE GTypeOK'
    <3>1. OpTypes'
      BY <2>9, FinishTypes, ProceedTypes DEF Write, Ends, Places, OpTypes
    <3>2. NameOf(kind[o]) \in {"title", "pops"}
      BY DEF NameOf
    <3>3. partitions' \in [Disks -> SUBSET {"title", "pops"}]
      BY <2>9, <3>2 DEF Write
    <3>4. UNCHANGED <<at, link, moves, files, kind, proc, target, mgr, closed>>
      BY <2>9 DEF Write, world
    <3> QED BY <3>1, <3>3, <3>4 DEF OpTypes, Places
  <2>10. ASSUME NEW o \in Ops, Confirm(o) PROVE GTypeOK'
    <3>1. OpTypes'
      BY <2>10, FinishTypes, ProceedTypes DEF Confirm, Ends, Places, OpTypes
    <3> QED BY <2>10, <3>1 DEF Confirm, world, disks, OpTypes, Places
  <2>11. ASSUME NEW o \in Ops, Mount(o) PROVE GTypeOK'
    <3>1. OpTypes'
      <4>1. CASE \E how \in Ends : Finish(o, how)
        BY <4>1, FinishTypes DEF OpTypes, Places
      <4>2. CASE ~ \E how \in Ends : Finish(o, how)
        BY <2>11, <4>2 DEF Mount, OpTypes, Places, Ends
      <4> QED BY <4>1, <4>2
    <3> QED BY <2>11, <3>1 DEF Mount, world, disks, OpTypes, Places
  <2>12. ASSUME NEW o \in Ops, Files(o) PROVE GTypeOK'
    <3>1. OpTypes'
      BY <2>12, FinishTypes, ProceedTypes DEF Files, Ends, Places, OpTypes
    <3>2. files' \in [Disks -> SUBSET Ops]
      BY <2>12 DEF Files
    <3>3. UNCHANGED <<at, link, moves, partitions, kind, proc, target, mgr, closed>>
      BY <2>12 DEF Files, world
    <3> QED BY <3>1, <3>2, <3>3 DEF OpTypes, Places
  <2>13. ASSUME NEW q \in Procs, Close(q) PROVE GTypeOK'
    BY <2>13 DEF Close, world, disks
  <2>14. CASE UNCHANGED vars
    BY <2>14 DEF vars, world, disks, op, services
  <2> QED BY <2>1, <2>2, <2>3, <2>4, <2>5, <2>6, <2>7, <2>8, <2>9, <2>10, <2>11, <2>12,
             <2>13, <2>14 DEF Next, Work
<1> QED BY <1>2

\* Type correctness.
THEOREM DeviceTypes == Spec => []GTypeOK
BY InitTypes, NextTypes, PTL DEF Spec

-----------------------------------------------------------------------------
\* The lock.  An operation that ends holds nothing, one that goes on holds what it
\* held.
LEMMA LockStep ==
  ASSUME GTypeOK, LockIsLive, NEW o \in Ops, Asks(o), Begin(o) \/ Work(o) \/ Acquire(o)
  PROVE  LockIsLive'
<1> USE DeviceAssumption DEF GTypeOK
<1>1. \A u \in Ops \ {o} : lock'[proc'[u]] = u <=> Holding(u)'
  BY OthersStay DEF LockIsLive, Holding
<1>2. lock'[proc'[o]] = o <=> Holding(o)'
  <2>1. lock[proc[o]] = o <=> Holding(o)
    BY DEF LockIsLive
  <2>2. ASSUME NEW how \in Ends, Finish(o, how), proc' = proc PROVE lock'[proc'[o]] = o <=> Holding(o)'
    BY <2>2 DEF Finish, Holding, Ends
  <2>3. CASE Begin(o)
    BY <2>1, <2>3 DEF Begin, Holding, services
  <2>4. CASE Acquire(o)
    BY <2>1, <2>4 DEF Acquire, Asks, Holding, TableKinds, FileKinds, Kinds
  <2>5. CASE Resolve(o)
    BY <2>1, <2>2, <2>5 DEF Resolve, Goto, Holding, Ends
  <2>6. CASE Identify(o)
    BY <2>1, <2>2, <2>6 DEF Identify, Goto, Holding, Ends
  <2>7. CASE Admit(o)
    BY <2>1, <2>2, <2>7 DEF Admit, Proceed, Goto, Holding, Ends
  <2>8. CASE Check(o)
    BY <2>1, <2>2, <2>8 DEF Check, Proceed, Goto, Holding, Ends
  <2>9. CASE Write(o)
    <3>1. CASE Proceed(o, "confirm")
      BY <2>1, <2>9, <3>1 DEF Write, Proceed, Goto, Holding
    <3>2. CASE Finish(o, "failed")
      BY <2>2, <2>9, <3>2 DEF Write, Ends
    <3> QED BY <2>9, <3>1, <3>2 DEF Write
  <2>10. CASE Confirm(o)
    BY <2>1, <2>2, <2>10 DEF Confirm, Holding, Ends
  <2>11. CASE Mount(o)
    BY <2>1, <2>2, <2>11 DEF Mount, Holding, Ends
  <2>12. CASE Files(o)
    BY <2>1, <2>2, <2>12 DEF Files, Holding, Ends
  <2> QED BY <2>3, <2>4, <2>5, <2>6, <2>7, <2>8, <2>9, <2>10, <2>11, <2>12 DEF Work
<1> QED BY <1>1, <1>2 DEF LockIsLive

\* The target.  The identity check and the admission look at the disk itself; what
\* they saw stands while no disk moves.
LEMMA ValidatedStep ==
  ASSUME GTypeOK, NEW o \in Ops, kind[o] \notin CachedKinds, seen[o] <= moves, Validated(o),
         Begin(o) \/ Work(o) \/ Acquire(o), LockIsLive
  PROVE  Validated(o)'
<1> USE DeviceAssumption DEF GTypeOK
<1>0. UNCHANGED <<at, moves>>
  BY OthersStay
<1>1. ASSUME NEW how \in Ends, Finish(o, how) PROVE Validated(o)'
  BY <1>1 DEF Finish, Validated, Identified, Admitted, Ends
<1>2. CASE Begin(o)
  BY <1>2 DEF Begin, Validated, Identified, Admitted
<1>3. CASE Acquire(o)
  BY <1>3, <1>0 DEF Acquire, Validated, Identified, Admitted, Sighted
<1>4. CASE Resolve(o)
  BY <1>4, <1>1 DEF Resolve, Goto, Validated, Identified, Admitted, Ends
<1>5. CASE Identify(o)
  <2>1. ASSUME NEW lsblk \in Lsblk, Goto(o, "admit", path[o], lsblk # "speaks"),
               lsblk = "speaks" => at[path[o]] = Configured, pc[o] = "identify"
        PROVE  Validated(o)'
    BY <2>1, <1>0 DEF Goto, Validated, Identified, Admitted, Sighted
  <2> QED BY <1>5, <1>1, <2>1 DEF Identify, Contradicts, Ends
<1>6. CASE Admit(o)
  BY <1>6, <1>1, <1>0 DEF Admit, OnSystemDisk, Proceed, Goto, Validated, Identified, Admitted, Sighted, Ends
<1>7. CASE Check(o)
  BY <1>7, <1>1, <1>0 DEF Check, Proceed, Goto, Validated, Identified, Admitted, Sighted, Ends
<1>8. CASE Write(o)
  BY <1>8, <1>1, <1>0 DEF Write, Proceed, Goto, Validated, Identified, Admitted, Sighted, Ends
<1>9. CASE Confirm(o)
  BY <1>9, <1>1 DEF Confirm, Ends
<1>10. CASE Mount(o)
  BY <1>10, <1>1, <1>0 DEF Mount, Validated, Identified, Admitted, Sighted, Ends
<1>11. CASE Files(o)
  BY <1>11, <1>1 DEF Files, Ends
<1> QED BY <1>2, <1>3, <1>4, <1>5, <1>6, <1>7, <1>8, <1>9, <1>10, <1>11 DEF Work

LEMMA AsksStep ==
  ASSUME GTypeOK, NEW o \in Ops, Asks(o), Begin(o) \/ Work(o) \/ Acquire(o), LockIsLive
  PROVE  Asks(o)'
<1> USE DEF GTypeOK, Asks
<1>1. kind' = kind
  BY OthersStay
<1>2. ASSUME NEW how \in Ends, Finish(o, how) PROVE pc'[o] \in Ends
  BY <1>2 DEF Finish, Ends
<1>3. CASE Begin(o) \/ Acquire(o)
  BY <1>1, <1>3 DEF Begin, Acquire, Kinds
<1>4. CASE Check(o)
  BY <1>1, <1>2, <1>4 DEF Check, Proceed, Goto, Ends, FileKinds
<1>5. CASE Resolve(o) \/ Identify(o) \/ Admit(o)
  BY <1>2, <1>5 DEF Resolve, Identify, Admit, Proceed, Goto, Ends
<1>6. CASE Write(o) \/ Confirm(o)
  BY <1>1, <1>2, <1>6 DEF Write, Confirm, Proceed, Goto, Ends
<1>7. CASE Mount(o) \/ Files(o)
  BY <1>1, <1>2, <1>7 DEF Mount, Files, Ends
<1> QED BY <1>3, <1>4, <1>5, <1>6, <1>7 DEF Work

LEMMA SeenStep ==
  ASSUME GTypeOK, NEW o \in Ops, \A u \in Ops : seen[u] <= moves,
         Begin(o) \/ Work(o) \/ Acquire(o), LockIsLive
  PROVE  \A u \in Ops : seen'[u] <= moves'
<1> USE DEF GTypeOK
<1>1. moves' = moves /\ moves \in Nat /\ \A u \in Ops \ {o} : seen'[u] = seen[u]
  BY OthersStay, DeviceAssumption
<1>2. seen'[o] \in {seen[o], 0, moves}
  <2>1. CASE Begin(o) \/ Acquire(o)
    BY <2>1 DEF Begin, Acquire
  <2>2. CASE Resolve(o) \/ Identify(o) \/ Admit(o)
    BY <2>2 DEF Resolve, Identify, Admit, Proceed, Goto, Finish
  <2>3. CASE Check(o) \/ Write(o) \/ Confirm(o)
    BY <2>3 DEF Check, Write, Confirm, Proceed, Goto, Finish
  <2>4. CASE Mount(o) \/ Files(o)
    BY <2>4 DEF Mount, Files, Finish
  <2> QED BY <2>1, <2>2, <2>3, <2>4, <1>1 DEF Work
<1> QED BY <1>1, <1>2

\* The mount.  The manager's device does not change while it is held.
LEMMA BehindStep ==
  ASSUME GTypeOK, NEW o \in Ops, Behind(o), Begin(o) \/ Work(o) \/ Acquire(o), LockIsLive
  PROVE  Behind(o)'
<1> USE DeviceAssumption DEF GTypeOK, Behind
<1>1. ASSUME NEW how \in Ends, Finish(o, how) PROVE pc'[o] # "files"
  BY <1>1 DEF Finish, Ends
<1>2. CASE Begin(o) \/ Acquire(o)
  BY <1>2 DEF Begin, Acquire
<1>3. CASE Resolve(o) \/ Identify(o) \/ Admit(o)
  BY <1>1, <1>3 DEF Resolve, Identify, Admit, Proceed, Goto, Ends
<1>4. CASE Check(o) \/ Write(o) \/ Confirm(o)
  BY <1>1, <1>4 DEF Check, Write, Confirm, Proceed, Goto, Ends
<1>5. CASE Mount(o)
  BY <1>1, <1>5, OthersStay DEF Mount, Ends
<1>6. CASE Files(o)
  BY <1>1, <1>6 DEF Files, Ends
<1> QED BY <1>2, <1>3, <1>4, <1>5, <1>6 DEF Work

\* The inductive invariant: what an operation knows of its target, its mount and its
\* lock survives whatever the others, the disks and the end of the session do.
THEOREM DeviceInductive == Spec => []DInv
<1> USE DeviceAssumption
<1>1. Init => DInv
  <2> SUFFICES ASSUME Init PROVE DInv
    OBVIOUS
  <2>1. GTypeOK
    BY InitTypes
  <2>2. LockIsLive
    BY DEF Init, LockIsLive, Holding
  <2>3. ASSUME NEW o \in Ops PROVE seen[o] <= moves /\ Validated(o) /\ Behind(o) /\ Asks(o)
    BY DEF Init, Validated, Identified, Admitted, Behind, Asks
  <2> QED BY <2>1, <2>2, <2>3 DEF DInv
<1>2. ASSUME DInv, [Next]_vars PROVE DInv'
  <2> USE DEF DInv
  <2>1. GTypeOK'
    BY <1>2, NextTypes
  <2>2. ASSUME NEW o \in Ops, Begin(o) \/ Work(o) \/ Acquire(o) PROVE DInv'
    <3>1. LockIsLive'
      BY <1>2, <2>2, LockStep
    <3>2. Behind(o)' /\ Asks(o)'
      BY <1>2, <2>2, BehindStep, AsksStep
    <3>3. kind'[o] \notin CachedKinds => Validated(o)'
      BY <1>2, <2>2, ValidatedStep, OthersStay
    <3>4. \A u \in Ops : seen'[u] <= moves'
      BY <1>2, <2>2, SeenStep
    <3>5. ASSUME NEW u \in Ops \ {o}
          PROVE  Behind(u)' /\ Asks(u)' /\ (kind'[u] \notin CachedKinds => Validated(u)')
      <4>1. /\ UNCHANGED <<at, moves, kind, proc>>
            /\ pc'[u] = pc[u] /\ path'[u] = path[u] /\ blind'[u] = blind[u]
            /\ seen'[u] = seen[u] /\ mount'[u] = mount[u]
            /\ \A q \in Procs : mgr[q] # None => mgr'[q] = mgr[q]
        BY <1>2, <2>2, OthersStay
      <4>2. Behind(u)' /\ Asks(u)'
        BY <1>2, <4>1 DEF Behind, Asks, GTypeOK
      <4>3. kind'[u] \notin CachedKinds => Validated(u)'
        BY <1>2, <4>1 DEF Validated, Sighted
      <4> QED BY <4>2, <4>3
    <3> QED BY <2>1, <3>1, <3>2, <3>3, <3>4, <3>5
  <2>3. ASSUME NEW d \in Disks, NEW p \in Paths \cup {None}, Move(d, p) PROVE DInv'
    <3>1. UNCHANGED <<op, services>> /\ moves' = moves + 1 /\ moves \in Nat
      BY <1>2, <2>3 DEF Move, GTypeOK
    <3>2. ASSUME NEW o \in Ops PROVE seen'[o] <= moves' /\ seen'[o] # moves'
      BY <1>2, <3>1 DEF op, GTypeOK
    <3>3. LockIsLive'
      BY <1>2, <3>1 DEF op, services, LockIsLive, Holding
    <3>4. ASSUME NEW o \in Ops
          PROVE  Behind(o)' /\ Asks(o)' /\ (kind'[o] \notin CachedKinds => Validated(o)')
      BY <1>2, <3>1, <3>2 DEF op, services, Behind, Asks, Validated, Sighted
    <3> QED BY <2>1, <3>2, <3>3, <3>4
  <2>4. ASSUME NEW q \in Procs, Close(q) PROVE DInv'
    <3>1. UNCHANGED <<at, moves, kind, proc, pc, path, blind, seen, lock>>
      BY <2>4 DEF Close, world
    <3>2. LockIsLive'
      BY <1>2, <3>1 DEF LockIsLive, Holding
    <3>3. ASSUME NEW o \in Ops PROVE Behind(o)'
      BY <1>2, <2>4, <3>1 DEF Close, Behind, GTypeOK
    <3>4. ASSUME NEW o \in Ops
          PROVE  Asks(o)' /\ (kind'[o] \notin CachedKinds => Validated(o)') /\ seen'[o] <= moves'
      BY <1>2, <3>1 DEF Asks, Validated, Sighted
    <3> QED BY <2>1, <3>2, <3>3, <3>4
  <2>5. CASE Udev \/ UNCHANGED vars
    <3>1. UNCHANGED <<at, moves, op, services>>
      BY <2>5 DEF Udev, vars, world
    <3>2. LockIsLive'
      BY <1>2, <3>1 DEF op, services, LockIsLive, Holding
    <3>3. ASSUME NEW o \in Ops
          PROVE  /\ Behind(o)' /\ Asks(o)' /\ seen'[o] <= moves'
                 /\ kind'[o] \notin CachedKinds => Validated(o)'
      BY <1>2, <3>1 DEF op, services, Behind, Asks, Validated, Sighted
    <3> QED BY <2>1, <3>2, <3>3
  <2> QED BY <1>2, <2>2, <2>3, <2>4, <2>5 DEF Next
<1> QED BY <1>1, <1>2, PTL DEF Spec

\* The lock of a process is held exactly by the operation between taking it and its
\* end, on every way out and for any number of operations.
THEOREM LockComesBack == Spec => []LockIsLive
BY DeviceInductive, PTL DEF DInv

-----------------------------------------------------------------------------
\* What a step that changes a disk is.
LEMMA Writers ==
  ASSUME GTypeOK, LockIsLive, NEW o \in Ops, NEW d \in Disks, [Next]_vars, Wrote(o, d)
  PROVE  \/ Write(o) /\ d = at[path[o]] /\ pc[o] = "write"
         \/ Files(o) /\ d = mount[o] /\ pc[o] = "files" /\ kind[o] # "list"
<1> USE DeviceAssumption DEF GTypeOK
<1>1. PICK u \in Ops : Begin(u) \/ Work(u) \/ Acquire(u)
  <2>1. CASE Udev \/ UNCHANGED vars \/ \E e \in Disks, p \in Paths \cup {None} : Move(e, p)
    BY <2>1 DEF Udev, Move, vars, op, Wrote
  <2>2. CASE \E q \in Procs : Close(q)
    BY <2>2 DEF Close, Wrote
  <2> QED BY <2>1, <2>2 DEF Next
<1>2. u = o
  BY <1>1, OthersStay DEF Wrote
<1>3. Write(o) \/ Files(o)
  <2>1. CASE Begin(o) \/ Acquire(o) \/ Resolve(o) \/ Identify(o)
    BY <2>1 DEF Begin, Acquire, Resolve, Identify, disks, Wrote
  <2>2. CASE Admit(o) \/ Check(o) \/ Confirm(o) \/ Mount(o)
    BY <2>2 DEF Admit, Check, Confirm, Mount, disks, Wrote
  <2> QED BY <1>1, <1>2, <2>1, <2>2 DEF Work
<1>4. CASE Write(o)
  BY <1>4 DEF Write, Wrote
<1>5. CASE Files(o)
  BY <1>5 DEF Files, Wrote
<1> QED BY <1>3, <1>4, <1>5

\* An operation that checked the identity of its target writes on another disk only
\* through the mount manager of an earlier target, or once a disk has moved.
THEOREM ReplugIsSeen == Spec => SwapSeen
<1>1. ASSUME DInv, [Next]_vars,
             NEW o \in Ops, NEW d \in Disks \ {Configured}, Wrote(o, d), Sighted(o)
      PROVE  kind[o] \in FileKinds /\ (kind[o] \in CachedKinds \/ mgr[proc[o]] # path[o])
  <2> USE <1>1, DeviceAssumption DEF DInv
  <2>1. CASE Write(o) /\ d = at[path[o]] /\ pc[o] = "write"
    <3>1. kind[o] \notin CachedKinds
      BY <2>1 DEF Asks, TableKinds, CachedKinds
    <3> QED BY <2>1, <3>1 DEF Validated, Identified
  <2>2. CASE Files(o) /\ d = mount[o] /\ pc[o] = "files" /\ kind[o] # "list"
    <3>1. kind[o] \in FileKinds
      BY <2>2 DEF Asks
    <3>2. mount[o] = at[mgr[proc[o]]]
      BY <2>2 DEF Behind, Sighted
    <3>3. kind[o] \notin CachedKinds => at[path[o]] = Configured
      BY <2>2 DEF Validated, Identified
    <3> QED BY <2>2, <3>1, <3>2, <3>3
  <2> QED BY <2>1, <2>2, Writers
<1>2. DInv /\ [Next]_vars => [\A o \in Ops : \A d \in Disks \ {Configured} :
       Wrote(o, d) /\ Sighted(o)
         => /\ kind[o] \in FileKinds
            /\ kind[o] \in CachedKinds \/ mgr[proc[o]] # path[o]]_vars
  BY <1>1
<1> QED BY <1>2, DeviceInductive, PTL DEF Spec, SwapSeen

\* No partition table is written on a disk without one, nor on a disk of this machine,
\* unless a disk moved after the operation began.
THEOREM HostIsSafe == Spec => HostDiskSafe
<1>1. ASSUME DInv, [Next]_vars, NEW o \in Ops, NEW d \in Disks \ (APA \ Mounted),
             Wrote(o, d), seen[o] = moves, kind[o] \in TableKinds
      PROVE  FALSE
  <2> USE <1>1, DeviceAssumption DEF DInv
  <2>1. Write(o) /\ d = at[path[o]] /\ pc[o] = "write"
    <3>1. ~ (pc[o] = "files")
      BY DEF Asks, TableKinds, FileKinds
    <3> QED BY <3>1, Writers
  <2>2. kind[o] \notin CachedKinds
    BY DEF TableKinds, CachedKinds
  <2> QED BY <2>1, <2>2 DEF Validated, Admitted, Identified
<1>2. DInv /\ [Next]_vars => [\A o \in Ops : \A d \in Disks \ (APA \ Mounted) :
       ~ (Wrote(o, d) /\ seen[o] = moves /\ kind[o] \in TableKinds)]_vars
  BY <1>1
<1> QED BY <1>2, DeviceInductive, PTL DEF Spec, HostDiskSafe

-----------------------------------------------------------------------------
(* What a slice costs a title: folds, merges and chunks.  The free chunks of a  *)
(* slice, lowest first.                                                          *)

Free(n, occ) == (0 .. n - 1) \ occ
Nth(F, i) == CHOOSE c \in F : Cardinality({d \in F : d < c}) = i - 1
Rising(l) == \A i, j \in DOMAIN l : i < j => l[i] < l[j]

\* What Statistics says, of any chunks taken.
LEMMA SliceIs ==
  ASSUME NEW n \in Nat, NEW occ \in SUBSET (0 .. n - 1)
  PROVE  LET s == Statistics(n, occ) IN
         /\ IsFiniteSet(occ) /\ IsFiniteSet(Free(n, occ))
         /\ s.total = n /\ s.used = Cardinality(occ) /\ s.free = Cardinality(Free(n, occ))
         /\ s.used \in Nat /\ s.free \in Nat
         /\ DOMAIN s.chunkMap = 0 .. n - 1
         /\ \A c \in 0 .. n - 1 : s.chunkMap[c] = (c \in occ)
         /\ {c \in DOMAIN s.chunkMap : ~s.chunkMap[c]} = Free(n, occ)
<1> DEFINE s == Statistics(n, occ)
<1>1. IsFiniteSet(0 .. n - 1) /\ Cardinality(0 .. n - 1) = n
  BY FS_Interval
<1>2. IsFiniteSet(occ) /\ Cardinality(occ) \in Nat /\ IsFiniteSet(Free(n, occ))
  BY <1>1, FS_Subset, FS_CardinalityType DEF Free
<1>3. Cardinality(Free(n, occ)) = n - Cardinality(occ)
  <2>1. Cardinality((0 .. n - 1) \ occ) = Cardinality(0 .. n - 1) - Cardinality((0 .. n - 1) \cap occ)
    BY <1>1, FS_Difference
  <2>2. (0 .. n - 1) \cap occ = occ
    OBVIOUS
  <2> QED
    BY <1>1, <2>1, <2>2 DEF Free
<1>4. Cardinality(Free(n, occ)) \in Nat
  BY <1>2, FS_CardinalityType
<1>5. /\ s.total = n /\ s.used = Cardinality(occ) /\ s.free = n - Cardinality(occ)
      /\ s.chunkMap = [c \in 0 .. n - 1 |-> c \in occ]
  BY DEF Statistics
<1>6. {c \in DOMAIN s.chunkMap : ~s.chunkMap[c]} = Free(n, occ)
  BY <1>5 DEF Free
<1> HIDE DEF s
<1> QED
  BY <1>2, <1>3, <1>4, <1>5, <1>6 DEF s

\* The count of free chunks is a count of chunks.
LEMMA FreeIs ==
  ASSUME NEW n \in Nat, NEW occ \in SUBSET (0 .. n - 1)
  PROVE  Statistics(n, occ).free = Cardinality(Free(n, occ)) /\ Cardinality(Free(n, occ)) \in Nat
<1> DEFINE s == Statistics(n, occ)
<1>1. s.free = Cardinality(Free(n, occ)) /\ s.free \in Nat
  BY SliceIs
<1> QED
  BY <1>1

\* A finite set of numbers in order.
LEMMA Ranked ==
  ASSUME NEW n \in Nat, NEW F \in SUBSET (0 .. n - 1), NEW l,
         l = [i \in 1 .. Cardinality(F) |-> Nth(F, i)]
  PROVE  /\ Cardinality(F) \in Nat
         /\ l \in [1 .. Cardinality(F) -> F] /\ l \in Seq(F) /\ Len(l) = Cardinality(F)
         /\ Rising(l) /\ Range(l) = F
<1> DEFINE m == Cardinality(F)
           Below(c) == {d \in F : d < c}
           rank == [c \in F |-> Cardinality(Below(c))]
<1>0. \A c \in F : c \in Int
  OBVIOUS
<1>1. IsFiniteSet(F) /\ m \in Nat
  <2>1. IsFiniteSet(0 .. n - 1)
    BY FS_Interval
  <2>2. IsFiniteSet(F)
    BY <2>1, FS_Subset
  <2> QED
    BY <2>2, FS_CardinalityType
<1>2. ASSUME NEW c \in F
      PROVE  Cardinality(Below(c)) \in Nat /\ Cardinality(Below(c)) < m /\ IsFiniteSet(Below(c))
  <2>1. Below(c) \in SUBSET F /\ c \notin Below(c)
    OBVIOUS
  <2> HIDE DEF Below
  <2>2. /\ IsFiniteSet(Below(c)) /\ Cardinality(Below(c)) <= m
        /\ (m = Cardinality(Below(c)) => F = Below(c))
    BY <1>1, <2>1, FS_Subset
  <2>3. Cardinality(Below(c)) \in Nat
    BY <2>2, FS_CardinalityType
  <2> QED
    BY <1>1, <2>1, <2>2, <2>3
<1>3. ASSUME NEW c \in F, NEW d \in F, d < c
      PROVE  Cardinality(Below(d)) < Cardinality(Below(c))
  <2>1. Below(d) \in SUBSET Below(c)
    <3> SUFFICES ASSUME NEW e \in F, e < d PROVE e < c
      OBVIOUS
    <3> QED
      BY <1>0, <1>3
  <2>2. d \in Below(c) /\ d \notin Below(d)
    BY <1>3
  <2>3. Cardinality(Below(c)) \in Nat /\ Cardinality(Below(d)) \in Nat /\ IsFiniteSet(Below(c))
    BY <1>2
  <2> HIDE DEF Below
  <2>4. /\ Cardinality(Below(d)) <= Cardinality(Below(c))
        /\ (Cardinality(Below(c)) = Cardinality(Below(d)) => Below(c) = Below(d))
    BY <2>1, <2>3, FS_Subset
  <2> QED
    BY <2>2, <2>3, <2>4
<1> HIDE DEF Below
<1>5. ASSUME NEW c \in F, NEW d \in F, rank[c] = rank[d]
      PROVE  c = d
  <2>1. /\ Cardinality(Below(c)) = Cardinality(Below(d))
        /\ Cardinality(Below(c)) \in Nat /\ Cardinality(Below(d)) \in Nat
    BY <1>2, <1>5
  <2>2. ~(c < d) /\ ~(d < c)
    BY <1>3, <2>1
  <2> QED
    BY <2>2
<1>6. rank \in [F -> 0 .. m - 1]
  BY <1>1, <1>2
<1>7. rank \in Surjection(F, 0 .. m - 1)
  <2>1. rank \in Injection(F, 0 .. m - 1)
    <3> HIDE DEF rank
    <3> QED
      BY <1>5, <1>6 DEF Injection, IsInjective
  <2>2. IsFiniteSet(0 .. m - 1) /\ Cardinality(0 .. m - 1) = m
    <3> HIDE DEF m, rank
    <3>1. m - 1 \in Int /\ 0 \in Int /\ (m - 1) - 0 + 1 = m /\ (0 > m - 1 => m = 0)
      BY <1>1
    <3> QED
      BY <1>1, <3>1, FS_Interval
  <2> HIDE DEF rank
  <2> QED
    BY <1>1, <2>1, <2>2, FS_Injection
<1>8. ASSUME NEW i \in 1 .. m
      PROVE  l[i] \in F /\ rank[l[i]] = i - 1
  <2>1. i - 1 \in 0 .. m - 1
    BY <1>1
  <2>2. \E c \in F : rank[c] = i - 1
    BY <1>7, <2>1 DEF Surjection
  <2>3. l[i] = CHOOSE c \in F : Cardinality(Below(c)) = i - 1
    BY DEF Below, Nth
  <2> QED
    BY <2>2, <2>3
<1>9. l \in [1 .. m -> F] /\ DOMAIN l = 1 .. m
  <2>1. ASSUME NEW i \in 1 .. m PROVE l[i] \in F
    BY <1>8
  <2> QED
    BY <2>1
<1>10. l \in Seq(F) /\ Len(l) = m
  BY <1>1, <1>9, SeqDef, LenProperties
<1>11. Rising(l)
  <2> SUFFICES ASSUME NEW i \in 1 .. m, NEW j \in 1 .. m, i < j PROVE l[i] < l[j]
    BY <1>9 DEF Rising
  <2>1. /\ l[i] \in F /\ l[j] \in F /\ rank[l[i]] = i - 1 /\ rank[l[j]] = j - 1
        /\ l[i] \in Int /\ l[j] \in Int
    BY <1>0, <1>8
  <2>2. rank[l[i]] < rank[l[j]]
    BY <2>1
  <2>3. \A c, d \in F : d < c => rank[d] < rank[c]
    BY <1>3
  <2>4. \A c \in F : rank[c] \in Nat
    BY <1>6
  <2> HIDE DEF rank
  <2>5. ~(l[j] < l[i]) /\ l[i] # l[j]
    BY <2>1, <2>2, <2>3, <2>4
  <2> QED
    BY <2>1, <2>5
<1>12. ASSUME NEW c \in F PROVE \E i \in 1 .. m : l[i] = c
  <2>1. rank[c] + 1 \in 1 .. m /\ (rank[c] + 1) - 1 = rank[c]
    BY <1>1, <1>6
  <2>2. l[rank[c] + 1] \in F /\ rank[l[rank[c] + 1]] = (rank[c] + 1) - 1
    BY <1>8, <2>1
  <2> HIDE DEF rank
  <2>3. l[rank[c] + 1] = c
    BY <1>5, <2>1, <2>2
  <2> QED
    BY <2>1, <2>3
<1>13. Range(l) = F
  BY <1>8, <1>9, <1>12 DEF Range
<1> QED
  BY <1>1, <1>9, <1>10, <1>11, <1>13

\* The list of a slice.
LEMMA FreeList ==
  ASSUME NEW n \in Nat, NEW occ \in SUBSET (0 .. n - 1)
  PROVE  LET l == freeChunkIndices(Statistics(n, occ)) IN
         /\ l \in Seq(Nat) /\ Len(l) = Cardinality(Free(n, occ)) /\ DOMAIN l = 1 .. Len(l)
         /\ Len(l) \in Nat
         /\ l \in [1 .. Len(l) -> Free(n, occ)]
         /\ Rising(l) /\ Range(l) = Free(n, occ)
<1> DEFINE F == Free(n, occ)
           l == freeChunkIndices(Statistics(n, occ))
<1>1. F \in SUBSET (0 .. n - 1) /\ F \subseteq Nat
  BY DEF Free
<1>2. {c \in DOMAIN Statistics(n, occ).chunkMap : ~Statistics(n, occ).chunkMap[c]} = F
  BY SliceIs
<1>3. l = [i \in 1 .. Cardinality(F) |-> Nth(F, i)]
  <2> DEFINE f == {c \in DOMAIN Statistics(n, occ).chunkMap : ~Statistics(n, occ).chunkMap[c]}
  <2>1. l = [i \in 1 .. Cardinality(f) |->
               CHOOSE c \in f : Cardinality({d \in f : d < c}) = i - 1]
    BY DEF freeChunkIndices
  <2> HIDE DEF f, F, l
  <2>2. f = F
    BY <1>2 DEF f
  <2> QED
    BY <2>1, <2>2 DEF Nth
<1> HIDE DEF F, l
<1>4. /\ Cardinality(F) \in Nat
      /\ l \in [1 .. Cardinality(F) -> F] /\ l \in Seq(F) /\ Len(l) = Cardinality(F)
      /\ Rising(l) /\ Range(l) = F
  BY <1>1, <1>3, Ranked
<1>5. l \in Seq(Nat)
  BY <1>1, <1>4, SeqMonotonic
<1> QED
  BY <1>4, <1>5 DEF F, l
-----------------------------------------------------------------------------
(* The merge keeps the chunks and never makes more extents. *)

Apart(ex) == \A i, j \in DOMAIN ex : i < j => ex[i].start + ex[i].size <= ex[j].start
In(e, c) == e.start <= c /\ c < e.start + e.size
Covers(ex) == {c \in Nat : \E i \in DOMAIN ex : In(ex[i], c)}

\* A pass so far: the extents made, and whether the next may join the last of them.
Passes == {a \in [open : BOOLEAN, out : Seq(Extents)] : a.open => a.out # <<>>}
Taking(a, e, m) ==
  IF a.open /\ Joins(Last(a.out), e, m)
  THEN [open |-> FALSE, out |-> [a.out EXCEPT ![Len(a.out)].size = 2 * @]]
  ELSE [open |-> TRUE, out |-> Append(a.out, e)]

LEMMA TakingIs ==
  ASSUME NEW a \in Passes, NEW e \in Extents, NEW m
  PROVE  /\ Taking(a, e, m) \in Passes
         /\ Len(a.out) \in Nat /\ DOMAIN a.out = 1 .. Len(a.out)
         /\ \A i \in 1 .. Len(a.out) : a.out[i] \in Extents
         /\ IF a.open /\ Joins(Last(a.out), e, m)
            THEN LET o == Taking(a, e, m).out
                     n == Len(a.out)
                 IN /\ n > 0 /\ Len(o) = n
                    /\ \A i \in 1 .. n - 1 : o[i] = a.out[i]
                    /\ o[n].start = a.out[n].start /\ o[n].size = a.out[n].size + e.size
                    /\ a.out[n].start + a.out[n].size = e.start
            ELSE Taking(a, e, m).out = Append(a.out, e)
<1>1. a.out \in Seq(Extents) /\ a.open \in BOOLEAN /\ (a.open => a.out # <<>>)
  BY DEF Passes
<1>2. Len(a.out) \in Nat /\ DOMAIN a.out = 1 .. Len(a.out) /\ \A i \in 1 .. Len(a.out) : a.out[i] \in Extents
  BY <1>1
<1>3. CASE a.open /\ Joins(Last(a.out), e, m)
  <2> DEFINE n == Len(a.out)
             o == [a.out EXCEPT ![n].size = 2 * @]
  <2>1. n > 0 /\ n \in 1 .. n
    BY <1>1, <1>2, <1>3, EmptySeq
  <2>2. Last(a.out) = a.out[n] /\ a.out[n] \in Extents
    BY <1>2, <2>1 DEF Last
  <2>3. /\ a.out[n].size = e.size /\ a.out[n].start + a.out[n].size = e.start
        /\ a.out[n].size \in Nat \ {0} /\ a.out[n].start \in Nat
    BY <1>3, <2>2 DEF Joins, Extents
  <2>4. o = [i \in 1 .. n |-> IF i = n THEN [a.out[n] EXCEPT !.size = 2 * @] ELSE a.out[i]]
    BY <1>2, <2>1
  <2>5. /\ [a.out[n] EXCEPT !.size = 2 * @] \in Extents
        /\ [a.out[n] EXCEPT !.size = 2 * @].start = a.out[n].start
        /\ [a.out[n] EXCEPT !.size = 2 * @].size = a.out[n].size + e.size
    <3> DEFINE x == a.out[n]
    <3> HIDE DEF x
    <3>1. x \in Extents /\ x.size = e.size /\ x.size \in Nat \ {0} /\ x.start \in Nat
      BY <2>2, <2>3 DEF x
    <3>2. [x EXCEPT !.size = 2 * @] = [start |-> x.start, size |-> 2 * x.size]
      BY <3>1 DEF Extents
    <3> QED
      BY <3>1, <3>2 DEF Extents, x
  <2>6. o \in [1 .. n -> Extents]
    BY <1>2, <2>4, <2>5
  <2>7. o \in Seq(Extents) /\ Len(o) = n
    BY <1>2, <2>6, SeqDef, LenProperties
  <2>8. o[n] = [a.out[n] EXCEPT !.size = 2 * @] /\ \A i \in 1 .. n - 1 : o[i] = a.out[i]
    BY <1>2, <2>1, <2>4
  <2>9. Taking(a, e, m) = [open |-> FALSE, out |-> o]
    BY <1>3 DEF Taking
  <2> HIDE DEF o
  <2>10. Taking(a, e, m) \in Passes /\ Taking(a, e, m).out = o
    BY <2>7, <2>9 DEF Passes
  <2> QED
    BY <1>2, <1>3, <2>1, <2>3, <2>5, <2>7, <2>8, <2>10
<1>4. CASE ~(a.open /\ Joins(Last(a.out), e, m))
  <2>1. Taking(a, e, m) = [open |-> TRUE, out |-> Append(a.out, e)]
    BY <1>4 DEF Taking
  <2>2. Append(a.out, e) \in Seq(Extents) /\ Append(a.out, e) # <<>>
    BY <1>1, AppendProperties
  <2> QED
    BY <1>2, <1>4, <2>1, <2>2 DEF Passes
<1> QED
  BY <1>3, <1>4

\* Pass goes over the extents from the left.
LEMMA PassIsFold ==
  ASSUME NEW ex \in Seq(Extents), NEW m
  PROVE  \E a : /\ a[0] = [open |-> FALSE, out |-> <<>>]
                /\ \A i \in 1 .. Len(ex) : a[i] = Taking(a[i - 1], ex[i], m)
                /\ \A i \in 0 .. Len(ex) : a[i] \in Passes
                /\ Pass(ex, m) = a[Len(ex)].out
<1> DEFINE n == Len(ex)
           base == [open |-> FALSE, out |-> <<>>]
           G == [i \in 1 .. n |-> [v \in Passes |-> Taking(v, ex[i], m)]]
           Fix(f) == f = [s \in SUBSET (1 .. n) |->
                            IF s = {} THEN base ELSE Taking(f[s \ {Max(s)}], ex[Max(s)], m)]
           fl == CHOOSE f : Fix(f)
<1>1. n \in Nat /\ DOMAIN ex = 1 .. n /\ \A i \in 1 .. n : ex[i] \in Extents
  OBVIOUS
<1>2. base \in Passes
  BY DEF Passes
<1>3. Pass(ex, m) = fl[1 .. n].out
  BY <1>1 DEF Pass, FoldLeft, MapThenFoldSet, Taking
<1>4. Fix(fl)
  <2>1. G \in [1 .. n -> [Passes -> Passes]]
    BY <1>1, TakingIs
  <2> HIDE DEF G, base, n
  <2>0. PICK g : Folded(g, n, Passes, base, G)
    BY <1>1, <1>2, <2>1, FoldExists
  <2>2. /\ g \in [SUBSET (1 .. n) -> Passes]
        /\ \A s \in SUBSET (1 .. n) : g[s] = IF s = {} THEN base ELSE G[Max(s)][g[s \ {Max(s)}]]
    BY <2>0 DEF Folded
  <2>3. ASSUME NEW s \in SUBSET (1 .. n), s # {}
        PROVE  g[s] = Taking(g[s \ {Max(s)}], ex[Max(s)], m)
    <3>1. Max(s) \in 1 .. n /\ g[s \ {Max(s)}] \in Passes
      BY <1>1, <2>2, <2>3, MaxIs
    <3> QED
      BY <2>2, <2>3, <3>1 DEF G
  <2>4. g = [s \in SUBSET (1 .. n) |->
               IF s = {} THEN base ELSE Taking(g[s \ {Max(s)}], ex[Max(s)], m)]
    BY <2>2, <2>3
  <2> QED
    BY <2>4
<1> HIDE DEF fl
<1> HIDE DEF n, base
<1>5. FoldValues(fl, n, Passes, base, G)
  <2>1. G \in [1 .. n -> [Passes -> Passes]]
    BY <1>1, TakingIs
  <2>2. \A s \in SUBSET (1 .. n) :
          /\ s = {} => fl[s] = base
          /\ s # {} /\ fl[s \ {Max(s)}] \in Passes => fl[s] = G[Max(s)][fl[s \ {Max(s)}]]
    <3> SUFFICES ASSUME NEW s \in SUBSET (1 .. n)
                 PROVE  /\ s = {} => fl[s] = base
                        /\ s # {} /\ fl[s \ {Max(s)}] \in Passes => fl[s] = G[Max(s)][fl[s \ {Max(s)}]]
      OBVIOUS
    <3>1. s # {} => Max(s) \in 1 .. n
      BY <1>1, MaxIs
    <3> QED
      BY <1>4, <3>1
  <2> HIDE DEF G
  <2> QED
    BY <1>1, <1>2, <2>1, <2>2, FoldSteps
<1>6. PICK a : Folding(a, n, Passes, base, G) /\ a[n] = fl[1 .. n]
  BY <1>5 DEF FoldValues
<1>7. ASSUME NEW i \in 1 .. n PROVE a[i] = Taking(a[i - 1], ex[i], m)
  <2>1. i - 1 \in 0 .. n
    BY <1>1
  <2>2. a[i - 1] \in Passes /\ a[i] = G[i][a[i - 1]]
    BY <1>6, <2>1 DEF Folding
  <2> QED
    BY <2>2
<1> QED
  BY <1>3, <1>6, <1>7 DEF Folding, n, base

\* What a pass has made of the first i extents.
Good(ex, i, o) ==
  /\ Len(o) <= i /\ (Len(o) = i => \A j \in 1 .. i : o[j] = ex[j])
  /\ Apart(ex) =>
       /\ Apart(o)
       /\ \A c \in Nat : (\E j \in 1 .. Len(o) : In(o[j], c)) <=> (\E j \in 1 .. i : In(ex[j], c))
       /\ \A j \in 1 .. Len(o) : i > 0 /\ o[j].start + o[j].size <= ex[i].start + ex[i].size

LEMMA GoodStep ==
  ASSUME NEW ex \in Seq(Extents), NEW m, NEW a \in Passes, NEW i \in Nat, i + 1 <= Len(ex),
         Good(ex, i, a.out)
  PROVE  Good(ex, i + 1, Taking(a, ex[i + 1], m).out)
<1> DEFINE e == ex[i + 1]
           o == a.out
           n == Len(o)
           p == Taking(a, e, m).out
<1>1. /\ Len(ex) \in Nat /\ DOMAIN ex = 1 .. Len(ex) /\ \A j \in 1 .. Len(ex) : ex[j] \in Extents
      /\ e \in Extents /\ i + 1 \in DOMAIN ex
  OBVIOUS
<1>2. n \in Nat /\ DOMAIN o = 1 .. n /\ (\A j \in 1 .. n : o[j] \in Extents) /\ o \in Seq(Extents)
  BY <1>1, TakingIs DEF Passes
<1>3. \A x \in Extents : x.start \in Nat /\ x.size \in Nat /\ x.size > 0
  BY DEF Extents
<1>4. CASE a.open /\ Joins(Last(o), e, m)
  <2>1. /\ n > 0 /\ Len(p) = n /\ p \in Seq(Extents)
        /\ \A j \in 1 .. n - 1 : p[j] = o[j]
        /\ p[n].start = o[n].start /\ p[n].size = o[n].size + e.size
        /\ o[n].start + o[n].size = e.start
    BY <1>1, <1>4, TakingIs DEF Passes
  <2> HIDE DEF p, e, o, n
  <2>2. DOMAIN p = 1 .. n /\ p[n] \in Extents /\ o[n] \in Extents
    BY <1>2, <2>1
  <2>3. Len(p) <= i + 1 /\ Len(p) # i + 1
    BY <1>2, <2>1 DEF Good, o, n
  <2>4. ASSUME Apart(ex)
        PROVE  /\ Apart(p)
               /\ \A c \in Nat : (\E j \in 1 .. n : In(p[j], c)) <=> (\E j \in 1 .. i + 1 : In(ex[j], c))
               /\ \A j \in 1 .. n : p[j].start + p[j].size <= e.start + e.size
    <3>1. /\ \A j, k \in 1 .. n : j < k => o[j].start + o[j].size <= o[k].start
          /\ \A c \in Nat : (\E j \in 1 .. n : In(o[j], c)) <=> (\E j \in 1 .. i : In(ex[j], c))
      BY <1>2, <2>4 DEF Good, Apart, o, n
    <3>2. ASSUME NEW j \in 1 .. n, NEW k \in 1 .. n, j < k
          PROVE  p[j].start + p[j].size <= p[k].start
      <4>1. j \in 1 .. n - 1 /\ (k = n \/ k \in 1 .. n - 1)
        BY <1>2, <3>2
      <4>2. p[j] = o[j] /\ p[k].start = o[k].start
        BY <2>1, <4>1
      <4> QED
        BY <3>1, <3>2, <4>2
    <3>3. Apart(p)
      BY <2>2, <3>2 DEF Apart
    <3>4. ASSUME NEW c \in Nat
          PROVE  (\E j \in 1 .. n : In(p[j], c)) <=> (\E j \in 1 .. n : In(o[j], c)) \/ In(e, c)
      <4>1. In(p[n], c) <=> In(o[n], c) \/ In(e, c)
        <5>1. /\ o[n].start \in Nat /\ o[n].size \in Nat
              /\ e.start \in Nat /\ e.size \in Nat
          BY <1>1, <1>3, <2>2
        <5>2. \A s, z, t, w \in Nat : s + z = t =>
                (s <= c /\ c < s + (z + w) <=> (s <= c /\ c < s + z) \/ (t <= c /\ c < t + w))
          OBVIOUS
        <5>3. In(p[n], c) <=> o[n].start <= c /\ c < o[n].start + (o[n].size + e.size)
          BY <2>1 DEF In
        <5>4. /\ In(o[n], c) <=> o[n].start <= c /\ c < o[n].start + o[n].size
              /\ In(e, c) <=> e.start <= c /\ c < e.start + e.size
          BY DEF In
        <5> QED
          BY <2>1, <5>1, <5>2, <5>3, <5>4
      <4>2. n \in 1 .. n /\ \A j \in 1 .. n : j = n \/ j \in 1 .. n - 1
        BY <1>2, <2>1
      <4> QED
        BY <2>1, <4>1, <4>2
    <3>5. \A c \in Nat : (\E j \in 1 .. n : In(p[j], c)) <=> (\E j \in 1 .. i + 1 : In(ex[j], c))
      <4>1. \A j \in 1 .. i + 1 : j = i + 1 \/ j \in 1 .. i
        OBVIOUS
      <4>2. i + 1 \in 1 .. i + 1 /\ 1 .. i \subseteq 1 .. i + 1
        OBVIOUS
      <4> QED
        BY <3>1, <3>4, <4>1, <4>2 DEF e
    <3>6. ASSUME NEW j \in 1 .. n PROVE p[j].start + p[j].size <= e.start + e.size
      <4>1. p[n].start + p[n].size = e.start + e.size
        BY <1>1, <1>3, <2>1, <2>2 DEF e
      <4>2. CASE j # n
        <5>1. p[j].start + p[j].size <= p[n].start /\ p[j] \in Extents
          BY <1>2, <2>1, <2>2, <3>2, <4>2
        <5> QED
          BY <1>3, <2>2, <4>1, <5>1
      <4> QED
        BY <1>1, <1>3, <2>2, <4>1, <4>2 DEF e
    <3> QED
      BY <3>3, <3>5, <3>6
  <2> QED
    BY <2>1, <2>3, <2>4 DEF Good, p, e
<1>5. CASE ~(a.open /\ Joins(Last(o), e, m))
  <2>1. p = Append(o, e)
    BY <1>1, <1>5, TakingIs
  <2> HIDE DEF p, e, o
  <2>2. /\ Len(p) = n + 1 /\ DOMAIN p = 1 .. n + 1 /\ p[n + 1] = e
        /\ \A j \in 1 .. n : p[j] = o[j]
    BY <1>1, <1>2, <2>1, AppendProperties
  <2> HIDE DEF n
  <2>3. Len(p) <= i + 1 /\ (Len(p) = i + 1 => \A j \in 1 .. i + 1 : p[j] = ex[j])
    <3>1. n <= i /\ (n = i => \A j \in 1 .. i : o[j] = ex[j])
      BY DEF Good, o, n
    <3>2. \A j \in 1 .. i + 1 : j = i + 1 \/ j \in 1 .. i
      OBVIOUS
    <3> QED
      BY <1>2, <2>2, <3>1, <3>2 DEF e
  <2>4. ASSUME Apart(ex)
        PROVE  /\ Apart(p)
               /\ \A c \in Nat : (\E j \in 1 .. n + 1 : In(p[j], c)) <=> (\E j \in 1 .. i + 1 : In(ex[j], c))
               /\ \A j \in 1 .. n + 1 : p[j].start + p[j].size <= e.start + e.size
    <3>1. /\ \A j, k \in 1 .. n : j < k => o[j].start + o[j].size <= o[k].start
          /\ \A c \in Nat : (\E j \in 1 .. n : In(o[j], c)) <=> (\E j \in 1 .. i : In(ex[j], c))
          /\ \A j \in 1 .. n : i > 0 /\ o[j].start + o[j].size <= ex[i].start + ex[i].size
      BY <1>2, <2>4 DEF Good, Apart, o, n
    <3>2. ASSUME NEW j \in 1 .. n PROVE o[j].start + o[j].size <= e.start
      <4>1. i \in 1 .. Len(ex) /\ i < i + 1
        BY <1>1, <3>1
      <4>2. ex[i].start + ex[i].size <= e.start
        BY <1>1, <2>4, <4>1 DEF Apart, e
      <4> QED
        BY <1>1, <1>2, <1>3, <3>1, <4>1, <4>2
    <3>3. \A j \in 1 .. n + 1 : j = n + 1 \/ j \in 1 .. n
      BY <1>2
    <3>4. Apart(p)
      <4> SUFFICES ASSUME NEW j \in 1 .. n + 1, NEW k \in 1 .. n + 1, j < k
                   PROVE  p[j].start + p[j].size <= p[k].start
        BY <2>2 DEF Apart
      <4>1. j \in 1 .. n
        BY <1>2
      <4> QED
        BY <2>2, <3>1, <3>2, <3>3, <4>1
    <3>5. ASSUME NEW c \in Nat
          PROVE  (\E j \in 1 .. n + 1 : In(p[j], c)) <=> (\E j \in 1 .. i + 1 : In(ex[j], c))
      <4>1. \A j \in 1 .. i + 1 : j = i + 1 \/ j \in 1 .. i
        OBVIOUS
      <4>2. i + 1 \in 1 .. i + 1 /\ 1 .. i \subseteq 1 .. i + 1
        OBVIOUS
      <4>3. n + 1 \in 1 .. n + 1 /\ 1 .. n \subseteq 1 .. n + 1
        BY <1>2
      <4>4. (\E j \in 1 .. n + 1 : In(p[j], c)) <=> (\E j \in 1 .. n : In(o[j], c)) \/ In(e, c)
        BY <2>2, <3>3, <4>3
      <4>5. (\E j \in 1 .. i + 1 : In(ex[j], c)) <=> (\E j \in 1 .. i : In(ex[j], c)) \/ In(e, c)
        BY <4>1, <4>2 DEF e
      <4> QED
        BY <3>1, <4>4, <4>5
    <3>6. ASSUME NEW j \in 1 .. n + 1 PROVE p[j].start + p[j].size <= e.start + e.size
      <4>1. e.start \in Nat /\ e.size \in Nat
        BY <1>1, <1>3 DEF e
      <4>2. CASE j \in 1 .. n
        <5>1. o[j].start + o[j].size <= e.start /\ p[j] = o[j]
              /\ o[j].start \in Nat /\ o[j].size \in Nat
          BY <1>2, <1>3, <2>2, <3>2, <4>2
        <5> QED
          BY <4>1, <5>1
      <4>3. CASE j = n + 1
        BY <2>2, <4>1, <4>3
      <4> QED
        BY <3>3, <4>2, <4>3
    <3> QED
      BY <3>4, <3>5, <3>6
  <2> QED
    BY <2>2, <2>3, <2>4 DEF Good, p, e
<1> QED
  BY <1>4, <1>5

LEMMA PassKeeps ==
  ASSUME NEW ex \in Seq(Extents), NEW m
  PROVE  LET o == Pass(ex, m) IN
         /\ o \in Seq(Extents) /\ Len(o) <= Len(ex) /\ (Len(o) = Len(ex) => o = ex)
         /\ Apart(ex) => Apart(o) /\ Covers(o) = Covers(ex)
<1> DEFINE n == Len(ex)
           o == Pass(ex, m)
<1>1. PICK a : /\ a[0] = [open |-> FALSE, out |-> <<>>]
               /\ \A i \in 1 .. Len(ex) : a[i] = Taking(a[i - 1], ex[i], m)
               /\ \A i \in 0 .. Len(ex) : a[i] \in Passes
               /\ Pass(ex, m) = a[Len(ex)].out
  BY PassIsFold
<1>2. n \in Nat /\ DOMAIN ex = 1 .. n
  OBVIOUS
<1> HIDE DEF n
<1> DEFINE E == {i \in Nat : i <= n => Good(ex, i, a[i].out)}
<1>3. 0 \in E
  <2>1. a[0].out = <<>> /\ Len(<<>>) = 0
    BY <1>1
  <2> QED
    BY <2>1 DEF Good, Apart
<1>4. ASSUME NEW i \in Nat, i \in E PROVE i + 1 \in E
  <2> SUFFICES ASSUME i + 1 <= n PROVE Good(ex, i + 1, a[i + 1].out)
    OBVIOUS
  <2>1. i \in 0 .. n /\ i + 1 \in 1 .. n /\ (i + 1) - 1 = i /\ Good(ex, i, a[i].out)
    BY <1>2, <1>4
  <2>2. a[i] \in Passes /\ a[i + 1] = Taking(a[i], ex[i + 1], m)
    BY <1>1, <2>1 DEF n
  <2> QED
    BY <2>1, <2>2, GoodStep DEF n
<1>5. n \in E
  BY <1>2, <1>3, <1>4, SetInduction
<1>6. Good(ex, n, o) /\ o \in Seq(Extents)
  BY <1>1, <1>2, <1>5 DEF Passes, n
<1> HIDE DEF o, E
<1>7. Len(o) \in Nat /\ DOMAIN o = 1 .. Len(o)
  BY <1>6
<1>8. Len(o) <= n /\ (Len(o) = n => o = ex)
  <2>1. Len(o) <= n /\ (Len(o) = n => \A j \in 1 .. n : o[j] = ex[j])
    BY <1>6 DEF Good
  <2>2. ASSUME Len(o) = n PROVE o = ex
    <3>1. o = [j \in 1 .. n |-> o[j]] /\ ex = [j \in 1 .. n |-> ex[j]]
      BY <1>2, <1>6, <1>7, <2>2
    <3> QED
      BY <2>1, <2>2, <3>1
  <2> QED
    BY <2>1, <2>2
<1>9. Apart(ex) => Apart(o) /\ Covers(o) = Covers(ex)
  BY <1>2, <1>6, <1>7 DEF Good, Covers
<1> QED
  BY <1>6, <1>8, <1>9 DEF o, n
-----------------------------------------------------------------------------
(* Merge: the passes end, and what they end with. *)

Closed(T, m) == T \subseteq Seq(Extents) /\ \A x \in T : Pass(x, m) \in T

\* What any closed set with ex in it must hold, and no pass changes.
Finals(ex, m) ==
  {r \in Seq(Extents) : /\ Pass(r, m) = r
                        /\ \A T \in SUBSET Seq(Extents) : Closed(T, m) /\ ex \in T => r \in T}
Final(ex, m) == CHOOSE r \in Finals(ex, m) : TRUE

LEMMA EndsFollow ==
  ASSUME NEW m, NEW ex \in Seq(Extents)
  PROVE  Final(ex, m) = IF Pass(ex, m) = ex THEN ex ELSE Final(Pass(ex, m), m)
<1> DEFINE nx == Pass(ex, m)
<1>0. \A x \in Seq(Extents) : Pass(x, m) \in Seq(Extents)
  BY PassKeeps
<1>1. CASE nx = ex
  <2>1. Closed({ex}, m)
    BY <1>1 DEF Closed
  <2>2. \A r \in Finals(ex, m) : r = ex
    BY <2>1 DEF Finals
  <2>3. ex \in Finals(ex, m)
    BY <1>1 DEF Finals
  <2> QED
    BY <1>1, <2>2, <2>3 DEF Final
<1>2. CASE nx # ex
  <2>1. Finals(nx, m) \subseteq Finals(ex, m)
    BY DEF Finals, Closed
  <2>2. ASSUME NEW r \in Finals(ex, m), NEW T \in SUBSET Seq(Extents), Closed(T, m), nx \in T
        PROVE  r \in T
    <3>1. Closed(T \cup {ex}, m)
      BY <2>2 DEF Closed
    <3>2. r \in T \cup {ex} /\ Pass(r, m) = r
      BY <3>1 DEF Finals
    <3> QED
      BY <1>2, <3>2
  <2>3. Finals(ex, m) = Finals(nx, m)
    BY <2>1, <2>2 DEF Finals
  <2> QED
    BY <1>2, <2>3 DEF Final
<1> QED
  BY <1>1, <1>2

\* The merge of one sequence of extents, as Merge's own function computes it.
Merges(f, m) ==
  f = [ex \in Seq(Extents) |-> IF Pass(ex, m) = ex THEN ex ELSE f[Pass(ex, m)]]

LEMMA MergesExists == ASSUME NEW m PROVE \E f : Merges(f, m)
<1> DEFINE f == [ex \in Seq(Extents) |-> Final(ex, m)]
<1>1. ASSUME NEW ex \in Seq(Extents)
      PROVE  f[ex] = IF Pass(ex, m) = ex THEN ex ELSE f[Pass(ex, m)]
  <2>1. Pass(ex, m) \in Seq(Extents)
    BY PassKeeps
  <2> QED
    BY <2>1, EndsFollow
<1>2. f = [ex \in Seq(Extents) |-> IF Pass(ex, m) = ex THEN ex ELSE f[Pass(ex, m)]]
  BY <1>1
<1> HIDE DEF f
<1> QED
  BY <1>2 DEF Merges

LEMMA MergesKeep ==
  ASSUME NEW m, NEW f, Merges(f, m), NEW ex \in Seq(Extents)
  PROVE  /\ f[ex] \in Seq(Extents) /\ Len(f[ex]) <= Len(ex)
         /\ Apart(ex) => Apart(f[ex]) /\ Covers(f[ex]) = Covers(ex)
<1> DEFINE Kept(x) == /\ f[x] \in Seq(Extents) /\ Len(f[x]) <= Len(x)
                      /\ Apart(x) => Apart(f[x]) /\ Covers(f[x]) = Covers(x)
           E == {k \in Nat : \A x \in Seq(Extents) : Len(x) < k => Kept(x)}
<1>0. \A x \in Seq(Extents) : Len(x) \in Nat
  OBVIOUS
<1>1. 0 \in E
  BY <1>0
<1>2. ASSUME NEW k \in Nat, k \in E PROVE k + 1 \in E
  <2> SUFFICES ASSUME NEW x \in Seq(Extents), Len(x) < k + 1 PROVE Kept(x)
    OBVIOUS
  <2> DEFINE y == Pass(x, m)
  <2>1. /\ y \in Seq(Extents) /\ Len(y) <= Len(x) /\ (Len(y) = Len(x) => y = x)
        /\ Apart(x) => Apart(y) /\ Covers(y) = Covers(x)
    BY PassKeeps
  <2>2. f[x] = IF y = x THEN x ELSE f[y]
    BY <1>2 DEF Merges
  <2> HIDE DEF y
  <2>3. CASE y = x
    BY <1>0, <2>2, <2>3
  <2>4. CASE y # x
    <3>1. Len(y) < Len(x) /\ Len(x) \in Nat /\ Len(y) \in Nat
      BY <1>0, <2>1, <2>4
    <3>2. Kept(y)
      BY <1>2, <2>1, <3>1
    <3>3. Len(f[y]) \in Nat
      BY <1>0, <3>2
    <3> QED
      BY <2>1, <2>2, <2>4, <3>1, <3>2, <3>3
  <2> QED
    BY <2>3, <2>4
<1> HIDE DEF E
<1>3. Nat \subseteq E
  BY <1>1, <1>2, SetInduction
<1>4. Len(ex) + 1 \in E /\ Len(ex) < Len(ex) + 1
  BY <1>0, <1>3
<1> QED
  BY <1>4 DEF E

LEMMA MergeIs ==
  ASSUME NEW m, NEW chunks \in Seq(Nat), Rising(chunks)
  PROVE  LET ex == Merge(chunks, m) IN
         /\ ex \in Seq(Extents) /\ Len(ex) <= Len(chunks) /\ Apart(ex)
         /\ Covers(ex) = Range(chunks)
<1> DEFINE ones == [i \in DOMAIN chunks |-> [start |-> chunks[i], size |-> 1]]
           f == CHOOSE g : Merges(g, m)
<1>1. Merges(f, m)
  BY MergesExists
<1>2. Merge(chunks, m) = f[ones]
  BY DEF Merge, Merges
<1> HIDE DEF f
<1>3. Len(chunks) \in Nat /\ DOMAIN chunks = 1 .. Len(chunks) /\ \A i \in 1 .. Len(chunks) : chunks[i] \in Nat
  OBVIOUS
<1>4. ones \in Seq(Extents) /\ Len(ones) = Len(chunks) /\ DOMAIN ones = DOMAIN chunks
  <2>1. ones \in [1 .. Len(chunks) -> Extents]
    BY <1>3 DEF Extents
  <2> QED
    BY <1>3, <2>1, SeqDef, LenProperties
<1>5. \A i \in DOMAIN chunks : ones[i].start = chunks[i] /\ ones[i].size = 1
  OBVIOUS
<1> HIDE DEF ones
<1>6. Apart(ones)
  BY <1>3, <1>4, <1>5 DEF Apart, Rising
<1>7. Covers(ones) = Range(chunks)
  <2>1. \A c \in Nat, i \in DOMAIN chunks : In(ones[i], c) <=> c = chunks[i]
    BY <1>3, <1>5 DEF In
  <2> QED
    BY <1>3, <1>4, <2>1 DEF Covers, Range
<1> QED
  BY <1>1, <1>2, <1>4, <1>6, <1>7, MergesKeep
-----------------------------------------------------------------------------
(* What an image asks for. *)

LEMMA BytesGrow ==
  ASSUME NEW a \in Nat, NEW b \in Nat
  PROVE  Bytes(a) \in Nat /\ (Bytes(a) <= Bytes(b) <=> a <= b)
<1> DEFINE k == ChunkMB * MB
<1>1. ChunkMB \in Nat \ {0} /\ MB \in Nat \ {0}
  BY UnitsAssumption
<1>2. k \in Nat /\ k > 0
  BY <1>1
<1>3. Bytes(a) = a * k /\ Bytes(b) = b * k
  BY <1>1 DEF Bytes
<1> HIDE DEF k
<1>4. \A x, y \in Nat : x <= y => x * k <= y * k
  BY <1>2
<1>5. \A x, y \in Nat : x < y => x * k < y * k
  BY <1>2
<1>6. a * k \in Nat /\ b * k \in Nat
  BY <1>2
<1> QED
  BY <1>3, <1>4, <1>5, <1>6

LEMMA CoverPositive ==
  ASSUME NEW b \in Nat \ {0}
  PROVE  chunksToCover(b) \in Nat \ {0} /\ megabytes(b) \in Nat
<1>1. ChunkMB \in Nat \ {0} /\ MB \in Nat \ {0}
  BY UnitsAssumption
<1>2. \A x \in Nat \ {0}, d \in Nat \ {0} : (x + d - 1) \div d \in Nat \ {0}
  <2> SUFFICES ASSUME NEW x \in Nat \ {0}, NEW d \in Nat \ {0}
               PROVE  (x + d - 1) \div d \in Nat \ {0}
    OBVIOUS
  <2> DEFINE q == (x + d - 1) \div d
             r == (x + d - 1) % d
  <2>1. q \in Int /\ r \in 0 .. d - 1 /\ x + d - 1 = d * q + r
    OBVIOUS
  <2> HIDE DEF q, r
  <2>2. d * q > 0
    BY <2>1
  <2>3. q > 0
    BY <2>1, <2>2
  <2> QED
    BY <2>1, <2>3 DEF q
<1>3. megabytes(b) \in Nat \ {0}
  BY <1>1, <1>2 DEF megabytes
<1> QED
  BY <1>1, <1>2, <1>3 DEF chunksToCover

LEMMA MaxChunksIs ==
  ASSUME NEW b \in Nat \ {0}
  PROVE  /\ MaxChunks(b) \in Nat
         /\ MaxChunks(b) \in {chunksToCover(b), chunksToCover(b) + 1}
         /\ \A e \in Nat : e <= chunksToCover(b) /\ Short(chunksToCover(b), b, e) =>
              MaxChunks(b) = chunksToCover(b) + 1
<1>1. chunksToCover(b) \in Nat \ {0} /\ megabytes(b) \in Nat
  BY CoverPositive
<1>2. ASSUME NEW e \in Nat, e <= chunksToCover(b), Short(chunksToCover(b), b, e)
      PROVE  Short(chunksToCover(b), b, chunksToCover(b))
  <2>1. ChunkMB \in Nat
    BY UnitsAssumption
  <2> DEFINE w == ChunkMB * chunksToCover(b)
  <2>2. w \in Nat
    BY <1>1, <2>1
  <2>3. w < megabytes(b) + (3 + e)
    BY <1>2 DEF Short, overheadMB
  <2> HIDE DEF w
  <2>4. w < megabytes(b) + (3 + chunksToCover(b))
    BY <1>1, <1>2, <2>2, <2>3
  <2> QED
    BY <2>4 DEF Short, overheadMB, w
<1> QED
  BY <1>1, <1>2 DEF MaxChunks

\* The lowest k of the free chunks.
Lowest(n, occ, k) ==
  {freeChunkIndices(Statistics(n, occ))[i] : i \in 1 .. k}

LEMMA TakenIs ==
  ASSUME NEW n \in Nat, NEW occ \in SUBSET (0 .. n - 1),
         NEW k \in Nat, k <= Cardinality(Free(n, occ))
  PROVE  /\ Taken(Statistics(n, occ), k) \in Seq(Nat)
         /\ Len(Taken(Statistics(n, occ), k)) = k
         /\ Rising(Taken(Statistics(n, occ), k))
         /\ Range(Taken(Statistics(n, occ), k)) = Lowest(n, occ, k)
<1> DEFINE l == freeChunkIndices(Statistics(n, occ))
           s == SubSeq(l, 1, k)
<1>1. /\ l \in Seq(Nat) /\ Len(l) = Cardinality(Free(n, occ)) /\ DOMAIN l = 1 .. Len(l)
      /\ Len(l) \in Nat /\ Rising(l)
  BY FreeList
<1>2. Taken(Statistics(n, occ), k) = s
  BY DEF Taken
<1>3. Lowest(n, occ, k) = {l[i] : i \in 1 .. k}
  BY DEF Lowest
<1> HIDE DEF l
<1>4. s \in Seq(Nat) /\ Len(s) = k /\ DOMAIN s = 1 .. k /\ \A i \in 1 .. k : s[i] = l[i]
  BY <1>1
<1> HIDE DEF s
<1>5. Rising(s)
  <2>1. \A i \in 1 .. k : i \in DOMAIN l
    BY <1>1
  <2> QED
    BY <1>1, <1>4, <2>1 DEF Rising
<1>6. Range(s) = {l[i] : i \in 1 .. k}
  BY <1>4 DEF Range
<1> QED
  BY <1>2, <1>3, <1>4, <1>5, <1>6

\* The lowest k of the free chunks are k free chunks, the others above them.
IsLowest(L, k, F) ==
  /\ L \subseteq F /\ IsFiniteSet(L) /\ Cardinality(L) = k
  /\ \A c \in L, d \in F \ L : c < d
  /\ IsFiniteSet(F) /\ Cardinality(F) \in Nat
  /\ Cardinality(F \ L) = Cardinality(F) - k

LEMMA LowestIs ==
  ASSUME NEW n \in Nat, NEW occ \in SUBSET (0 .. n - 1),
         NEW k \in Nat, k <= Cardinality(Free(n, occ))
  PROVE  IsLowest(Lowest(n, occ, k), k, Free(n, occ))
<1> DEFINE l == freeChunkIndices(Statistics(n, occ))
           F == Free(n, occ)
           L == {l[i] : i \in 1 .. k}
<1>1. /\ l \in Seq(Nat) /\ Len(l) = Cardinality(F) /\ DOMAIN l = 1 .. Len(l)
      /\ Len(l) \in Nat /\ l \in [1 .. Len(l) -> F]
      /\ Rising(l) /\ Range(l) = F
  BY FreeList
<1>2. Lowest(n, occ, k) = L /\ k <= Cardinality(F)
  BY DEF Lowest
<1>3. IsFiniteSet(F) /\ F \subseteq Nat
  <2>1. IsFiniteSet(F)
    BY SliceIs
  <2> QED
    BY <2>1 DEF Free
<1> HIDE DEF l, F
<1>4. 1 .. k \subseteq 1 .. Len(l)
  BY <1>1, <1>2
<1>5. L \subseteq F
  BY <1>1, <1>4
<1>6. IsFiniteSet(L) /\ Cardinality(L) = k
  <2> DEFINE g == [i \in 1 .. k |-> l[i]]
  <2>1. IsFiniteSet(1 .. k) /\ Cardinality(1 .. k) = k
    BY FS_Interval
  <2>2. \A i, j \in 1 .. k : l[i] = l[j] => i = j
    <3> SUFFICES ASSUME NEW i \in 1 .. k, NEW j \in 1 .. k, l[i] = l[j], i < j PROVE FALSE
      OBVIOUS
    <3>1. i \in DOMAIN l /\ j \in DOMAIN l /\ l[i] \in Nat
      BY <1>1, <1>3, <1>4
    <3>2. l[i] < l[j]
      BY <1>1, <3>1 DEF Rising
    <3> QED
      BY <3>1, <3>2
  <2>3. g \in Bijection(1 .. k, L)
    <3>1. g \in [1 .. k -> L] /\ \A i \in 1 .. k : g[i] = l[i]
      OBVIOUS
    <3>2. \A c \in L : \E i \in 1 .. k : g[i] = c
      OBVIOUS
    <3> HIDE DEF g, L
    <3> QED
      BY <2>2, <3>1, <3>2 DEF Bijection, Injection, Surjection, IsInjective
  <2> HIDE DEF g, L
  <2> QED
    BY <2>1, <2>3, FS_Bijection DEF ExistsBijection
<1>7. ASSUME NEW c \in L, NEW d \in F \ L PROVE c < d
  <2>1. PICK i \in 1 .. k : c = l[i]
    OBVIOUS
  <2>2. PICK j \in 1 .. Len(l) : d = l[j]
    BY <1>1 DEF Range
  <2>3. j \notin 1 .. k
    BY <2>2
  <2>4. i < j /\ i \in DOMAIN l /\ j \in DOMAIN l
    BY <1>1, <1>4, <2>3
  <2> QED
    BY <1>1, <2>1, <2>2, <2>4 DEF Rising
<1>8. Cardinality(F \ L) = Cardinality(F) - k
  <2>1. F \cap L = L
    BY <1>5
  <2> HIDE DEF L
  <2>2. Cardinality(F \ L) = Cardinality(F) - Cardinality(F \cap L)
    BY <1>3, FS_Difference
  <2> QED
    BY <1>6, <2>1, <2>2
<1> QED
  BY <1>1, <1>2, <1>3, <1>5, <1>6, <1>7, <1>8 DEF F, IsLowest

\* What an image takes of a slice: nothing, or what covers it and at most one more.
LEMMA AllocationIs ==
  ASSUME NEW n \in Nat, NEW occ \in SUBSET (0 .. n - 1), NEW b \in Nat \ {0}
  PROVE  LET a == allocationChunks(Statistics(n, occ), b)
             w == chunksToCover(b)
             f == Cardinality(Free(n, occ))
         IN /\ a \in Nat /\ a <= f /\ f \in Nat
            /\ a # 0 => a \in {w, w + 1} /\ w <= a /\ a <= MaxChunks(b)
            /\ w + 1 <= f => a # 0
            /\ MaxChunks(b) <= f => a # 0
<1> DEFINE s == Statistics(n, occ)
           w == chunksToCover(b)
           f == Cardinality(Free(n, occ))
           a == allocationChunks(s, b)
           W == Wanted(s, b)
<1>1. w \in Nat \ {0}
  BY CoverPositive
<1>2. f \in Nat /\ Len(freeChunkIndices(s)) = f
  BY FreeList
<1>3. MaxChunks(b) \in Nat /\ MaxChunks(b) \in {w, w + 1}
  BY MaxChunksIs
<1>4. ASSUME w <= f PROVE W \in {w, w + 1} /\ W <= MaxChunks(b)
  <2> DEFINE e == mergedExtents(Taken(s, w), maxExtentChunks(s))
  <2>1. Taken(s, w) \in Seq(Nat) /\ Len(Taken(s, w)) = w /\ Rising(Taken(s, w))
    BY <1>1, <1>4, TakenIs
  <2>2. Merge(Taken(s, w), maxExtentChunks(s)) \in Seq(Extents) /\ Len(Merge(Taken(s, w), maxExtentChunks(s))) <= w
    BY <2>1, MergeIs
  <2>3. e \in Nat /\ e <= w
    BY <2>2 DEF mergedExtents
  <2>4. W = IF Short(w, b, e) THEN w + 1 ELSE w
    BY DEF Wanted
  <2> HIDE DEF e, W
  <2>5. Short(w, b, e) => MaxChunks(b) = w + 1
    BY <2>3, MaxChunksIs
  <2> HIDE DEF w
  <2> QED
    BY <1>1, <1>3, <2>4, <2>5
<1>5. a = IF w = 0 \/ f < w THEN 0 ELSE IF W > f THEN 0 ELSE W
  BY <1>2 DEF allocationChunks
<1> HIDE DEF a, w, f, W, s
<1> QED
  BY <1>1, <1>2, <1>3, <1>4, <1>5 DEF a, w, f, W, s
-----------------------------------------------------------------------------
(* Slices by the chunks taken in each. *)

Occ(tab, i) == {c \in 0 .. drive[i] - 1 : \E h \in tab :
                  h.slice = i /\ h.owner # Empty /\ c \in h.start .. h.start + h.len - 1}
Board(tab) == [i \in DOMAIN drive |-> Occ(tab, i)]
Boards == {o \in [DOMAIN drive -> SUBSET Nat] : \A i \in DOMAIN drive : o[i] \subseteq 0 .. drive[i] - 1}
View(o) == [i \in DOMAIN drive |-> Statistics(drive[i], o[i])]

LEMMA BoardIs == ASSUME NEW tab PROVE ReadTOC(tab) = View(Board(tab)) /\ Board(tab) \in Boards
<1>1. ASSUME NEW i \in DOMAIN drive
      PROVE  setupStatistics(drive[i], {h \in tab : h.slice = i}) = Statistics(drive[i], Board(tab)[i])
  <2>1. {c \in 0 .. drive[i] - 1 : \E h \in {h \in tab : h.slice = i} :
            h.owner # Empty /\ c \in h.start .. h.start + h.len - 1} = Board(tab)[i]
    BY DEF Board, Occ
  <2> QED
    BY <2>1 DEF setupStatistics
<1>2. ReadTOC(tab) = View(Board(tab))
  BY <1>1 DEF ReadTOC, View
<1>3. \A i \in DOMAIN drive : Board(tab)[i] \subseteq 0 .. drive[i] - 1 /\ Board(tab)[i] \in SUBSET Nat
  BY DEF Board, Occ
<1>4. Board(tab) = [i \in DOMAIN drive |-> Board(tab)[i]]
  BY DEF Board
<1>5. Board(tab) \in Boards
  BY <1>3, <1>4 DEF Boards
<1> QED
  BY <1>2, <1>5

LEMMA ClaimIs ==
  ASSUME NEW n \in Nat, NEW occ \in SUBSET (0 .. n - 1),
         NEW k \in Nat, k <= Cardinality(Free(n, occ))
  PROVE  LET new == occ \cup Lowest(n, occ, k) IN
         /\ Claim(Statistics(n, occ), k) = Statistics(n, new)
         /\ new \in SUBSET (0 .. n - 1)
         /\ Free(n, new) = Free(n, occ) \ Lowest(n, occ, k)
<1> DEFINE s == Statistics(n, occ)
           L == Lowest(n, occ, k)
           l == freeChunkIndices(s)
           new == occ \cup L
           claimed == {c \in DOMAIN s.chunkMap : \E i \in DOMAIN l : i <= k /\ l[i] = c}
<1>1. IsLowest(L, k, Free(n, occ))
  BY LowestIs
<1> USE <1>1 DEF IsLowest
<1>2. Free(n, occ) \subseteq 0 .. n - 1 /\ Free(n, occ) \cap occ = {}
  BY DEF Free
<1>3. /\ IsFiniteSet(occ)
      /\ DOMAIN s.chunkMap = 0 .. n - 1 /\ s.used \in Nat /\ s.free \in Nat
      /\ s.used = Cardinality(occ)
  BY SliceIs
<1>4. s = [total |-> n, used |-> Cardinality(occ), free |-> n - Cardinality(occ),
           chunkMap |-> [c \in 0 .. n - 1 |-> c \in occ]]
  BY DEF Statistics
<1>5. claimed = L
  <2>1. DOMAIN l = 1 .. Len(l) /\ Len(l) = Cardinality(Free(n, occ)) /\ Len(l) \in Nat
    BY FreeList
  <2>2. L = {l[i] : i \in 1 .. k}
    BY DEF Lowest
  <2> HIDE DEF l, L, s
  <2>3. \A i : i \in DOMAIN l /\ i <= k <=> i \in 1 .. k
    BY <2>1
  <2>4. L \subseteq DOMAIN s.chunkMap
    BY <1>1, <1>2, <1>3
  <2> QED
    BY <2>2, <2>3, <2>4
<1>6. Cardinality(new) = Cardinality(occ) + k
  <2>1. occ \cap L = {}
    BY <1>1, <1>2
  <2>2. Cardinality({}) = 0
    BY FS_EmptySet
  <2> HIDE DEF L
  <2>3. Cardinality(occ \cup L) = Cardinality(occ) + Cardinality(L) - Cardinality(occ \cap L)
    BY <1>1, <1>3, FS_Union
  <2>4. Cardinality(occ \cap L) = 0
    BY <2>1, <2>2
  <2>5. Cardinality(occ) \in Nat /\ Cardinality(L) = k
    BY <1>1, <1>3, FS_CardinalityType
  <2> QED
    BY <2>3, <2>4, <2>5
<1>7. Claim(s, k) = [total |-> s.total, used |-> s.used + k, free |-> s.free - k,
                     chunkMap |-> [c \in DOMAIN s.chunkMap |-> s.chunkMap[c] \/ c \in L]]
  BY <1>5 DEF Claim
<1> HIDE DEF L, claimed, l
<1>8. Claim(s, k) = Statistics(n, new)
  <2>1. Claim(s, k) = [total |-> n, used |-> Cardinality(occ) + k, free |-> (n - Cardinality(occ)) - k,
                       chunkMap |-> [c \in 0 .. n - 1 |-> c \in occ \/ c \in L]]
    <3> DEFINE f == [c \in 0 .. n - 1 |-> c \in occ]
    <3>1. s.total = n /\ s.used = Cardinality(occ) /\ s.free = n - Cardinality(occ) /\ s.chunkMap = f
      BY <1>4
    <3>2. [c \in DOMAIN f |-> f[c] \/ c \in L] = [c \in 0 .. n - 1 |-> c \in occ \/ c \in L]
      OBVIOUS
    <3> HIDE DEF s, f
    <3> QED
      BY <1>7, <3>1, <3>2
  <2>2. [c \in 0 .. n - 1 |-> c \in occ \/ c \in L] = [c \in 0 .. n - 1 |-> c \in new]
    OBVIOUS
  <2>3. (n - Cardinality(occ)) - k = n - (Cardinality(occ) + k)
    BY <1>3
  <2> QED
    BY <1>6, <2>1, <2>2, <2>3 DEF Statistics
<1>9. new \in SUBSET (0 .. n - 1) /\ Free(n, new) = Free(n, occ) \ L
  BY <1>1, <1>2 DEF Free
<1> QED
  BY <1>8, <1>9 DEF L

\* The slice chosen is the first that holds the image.
LEMMA FirstFitIs ==
  ASSUME drive \in Seq(Nat), NEW o \in Boards, NEW b \in Nat \ {0}
  PROVE  LET i == FirstFit(View(o), b) IN
         /\ i # 0 => /\ i \in DOMAIN drive /\ drive[i] \in Nat /\ o[i] \in SUBSET (0 .. drive[i] - 1)
                     /\ View(o)[i] = Statistics(drive[i], o[i])
                     /\ allocationChunks(Statistics(drive[i], o[i]), b) # 0
         /\ i = 0 => \A j \in DOMAIN drive : allocationChunks(Statistics(drive[j], o[j]), b) = 0
         /\ Fits(View(o), b) <=> i # 0
<1> DEFINE fits == {i \in DOMAIN View(o) : allocationChunks(View(o)[i], b) # 0}
           i == FirstFit(View(o), b)
<1>1. DOMAIN View(o) = DOMAIN drive /\ \A j \in DOMAIN drive : View(o)[j] = Statistics(drive[j], o[j])
  BY DEF View
<1>2. DOMAIN drive = 1 .. Len(drive) /\ Len(drive) \in Nat /\ \A j \in DOMAIN drive : drive[j] \in Nat
  OBVIOUS
<1>3. i = IF fits = {} THEN 0 ELSE Min(fits)
  BY DEF FirstFit
<1>4. fits \in SUBSET Nat /\ 0 \notin fits
  BY <1>1, <1>2
<1> HIDE DEF i
<1>5. CASE fits = {}
  BY <1>1, <1>3, <1>5 DEF Fits, i
<1>6. CASE fits # {}
  <2>1. i \in fits /\ i # 0
    <3> HIDE DEF fits
    <3> QED
      BY <1>3, <1>4, <1>6, MinIs
  <2>2. i \in DOMAIN drive /\ allocationChunks(View(o)[i], b) # 0
    BY <1>1, <2>1
  <2>3. o[i] \in SUBSET (0 .. drive[i] - 1)
    BY <2>2 DEF Boards
  <2> QED
    BY <1>1, <1>2, <2>1, <2>2, <2>3 DEF Fits, i
<1> QED
  BY <1>5, <1>6

\* The chunks taken once an image is placed.
Slot(o, b) == FirstFit(View(o), b)
Takes(o, b) == allocationChunks(Statistics(drive[Slot(o, b)], o[Slot(o, b)]), b)
Gets(o, b) == Lowest(drive[Slot(o, b)], o[Slot(o, b)], Takes(o, b))
After(o, b) == [o EXCEPT ![Slot(o, b)] = o[Slot(o, b)] \cup Gets(o, b)]

LEMMA PlaceIs ==
  ASSUME drive \in Seq(Nat), NEW o \in Boards, NEW b \in Nat \ {0}, Fits(View(o), b)
  PROVE  /\ Place(View(o), b) = View(After(o, b)) /\ After(o, b) \in Boards
         /\ AllocationFor(View(o), b) = Bytes(Takes(o, b))
         /\ Slot(o, b) \in DOMAIN drive /\ drive[Slot(o, b)] \in Nat
         /\ o[Slot(o, b)] \in SUBSET (0 .. drive[Slot(o, b)] - 1)
         /\ Takes(o, b) \in Nat /\ Takes(o, b) # 0
         /\ Takes(o, b) <= Cardinality(Free(drive[Slot(o, b)], o[Slot(o, b)]))
<1> DEFINE i == Slot(o, b)
           a == Takes(o, b)
<1>1. /\ i # 0 /\ i \in DOMAIN drive /\ drive[i] \in Nat /\ o[i] \in SUBSET (0 .. drive[i] - 1)
      /\ View(o)[i] = Statistics(drive[i], o[i])
  BY FirstFitIs DEF Slot
<1>2. a \in Nat /\ a # 0 /\ a <= Cardinality(Free(drive[i], o[i]))
  <2>1. allocationChunks(Statistics(drive[i], o[i]), b) # 0
    BY FirstFitIs, <1>1 DEF Slot
  <2> HIDE DEF i
  <2>2. /\ allocationChunks(Statistics(drive[i], o[i]), b) \in Nat
        /\ allocationChunks(Statistics(drive[i], o[i]), b) <= Cardinality(Free(drive[i], o[i]))
    BY <1>1, AllocationIs
  <2> QED
    BY <2>1, <2>2 DEF Takes, i
<1>3. Place(View(o), b) = [View(o) EXCEPT ![i] = Claim(View(o)[i], allocationChunks(View(o)[i], b))]
  BY DEF Place, Slot
<1>4. AllocationFor(View(o), b) = Bytes(a)
  BY <1>1 DEF AllocationFor, Takes, Slot
<1>5. allocationChunks(View(o)[i], b) = a
  BY <1>1 DEF Takes
<1> HIDE DEF i, a
<1>6. /\ Claim(View(o)[i], a) = Statistics(drive[i], o[i] \cup Lowest(drive[i], o[i], a))
      /\ o[i] \cup Lowest(drive[i], o[i], a) \in SUBSET (0 .. drive[i] - 1)
  <2> DEFINE n == drive[i]
             occ == o[i]
  <2>1. n \in Nat /\ occ \in SUBSET (0 .. n - 1) /\ a \in Nat /\ a <= Cardinality(Free(n, occ))
    BY <1>1, <1>2
  <2>2. View(o)[i] = Statistics(n, occ)
    BY <1>1
  <2> HIDE DEF n, occ
  <2>3. /\ Claim(Statistics(n, occ), a) = Statistics(n, occ \cup Lowest(n, occ, a))
        /\ occ \cup Lowest(n, occ, a) \in SUBSET (0 .. n - 1)
    BY <2>1, ClaimIs
  <2> QED
    BY <2>2, <2>3 DEF n, occ
<1>7. After(o, b) = [o EXCEPT ![i] = o[i] \cup Lowest(drive[i], o[i], a)]
  BY DEF After, Gets, i, a
<1> DEFINE x == o[i] \cup Lowest(drive[i], o[i], a)
<1> HIDE DEF x
<1>8. o \in [DOMAIN drive -> SUBSET Nat] /\ \A j \in DOMAIN drive : o[j] \subseteq 0 .. drive[j] - 1
  BY DEF Boards
<1>9. x \subseteq 0 .. drive[i] - 1 /\ x \in SUBSET Nat /\ After(o, b) = [o EXCEPT ![i] = x]
  <2>1. x \subseteq 0 .. drive[i] - 1
    BY <1>6 DEF x
  <2>2. 0 .. drive[i] - 1 \subseteq Nat
    BY <1>1
  <2> QED
    BY <1>7, <2>1, <2>2 DEF x
<1>10. After(o, b) \in Boards
  BY <1>1, <1>8, <1>9 DEF Boards
<1>11. Place(View(o), b) = [View(o) EXCEPT ![i] = Statistics(drive[i], x)]
  BY <1>3, <1>5, <1>6 DEF x
<1>12. [View(o) EXCEPT ![i] = Statistics(drive[i], x)] = View([o EXCEPT ![i] = x])
  BY <1>1, <1>8 DEF View
<1> QED
  BY <1>1, <1>2, <1>4, <1>9, <1>10, <1>11, <1>12 DEF i, a
-----------------------------------------------------------------------------
(* The chunks that headers of one slice cover, and their sum. *)

Span(h) == h.start .. h.start + h.len - 1
Cov(H) == {c \in Nat : \E h \in H : c \in Span(h)}
Lying(H) ==
  /\ IsFiniteSet(H) /\ \A h \in H : h.start \in Nat /\ h.len \in Nat \ {0}
  /\ \A h, k \in H : h # k => h.start + h.len <= k.start \/ k.start + k.len <= h.start

LEMMA CovStep ==
  ASSUME NEW H, Lying(H), NEW s \in SUBSET H, NEW x \in s, IsFiniteSet(Cov(s \ {x}))
  PROVE  IsFiniteSet(Cov(s)) /\ Cardinality(Cov(s)) = x.len + Cardinality(Cov(s \ {x}))
<1> DEFINE C == Cov(s \ {x})
<1>1. x.start \in Nat /\ x.len \in Nat /\ x.len > 0
  BY DEF Lying
<1>2. IsFiniteSet(Span(x)) /\ Cardinality(Span(x)) = x.len
  <2> DEFINE a == x.start
             b == x.start + x.len - 1
  <2>1. a \in Int /\ b \in Int /\ a <= b /\ b - a + 1 = x.len /\ Span(x) = a .. b
    BY <1>1 DEF Span
  <2> HIDE DEF a, b
  <2>2. IsFiniteSet(a .. b) /\ Cardinality(a .. b) = IF a > b THEN 0 ELSE b - a + 1
    BY <2>1, FS_Interval
  <2> QED
    BY <2>1, <2>2
<1>3. Cov(s) = C \cup Span(x)
  <2>1. Span(x) \subseteq Nat
    BY <1>1 DEF Span
  <2> QED
    BY <2>1 DEF Cov
<1>4. C \cap Span(x) = {}
  <2> SUFFICES ASSUME NEW c \in Nat, NEW h \in s \ {x}, c \in Span(h), c \in Span(x) PROVE FALSE
    BY DEF Cov
  <2>1. h.start + h.len <= x.start \/ x.start + x.len <= h.start
    BY DEF Lying
  <2>2. h.start \in Nat /\ h.len \in Nat
    BY DEF Lying
  <2> QED
    BY <1>1, <2>1, <2>2 DEF Span
<1>5. IsFiniteSet(C) /\ Cardinality(C) \in Nat
  BY FS_CardinalityType
<1> HIDE DEF C
<1>6. /\ IsFiniteSet(C \cup Span(x))
      /\ Cardinality(C \cup Span(x)) = Cardinality(C) + Cardinality(Span(x)) - Cardinality(C \cap Span(x))
  BY <1>2, <1>5, FS_Union
<1>7. Cardinality(C \cap Span(x)) = 0
  BY <1>4, FS_EmptySet
<1>8. Cardinality(C \cup Span(x)) = x.len + Cardinality(C)
  BY <1>1, <1>2, <1>5, <1>6, <1>7
<1> QED
  BY <1>3, <1>6, <1>8 DEF C

LEMMA CovFinite ==
  ASSUME NEW H, Lying(H), NEW s \in SUBSET H
  PROVE  IsFiniteSet(Cov(s)) /\ Cardinality(Cov(s)) \in Nat /\ IsFiniteSet(s) /\ Cardinality(s) \in Nat
<1> DEFINE E == {k \in Nat : \A u \in SUBSET H : Cardinality(u) < k => IsFiniteSet(Cov(u))}
<1>1. \A u \in SUBSET H : IsFiniteSet(u) /\ Cardinality(u) \in Nat
  BY FS_Subset, FS_CardinalityType DEF Lying
<1>2. 0 \in E
  BY <1>1
<1>3. ASSUME NEW k \in Nat, k \in E PROVE k + 1 \in E
  <2> SUFFICES ASSUME NEW u \in SUBSET H, Cardinality(u) < k + 1 PROVE IsFiniteSet(Cov(u))
    OBVIOUS
  <2>1. CASE u = {}
    <3>1. Cov(u) = {}
      BY <2>1 DEF Cov
    <3> QED
      BY <3>1, FS_EmptySet
  <2>2. CASE u # {}
    <3>1. PICK x \in u : TRUE
      BY <2>2
    <3>2. Cardinality(u \ {x}) = Cardinality(u) - 1 /\ u \ {x} \in SUBSET H
      BY <1>1, <3>1, FS_RemoveElement
    <3>3. Cardinality(u \ {x}) < k
      BY <1>1, <3>2
    <3>4. IsFiniteSet(Cov(u \ {x}))
      BY <1>3, <3>2, <3>3
    <3> QED
      BY <3>1, <3>4, CovStep
  <2> QED
    BY <2>1, <2>2
<1> HIDE DEF E
<1>4. Nat \subseteq E
  BY <1>2, <1>3, SetInduction
<1>5. Cardinality(s) + 1 \in E /\ Cardinality(s) < Cardinality(s) + 1
  BY <1>1, <1>4
<1>6. IsFiniteSet(Cov(s))
  BY <1>5 DEF E
<1> QED
  BY <1>1, <1>6, FS_CardinalityType

\* The sum that Footprint takes counts the chunks.
LEMMA SumIs ==
  ASSUME NEW H, Lying(H)
  PROVE  MapThenSumSet(LAMBDA h : h.len, H) = Cardinality(Cov(H))
<1> DEFINE pick(s) == CHOOSE x \in s : TRUE
           Fix(f) == f = [s \in SUBSET H |-> IF s = {} THEN 0 ELSE pick(s).len + f[s \ {pick(s)}]]
           it == CHOOSE f : Fix(f)
           g == [s \in SUBSET H |-> Cardinality(Cov(s))]
<1>1. MapThenSumSet(LAMBDA h : h.len, H) = it[H]
  BY DEF MapThenSumSet, MapThenFoldSet
<1>2. \A s \in SUBSET H : s # {} => pick(s) \in s /\ s \ {pick(s)} \in SUBSET H
  OBVIOUS
<1>3. Cardinality(Cov({})) = 0
  <2>1. Cov({}) = {}
    BY DEF Cov
  <2> QED
    BY <2>1, FS_EmptySet
<1> HIDE DEF pick
<1>4. ASSUME NEW s \in SUBSET H, s # {}
      PROVE  Cardinality(Cov(s)) = pick(s).len + Cardinality(Cov(s \ {pick(s)}))
  <2>1. pick(s) \in s /\ s \ {pick(s)} \in SUBSET H
    BY <1>2, <1>4
  <2>2. IsFiniteSet(Cov(s \ {pick(s)}))
    BY <2>1, CovFinite
  <2> QED
    BY <2>1, <2>2, CovStep
<1>5. Fix(it)
  <2>1. g = [s \in SUBSET H |-> IF s = {} THEN 0 ELSE pick(s).len + g[s \ {pick(s)}]]
    <3>1. \A s \in SUBSET H : g[s] = IF s = {} THEN 0 ELSE pick(s).len + g[s \ {pick(s)}]
      BY <1>2, <1>3, <1>4
    <3> QED
      BY <3>1
  <2> HIDE DEF g
  <2> QED
    BY <2>1
<1> HIDE DEF it
<1> DEFINE E == {k \in Nat : \A u \in SUBSET H : Cardinality(u) < k => it[u] = Cardinality(Cov(u))}
<1>6. \A u \in SUBSET H : IsFiniteSet(u) /\ Cardinality(u) \in Nat
  BY CovFinite
<1>7. 0 \in E
  BY <1>6
<1>8. ASSUME NEW k \in Nat, k \in E PROVE k + 1 \in E
  <2> SUFFICES ASSUME NEW u \in SUBSET H, Cardinality(u) < k + 1 PROVE it[u] = Cardinality(Cov(u))
    OBVIOUS
  <2>1. CASE u = {}
    BY <1>3, <1>5, <2>1
  <2>2. CASE u # {}
    <3> DEFINE v == u \ {pick(u)}
    <3>1. pick(u) \in u /\ v \in SUBSET H
      BY <1>2, <2>2
    <3>2. Cardinality(v) = Cardinality(u) - 1
      BY <1>6, <3>1, FS_RemoveElement
    <3>3. it[u] = pick(u).len + it[v]
      BY <1>5, <2>2
    <3>4. Cardinality(Cov(u)) = pick(u).len + Cardinality(Cov(v))
      BY <1>4, <2>2
    <3> HIDE DEF v
    <3>5. it[v] = Cardinality(Cov(v))
      BY <1>6, <1>8, <3>1, <3>2
    <3> QED
      BY <3>3, <3>4, <3>5
  <2> QED
    BY <2>1, <2>2
<1> HIDE DEF E
<1>9. Nat \subseteq E
  BY <1>7, <1>8, SetInduction
<1>10. Cardinality(H) + 1 \in E /\ Cardinality(H) < Cardinality(H) + 1 /\ H \in SUBSET H
  BY <1>6, <1>9
<1>11. it[H] = Cardinality(Cov(H))
  BY <1>10 DEF E
<1> QED
  BY <1>1, <1>11
-----------------------------------------------------------------------------
(* What an allocation leaves in the table. *)

\* The headers written for an image in slice i with chunks occ taken.
Written(t, i, occ) ==
  LET s == Statistics(drive[i], occ)
      want == chunksToCover(Size[t])
  IN {[slice |-> i, start |-> e.start, len |-> e.size, owner |-> t] :
        e \in Range(Merge(Taken(s, want), maxExtentChunks(s))) \cup
              {[start |-> c, size |-> 1] :
                 c \in Range(SubSeq(freeChunkIndices(s), want + 1, allocationChunks(s, Size[t])))}}

LEMMA ImageFinite ==
  ASSUME NEW S, IsFiniteSet(S), NEW f, DOMAIN f = S, f = [x \in S |-> f[x]]
  PROVE  IsFiniteSet({f[x] : x \in S})
<1> DEFINE T == {f[x] : x \in S}
<1>1. f \in [S -> T] /\ \A y \in T : \E x \in S : f[x] = y
  OBVIOUS
<1> HIDE DEF T
<1>2. f \in Surjection(S, T)
  BY <1>1 DEF Surjection
<1>3. IsFiniteSet(T)
  BY <1>2, FS_Surjection DEF ExistsSurjection
<1> QED
  BY <1>3 DEF T

Laid(X, L) ==
  /\ X \subseteq Extents /\ IsFiniteSet(X)
  /\ \A e, f \in X : e # f => e.start + e.size <= f.start \/ f.start + f.size <= e.start
  /\ {c \in Nat : \E e \in X : In(e, c)} = L

\* The extents a title gets are apart and cover the lowest free chunks.
LEMMA ExtentsAre ==
  ASSUME NEW n \in Nat, NEW occ \in SUBSET (0 .. n - 1), NEW b \in Nat \ {0},
         NEW w \in Nat, NEW a \in Nat, w <= a, a <= w + 1, a <= Cardinality(Free(n, occ)),
         NEW m,
         NEW X, X = Range(Merge(Taken(Statistics(n, occ), w), m)) \cup
              {[start |-> c, size |-> 1] : c \in Range(SubSeq(freeChunkIndices(Statistics(n, occ)), w + 1, a))}
  PROVE  Laid(X, Lowest(n, occ, a))
<1> DEFINE l == freeChunkIndices(Statistics(n, occ))
           ex == Merge(Taken(Statistics(n, occ), w), m)
           tail == SubSeq(l, w + 1, a)
           one == {[start |-> c, size |-> 1] : c \in Range(tail)}
<1>1. /\ l \in Seq(Nat) /\ Len(l) = Cardinality(Free(n, occ)) /\ DOMAIN l = 1 .. Len(l)
      /\ Len(l) \in Nat /\ Rising(l)
  BY FreeList
<1>2. w <= Cardinality(Free(n, occ))
  BY <1>1
<1>3. /\ Taken(Statistics(n, occ), w) \in Seq(Nat) /\ Rising(Taken(Statistics(n, occ), w))
      /\ Range(Taken(Statistics(n, occ), w)) = Lowest(n, occ, w)
  BY <1>2, TakenIs
<1>4. ex \in Seq(Extents) /\ Apart(ex) /\ Covers(ex) = Lowest(n, occ, w)
  <2> DEFINE tk == Taken(Statistics(n, occ), w)
  <2> HIDE DEF tk
  <2>1. Merge(tk, m) \in Seq(Extents) /\ Apart(Merge(tk, m)) /\ Covers(Merge(tk, m)) = Range(tk)
    BY <1>3, MergeIs DEF tk
  <2> QED
    BY <1>3, <2>1 DEF tk
<1>5. Lowest(n, occ, w) = {l[i] : i \in 1 .. w} /\ Lowest(n, occ, a) = {l[i] : i \in 1 .. a}
  BY DEF Lowest
<1>6. X = Range(ex) \cup one
  OBVIOUS
<1>7. Range(tail) = {l[i] : i \in w + 1 .. a}
  <2> HIDE DEF l
  <2>1. /\ Len(tail) = a - w /\ DOMAIN tail = 1 .. a - w
        /\ \A i \in 1 .. a - w : tail[i] = l[w + i]
    <3>1. w + 1 \in 1 .. Len(l) + 1 /\ a \in (w + 1) - 1 .. Len(l)
      BY <1>1, <1>2
    <3>2. /\ Len(tail) = IF w + 1 <= a THEN a - (w + 1) + 1 ELSE 0
          /\ \A i \in 1 .. a - (w + 1) + 1 : tail[i] = l[w + 1 + i - 1]
          /\ tail \in Seq(Nat)
      BY <1>1, <3>1, SubSeqProperties
    <3>3. a - (w + 1) + 1 = a - w /\ Len(tail) = a - w
      BY <3>2
    <3> HIDE DEF tail
    <3>4. DOMAIN tail = 1 .. a - w
      BY <3>2, <3>3
    <3>5. ASSUME NEW i \in 1 .. a - w PROVE tail[i] = l[w + i]
      <4>1. w + 1 + i - 1 = w + i
        OBVIOUS
      <4> QED
        BY <3>2, <3>3, <4>1
    <3> QED
      BY <3>3, <3>4, <3>5
  <2> HIDE DEF tail
  <2>2. ASSUME NEW i \in w + 1 .. a PROVE \E j \in DOMAIN tail : tail[j] = l[i]
    <3>1. i - w \in 1 .. a - w /\ w + (i - w) = i
      OBVIOUS
    <3> QED
      BY <2>1, <3>1
  <2>3. ASSUME NEW j \in DOMAIN tail PROVE \E i \in w + 1 .. a : tail[j] = l[i]
    <3>1. j \in 1 .. a - w
      BY <2>1
    <3>2. w + j \in w + 1 .. a
      BY <3>1
    <3> QED
      BY <2>1, <3>1, <3>2
  <2> QED
    BY <2>2, <2>3 DEF Range
<1> HIDE DEF ex, tail
<1>8. \A i \in 1 .. a : i \in DOMAIN l /\ l[i] \in Nat
  BY <1>1
<1>9. \A i, j \in 1 .. a : i < j => l[i] < l[j]
  BY <1>1, <1>8 DEF Rising
<1> HIDE DEF l
<1>10. DOMAIN ex = 1 .. Len(ex) /\ Len(ex) \in Nat /\ \A i \in DOMAIN ex : ex[i] \in Extents
  BY <1>4
<1>11. \A e \in Extents : e.start \in Nat /\ e.size \in Nat /\ e.size > 0
  BY DEF Extents
<1>12. \A e \in one : \E i \in w + 1 .. a : e.start = l[i] /\ e.size = 1
  BY <1>7
<1>13. \A i \in w + 1 .. a : \E e \in one : e.start = l[i] /\ e.size = 1
  <2> SUFFICES ASSUME NEW i \in w + 1 .. a PROVE \E e \in one : e.start = l[i] /\ e.size = 1
    OBVIOUS
  <2>1. [start |-> l[i], size |-> 1] \in one
    BY <1>7
  <2> QED
    BY <2>1
<1>14. one \subseteq Extents
  BY <1>7, <1>8 DEF Extents
<1>15. one = {[start |-> l[i], size |-> 1] : i \in w + 1 .. a}
  BY <1>7
<1> HIDE DEF one
<1>16. X \subseteq Extents
  BY <1>6, <1>10, <1>14 DEF Range
<1>17. IsFiniteSet(X)
  <2>1. IsFiniteSet(1 .. Len(ex)) /\ IsFiniteSet(w + 1 .. a)
    BY <1>10, FS_Interval
  <2>2. IsFiniteSet({ex[i] : i \in 1 .. Len(ex)})
    <3>1. ex = [i \in 1 .. Len(ex) |-> ex[i]]
      BY <1>4, <1>10
    <3> QED
      BY <1>10, <2>1, <3>1, ImageFinite
  <2>3. IsFiniteSet({[start |-> l[i], size |-> 1] : i \in w + 1 .. a})
    <3> DEFINE f == [i \in w + 1 .. a |-> [start |-> l[i], size |-> 1]]
    <3>1. DOMAIN f = w + 1 .. a /\ f = [i \in w + 1 .. a |-> f[i]]
      OBVIOUS
    <3>2. {[start |-> l[i], size |-> 1] : i \in w + 1 .. a} = {f[i] : i \in w + 1 .. a}
      OBVIOUS
    <3> HIDE DEF f
    <3>3. IsFiniteSet({f[i] : i \in w + 1 .. a})
      BY <2>1, <3>1, ImageFinite
    <3> QED
      BY <3>2, <3>3
  <2>4. Range(ex) = {ex[i] : i \in 1 .. Len(ex)}
    BY <1>10 DEF Range
  <2>5. IsFiniteSet(Range(ex)) /\ IsFiniteSet(one)
    BY <1>15, <2>2, <2>3, <2>4
  <2>6. IsFiniteSet(Range(ex) \cup one)
    BY <2>5, FS_Union
  <2> QED
    BY <1>6, <2>6
<1>18. ASSUME NEW e \in Range(ex), NEW i \in w + 1 .. a
       PROVE  e.start + e.size <= l[i]
  <2>1. e \in Extents /\ \E k \in DOMAIN ex : ex[k] = e
    BY <1>10 DEF Range
  <2> DEFINE c == e.start + e.size - 1
  <2>2. e.start \in Nat /\ e.size \in Nat /\ e.size > 0
    BY <1>11, <2>1
  <2>3. c \in Nat /\ In(e, c)
    BY <2>2 DEF In
  <2>4. c \in Covers(ex)
    BY <2>1, <2>3 DEF Covers
  <2>5. PICK j \in 1 .. w : c = l[j]
    BY <1>4, <1>5, <2>4
  <2>6. l[j] < l[i] /\ l[i] \in Nat
    BY <1>8, <1>9
  <2> HIDE DEF c
  <2>7. c < l[i]
    BY <2>5, <2>6
  <2> QED
    BY <2>2, <2>6, <2>7 DEF c
<1>19. ASSUME NEW e \in X, NEW f \in X, e # f
       PROVE  e.start + e.size <= f.start \/ f.start + f.size <= e.start
  <2>1. CASE e \in Range(ex) /\ f \in Range(ex)
    <3>1. PICK i \in DOMAIN ex, j \in DOMAIN ex : e = ex[i] /\ f = ex[j]
      BY <2>1 DEF Range
    <3>2. i # j /\ i \in Nat /\ j \in Nat
      BY <1>10, <1>19, <3>1
    <3> QED
      BY <1>4, <3>1, <3>2 DEF Apart
  <2>2. CASE e \in one /\ f \in Range(ex)
    BY <1>12, <1>18, <2>2
  <2>3. CASE e \in Range(ex) /\ f \in one
    BY <1>12, <1>18, <2>3
  <2>4. CASE e \in one /\ f \in one
    <3>1. PICK i \in w + 1 .. a, j \in w + 1 .. a :
            e = [start |-> l[i], size |-> 1] /\ f = [start |-> l[j], size |-> 1]
      BY <1>15, <2>4
    <3>2. i = j
      OBVIOUS
    <3> QED
      BY <1>19, <3>1, <3>2
  <2> QED
    BY <1>6, <2>1, <2>2, <2>3, <2>4
<1>20. {c \in Nat : \E e \in X : In(e, c)} = Lowest(n, occ, a)
  <2>1. \A c \in Nat : (\E e \in Range(ex) : In(e, c)) <=> \E i \in 1 .. w : c = l[i]
    <3>1. \A c \in Nat : c \in Covers(ex) <=> \E i \in 1 .. w : c = l[i]
      BY <1>4, <1>5
    <3> QED
      BY <3>1 DEF Covers, Range
  <2>2. \A c \in Nat : (\E e \in one : In(e, c)) <=> \E i \in w + 1 .. a : c = l[i]
    <3>1. \A c \in Nat, e, x \in Nat : e <= c /\ c < e + 1 <=> c = e
      OBVIOUS
    <3>2. \A i \in w + 1 .. a : i \in 1 .. a
      OBVIOUS
    <3>3. \A c \in Nat, e \in one : In(e, c) <=> c = e.start
      BY <1>8, <1>12, <3>1, <3>2 DEF In
    <3> QED
      BY <1>12, <1>13, <3>3
  <2>3. \A i : i \in 1 .. a <=> i \in 1 .. w \/ i \in w + 1 .. a
    OBVIOUS
  <2>4. \A c \in Nat : (\E e \in X : In(e, c)) <=> \E i \in 1 .. a : c = l[i]
    BY <1>6, <2>1, <2>2, <2>3
  <2> QED
    BY <1>5, <1>8, <2>4
<1> QED
  BY <1>16, <1>17, <1>19, <1>20 DEF Laid
-----------------------------------------------------------------------------
\* What hdl_dump leaves: a title's headers are apart, lie in its slice and cover the
\* chunks the plan's arithmetic takes; the slices then read as the plan has them.
Lands(t, tab) ==
  LET o == Board(tab)
      b == Size[t]
      i == Slot(o, b)
      N == Written(t, i, o[i])
      new == HdlAllocate(t, tab)
  IN /\ new = {h \in tab : h.owner # Empty} \cup N
     /\ \A h \in N : /\ h \in Headers /\ h.slice = i /\ h.owner = t
                     /\ h.start + h.len <= drive[i]
     /\ Lying(N) /\ N # {}
     /\ Cov(N) = Gets(o, b) /\ Cardinality(Cov(N)) = Takes(o, b)
     /\ Takes(o, b) \in Nat /\ chunksToCover(b) <= Takes(o, b) /\ Takes(o, b) <= MaxChunks(b)
     /\ AllocationFor(ReadTOC(tab), b) = Bytes(Takes(o, b))
     /\ Gets(o, b) \cap o[i] = {}
     /\ Board(new) = After(o, b) /\ After(o, b) \in Boards

LEMMA HdlIs ==
  ASSUME drive \in Seq(Nat), NEW tab, NEW t \in Titles, Fits(ReadTOC(tab), Size[t])
  PROVE  Lands(t, tab)
<1> DEFINE o == Board(tab)
           b == Size[t]
           i == Slot(o, b)
           n == drive[i]
           s == Statistics(n, o[i])
           a == Takes(o, b)
           w == chunksToCover(b)
           m == maxExtentChunks(s)
           N == Written(t, i, o[i])
           new == HdlAllocate(t, tab)
           X == Range(Merge(Taken(s, w), m)) \cup
                {[start |-> c, size |-> 1] : c \in Range(SubSeq(freeChunkIndices(s), w + 1, a))}
           H(e) == [slice |-> i, start |-> e.start, len |-> e.size, owner |-> t]
           kept == {h \in tab : h.owner # Empty}
<1>1. ReadTOC(tab) = View(o) /\ o \in Boards /\ b \in Nat \ {0} /\ Fits(View(o), b)
  BY BoardIs, SizeAssumption
<1> HIDE DEF o, b
<1>2. /\ Place(View(o), b) = View(After(o, b)) /\ After(o, b) \in Boards
      /\ AllocationFor(View(o), b) = Bytes(a)
      /\ i \in DOMAIN drive /\ n \in Nat /\ o[i] \in SUBSET (0 .. n - 1)
      /\ a \in Nat /\ a # 0 /\ a <= Cardinality(Free(n, o[i]))
  BY <1>1, PlaceIs
<1>3. w \in Nat \ {0}
  BY <1>1, CoverPositive
<1>4. a = allocationChunks(s, b)
  BY DEF Takes
<1>5. N = {H(e) : e \in X}
  BY <1>4 DEF Written, b
<1>6. new = kept \cup N
  <2>1. FirstFit(ReadTOC(tab), Size[t]) = i /\ ReadTOC(tab)[i] = s
    <3>1. i = FirstFit(View(o), b)
      BY DEF Slot
    <3>2. View(o)[i] = s
      BY <1>2 DEF View
    <3> HIDE DEF i
    <3> QED
      BY <1>1, <3>1, <3>2 DEF b
  <2>2. new = LET sl == ReadTOC(tab)
                  j == FirstFit(sl, Size[t])
                  st == sl[j]
                  want == chunksToCover(Size[t])
                  extents == Range(Merge(Taken(st, want), maxExtentChunks(st)))
                  extra == {[start |-> c, size |-> 1] :
                              c \in Range(SubSeq(freeChunkIndices(st), want + 1, allocationChunks(st, Size[t])))}
              IN {h \in tab : h.owner # Empty} \cup
                 {[slice |-> j, start |-> e.start, len |-> e.size, owner |-> t] : e \in extents \cup extra}
    BY DEF HdlAllocate
  <2> HIDE DEF new, kept, i, s
  <2>3. new = {h \in tab : h.owner # Empty} \cup {H(e) : e \in X}
    BY <1>4, <2>1, <2>2 DEF b
  <2> QED
    BY <1>5, <2>3 DEF kept
<1>7. a \in {w, w + 1} /\ w <= a /\ a <= MaxChunks(b)
  BY <1>1, <1>2, <1>4, AllocationIs
<1>8. IsLowest(Lowest(n, o[i], a), a, Free(n, o[i]))
  BY <1>2, LowestIs
<1>9. Lowest(n, o[i], a) = Gets(o, b)
  BY DEF Gets
<1> HIDE DEF a, w, m, N, new, i, n
<1>10. /\ X \subseteq Extents /\ IsFiniteSet(X)
       /\ \A e, f \in X : e # f => e.start + e.size <= f.start \/ f.start + f.size <= e.start
       /\ {c \in Nat : \E e \in X : In(e, c)} = Lowest(n, o[i], a)
  <2>1. w \in Nat /\ w <= a /\ a <= w + 1
    BY <1>2, <1>3, <1>7
  <2>2. X = Range(Merge(Taken(Statistics(n, o[i]), w), m)) \cup
              {[start |-> c, size |-> 1] : c \in Range(SubSeq(freeChunkIndices(Statistics(n, o[i])), w + 1, a))}
    OBVIOUS
  <2> DEFINE occ == o[i]
  <2>3. occ \in SUBSET (0 .. n - 1) /\ a <= Cardinality(Free(n, occ))
    BY <1>2
  <2> HIDE DEF X, occ
  <2>4. Laid(X, Lowest(n, occ, a))
    <3>1. X = Range(Merge(Taken(Statistics(n, occ), w), m)) \cup
                {[start |-> c, size |-> 1] : c \in Range(SubSeq(freeChunkIndices(Statistics(n, occ)), w + 1, a))}
      BY <2>2 DEF occ
    <3> QED
      BY <1>1, <1>2, <2>1, <2>3, <3>1, ExtentsAre
  <2> QED
    BY <2>4 DEF occ, Laid
<1> HIDE DEF X, s
<1>11. Gets(o, b) \subseteq Free(n, o[i]) /\ Cardinality(Gets(o, b)) = a
  BY <1>8, <1>9 DEF IsLowest
<1>12. Gets(o, b) \subseteq 0 .. n - 1 /\ Gets(o, b) \cap o[i] = {}
  BY <1>11 DEF Free
<1>13. \A e \in X : e.start \in Nat /\ e.size \in Nat \ {0}
  BY <1>10 DEF Extents
<1>14. ASSUME NEW e \in X PROVE e.start + e.size <= n
  <2> DEFINE c == e.start + e.size - 1
  <2>1. c \in Nat /\ In(e, c)
    BY <1>13 DEF In
  <2>2. c \in 0 .. n - 1
    BY <1>9, <1>10, <1>12, <2>1
  <2> HIDE DEF c
  <2>3. c <= n - 1
    BY <2>2
  <2> QED
    BY <1>2, <1>13, <2>3 DEF c
<1>15. ASSUME NEW h \in N
       PROVE  /\ h \in Headers /\ h.slice = i /\ h.owner = t
              /\ h.start + h.len <= n
  <2>1. PICK e \in X : h = H(e)
    BY <1>5
  <2>2. e.start \in Nat /\ e.size \in Nat \ {0} /\ e.start + e.size <= n
    BY <1>13, <1>14
  <2>3. h.slice = i /\ h.start = e.start /\ h.len = e.size /\ h.owner = t
    BY <2>1
  <2>4. h \in Headers
    BY <1>2, <2>1, <2>2 DEF Headers, Owners
  <2> QED
    BY <2>2, <2>3, <2>4
<1>16. Lying(N)
  <2>1. IsFiniteSet(N)
    <3> DEFINE f == [e \in X |-> H(e)]
    <3>1. DOMAIN f = X /\ f = [e \in X |-> f[e]]
      OBVIOUS
    <3>2. N = {f[e] : e \in X}
      BY <1>5
    <3> HIDE DEF f
    <3> QED
      BY <1>10, <3>1, <3>2, ImageFinite
  <2>2. \A h \in N : h.start \in Nat /\ h.len \in Nat \ {0}
    BY <1>5, <1>13
  <2>3. ASSUME NEW h \in N, NEW k \in N, h # k
        PROVE  h.start + h.len <= k.start \/ k.start + k.len <= h.start
    <3>1. PICK e \in X, f \in X : h = H(e) /\ k = H(f)
      BY <1>5
    <3>2. e # f
      BY <2>3, <3>1
    <3>3. e.start + e.size <= f.start \/ f.start + f.size <= e.start
      BY <1>10, <3>2
    <3> QED
      BY <3>1, <3>3
  <2> QED
    BY <2>1, <2>2, <2>3 DEF Lying
<1>17. Cov(N) = Gets(o, b)
  <2>1. \A c, p \in Nat, z \in Nat : c \in p .. p + z - 1 <=> p <= c /\ c < p + z
    OBVIOUS
  <2>2. \A e \in X, c \in Nat : c \in Span(H(e)) <=> In(e, c)
    BY <1>13, <2>1 DEF Span, In
  <2>3. Cov(N) = {c \in Nat : \E e \in X : In(e, c)}
    BY <1>5, <2>2 DEF Cov
  <2> QED
    BY <1>9, <1>10, <2>3
<1>18. N # {}
  <2> SUFFICES ASSUME N = {} PROVE FALSE
    OBVIOUS
  <2>1. Cov(N) = {}
    BY DEF Cov
  <2>2. Cardinality({}) = 0
    BY FS_EmptySet
  <2> QED
    BY <1>2, <1>11, <1>17, <2>1, <2>2
<1>19. Board(new) = After(o, b)
  <2>1. ASSUME NEW j \in DOMAIN drive
        PROVE  Occ(new, j) = IF j = i THEN o[i] \cup Gets(o, b) ELSE o[j]
    <3>1. o[j] = Occ(tab, j)
      BY DEF o, Board
    <3>2. \A c : c \in Occ(new, j) <=> c \in 0 .. drive[j] - 1 /\
                   \E h \in kept \cup N : h.slice = j /\ h.owner # Empty /\ c \in h.start .. h.start + h.len - 1
      BY <1>6 DEF Occ
    <3>3. \A c : c \in o[j] <=> c \in 0 .. drive[j] - 1 /\
                   \E h \in kept : h.slice = j /\ h.owner # Empty /\ c \in h.start .. h.start + h.len - 1
      BY <3>1 DEF Occ
    <3>4. \A h \in N : h.slice = i /\ h.owner # Empty
      BY <1>15, OwnersAssumption
    <3>5. \A c : c \in Gets(o, b) <=> c \in 0 .. n - 1 /\ \E h \in N : c \in h.start .. h.start + h.len - 1
      <4>1. \A c \in 0 .. n - 1 : c \in Nat
        OBVIOUS
      <4> QED
        BY <1>12, <1>17, <4>1 DEF Cov, Span
    <3> HIDE DEF kept
    <3>6. CASE j = i
      <4>1. \A c : c \in Occ(new, j) <=> c \in o[i] \/ c \in Gets(o, b)
        BY <3>2, <3>3, <3>4, <3>5, <3>6 DEF n
      <4> QED
        BY <3>6, <4>1
    <3>7. CASE j # i
      BY <3>2, <3>3, <3>4, <3>7
    <3> QED
      BY <3>6, <3>7
  <2>2. After(o, b) = [o EXCEPT ![i] = o[i] \cup Gets(o, b)] /\ o \in [DOMAIN drive -> SUBSET Nat]
    BY <1>1 DEF After, Boards, i
  <2>3. After(o, b) = [j \in DOMAIN drive |-> IF j = i THEN o[i] \cup Gets(o, b) ELSE o[j]]
    BY <2>2
  <2> QED
    BY <2>1, <2>3 DEF Board
<1> QED
  BY <1>1, <1>2, <1>6, <1>7, <1>11, <1>12, <1>15, <1>16, <1>17, <1>18, <1>19
     DEF Lands, o, b, i, a, w, N, new, n
-----------------------------------------------------------------------------
(* The folds over titles and plans. *)

\* Sorted lists titles of the set, each once.
LEMMA SortedIs ==
  ASSUME NEW S \in SUBSET Titles
  PROVE  Sorted(S) \in Seq(S) /\ IsInjective(Sorted(S))
<1> DEFINE n == Len(Order)
           V == Seq(Titles)
           base == <<>>
           Take(v, t) == IF t \in S THEN Append(v, t) ELSE v
           G == [i \in 1 .. n |-> [v \in V |-> Take(v, Order[i])]]
           Fix(f) == f = [s \in SUBSET (1 .. n) |->
                            IF s = {} THEN base ELSE Take(f[s \ {Max(s)}], Order[Max(s)])]
           fl == CHOOSE f : Fix(f)
<1>1. n \in Nat /\ DOMAIN Order = 1 .. n /\ \A i \in 1 .. n : Order[i] \in Titles
  BY OrderAssumption
<1>2. base \in V /\ \A v \in V, t \in Titles : Take(v, t) \in V
  BY AppendProperties
<1>3. Sorted(S) = fl[1 .. n]
  BY <1>1 DEF Sorted, FoldLeft, MapThenFoldSet
<1>4. G \in [1 .. n -> [V -> V]]
  BY <1>1, <1>2
<1>5. ASSUME NEW s \in SUBSET (1 .. n), s # {} PROVE Max(s) \in 1 .. n
  BY <1>1, <1>5, MaxIs
<1> HIDE DEF n, V, base, Take
<1>6. Fix(fl)
  <2> HIDE DEF G
  <2>0. PICK g : Folded(g, n, V, base, G)
    BY <1>1, <1>2, <1>4, FoldExists
  <2>1. /\ g \in [SUBSET (1 .. n) -> V]
        /\ \A s \in SUBSET (1 .. n) : g[s] = IF s = {} THEN base ELSE G[Max(s)][g[s \ {Max(s)}]]
    BY <2>0 DEF Folded
  <2>2. ASSUME NEW s \in SUBSET (1 .. n), s # {}
        PROVE  g[s] = Take(g[s \ {Max(s)}], Order[Max(s)])
    BY <1>5, <2>1, <2>2 DEF G
  <2>3. Fix(g)
    BY <2>1, <2>2
  <2> QED
    BY <2>3
<1> HIDE DEF fl
<1>7. FoldValues(fl, n, V, base, G)
  <2>1. \A s \in SUBSET (1 .. n) :
          /\ s = {} => fl[s] = base
          /\ s # {} /\ fl[s \ {Max(s)}] \in V => fl[s] = G[Max(s)][fl[s \ {Max(s)}]]
    BY <1>5, <1>6
  <2> HIDE DEF G
  <2> QED
    BY <1>1, <1>2, <1>4, <2>1, FoldSteps
<1>8. PICK a : Folding(a, n, V, base, G) /\ a[n] = fl[1 .. n]
  BY <1>7 DEF FoldValues
<1>9. /\ a[0] = base /\ \A i \in 0 .. n : a[i] \in V
      /\ \A i \in 0 .. n - 1 : a[i + 1] = Take(a[i], Order[i + 1])
  <2>1. ASSUME NEW i \in 0 .. n - 1 PROVE a[i + 1] = Take(a[i], Order[i + 1])
    <3>1. i + 1 \in 1 .. n /\ i \in 0 .. n /\ (i + 1) - 1 = i
      BY <1>1
    <3>2. a[i] \in V /\ a[i + 1] = G[i + 1][a[i]]
      BY <1>8, <3>1 DEF Folding
    <3> QED
      BY <3>1, <3>2
  <2> QED
    BY <1>8, <2>1 DEF Folding
<1> HIDE DEF G
<1> DEFINE Right(i) == /\ \A k \in DOMAIN a[i] : a[i][k] \in S /\ \E j \in 1 .. i : a[i][k] = Order[j]
                       /\ IsInjective(a[i])
           E == {i \in Nat : i <= n => Right(i)}
<1>10. 0 \in E
  BY <1>9 DEF base, IsInjective
<1>11. ASSUME NEW i \in Nat, i \in E PROVE i + 1 \in E
  <2> SUFFICES ASSUME i + 1 <= n PROVE Right(i + 1)
    OBVIOUS
  <2>1. i \in 0 .. n - 1 /\ i \in 0 .. n /\ i + 1 \in 1 .. n /\ Right(i)
    BY <1>1, <1>11
  <2>2. a[i] \in Seq(Titles) /\ a[i + 1] = Take(a[i], Order[i + 1]) /\ Order[i + 1] \in Titles
    BY <1>1, <1>9, <2>1 DEF V
  <2>3. CASE Order[i + 1] \in S
    <3>1. a[i + 1] = Append(a[i], Order[i + 1])
      BY <2>2, <2>3 DEF Take
    <3>2. /\ DOMAIN a[i + 1] = 1 .. Len(a[i]) + 1 /\ DOMAIN a[i] = 1 .. Len(a[i]) /\ Len(a[i]) \in Nat
          /\ a[i + 1][Len(a[i]) + 1] = Order[i + 1]
          /\ \A k \in 1 .. Len(a[i]) : a[i + 1][k] = a[i][k]
      BY <2>2, <3>1, AppendProperties
    <3>3. \A k \in 1 .. Len(a[i]) : a[i][k] # Order[i + 1]
      <4> SUFFICES ASSUME NEW k \in 1 .. Len(a[i]), a[i][k] = Order[i + 1] PROVE FALSE
        OBVIOUS
      <4>1. PICK j \in 1 .. i : a[i][k] = Order[j]
        BY <2>1, <3>2
      <4>2. j \in DOMAIN Order /\ i + 1 \in DOMAIN Order /\ j # i + 1
        BY <1>1, <2>1
      <4> QED
        BY <4>1, <4>2, OrderAssumption DEF IsInjective
    <3>4. \A k \in 1 .. Len(a[i]) + 1 : k = Len(a[i]) + 1 \/ k \in 1 .. Len(a[i])
      BY <3>2
    <3>5. i + 1 \in 1 .. i + 1 /\ 1 .. i \subseteq 1 .. i + 1
      OBVIOUS
    <3>6. ASSUME NEW k \in DOMAIN a[i + 1]
          PROVE  a[i + 1][k] \in S /\ \E j \in 1 .. i + 1 : a[i + 1][k] = Order[j]
      BY <2>1, <2>3, <3>2, <3>4, <3>5
    <3>7. IsInjective(a[i + 1])
      BY <2>1, <3>2, <3>3, <3>4 DEF IsInjective
    <3> QED
      BY <3>6, <3>7
  <2>4. CASE Order[i + 1] \notin S
    <3>1. a[i + 1] = a[i]
      BY <2>2, <2>4 DEF Take
    <3>2. 1 .. i \subseteq 1 .. i + 1
      OBVIOUS
    <3> QED
      BY <2>1, <3>1, <3>2
  <2> QED
    BY <2>3, <2>4
<1> HIDE DEF Right
<1>12. n \in E
  BY <1>1, <1>10, <1>11, SetInduction
<1>13. Right(n) /\ a[n] \in Seq(Titles)
  BY <1>1, <1>9, <1>12 DEF V
<1>14. a[n] \in Seq(S)
  BY <1>13, SeqDef DEF Right
<1> QED
  BY <1>3, <1>8, <1>13, <1>14 DEF Right

\* splitPlan, entry by entry.
Entries == [game : Titles, fits : BOOLEAN, bytes : Nat]
Splitting(v, e) == IF e.fits THEN Append(v, e.game) ELSE v
SplitRun(a, entries) ==
  /\ a[0] = <<>> /\ splitPlan(entries) = a[Len(entries)]
  /\ \A i \in 0 .. Len(entries) : a[i] \in Seq(Titles)
  /\ \A i \in 1 .. Len(entries) : a[i] = Splitting(a[i - 1], entries[i])

LEMMA SplitIs ==
  ASSUME NEW entries \in Seq(Entries)
  PROVE  \E a : SplitRun(a, entries)
<1> DEFINE n == Len(entries)
           V == Seq(Titles)
           base == <<>>
           G == [i \in 1 .. n |-> [v \in V |-> Splitting(v, entries[i])]]
           Fix(f) == f = [s \in SUBSET (1 .. n) |->
                            IF s = {} THEN base ELSE Splitting(f[s \ {Max(s)}], entries[Max(s)])]
           fl == CHOOSE f : Fix(f)
<1>1. n \in Nat /\ DOMAIN entries = 1 .. n /\ \A i \in 1 .. n : entries[i] \in Entries
  OBVIOUS
<1>2. base \in V /\ \A v \in V, e \in Entries : Splitting(v, e) \in V
  BY AppendProperties DEF Splitting, Entries
<1>3. splitPlan(entries) = fl[1 .. n]
  BY <1>1 DEF splitPlan, FoldLeft, MapThenFoldSet, Splitting
<1>4. G \in [1 .. n -> [V -> V]]
  BY <1>1, <1>2
<1>5. ASSUME NEW s \in SUBSET (1 .. n), s # {} PROVE Max(s) \in 1 .. n
  BY <1>1, <1>5, MaxIs
<1> HIDE DEF n, V, base
<1>6. Fix(fl)
  <2> HIDE DEF G
  <2>0. PICK g : Folded(g, n, V, base, G)
    BY <1>1, <1>2, <1>4, FoldExists
  <2>1. /\ g \in [SUBSET (1 .. n) -> V]
        /\ \A s \in SUBSET (1 .. n) : g[s] = IF s = {} THEN base ELSE G[Max(s)][g[s \ {Max(s)}]]
    BY <2>0 DEF Folded
  <2>2. ASSUME NEW s \in SUBSET (1 .. n), s # {}
        PROVE  g[s] = Splitting(g[s \ {Max(s)}], entries[Max(s)])
    BY <1>5, <2>1, <2>2 DEF G
  <2>3. Fix(g)
    BY <2>1, <2>2
  <2> QED
    BY <2>3
<1> HIDE DEF fl
<1>7. FoldValues(fl, n, V, base, G)
  <2>1. \A s \in SUBSET (1 .. n) :
          /\ s = {} => fl[s] = base
          /\ s # {} /\ fl[s \ {Max(s)}] \in V => fl[s] = G[Max(s)][fl[s \ {Max(s)}]]
    BY <1>5, <1>6
  <2> HIDE DEF G
  <2> QED
    BY <1>1, <1>2, <1>4, <2>1, FoldSteps
<1>8. PICK a : Folding(a, n, V, base, G) /\ a[n] = fl[1 .. n]
  BY <1>7 DEF FoldValues
<1>9. ASSUME NEW i \in 1 .. n PROVE a[i] = Splitting(a[i - 1], entries[i])
  <2>1. i - 1 \in 0 .. n
    BY <1>1
  <2>2. a[i - 1] \in V /\ a[i] = G[i][a[i - 1]]
    BY <1>8, <2>1 DEF Folding
  <2> QED
    BY <2>2
<1> HIDE DEF G
<1> QED
  BY <1>3, <1>8, <1>9 DEF Folding, SplitRun, n, V, base

\* PlaceEach, title by title.
Plans == [slices : {View(o) : o \in Boards}, entries : Seq(Entries)]
Entry(acc, t) ==
  [game |-> t, fits |-> Fits(acc.slices, Size[t]),
   bytes |-> IF Fits(acc.slices, Size[t])
             THEN AllocationFor(acc.slices, Size[t])
             ELSE MaxAllocationFor(Size[t])]
Placing(acc, t) ==
  [slices |-> Place(acc.slices, Size[t]), entries |-> Append(acc.entries, Entry(acc, t))]
PlanRun(a, games) ==
  /\ a[0] = [slices |-> ReadTOC(table), entries |-> <<>>]
  /\ PlaceEach(games) = a[Len(games)].entries
  /\ \A i \in 0 .. Len(games) : a[i] \in Plans
  /\ \A i \in 1 .. Len(games) : a[i] = Placing(a[i - 1], games[i])

LEMMA PlacingIs ==
  ASSUME drive \in Seq(Nat), NEW v \in Plans, NEW t \in Titles
  PROVE  Placing(v, t) \in Plans /\ Entry(v, t) \in Entries
<1>1. PICK o \in Boards : v.slices = View(o)
  BY DEF Plans
<1>2. Size[t] \in Nat \ {0} /\ v.entries \in Seq(Entries)
  BY SizeAssumption DEF Plans
<1>3. Place(v.slices, Size[t]) \in {View(p) : p \in Boards}
  <2>1. CASE Fits(View(o), Size[t])
    <3>1. Place(View(o), Size[t]) = View(After(o, Size[t])) /\ After(o, Size[t]) \in Boards
      BY <1>2, <2>1, PlaceIs
    <3> QED
      BY <1>1, <3>1
  <2>2. CASE ~Fits(View(o), Size[t])
    BY <1>1, <2>2 DEF Place
  <2> QED
    BY <2>1, <2>2
<1>4. Entry(v, t) \in Entries
  <2>1. Fits(View(o), Size[t]) => AllocationFor(View(o), Size[t]) \in Nat
    <3> SUFFICES ASSUME Fits(View(o), Size[t]) PROVE AllocationFor(View(o), Size[t]) \in Nat
      OBVIOUS
    <3>1. AllocationFor(View(o), Size[t]) = Bytes(Takes(o, Size[t])) /\ Takes(o, Size[t]) \in Nat
      BY <1>2, PlaceIs
    <3> QED
      BY <3>1, BytesGrow
  <2>2. MaxAllocationFor(Size[t]) \in Nat
    <3>1. MaxChunks(Size[t]) \in Nat
      BY <1>2, MaxChunksIs
    <3> QED
      BY <3>1, BytesGrow DEF MaxAllocationFor
  <2>3. Fits(View(o), Size[t]) \in BOOLEAN
    BY DEF Fits
  <2> QED
    BY <1>1, <2>1, <2>2, <2>3 DEF Entry, Entries
<1>5. Append(v.entries, Entry(v, t)) \in Seq(Entries)
  BY <1>2, <1>4, AppendProperties
<1> QED
  BY <1>3, <1>4, <1>5 DEF Placing, Plans

LEMMA PlanIs ==
  ASSUME drive \in Seq(Nat), NEW games \in Seq(Titles)
  PROVE  \E a : PlanRun(a, games)
<1> DEFINE n == Len(games)
           V == Plans
           base == [slices |-> ReadTOC(table), entries |-> <<>>]
           G == [i \in 1 .. n |-> [v \in V |-> Placing(v, games[i])]]
           Fix(f) == f = [s \in SUBSET (1 .. n) |->
                            IF s = {} THEN base ELSE Placing(f[s \ {Max(s)}], games[Max(s)])]
           fl == CHOOSE f : Fix(f)
<1>1. n \in Nat /\ DOMAIN games = 1 .. n /\ \A i \in 1 .. n : games[i] \in Titles
  OBVIOUS
<1>2. base \in V
  <2>1. ReadTOC(table) = View(Board(table)) /\ Board(table) \in Boards
    BY BoardIs
  <2> QED
    BY <2>1 DEF Plans
<1>3. PlaceEach(games) = fl[1 .. n].entries
  BY <1>1 DEF PlaceEach, FoldLeft, MapThenFoldSet, Placing, Entry
<1>4. G \in [1 .. n -> [V -> V]]
  BY <1>1, PlacingIs
<1>5. ASSUME NEW s \in SUBSET (1 .. n), s # {} PROVE Max(s) \in 1 .. n
  BY <1>1, <1>5, MaxIs
<1> HIDE DEF n, V, base
<1>6. Fix(fl)
  <2> HIDE DEF G
  <2>0. PICK g : Folded(g, n, V, base, G)
    BY <1>1, <1>2, <1>4, FoldExists
  <2>1. /\ g \in [SUBSET (1 .. n) -> V]
        /\ \A s \in SUBSET (1 .. n) : g[s] = IF s = {} THEN base ELSE G[Max(s)][g[s \ {Max(s)}]]
    BY <2>0 DEF Folded
  <2>2. ASSUME NEW s \in SUBSET (1 .. n), s # {}
        PROVE  g[s] = Placing(g[s \ {Max(s)}], games[Max(s)])
    BY <1>5, <2>1, <2>2 DEF G
  <2>3. Fix(g)
    BY <2>1, <2>2
  <2> QED
    BY <2>3
<1> HIDE DEF fl
<1>7. FoldValues(fl, n, V, base, G)
  <2>1. \A s \in SUBSET (1 .. n) :
          /\ s = {} => fl[s] = base
          /\ s # {} /\ fl[s \ {Max(s)}] \in V => fl[s] = G[Max(s)][fl[s \ {Max(s)}]]
    BY <1>5, <1>6
  <2> HIDE DEF G
  <2> QED
    BY <1>1, <1>2, <1>4, <2>1, FoldSteps
<1>8. PICK a : Folding(a, n, V, base, G) /\ a[n] = fl[1 .. n]
  BY <1>7 DEF FoldValues
<1>9. ASSUME NEW i \in 1 .. n PROVE a[i] = Placing(a[i - 1], games[i])
  <2>1. i - 1 \in 0 .. n
    BY <1>1
  <2>2. a[i - 1] \in V /\ a[i] = G[i][a[i - 1]]
    BY <1>8, <2>1 DEF Folding
  <2> QED
    BY <2>2
<1> HIDE DEF G
<1> QED
  BY <1>3, <1>8, <1>9 DEF Folding, PlanRun, n, V, base

\* What a plan foretells: the titles that fit, and the chunks taken before each.
Foretold(L, O) ==
  /\ L \in Seq(Titles) /\ IsInjective(L)
  /\ O \in [1 .. Len(L) + 1 -> Boards]
  /\ \A k \in 1 .. Len(L) : Fits(View(O[k]), Size[L[k]]) /\ O[k + 1] = After(O[k], Size[L[k]])
Tells(e, L, O) ==
  e.fits => \E k \in 1 .. Len(L) : e.game = L[k] /\ e.bytes = Bytes(Takes(O[k], Size[L[k]]))
Promise(games) ==
  LET es == PlaceEach(games)
      L == splitPlan(es)
  IN /\ es \in Seq(Entries) /\ L \in Seq(Titles)
     /\ \A k \in 1 .. Len(L) : \E j \in DOMAIN games : L[k] = games[j]
     /\ \E O : /\ Foretold(L, O) /\ O[1] = Board(table)
               /\ \A j \in DOMAIN es : Tells(es[j], L, O)

LEMMA PlanRows ==
  ASSUME drive \in Seq(Nat), NEW games \in Seq(Titles), NEW a, PlanRun(a, games)
  PROVE  LET es == PlaceEach(games) IN
         /\ es \in Seq(Entries) /\ Len(es) = Len(games) /\ DOMAIN es = 1 .. Len(games)
         /\ \A j \in 1 .. Len(games) : es[j] = Entry(a[j - 1], games[j])
<1> DEFINE n == Len(games)
           es == PlaceEach(games)
           Rows(i) == /\ Len(a[i].entries) = i
                      /\ \A j \in 1 .. i : a[i].entries[j] = Entry(a[j - 1], games[j])
           E == {i \in Nat : i <= n => Rows(i)}
<1>1. n \in Nat /\ \A i \in 1 .. n : games[i] \in Titles
  OBVIOUS
<1>2. /\ a[0].entries = <<>> /\ es = a[n].entries
      /\ \A i \in 0 .. n : a[i] \in Plans /\ a[i].entries \in Seq(Entries)
      /\ \A i \in 1 .. n : a[i] = Placing(a[i - 1], games[i])
  BY DEF PlanRun, Plans
<1> HIDE DEF n
<1>3. 0 \in E
  BY <1>2
<1>4. ASSUME NEW i \in Nat, i \in E PROVE i + 1 \in E
  <2> SUFFICES ASSUME i + 1 <= n PROVE Rows(i + 1)
    OBVIOUS
  <2>1. i \in 0 .. n /\ i + 1 \in 1 .. n /\ (i + 1) - 1 = i /\ Rows(i)
    BY <1>1, <1>4
  <2>2. a[i + 1].entries = Append(a[i].entries, Entry(a[i], games[i + 1])) /\ a[i].entries \in Seq(Entries)
    <3>1. a[i + 1] = Placing(a[i], games[i + 1]) /\ a[i].entries \in Seq(Entries)
      BY <1>2, <2>1
    <3> QED
      BY <3>1 DEF Placing
  <2>3. /\ Len(a[i + 1].entries) = i + 1
        /\ a[i + 1].entries[i + 1] = Entry(a[i], games[i + 1])
        /\ \A j \in 1 .. i : a[i + 1].entries[j] = a[i].entries[j]
    <3> DEFINE x == a[i].entries
               y == Entry(a[i], games[i + 1])
    <3>1. x \in Seq(Entries) /\ Len(x) = i /\ a[i + 1].entries = Append(x, y) /\ y \in Entries
      BY <1>1, <1>2, <2>1, <2>2, PlacingIs
    <3> HIDE DEF x, y
    <3>2. Len(Append(x, y)) = i + 1 /\ Append(x, y)[i + 1] = y /\ \A j \in 1 .. i : Append(x, y)[j] = x[j]
      BY <3>1, AppendProperties
    <3> QED
      BY <3>1, <3>2 DEF x, y
  <2>4. \A j \in 1 .. i + 1 : j = i + 1 \/ j \in 1 .. i
    OBVIOUS
  <2> QED
    BY <2>1, <2>3, <2>4
<1> HIDE DEF Rows
<1>5. Rows(n)
  <2>1. n \in E
    BY <1>1, <1>3, <1>4, SetInduction
  <2> QED
    BY <1>1, <2>1
<1>6. es \in Seq(Entries)
  BY <1>1, <1>2
<1>7. Len(es) = n /\ \A j \in 1 .. n : es[j] = Entry(a[j - 1], games[j])
  BY <1>2, <1>5 DEF Rows
<1> HIDE DEF es
<1>8. DOMAIN es = 1 .. n
  BY <1>6, <1>7
<1> QED
  BY <1>6, <1>7, <1>8 DEF es, n

\* The plan and its titles after i entries.
Upto(games, es, slices, L, i, O) ==
  /\ IsInjective(L) /\ \A k \in 1 .. Len(L) : \E j \in 1 .. i : L[k] = games[j]
  /\ O \in [1 .. Len(L) + 1 -> Boards] /\ O[1] = Board(table) /\ slices = View(O[Len(L) + 1])
  /\ \A k \in 1 .. Len(L) : Fits(View(O[k]), Size[L[k]]) /\ O[k + 1] = After(O[k], Size[L[k]])
  /\ \A j \in 1 .. i : Tells(es[j], L, O)

LEMMA UptoStep ==
  ASSUME drive \in Seq(Nat), NEW games \in Seq(Titles), IsInjective(games),
         NEW es, NEW i \in Nat, i + 1 <= Len(games),
         NEW v \in Plans, es[i + 1] = Entry(v, games[i + 1]),
         NEW L \in Seq(Titles), NEW O, Upto(games, es, v.slices, L, i, O)
  PROVE  \E P : Upto(games, es, Placing(v, games[i + 1]).slices, Splitting(L, es[i + 1]), i + 1, P)
<1> DEFINE t == games[i + 1]
           b == Size[t]
           n == Len(L)
           e == es[i + 1]
           sl == Placing(v, t).slices
<1>1. /\ t \in Titles /\ DOMAIN games = 1 .. Len(games) /\ Len(games) \in Nat
      /\ n \in Nat /\ DOMAIN L = 1 .. n
  OBVIOUS
<1>2. b \in Nat \ {0}
  BY <1>1, SizeAssumption
<1>3. O \in [1 .. n + 1 -> Boards] /\ v.slices = View(O[n + 1]) /\ O[1] = Board(table) /\ n + 1 \in 1 .. n + 1
  BY <1>1 DEF Upto
<1>4. O[n + 1] \in Boards
  BY <1>3
<1>5. e.fits = Fits(View(O[n + 1]), b) /\ e.game = t
      /\ (e.fits => e.bytes = AllocationFor(View(O[n + 1]), b))
      /\ sl = Place(View(O[n + 1]), b)
  BY <1>3 DEF Entry, Placing
<1>6. e.fits \in BOOLEAN
  BY <1>1, PlacingIs DEF Entries
<1>7. \A k \in 1 .. n : \E j \in 1 .. i : L[k] = games[j]
  BY DEF Upto
<1>8. 1 .. i \subseteq 1 .. i + 1 /\ i + 1 \in 1 .. i + 1 /\ \A j \in 1 .. i + 1 : j = i + 1 \/ j \in 1 .. i
  OBVIOUS
<1>9. CASE ~e.fits
  <2>1. Splitting(L, e) = L /\ sl = v.slices
    BY <1>3, <1>5, <1>9 DEF Splitting, Place
  <2>2. Tells(e, L, O)
    BY <1>9 DEF Tells
  <2> HIDE DEF e, sl
  <2>3. Upto(games, es, sl, L, i + 1, O)
    BY <1>8, <2>1, <2>2 DEF Upto, e
  <2> QED
    BY <2>1, <2>3 DEF e, sl
<1>10. CASE e.fits
  <2> DEFINE M == Append(L, t)
             P == [k \in 1 .. n + 2 |-> IF k = n + 2 THEN After(O[n + 1], b) ELSE O[k]]
  <2>1. Splitting(L, e) = M
    BY <1>5, <1>10 DEF Splitting
  <2>2. /\ M \in Seq(Titles) /\ Len(M) = n + 1 /\ DOMAIN M = 1 .. n + 1
        /\ M[n + 1] = t /\ \A k \in 1 .. n : M[k] = L[k]
    BY <1>1, AppendProperties
  <2>3. Fits(View(O[n + 1]), b) /\ sl = View(After(O[n + 1], b)) /\ After(O[n + 1], b) \in Boards
        /\ e.bytes = Bytes(Takes(O[n + 1], b))
    BY <1>2, <1>4, <1>5, <1>10, PlaceIs
  <2>4. /\ P \in [1 .. n + 2 -> Boards] /\ P[n + 2] = After(O[n + 1], b)
        /\ \A k \in 1 .. n + 1 : P[k] = O[k]
    <3>1. \A k \in 1 .. n + 2 : k = n + 2 \/ k \in 1 .. n + 1
      BY <1>1
    <3>2. n + 2 \in 1 .. n + 2 /\ \A k \in 1 .. n + 1 : k \in 1 .. n + 2 /\ k # n + 2
      BY <1>1
    <3> QED
      BY <1>3, <2>3, <3>1, <3>2
  <2> HIDE DEF M, P, e, sl, b, t
  <2>5. \A k \in 1 .. n : M[k] # t
    <3> SUFFICES ASSUME NEW k \in 1 .. n, L[k] = t PROVE FALSE
      BY <2>2
    <3>1. PICK j \in 1 .. i : games[j] = t
      BY <1>7
    <3>2. j \in DOMAIN games /\ i + 1 \in DOMAIN games /\ j # i + 1
      BY <1>1
    <3> QED
      BY <3>1, <3>2 DEF IsInjective, t
  <2>6. \A k \in 1 .. n + 1 : k = n + 1 \/ k \in 1 .. n
    BY <1>1
  <2>7. IsInjective(M)
    BY <1>1, <2>2, <2>5, <2>6 DEF IsInjective, Upto
  <2>8. \A k \in 1 .. Len(M) : \E j \in 1 .. i + 1 : M[k] = games[j]
    BY <1>7, <1>8, <2>2, <2>6 DEF t
  <2>9. ASSUME NEW k \in 1 .. n + 1
        PROVE  Fits(View(P[k]), Size[M[k]]) /\ P[k + 1] = After(P[k], Size[M[k]])
    <3>1. CASE k = n + 1
      <4> HIDE DEF n
      <4>1. (n + 1) + 1 = n + 2 /\ n + 1 \in 1 .. n + 1
        BY <1>1
      <4>2. P[n + 1] = O[n + 1] /\ M[n + 1] = t
        BY <2>2, <2>4, <4>1
      <4>3. (n + 1) + 1 = n + 2 /\ P[k] = O[n + 1] /\ M[k] = t
        BY <3>1, <4>1, <4>2
      <4> QED
        BY <2>3, <2>4, <3>1, <4>3 DEF b, n
    <3>2. CASE k \in 1 .. n
      <4>1. k + 1 \in 1 .. n + 1 /\ P[k] = O[k] /\ P[k + 1] = O[k + 1] /\ M[k] = L[k]
        BY <1>1, <2>2, <2>4, <3>2
      <4>2. Fits(View(O[k]), Size[L[k]]) /\ O[k + 1] = After(O[k], Size[L[k]])
        BY <3>2 DEF Upto
      <4> QED
        BY <4>1, <4>2
    <3> QED
      BY <2>6, <3>1, <3>2
  <2>10. ASSUME NEW j \in 1 .. i + 1 PROVE Tells(es[j], M, P)
    <3>1. CASE j = i + 1
      <4>1. n + 1 \in 1 .. Len(M) /\ P[n + 1] = O[n + 1] /\ M[n + 1] = t
        <5>1. n + 1 \in 1 .. n + 1
          BY <1>1
        <5> QED
          BY <2>2, <2>4, <5>1
      <4>2. e.game = M[n + 1] /\ e.bytes = Bytes(Takes(P[n + 1], Size[M[n + 1]]))
        BY <1>5, <2>3, <4>1 DEF b
      <4>3. Tells(e, M, P)
        BY <4>1, <4>2 DEF Tells
      <4> QED
        BY <3>1, <4>3 DEF e
    <3>2. CASE j \in 1 .. i
      <4>1. Tells(es[j], L, O)
        BY <3>2 DEF Upto
      <4>2. \A k \in 1 .. n : k \in 1 .. Len(M) /\ P[k] = O[k] /\ M[k] = L[k]
        BY <1>1, <2>2, <2>4
      <4> QED
        BY <4>1, <4>2 DEF Tells
    <3> QED
      BY <1>8, <3>1, <3>2
  <2>11. Len(M) + 1 = n + 2 /\ 1 \in 1 .. n + 1
    BY <1>1, <2>2
  <2>12. Upto(games, es, sl, M, i + 1, P)
    BY <1>3, <2>2, <2>3, <2>4, <2>7, <2>8, <2>9, <2>10, <2>11 DEF Upto
  <2> QED
    BY <2>1, <2>12 DEF e, sl, t
<1> QED
  BY <1>6, <1>9, <1>10

LEMMA PlanForetells ==
  ASSUME drive \in Seq(Nat), NEW games \in Seq(Titles), IsInjective(games)
  PROVE  Promise(games)
<1> DEFINE n == Len(games)
           es == PlaceEach(games)
<1>1. PICK a : PlanRun(a, games)
  BY PlanIs
<1>2. /\ es \in Seq(Entries) /\ Len(es) = n /\ DOMAIN es = 1 .. n
      /\ \A j \in 1 .. n : es[j] = Entry(a[j - 1], games[j])
  BY <1>1, PlanRows
<1>3. /\ a[0].slices = ReadTOC(table)
      /\ \A i \in 0 .. n : a[i] \in Plans
      /\ \A i \in 1 .. n : a[i] = Placing(a[i - 1], games[i])
  BY <1>1 DEF PlanRun
<1>4. n \in Nat /\ DOMAIN games = 1 .. n
  OBVIOUS
<1> HIDE DEF es, n
<1>5. PICK b : SplitRun(b, es)
  BY <1>2, SplitIs
<1>6. /\ b[0] = <<>> /\ splitPlan(es) = b[n] /\ \A i \in 0 .. n : b[i] \in Seq(Titles)
      /\ \A i \in 1 .. n : b[i] = Splitting(b[i - 1], es[i])
  BY <1>2, <1>5 DEF SplitRun
<1> DEFINE E == {i \in Nat : i <= n => \E O : Upto(games, es, a[i].slices, b[i], i, O)}
<1>7. 0 \in E
  <2> DEFINE O == [k \in 1 .. 1 |-> Board(table)]
  <2>1. ReadTOC(table) = View(Board(table)) /\ Board(table) \in Boards
    BY BoardIs
  <2>2. b[0] = <<>> /\ Len(<<>>) = 0 /\ 0 + 1 = 1 /\ 1 .. 0 = {} /\ DOMAIN <<>> = {}
    BY <1>6
  <2>3. O \in [1 .. 1 -> Boards] /\ O[1] = Board(table)
    BY <2>1
  <2> HIDE DEF O
  <2>4. IsInjective(<<>>)
    BY <2>2 DEF IsInjective
  <2>5. a[0].slices = View(O[1])
    BY <1>3, <1>4, <2>1, <2>3
  <2>6. Upto(games, es, a[0].slices, b[0], 0, O)
    BY <2>2, <2>3, <2>4, <2>5 DEF Upto
  <2> QED
    BY <2>6
<1>8. ASSUME NEW i \in Nat, i \in E PROVE i + 1 \in E
  <2> SUFFICES ASSUME i + 1 <= n PROVE \E O : Upto(games, es, a[i + 1].slices, b[i + 1], i + 1, O)
    OBVIOUS
  <2>1. i \in 0 .. n /\ i + 1 \in 1 .. n /\ (i + 1) - 1 = i
    BY <1>4
  <2>2. PICK O : Upto(games, es, a[i].slices, b[i], i, O)
    BY <1>8, <2>1
  <2>3. /\ a[i] \in Plans /\ b[i] \in Seq(Titles)
        /\ a[i + 1] = Placing(a[i], games[i + 1]) /\ b[i + 1] = Splitting(b[i], es[i + 1])
        /\ es[i + 1] = Entry(a[i], games[i + 1])
    BY <1>2, <1>3, <1>6, <2>1
  <2>4. \E P : Upto(games, es, Placing(a[i], games[i + 1]).slices, Splitting(b[i], es[i + 1]), i + 1, P)
    BY <2>2, <2>3, UptoStep DEF n
  <2> QED
    BY <2>3, <2>4
<1>9. n \in E
  <2> HIDE DEF E
  <2> QED
    BY <1>4, <1>7, <1>8, SetInduction
<1>10. PICK O : Upto(games, es, a[n].slices, b[n], n, O)
  BY <1>4, <1>9
<1> DEFINE L == b[n]
<1>11. L \in Seq(Titles) /\ splitPlan(es) = L
  BY <1>4, <1>6
<1> HIDE DEF L
<1>12. /\ Foretold(L, O) /\ O[1] = Board(table)
       /\ \A j \in DOMAIN es : Tells(es[j], L, O)
       /\ \A k \in 1 .. Len(L) : \E j \in DOMAIN games : L[k] = games[j]
  BY <1>2, <1>4, <1>10, <1>11 DEF Upto, Foretold, L
<1> QED
  BY <1>2, <1>11, <1>12 DEF Promise, es
-----------------------------------------------------------------------------
(* The table stays sound. *)

\* A title's headers are apart and cover what the arithmetic allows.
Held(t, tab) ==
  /\ Lying(HeadersOf(t, tab))
  /\ Cardinality(Cov(HeadersOf(t, tab))) \in chunksToCover(Size[t]) .. MaxChunks(Size[t])
Sound(tab) ==
  /\ tab \subseteq Headers
  /\ \A h \in tab : h.start + h.len <= drive[h.slice]
  /\ \A h, k \in tab : h.owner # Empty /\ k.owner # Empty /\ h # k /\ h.slice = k.slice =>
       h.start + h.len <= k.start \/ k.start + k.len <= h.start
  /\ \A t \in Installed(tab) : Held(t, tab)

\* An allocation keeps it so, and leaves the other titles as they are.
Adds(t, tab) ==
  LET new == HdlAllocate(t, tab)
      o == Board(tab)
  IN /\ Sound(new) /\ Installed(new) = Installed(tab) \cup {t}
     /\ \A u \in Titles \ {t} : HeadersOf(u, new) = HeadersOf(u, tab)
     /\ Cardinality(Cov(HeadersOf(t, new))) = Takes(o, Size[t])
     /\ Board(new) = After(o, Size[t]) /\ After(o, Size[t]) \in Boards

LEMMA AddsSoundly ==
  ASSUME drive \in Seq(Nat), NEW tab, Sound(tab), NEW t \in Titles \ Installed(tab),
         Fits(ReadTOC(tab), Size[t])
  PROVE  Adds(t, tab)
<1> DEFINE o == Board(tab)
           b == Size[t]
           i == Slot(o, b)
           N == Written(t, i, o[i])
           new == HdlAllocate(t, tab)
           kept == {h \in tab : h.owner # Empty}
<1>1. Lands(t, tab)
  BY HdlIs
<1>2. /\ new = kept \cup N
      /\ \A h \in N : h \in Headers /\ h.slice = i /\ h.owner = t /\ h.start + h.len <= drive[i]
      /\ Lying(N) /\ N # {} /\ Cov(N) = Gets(o, b) /\ Cardinality(Cov(N)) = Takes(o, b)
      /\ Takes(o, b) \in Nat /\ chunksToCover(b) <= Takes(o, b) /\ Takes(o, b) <= MaxChunks(b)
      /\ Gets(o, b) \cap o[i] = {}
      /\ Board(new) = After(o, b) /\ After(o, b) \in Boards
  BY <1>1 DEF Lands
<1>3. /\ tab \subseteq Headers /\ \A h \in tab : h.start + h.len <= drive[h.slice]
      /\ \A h, k \in tab : h.owner # Empty /\ k.owner # Empty /\ h # k /\ h.slice = k.slice =>
           h.start + h.len <= k.start \/ k.start + k.len <= h.start
      /\ \A u \in Installed(tab) : Held(u, tab)
  BY DEF Sound
<1>4. \A h \in Headers : h.slice \in DOMAIN drive /\ h.start \in Nat /\ h.len \in Nat /\ h.len > 0
  BY DEF Headers
<1>5. \A h \in kept : \A c \in h.start .. h.start + h.len - 1 : h.slice = i => c \in o[i]
  <2> SUFFICES ASSUME NEW h \in kept, NEW c \in h.start .. h.start + h.len - 1, h.slice = i
               PROVE  c \in o[i]
    OBVIOUS
  <2>1. h \in tab /\ h.owner # Empty /\ h \in Headers /\ h.start + h.len <= drive[i]
    BY <1>3
  <2>2. i \in DOMAIN drive /\ h.start \in Nat /\ h.len \in Nat /\ drive[i] \in Nat
    BY <1>4, <2>1
  <2>3. c \in 0 .. drive[i] - 1
    BY <2>1, <2>2
  <2>4. c \in Occ(tab, i)
    BY <2>1, <2>3 DEF Occ
  <2> HIDE DEF i
  <2> QED
    BY <2>2, <2>4 DEF Board
<1>6. t # Empty /\ \A u \in Titles : u # Empty
  BY OwnersAssumption
<1> HIDE DEF N, new, o, i
<1>7. \A h \in new : h \in kept \/ h \in N
  BY <1>2
<1>8. ASSUME NEW h \in kept, NEW k \in N, h.slice = k.slice
      PROVE  h.start + h.len <= k.start \/ k.start + k.len <= h.start
  <2>1. /\ h.start \in Nat /\ h.len \in Nat /\ h.len > 0 /\ h.slice = i
        /\ k.start \in Nat /\ k.len \in Nat /\ k.len > 0
    BY <1>2, <1>3, <1>4, <1>8
  <2>2. \A c : c \in k.start .. k.start + k.len - 1 => c \in Cov(N)
    BY <2>1 DEF Cov, Span
  <2>3. \A c : ~(c \in h.start .. h.start + h.len - 1 /\ c \in k.start .. k.start + k.len - 1)
    BY <1>2, <1>5, <2>1, <2>2
  <2>4. k.start \in k.start .. k.start + k.len - 1 /\ h.start \in h.start .. h.start + h.len - 1
    BY <2>1
  <2>5. ~(k.start \in h.start .. h.start + h.len - 1) /\ ~(h.start \in k.start .. k.start + k.len - 1)
    BY <2>3, <2>4
  <2>6. CASE h.start <= k.start
    <3>1. ~(k.start <= h.start + h.len - 1)
      BY <2>1, <2>5, <2>6
    <3> QED
      BY <2>1, <3>1
  <2>7. CASE k.start <= h.start
    <3>1. ~(h.start <= k.start + k.len - 1)
      BY <2>1, <2>5, <2>7
    <3> QED
      BY <2>1, <3>1
  <2> QED
    BY <2>1, <2>6, <2>7
<1>9. \A u \in Titles \ {t} : HeadersOf(u, new) = HeadersOf(u, tab)
  BY <1>2, <1>6 DEF HeadersOf
<1>10. HeadersOf(t, new) = N
  BY <1>2 DEF HeadersOf, Installed
<1>11. Installed(new) = Installed(tab) \cup {t}
  BY <1>2, <1>9, <1>10 DEF Installed
<1>12. Sound(new)
  <2>1. new \subseteq Headers
    BY <1>2, <1>3
  <2>2. ASSUME NEW h \in new PROVE h.start + h.len <= drive[h.slice]
    BY <1>2, <1>3, <1>7
  <2>3. ASSUME NEW h \in new, NEW k \in new, h # k, h.slice = k.slice
        PROVE  h.start + h.len <= k.start \/ k.start + k.len <= h.start
    <3>1. CASE h \in kept /\ k \in kept
      BY <1>3, <2>3, <3>1
    <3>2. CASE h \in kept /\ k \in N
      BY <1>8, <2>3, <3>2
    <3>3. CASE h \in N /\ k \in kept
      <4>1. k.slice = h.slice
        BY <2>3
      <4> QED
        BY <1>8, <3>3, <4>1
    <3>4. CASE h \in N /\ k \in N
      BY <1>2, <2>3, <3>4 DEF Lying
    <3> QED
      BY <1>7, <3>1, <3>2, <3>3, <3>4
  <2>4. ASSUME NEW u \in Installed(new) PROVE Held(u, new)
    <3>1. CASE u = t
      <4>1. Takes(o, b) \in chunksToCover(b) .. MaxChunks(b)
        <5>1. b \in Nat \ {0}
          BY SizeAssumption
        <5>2. chunksToCover(b) \in Nat /\ MaxChunks(b) \in Nat
          BY <5>1, CoverPositive, MaxChunksIs
        <5> HIDE DEF b
        <5> QED
          BY <1>2, <5>2
      <4> QED
        BY <1>2, <1>10, <3>1, <4>1 DEF Held
    <3>2. CASE u # t
      <4>1. u \in Installed(tab) /\ HeadersOf(u, new) = HeadersOf(u, tab)
        BY <1>9, <1>11, <3>2 DEF Installed
      <4> QED
        BY <1>3, <4>1 DEF Held
    <3> QED
      BY <3>1, <3>2
  <2> QED
    BY <2>1, <2>2, <2>3, <2>4 DEF Sound
<1> QED
  BY <1>2, <1>9, <1>10, <1>11, <1>12 DEF Adds, new, o

\* What a removal leaves.
LEMMA RemovesSoundly ==
  ASSUME drive \in Seq(Nat), NEW tab, Sound(tab), NEW t \in Titles, NEW new,
         new = {IF h.owner = t THEN [h EXCEPT !.owner = Empty] ELSE h : h \in tab}
  PROVE  Sound(new) /\ Installed(new) = Installed(tab) \ {t}
<1> DEFINE F(h) == IF h.owner = t THEN [h EXCEPT !.owner = Empty] ELSE h
<1>1. /\ tab \subseteq Headers /\ \A h \in tab : h.start + h.len <= drive[h.slice]
      /\ \A h, k \in tab : h.owner # Empty /\ k.owner # Empty /\ h # k /\ h.slice = k.slice =>
           h.start + h.len <= k.start \/ k.start + k.len <= h.start
      /\ \A u \in Installed(tab) : Held(u, tab)
  BY DEF Sound
<1>2. t # Empty /\ Empty \notin Titles
  BY OwnersAssumption
<1>3. ASSUME NEW h \in tab
      PROVE  /\ F(h) \in Headers /\ F(h).slice = h.slice /\ F(h).start = h.start /\ F(h).len = h.len
             /\ F(h).owner = IF h.owner = t THEN Empty ELSE h.owner
             /\ h.owner # t => F(h) = h
  <2>1. h \in Headers
    BY <1>1
  <2>2. h = [slice |-> h.slice, start |-> h.start, len |-> h.len, owner |-> h.owner]
    BY <2>1 DEF Headers
  <2>3. [h EXCEPT !.owner = Empty] = [slice |-> h.slice, start |-> h.start, len |-> h.len, owner |-> Empty]
    BY <2>2
  <2>4. CASE h.owner = t
    <3>1. F(h) = [slice |-> h.slice, start |-> h.start, len |-> h.len, owner |-> Empty]
      BY <2>3, <2>4
    <3>2. F(h) \in Headers
      BY <2>1, <3>1 DEF Headers, Owners
    <3> HIDE DEF F
    <3> QED
      BY <2>4, <3>1, <3>2
  <2>5. CASE h.owner # t
    BY <2>1, <2>5
  <2> QED
    BY <2>4, <2>5
<1>4. new = {F(h) : h \in tab}
  OBVIOUS
<1> HIDE DEF F
<1>5. \A k \in new : k.owner # Empty => k \in tab /\ k.owner # t
  <2> SUFFICES ASSUME NEW k \in new, k.owner # Empty PROVE k \in tab /\ k.owner # t
    OBVIOUS
  <2>1. PICK h \in tab : k = F(h)
    BY <1>4
  <2> QED
    BY <1>3, <2>1
<1>6. \A h \in tab : h.owner # t => h \in new
  <2> SUFFICES ASSUME NEW h \in tab, h.owner # t PROVE h \in new
    OBVIOUS
  <2>1. F(h) = h /\ F(h) \in new
    BY <1>3, <1>4
  <2> QED
    BY <2>1
<1>7. \A u \in Titles \ {t} : HeadersOf(u, new) = HeadersOf(u, tab)
  BY <1>2, <1>5, <1>6 DEF HeadersOf
<1>8. HeadersOf(t, new) = {}
  BY <1>2, <1>5 DEF HeadersOf
<1>9. Installed(new) = Installed(tab) \ {t}
  BY <1>7, <1>8 DEF Installed
<1>10. new \subseteq Headers
  BY <1>3, <1>4
<1>11. ASSUME NEW k \in new PROVE k.start + k.len <= drive[k.slice]
  <2>1. PICK h \in tab : k = F(h)
    BY <1>4
  <2> QED
    BY <1>1, <1>3, <2>1
<1>12. \A u \in Installed(new) : Held(u, new)
  BY <1>1, <1>7, <1>9 DEF Held, Installed
<1>13. Sound(new)
  BY <1>1, <1>5, <1>10, <1>11, <1>12 DEF Sound
<1> QED
  BY <1>9, <1>13
-----------------------------------------------------------------------------
(* One slice, planned and real. *)

\* What the plan has free is the upper end of what is free: failed writes and
\* dearer placements leave the drive no worse than the plan.
Ahead(P, R) == P \subseteq R /\ \A r \in R \ P, p \in P : r < p

LEMMA AheadTrims ==
  ASSUME NEW R \in SUBSET Nat, IsFiniteSet(R), NEW P, Ahead(P, R),
         NEW A, NEW B, NEW a \in Nat, NEW b \in Nat, IsLowest(A, a, R), IsLowest(B, b, P),
         Cardinality(P) - b <= Cardinality(R) - a
  PROVE  Ahead(P \ B, R) /\ Ahead(P \ B, R \ A)
<1>1. /\ P \subseteq R /\ \A r \in R \ P, p \in P : r < p
      /\ A \subseteq R /\ \A c \in A, d \in R \ A : c < d
      /\ B \subseteq P /\ \A c \in B, d \in P \ B : c < d
  BY DEF Ahead, IsLowest
<1>2. Cardinality(R \ A) = Cardinality(R) - a /\ Cardinality(P \ B) = Cardinality(P) - b
  BY DEF IsLowest
<1>3. \A r \in R \ (P \ B), p \in P \ B : r < p
  <2> SUFFICES ASSUME NEW r \in R \ (P \ B), NEW p \in P \ B PROVE r < p
    OBVIOUS
  <2>1. r \in R \ P \/ r \in B
    OBVIOUS
  <2> QED
    BY <1>1, <2>1
<1>4. Ahead(P \ B, R)
  BY <1>1, <1>3 DEF Ahead
<1>5. P \ B \subseteq R \ A
  <2> SUFFICES ASSUME NEW x \in P \ B, x \in A PROVE FALSE
    BY <1>1
  <2>1. R \ A \subseteq (P \ B) \ {x}
    <3> SUFFICES ASSUME NEW d \in R \ A, d \notin P \ B PROVE FALSE
      BY <1>1
    <3>1. x < d /\ d < x /\ x \in Nat /\ d \in Nat
      BY <1>1, <1>3
    <3> QED
      BY <3>1
  <2>2. IsFiniteSet(P \ B)
    <3>1. P \ B \in SUBSET R
      BY <1>1
    <3> QED
      BY <3>1, FS_Subset
  <2>3. IsFiniteSet((P \ B) \ {x}) /\ Cardinality((P \ B) \ {x}) = Cardinality(P \ B) - 1
    BY <2>2, FS_RemoveElement
  <2>4. Cardinality(R \ A) <= Cardinality((P \ B) \ {x})
    BY <2>1, <2>3, FS_Subset
  <2>5. Cardinality(R) \in Nat /\ Cardinality(P) \in Nat
    BY DEF IsLowest
  <2> QED
    BY <1>2, <2>3, <2>4, <2>5
<1> QED
  BY <1>1, <1>3, <1>4, <1>5 DEF Ahead

\* A title the plan has room for has room, and its write keeps the plan behind.
LEMMA AheadStep ==
  ASSUME NEW n \in Nat, NEW p \in SUBSET (0 .. n - 1), NEW r \in SUBSET (0 .. n - 1),
         NEW b \in Nat \ {0}, Ahead(Free(n, p), Free(n, r)),
         NEW ap, ap = allocationChunks(Statistics(n, p), b), ap # 0,
         NEW ar, ar = allocationChunks(Statistics(n, r), b)
  PROVE  /\ ar # 0
         /\ Ahead(Free(n, p \cup Lowest(n, p, ap)), Free(n, r))
         /\ Ahead(Free(n, p \cup Lowest(n, p, ap)), Free(n, r \cup Lowest(n, r, ar)))
<1> DEFINE P == Free(n, p)
           R == Free(n, r)
           w == chunksToCover(b)
<1>1. w \in Nat \ {0}
  BY CoverPositive
<1>2. /\ ap \in Nat /\ ap <= Cardinality(P) /\ Cardinality(P) \in Nat
      /\ ap \in {w, w + 1}
  BY AllocationIs
<1>3. /\ ar \in Nat /\ ar <= Cardinality(R) /\ Cardinality(R) \in Nat
      /\ (ar # 0 => ar \in {w, w + 1})
      /\ (w + 1 <= Cardinality(R) => ar # 0)
  BY AllocationIs
<1>4. IsFiniteSet(R) /\ R \in SUBSET Nat
  <2>1. IsFiniteSet(R)
    BY SliceIs
  <2> QED
    BY <2>1 DEF Free
<1>5. IsLowest(Lowest(n, p, ap), ap, P) /\ IsLowest(Lowest(n, r, ar), ar, R)
  BY <1>2, <1>3, LowestIs
<1>6. /\ Free(n, p \cup Lowest(n, p, ap)) = P \ Lowest(n, p, ap)
      /\ Free(n, r \cup Lowest(n, r, ar)) = R \ Lowest(n, r, ar)
  BY DEF Free
<1>7. CASE P = R
  <2>1. p = r
    <3>1. p = (0 .. n - 1) \ P /\ r = (0 .. n - 1) \ R
      BY DEF Free
    <3> QED
      BY <1>7, <3>1
  <2>2. ar = ap
    BY <2>1
  <2>3. Cardinality(P) - ap <= Cardinality(R) - ar
    BY <1>2, <1>3, <1>7, <2>2
  <2> HIDE DEF P, R
  <2>4. Ahead(P \ Lowest(n, p, ap), R) /\ Ahead(P \ Lowest(n, p, ap), R \ Lowest(n, r, ar))
    BY <1>2, <1>3, <1>4, <1>5, <2>3, AheadTrims DEF P, R
  <2> QED
    BY <1>6, <2>2, <2>4 DEF P, R
<1>8. CASE P # R
  <2>1. P \subseteq R
    BY DEF Ahead
  <2> HIDE DEF P, R
  <2>2. Cardinality(P) < Cardinality(R)
    <3>1. Cardinality(P) <= Cardinality(R) /\ (Cardinality(R) = Cardinality(P) => R = P)
      BY <1>4, <2>1, FS_Subset
    <3> QED
      BY <1>2, <1>3, <1>8, <3>1
  <2>3. w + 1 <= Cardinality(R)
    BY <1>1, <1>2, <1>3, <2>2
  <2>4. ar # 0 /\ ar <= w + 1
    BY <1>1, <1>3, <2>3
  <2>5. Cardinality(P) - ap <= Cardinality(R) - ar
    BY <1>1, <1>2, <1>3, <2>2, <2>4
  <2>6. Ahead(P \ Lowest(n, p, ap), R) /\ Ahead(P \ Lowest(n, p, ap), R \ Lowest(n, r, ar))
    BY <1>2, <1>3, <1>4, <1>5, <2>5, AheadTrims DEF P, R
  <2> QED
    BY <1>6, <2>4, <2>6 DEF P, R
<1> QED
  BY <1>7, <1>8
-----------------------------------------------------------------------------
(* The invariant. *)

\* A plan that was not measured lists the worst case of each title.
Guess(es) == \A i \in DOMAIN es : es[i].bytes = MaxAllocationFor(Size[es[i].game])

LEMMA UnmeasuredIs ==
  ASSUME NEW games \in Seq(Titles)
  PROVE  /\ Unmeasured(games) \in Seq(Entries) /\ Guess(Unmeasured(games))
         /\ splitPlan(Unmeasured(games)) \in Seq(Titles)
<1> DEFINE es == Unmeasured(games)
<1>1. ASSUME NEW t \in Titles PROVE MaxAllocationFor(Size[t]) \in Nat
  <2>1. Size[t] \in Nat \ {0}
    BY SizeAssumption
  <2>2. MaxChunks(Size[t]) \in Nat
    BY <2>1, MaxChunksIs
  <2> QED
    BY <2>2, BytesGrow DEF MaxAllocationFor
<1>2. DOMAIN games = 1 .. Len(games) /\ Len(games) \in Nat /\ \A i \in DOMAIN games : games[i] \in Titles
  OBVIOUS
<1>3. es \in [1 .. Len(games) -> Entries] /\ Guess(es)
  BY <1>1, <1>2 DEF Unmeasured, Entries, Guess
<1>4. es \in Seq(Entries)
  BY <1>2, <1>3
<1> HIDE DEF es
<1>5. PICK b : SplitRun(b, es)
  BY <1>4, SplitIs
<1>6. Len(es) \in 0 .. Len(es)
  BY <1>4
<1>7. splitPlan(es) \in Seq(Titles)
  BY <1>5, <1>6 DEF SplitRun
<1> QED
  BY <1>3, <1>4, <1>7 DEF es

AInv ==
  /\ drive \in Drives /\ Sound(table)
  /\ plan \in Seq(Entries) /\ todo \in Seq(Titles) /\ freeKnown \in BOOLEAN
  /\ {refused, failures, whole} \subseteq SUBSET Titles
  /\ whole \subseteq Installed(table)

\* The first q - 1 titles of the plan have had their turn.
OnPlan(L, O, q) ==
  /\ Foretold(L, O) /\ \A i \in DOMAIN plan : Tells(plan[i], L, O)
  /\ q \in 1 .. Len(L) + 1 /\ todo = SubSeq(L, q, Len(L))
  /\ \A k \in q .. Len(L) : L[k] \notin Installed(table)
  /\ failures = {} =>
       /\ refused = {} /\ Board(table) = O[q]
       /\ \A k \in 1 .. q - 1 : Cardinality(Cov(HeadersOf(L[k], table))) = Takes(O[k], Size[L[k]])
  /\ Len(drive) = 1 =>
       refused = {} /\ Ahead(Free(drive[1], O[q][1]), Free(drive[1], Board(table)[1]))
PInv ==
  \/ plan = <<>>
  \/ freeKnown /\ \E L, O : \E q \in 1 .. Len(L) + 1 : OnPlan(L, O, q)
  \/ ~freeKnown /\ Guess(plan)

LEMMA DriveIs == ASSUME AInv PROVE drive \in Seq(Nat)
BY DrivesAssumption DEF AInv

LEMMA SoundStays == ASSUME NEW tab, Sound(tab), UNCHANGED drive, table' = tab PROVE Sound(table)'
BY DEF Sound, Headers, Held, Installed, HeadersOf, Lying, Cov, Span

LEMMA InitSound == AllocInit => AInv /\ PInv
<1> SUFFICES ASSUME AllocInit PROVE AInv /\ PInv
  OBVIOUS
<1>1. drive \in Drives /\ drive \in Seq(Nat) /\ \A i \in DOMAIN drive : drive[i] \in Nat
  BY DrivesAssumption DEF AllocInit
<1>2. \A h \in table : \E i \in DOMAIN drive : \E c \in 0 .. drive[i] - 1 :
        h = [slice |-> i, start |-> c, len |-> 1, owner |-> System]
  BY DEF AllocInit
<1>3. System \notin Titles
  BY OwnersAssumption
<1>4. ASSUME NEW h \in table
      PROVE  /\ h \in Headers /\ h.len = 1 /\ h.owner = System /\ h.start \in Nat
             /\ h.start + h.len <= drive[h.slice]
             /\ h = [slice |-> h.slice, start |-> h.start, len |-> 1, owner |-> System]
  <2>0. PICK i \in DOMAIN drive : \E c \in 0 .. drive[i] - 1 :
          h = [slice |-> i, start |-> c, len |-> 1, owner |-> System]
    BY <1>2
  <2>1. PICK c \in 0 .. drive[i] - 1 : h = [slice |-> i, start |-> c, len |-> 1, owner |-> System]
    BY <2>0
  <2>2. c \in Nat /\ c + 1 <= drive[i]
    BY <1>1
  <2>3. h.slice = i /\ h.start = c /\ h.len = 1 /\ h.owner = System
    BY <2>1
  <2>4. h \in Headers
    BY <2>1, <2>2 DEF Headers, Owners
  <2> QED
    BY <2>1, <2>2, <2>3, <2>4
<1>5. Installed(table) = {}
  BY <1>3, <1>4 DEF Installed, HeadersOf
<1>6. ASSUME NEW h \in table, NEW k \in table, h # k, h.slice = k.slice
      PROVE  h.start + h.len <= k.start \/ k.start + k.len <= h.start
  <2>1. h.start # k.start
    BY <1>4, <1>6
  <2> QED
    BY <1>4, <2>1
<1>7. Sound(table)
  BY <1>4, <1>5, <1>6 DEF Sound
<1>8. /\ plan = <<>> /\ todo = <<>> /\ freeKnown = FALSE
      /\ refused = {} /\ failures = {} /\ whole = {}
  BY DEF AllocInit
<1>9. AInv
  <2>1. plan \in Seq(Entries) /\ todo \in Seq(Titles) /\ freeKnown \in BOOLEAN
    <3>1. << >> \in Seq(Entries) /\ << >> \in Seq(Titles)
      OBVIOUS
    <3> QED
      BY <1>8, <3>1
  <2>2. {refused, failures, whole} \subseteq SUBSET Titles /\ whole \subseteq Installed(table)
    BY <1>8
  <2>3. drive \in Drives
    BY <1>1
  <2> QED
    BY <1>7, <2>1, <2>2, <2>3 DEF AInv
<1> QED
  BY <1>8, <1>9 DEF PInv

LEMMA AllocStep == AInv /\ [AllocNext]_allocVars => AInv'
<1> SUFFICES ASSUME AInv, [AllocNext]_allocVars PROVE AInv'
  OBVIOUS
<1>0. drive \in Seq(Nat)
  BY DriveIs
<1> USE DEF AInv
<1>1. CASE MakePlan
  <2>1. PICK S \in SUBSET (Titles \ Installed(table)) \ {{}} : plan' = planPS2(Sorted(S), freeKnown')
    BY <1>1 DEF MakePlan
  <2>2. Sorted(S) \in Seq(S) /\ IsInjective(Sorted(S)) /\ S \in SUBSET Titles
    <3>1. S \in SUBSET Titles
      BY <2>1
    <3> QED
      BY <3>1, SortedIs
  <2>3. Sorted(S) \in Seq(Titles)
    BY <2>2, SeqMonotonic
  <2>4. Promise(Sorted(S))
    BY <1>0, <2>2, <2>3, PlanForetells
  <2>5. plan' \in Seq(Entries) /\ todo' \in Seq(Titles) /\ freeKnown' \in BOOLEAN
    <3>1. freeKnown' \in BOOLEAN /\ todo' = splitPlan(plan')
      BY <1>1 DEF MakePlan
    <3>2. CASE freeKnown'
      BY <2>1, <2>4, <3>1, <3>2 DEF Promise, planPS2
    <3>3. CASE ~freeKnown'
      <4>1. plan' = Unmeasured(Sorted(S))
        BY <2>1, <3>3 DEF planPS2
      <4>2. plan' \in Seq(Entries) /\ splitPlan(plan') \in Seq(Titles)
        BY <2>3, <4>1, UnmeasuredIs
      <4> QED
        BY <3>1, <4>2
    <3> QED
      BY <3>2, <3>3, <3>1
  <2>6. Sound(table)' /\ Installed(table)' = Installed(table)
    BY <1>1, SoundStays DEF MakePlan, Installed, HeadersOf
  <2>7. drive' = drive /\ whole' = whole /\ refused' = {} /\ failures' = {}
    BY <1>1 DEF MakePlan
  <2>8. plan' \in Seq(Entries)'
    BY <2>5, <2>7 DEF Entries
  <2>9. {refused', failures', whole'} \subseteq SUBSET Titles /\ whole' \subseteq Installed(table)'
    BY <2>6, <2>7
  <2> QED
    BY <2>5, <2>6, <2>7, <2>8, <2>9
<1>2. CASE QueueTitle
  <2>1. Sound(table)' /\ Installed(table)' = Installed(table)
    BY <1>2, SoundStays DEF QueueTitle, Installed, HeadersOf
  <2>2. todo' \in Seq(Titles) /\ plan' \in Seq(Entries) /\ freeKnown' \in BOOLEAN
    <3>1. PICK t \in Titles : todo' = << t >>
      BY <1>2 DEF QueueTitle
    <3>2. plan' = << >> /\ freeKnown' = FALSE
      BY <1>2 DEF QueueTitle
    <3>3. << t >> \in Seq(Titles) /\ << >> \in Seq(Entries)
      OBVIOUS
    <3> QED
      BY <3>1, <3>2, <3>3
  <2> QED
    BY <1>2, <2>1, <2>2 DEF QueueTitle, Entries
<1>3. ASSUME NextTitle
      PROVE  /\ drive' = drive /\ plan' = plan /\ todo' \in Seq(Titles) /\ Head(todo) \in Titles
             /\ plan' \in Seq(Entries)' /\ freeKnown' \in BOOLEAN
  <2>1. /\ todo # <<>> /\ todo' = Tail(todo) /\ drive' = drive /\ plan' = plan
        /\ freeKnown' = freeKnown
    BY <1>3 DEF NextTitle
  <2> QED
    BY <2>1 DEF Entries
<1>4. CASE InstallRefused
  <2>1. NextTitle /\ UNCHANGED <<table, failures, whole>> /\ refused' = refused \cup {Head(todo)}
    BY <1>4 DEF InstallRefused
  <2>2. Sound(table)' /\ Installed(table)' = Installed(table)
    BY <1>3, <2>1, SoundStays DEF Installed, HeadersOf
  <2> QED
    BY <1>3, <2>1, <2>2
<1>5. ASSUME NextTitle, ~Refuses(Head(todo)), table' = HdlAllocate(Head(todo), table)
      PROVE  Sound(table)' /\ Installed(table)' = Installed(table) \cup {Head(todo)}
  <2> DEFINE t == Head(todo)
  <2>1. t \in Titles \ Installed(table) /\ Fits(ReadTOC(table), Size[t])
    BY <1>3, <1>5 DEF Refuses
  <2> HIDE DEF t
  <2>2. Adds(t, table)
    BY <1>0, <2>1, AddsSoundly
  <2>3. Sound(HdlAllocate(t, table)) /\ Installed(HdlAllocate(t, table)) = Installed(table) \cup {t}
    BY <2>2 DEF Adds
  <2>4. table' = HdlAllocate(t, table) /\ drive' = drive
    BY <1>3, <1>5 DEF t
  <2>5. Sound(table)'
    BY <2>3, <2>4, SoundStays
  <2>6. Installed(table)' = Installed(HdlAllocate(t, table))
    BY <2>4 DEF Installed, HeadersOf
  <2> QED
    BY <2>3, <2>5, <2>6 DEF t
<1>6. CASE InstallWrites
  <2>1. /\ NextTitle /\ ~Refuses(Head(todo)) /\ table' = HdlAllocate(Head(todo), table)
        /\ whole' = whole \cup {Head(todo)} /\ UNCHANGED <<refused, failures>>
    BY <1>6 DEF InstallWrites
  <2> QED
    BY <1>3, <1>5, <2>1
<1>7. CASE InstallFails
  <2>1. /\ NextTitle /\ ~Refuses(Head(todo)) /\ table' \in {table, HdlAllocate(Head(todo), table)}
        /\ failures' = failures \cup {Head(todo)} /\ whole' = whole \ {Head(todo)} /\ UNCHANGED refused
    BY <1>7 DEF InstallFails
  <2>2. CASE table' = table
    <3>1. Sound(table)' /\ Installed(table)' = Installed(table)
      BY <1>3, <2>1, <2>2, SoundStays DEF Installed, HeadersOf
    <3> QED
      BY <1>3, <2>1, <3>1
  <2>3. CASE table' = HdlAllocate(Head(todo), table)
    BY <1>3, <1>5, <2>1, <2>3
  <2> QED
    BY <2>1, <2>2, <2>3
<1>8. ASSUME NEW t \in Titles, RemoveTitle(t) PROVE AInv'
  <2>1. /\ UNCHANGED <<drive, todo>> /\ plan' = <<>> /\ refused' = {} /\ failures' = {}
        /\ whole' = whole \ {t} /\ freeKnown' = FALSE
        /\ table' = {IF h.owner = t THEN [h EXCEPT !.owner = Empty] ELSE h : h \in table}
    BY <1>8 DEF RemoveTitle
  <2> DEFINE new == {IF h.owner = t THEN [h EXCEPT !.owner = Empty] ELSE h : h \in table}
  <2>2. Sound(new) /\ Installed(new) = Installed(table) \ {t}
    BY <1>0, RemovesSoundly
  <2>3. table' = new
    BY <2>1
  <2> HIDE DEF new
  <2>4. Sound(table)' /\ Installed(table)' = Installed(new)
    BY <2>1, <2>2, <2>3, SoundStays DEF Installed, HeadersOf
  <2>5. plan' \in Seq(Entries)'
    BY <2>1 DEF Entries
  <2> QED
    BY <2>1, <2>2, <2>4, <2>5
<1>9. CASE UNCHANGED allocVars
  <2>1. Sound(table)' /\ Installed(table)' = Installed(table)
    BY <1>9, SoundStays DEF allocVars, Installed, HeadersOf
  <2> QED
    BY <1>9, <2>1 DEF allocVars, Entries
<1> QED
  BY <1>1, <1>2, <1>4, <1>6, <1>7, <1>8, <1>9 DEF AllocNext

\* A drive that does not change keeps what was foretold of it.
LEMMA ForetoldStays ==
  ASSUME UNCHANGED drive
  PROVE  /\ Boards' = Boards /\ \A o : View(o)' = View(o)
         /\ \A o, b : Slot(o, b)' = Slot(o, b) /\ Takes(o, b)' = Takes(o, b) /\ After(o, b)' = After(o, b)
         /\ \A L, O : Foretold(L, O)' <=> Foretold(L, O)
         /\ \A e, L, O : Tells(e, L, O)' <=> Tells(e, L, O)
<1>1. Boards' = Boards
  BY DEF Boards
<1>2. \A o : View(o)' = View(o)
  BY DEF View
<1>3. \A o, b : Slot(o, b)' = Slot(o, b)
  BY <1>2 DEF Slot
<1>4. \A o, b : Takes(o, b)' = Takes(o, b)
  BY <1>3 DEF Takes
<1>5. \A o, b : Gets(o, b)' = Gets(o, b)
  BY <1>3, <1>4 DEF Gets
<1>6. \A o, b : After(o, b)' = After(o, b)
  BY <1>3, <1>5 DEF After
<1>7. \A L, O : Foretold(L, O)' <=> Foretold(L, O)
  BY <1>1, <1>2, <1>6 DEF Foretold
<1>8. \A e, L, O : Tells(e, L, O)' <=> Tells(e, L, O)
  BY <1>4 DEF Tells
<1> QED
  BY <1>1, <1>2, <1>3, <1>4, <1>6, <1>7, <1>8

LEMMA PlanStarts == AInv /\ MakePlan => PInv'
<1> SUFFICES ASSUME AInv, MakePlan PROVE PInv'
  OBVIOUS
<1>1. PICK S \in SUBSET (Titles \ Installed(table)) \ {{}} : plan' = planPS2(Sorted(S), freeKnown')
  BY DEF MakePlan
<1>2. PICK games : games = Sorted(S)
  OBVIOUS
<1>3. games \in Seq(Titles) /\ IsInjective(games) /\ \A j \in DOMAIN games : games[j] \in S
  <2>1. S \in SUBSET Titles
    BY <1>1
  <2>2. games \in Seq(S) /\ IsInjective(games)
    BY <1>2, <2>1, SortedIs
  <2>3. games \in Seq(Titles)
    BY <2>1, <2>2, SeqMonotonic
  <2> QED
    BY <2>2, <2>3
<1>4. Promise(games)
  BY <1>3, DriveIs, PlanForetells
<1> SUFFICES ASSUME freeKnown' PROVE PInv'
  <2>1. freeKnown' \in BOOLEAN
    BY DEF MakePlan
  <2>2. CASE ~freeKnown'
    <3>1. plan' = Unmeasured(games)
      BY <1>1, <1>2, <2>2 DEF planPS2
    <3>2. PICK es : es = Unmeasured(games)
      OBVIOUS
    <3>3. Guess(es)
      BY <1>3, <3>2, UnmeasuredIs
    <3> QED
      BY <2>2, <3>1, <3>2, <3>3 DEF PInv, Guess, MaxAllocationFor, MaxChunks, Bytes, Short,
         chunksToCover, megabytes, overheadMB
  <2> QED
    BY <2>1, <2>2
<1>5. PICK es, L : es = PlaceEach(games) /\ L = splitPlan(es)
  OBVIOUS
<1>6. PICK O : /\ Foretold(L, O) /\ O[1] = Board(table)
               /\ \A j \in DOMAIN es : Tells(es[j], L, O)
  BY <1>4, <1>5 DEF Promise
<1>7. L \in Seq(Titles) /\ \A k \in 1 .. Len(L) : \E j \in DOMAIN games : L[k] = games[j]
  BY <1>4, <1>5 DEF Promise
<1>8. /\ plan' = es /\ todo' = L /\ refused' = {} /\ failures' = {}
      /\ drive' = drive /\ table' = table
  BY <1>1, <1>2, <1>5 DEF MakePlan, planPS2
<1>9. Len(L) \in Nat /\ DOMAIN L = 1 .. Len(L) /\ SubSeq(L, 1, Len(L)) = L
  BY <1>7
<1>10. \A k \in 1 .. Len(L) : L[k] \notin Installed(table)
  BY <1>1, <1>3, <1>7
<1>11. Installed(table)' = Installed(table) /\ Board(table)' = Board(table)
  BY <1>8 DEF Installed, HeadersOf, Board, Occ
<1>12. OnPlan(L, O, 1)'
  <2>1. Foretold(L, O)' /\ (\A i \in DOMAIN plan : Tells(plan[i], L, O))'
    <3>1. Foretold(L, O)'
      BY <1>6, <1>8, ForetoldStays
    <3>2. \A i \in DOMAIN es : Tells(es[i], L, O)'
      BY <1>6, <1>8, ForetoldStays
    <3> QED
      BY <1>8, <3>1, <3>2
  <2>2. Ahead(Free(drive'[1], O[1][1]), Free(drive'[1], Board(table)'[1]))
    BY <1>6, <1>8, <1>11 DEF Ahead
  <2>3. 1 \in 1 .. Len(L) + 1 /\ 1 .. 1 - 1 = {} /\ 1 - 1 = 0
    BY <1>9
  <2> QED
    BY <1>6, <1>8, <1>9, <1>10, <1>11, <2>1, <2>2, <2>3 DEF OnPlan
<1>13. 1 \in 1 .. Len(L) + 1
  BY <1>9
<1> QED
  BY <1>12, <1>13 DEF PInv

\* The title whose turn it is has room, unless the plan was overtaken.
LEMMA PlanTurn ==
  ASSUME AInv, NEW L, NEW O, NEW q, OnPlan(L, O, q), todo # <<>>
  PROVE  /\ L \in Seq(Titles) /\ q \in 1 .. Len(L) /\ Len(L) \in Nat
         /\ Head(todo) = L[q] /\ Tail(todo) = SubSeq(L, q + 1, Len(L))
         /\ Size[L[q]] \in Nat \ {0} /\ L[q] \in Titles
         /\ L[q] \notin Installed(table) /\ O[q] \in Boards /\ O[q + 1] \in Boards
         /\ Fits(View(O[q]), Size[L[q]]) /\ O[q + 1] = After(O[q], Size[L[q]])
         /\ failures = {} \/ Len(drive) = 1 => ~Refuses(Head(todo))
         /\ Len(drive) = 1 =>
              /\ Ahead(Free(drive[1], O[q + 1][1]), Free(drive[1], Board(table)[1]))
              /\ Ahead(Free(drive[1], O[q + 1][1]),
                       Free(drive[1], After(Board(table), Size[L[q]])[1]))
<1> DEFINE n == Len(L)
           b == Size[L[q]]
           o == Board(table)
<1>1. /\ L \in Seq(Titles) /\ q \in 1 .. n + 1 /\ todo = SubSeq(L, q, n)
      /\ O \in [1 .. n + 1 -> Boards]
      /\ \A k \in 1 .. n : Fits(View(O[k]), Size[L[k]]) /\ O[k + 1] = After(O[k], Size[L[k]])
      /\ \A k \in q .. n : L[k] \notin Installed(table)
  BY DEF OnPlan, Foretold
<1>2. n \in Nat
  BY <1>1
<1>3. q \in 1 .. n
  <2> SUFFICES ASSUME q = n + 1 PROVE FALSE
    BY <1>1, <1>2
  <2>1. SubSeq(L, n + 1, n) = <<>>
    BY <1>1, <1>2
  <2> QED
    BY <1>1, <2>1
<1>4. Head(todo) = L[q] /\ Tail(todo) = SubSeq(L, q + 1, n)
  BY <1>1, <1>2, <1>3
<1>5. L[q] \in Titles /\ b \in Nat \ {0}
  <2>1. L[q] \in Titles
    BY <1>1, <1>3
  <2> QED
    BY <2>1, SizeAssumption
<1>6. /\ O[q] \in Boards /\ O[q + 1] \in Boards /\ L[q] \notin Installed(table)
      /\ Fits(View(O[q]), b) /\ O[q + 1] = After(O[q], b)
  <2>1. q \in 1 .. n + 1 /\ q + 1 \in 1 .. n + 1 /\ q \in q .. n
    BY <1>2, <1>3
  <2> QED
    BY <1>1, <1>3, <2>1
<1> HIDE DEF n, b
<1>7. drive \in Seq(Nat)
  BY DriveIs
<1>8. ReadTOC(table) = View(o) /\ o \in Boards
  BY BoardIs
<1> HIDE DEF o
<1>9. ASSUME Len(drive) = 1
      PROVE  /\ Fits(View(o), b)
             /\ Ahead(Free(drive[1], O[q + 1][1]), Free(drive[1], o[1]))
             /\ Ahead(Free(drive[1], O[q + 1][1]), Free(drive[1], After(o, b)[1]))
  <2> DEFINE m == drive[1]
             p == O[q][1]
             r == o[1]
             ap == allocationChunks(Statistics(m, p), b)
             ar == allocationChunks(Statistics(m, r), b)
  <2>1. DOMAIN drive = 1 .. 1 /\ m \in Nat /\ \A i \in DOMAIN drive : i = 1
    BY <1>7, <1>9
  <2>2. p \in SUBSET (0 .. m - 1) /\ r \in SUBSET (0 .. m - 1)
    BY <1>6, <1>8, <2>1 DEF Boards
  <2>3. Ahead(Free(m, p), Free(m, r))
    BY <1>9 DEF OnPlan, o
  <2>4. Slot(O[q], b) = 1
    BY <1>5, <1>6, <1>7, <2>1, PlaceIs
  <2>5. ap # 0 /\ Takes(O[q], b) = ap
    <3>1. Takes(O[q], b) = ap
      BY <2>4 DEF Takes
    <3>2. Takes(O[q], b) # 0
      BY <1>5, <1>6, <1>7, PlaceIs
    <3> QED
      BY <3>1, <3>2
  <2>6. /\ ar # 0
        /\ Ahead(Free(m, p \cup Lowest(m, p, ap)), Free(m, r))
        /\ Ahead(Free(m, p \cup Lowest(m, p, ap)), Free(m, r \cup Lowest(m, r, ar)))
    <3> HIDE DEF m, p, r
    <3>1. ap = allocationChunks(Statistics(m, p), b) /\ ar = allocationChunks(Statistics(m, r), b)
      OBVIOUS
    <3> HIDE DEF ap, ar
    <3> QED
      BY <1>5, <2>1, <2>2, <2>3, <2>5, <3>1, AheadStep
  <2>7. Fits(View(o), b) /\ Slot(o, b) = 1
    <3>1. FirstFit(View(o), b) # 0
      BY <1>5, <1>7, <1>8, <2>1, <2>6, FirstFitIs
    <3>2. FirstFit(View(o), b) \in DOMAIN drive
      BY <1>5, <1>7, <1>8, <3>1, FirstFitIs
    <3> QED
      BY <2>1, <3>1, <3>2 DEF Fits, Slot
  <2>8. Takes(o, b) = ar
    BY <2>7 DEF Takes
  <2>9. O[q] \in [DOMAIN drive -> SUBSET Nat] /\ o \in [DOMAIN drive -> SUBSET Nat] /\ 1 \in DOMAIN drive
    BY <1>6, <1>8, <2>1 DEF Boards
  <2>10. O[q + 1][1] = p \cup Lowest(m, p, ap)
    BY <1>6, <2>4, <2>5, <2>9 DEF After, Gets
  <2>11. After(o, b)[1] = r \cup Lowest(m, r, ar)
    BY <2>7, <2>8, <2>9 DEF After, Gets
  <2> HIDE DEF p, r, ap, ar, m
  <2>12. /\ Ahead(Free(m, O[q + 1][1]), Free(m, r))
         /\ Ahead(Free(m, O[q + 1][1]), Free(m, After(o, b)[1]))
    BY <2>6, <2>10, <2>11
  <2> QED
    BY <2>7, <2>12 DEF m, r
<1>10. failures = {} => Fits(View(o), b)
  BY <1>6 DEF OnPlan, o
<1>11. failures = {} \/ Len(drive) = 1 => ~Refuses(Head(todo))
  BY <1>4, <1>6, <1>8, <1>9, <1>10 DEF Refuses, b
<1> QED
  BY <1>1, <1>2, <1>3, <1>4, <1>5, <1>6, <1>9, <1>11 DEF n, b, o

\* A turn taken moves the plan on, if what the drive holds then agrees with it.
LEMMA PlanMoves ==
  ASSUME AInv, NEW L, NEW O, NEW q, OnPlan(L, O, q), NextTitle,
         Installed(table)' \subseteq Installed(table) \cup {Head(todo)},
         failures' = {} =>
           /\ failures = {} /\ refused' = {} /\ Board(table)' = O[q + 1]
           /\ \A u \in Titles \ {Head(todo)} : HeadersOf(u, table)' = HeadersOf(u, table)
           /\ Cardinality(Cov(HeadersOf(L[q], table)))' = Takes(O[q], Size[L[q]]),
         Len(drive) = 1 =>
           refused' = {} /\ Ahead(Free(drive[1], O[q + 1][1]), Free(drive[1], Board(table)'[1]))
  PROVE  q + 1 \in 1 .. Len(L) + 1 /\ OnPlan(L, O, q + 1)'
<1>1. todo # <<>> /\ todo' = Tail(todo) /\ drive' = drive /\ plan' = plan
  BY DEF NextTitle
<1>2. /\ L \in Seq(Titles) /\ q \in 1 .. Len(L) /\ Len(L) \in Nat
      /\ Head(todo) = L[q] /\ Tail(todo) = SubSeq(L, q + 1, Len(L)) /\ L[q] \in Titles
  BY <1>1, PlanTurn
<1>3. q + 1 \in 1 .. Len(L) + 1
  BY <1>2
<1>4. /\ Foretold(L, O) /\ IsInjective(L) /\ \A i \in DOMAIN plan : Tells(plan[i], L, O)
      /\ \A k \in q .. Len(L) : L[k] \notin Installed(table)
      /\ failures = {} =>
           \A k \in 1 .. q - 1 : Cardinality(Cov(HeadersOf(L[k], table))) = Takes(O[k], Size[L[k]])
  BY DEF OnPlan, Foretold
<1>5. Foretold(L, O)' /\ (\A i \in DOMAIN plan : Tells(plan[i], L, O))'
  <2>1. Foretold(L, O)'
    BY <1>1, <1>4, ForetoldStays
  <2>2. \A i \in DOMAIN plan : Tells(plan[i], L, O)
    BY <1>4
  <2>3. PICK es : es = plan
    OBVIOUS
  <2>4. \A i \in DOMAIN es : Tells(es[i], L, O)'
    BY <1>1, <2>2, <2>3, ForetoldStays
  <2> QED
    BY <1>1, <2>1, <2>3, <2>4
<1>6. ASSUME NEW k \in 1 .. Len(L), k # q PROVE L[k] # L[q] /\ L[k] \in Titles
  BY <1>2, <1>4, <1>6 DEF IsInjective
<1>7. \A k \in q + 1 .. Len(L) : L[k] \notin Installed(table)'
  <2> SUFFICES ASSUME NEW k \in q + 1 .. Len(L) PROVE L[k] \notin Installed(table)'
    OBVIOUS
  <2>1. k \in q .. Len(L) /\ k \in 1 .. Len(L) /\ k # q
    BY <1>2
  <2> QED
    BY <1>2, <1>4, <1>6, <2>1
<1>8. ASSUME failures' = {}
      PROVE  \A k \in 1 .. (q + 1) - 1 :
               Cardinality(Cov(HeadersOf(L[k], table)))' = Takes(O[k], Size[L[k]])'
  <2> SUFFICES ASSUME NEW k \in 1 .. q
               PROVE  Cardinality(Cov(HeadersOf(L[k], table)))' = Takes(O[k], Size[L[k]])'
    BY <1>2
  <2>1. Takes(O[k], Size[L[k]])' = Takes(O[k], Size[L[k]])
    BY <1>1, ForetoldStays
  <2>2. CASE k = q
    <3>1. PICK t : t = L[q]
      OBVIOUS
    <3>2. Cardinality(Cov(HeadersOf(t, table)))' = Takes(O[q], Size[L[q]])
      <4>1. Cardinality(Cov(HeadersOf(L[q], table)))' = Takes(O[q], Size[L[q]])
        BY <1>8
      <4> QED
        BY <3>1, <4>1
    <3> QED
      BY <2>1, <2>2, <3>1, <3>2
  <2>3. CASE k # q
    <3>1. k \in 1 .. q - 1 /\ k \in 1 .. Len(L)
      BY <1>2, <2>3
    <3>2. PICK t : t = L[k]
      OBVIOUS
    <3>3. t \in Titles \ {Head(todo)}
      BY <1>2, <1>6, <2>3, <3>1, <3>2
    <3>4. HeadersOf(t, table)' = HeadersOf(t, table)
      BY <1>8, <3>3
    <3>5. Cov(HeadersOf(t, table))' = Cov(HeadersOf(t, table))
      BY <3>4 DEF Cov, Span
    <3>6. Cardinality(Cov(HeadersOf(t, table))) = Takes(O[k], Size[L[k]])
      BY <1>4, <1>8, <3>1, <3>2
    <3> QED
      BY <2>1, <3>2, <3>5, <3>6
  <2> QED
    BY <2>2, <2>3
<1>9. OnPlan(L, O, q + 1)'
  BY <1>1, <1>2, <1>3, <1>5, <1>7, <1>8 DEF OnPlan
<1> QED
  BY <1>3, <1>9

LEMMA PlanStep == AInv /\ PInv /\ [AllocNext]_allocVars => PInv'
<1> SUFFICES ASSUME AInv, PInv, [AllocNext]_allocVars PROVE PInv'
  OBVIOUS
<1>1. CASE MakePlan
  BY <1>1, PlanStarts
<1>2. CASE QueueTitle
  BY <1>2 DEF QueueTitle, PInv
<1>3. CASE \E t \in Titles : RemoveTitle(t)
  BY <1>3 DEF RemoveTitle, PInv
<1>4. ASSUME plan' = plan, freeKnown' = freeKnown, plan = <<>> \/ ~freeKnown PROVE PInv'
  <2>1. CASE plan = <<>>
    BY <1>4, <2>1 DEF PInv
  <2>2. CASE plan # <<>>
    <3>1. PICK es : es = plan
      OBVIOUS
    <3>2. Guess(es)'
      BY <1>4, <2>2, <3>1 DEF PInv, Guess, MaxAllocationFor, MaxChunks, Bytes, Short,
         chunksToCover, megabytes, overheadMB
    <3> QED
      BY <1>4, <2>2, <3>1, <3>2 DEF PInv
  <2> QED
    BY <2>1, <2>2
<1>5. ASSUME NEW L, NEW O, NEW q \in 1 .. Len(L) + 1, OnPlan(L, O, q), NextTitle,
             InstallRefused \/ InstallWrites \/ InstallFails
      PROVE  \E r \in 1 .. Len(L) + 1 : OnPlan(L, O, r)'
  <2> DEFINE t == Head(todo)
             o == Board(table)
             b == Size[L[q]]
  <2>1. todo # <<>> /\ drive' = drive
    BY <1>5 DEF NextTitle
  <2>2. /\ t = L[q] /\ t \in Titles /\ t \notin Installed(table)
        /\ O[q + 1] = After(O[q], b)
        /\ (failures = {} \/ Len(drive) = 1 => ~Refuses(t))
        /\ (Len(drive) = 1 =>
              /\ Ahead(Free(drive[1], O[q + 1][1]), Free(drive[1], o[1]))
              /\ Ahead(Free(drive[1], O[q + 1][1]), Free(drive[1], After(o, b)[1])))
    BY <1>5, <2>1, PlanTurn
  <2>3. /\ (failures = {} => refused = {} /\ o = O[q])
        /\ (Len(drive) = 1 => refused = {})
    BY <1>5 DEF OnPlan
  <2>4. ASSUME table' = table
        PROVE  Installed(table)' = Installed(table) /\ Board(table)' = o
    BY <2>1, <2>4 DEF Installed, HeadersOf, Board, Occ
  <2>5. ASSUME ~Refuses(t), table' = HdlAllocate(t, table)
        PROVE  /\ Installed(table)' = Installed(table) \cup {t}
               /\ \A u \in Titles \ {t} : HeadersOf(u, table)' = HeadersOf(u, table)
               /\ Cardinality(Cov(HeadersOf(L[q], table)))' = Takes(o, b)
               /\ Board(table)' = After(o, b)
    <3> DEFINE new == HdlAllocate(L[q], table)
    <3>1. Fits(ReadTOC(table), b) /\ L[q] \in Titles \ Installed(table)
      BY <2>2, <2>5 DEF Refuses
    <3>2. drive \in Seq(Nat) /\ Sound(table)
      BY DriveIs DEF AInv
    <3>3. Adds(L[q], table)
      BY <3>1, <3>2, AddsSoundly
    <3>4. /\ Installed(new) = Installed(table) \cup {L[q]}
          /\ \A u \in Titles \ {L[q]} : HeadersOf(u, new) = HeadersOf(u, table)
          /\ Cardinality(Cov(HeadersOf(L[q], new))) = Takes(o, b)
          /\ Board(new) = After(o, b)
      BY <3>3 DEF Adds
    <3>5. table' = new
      BY <2>2, <2>5
    <3> HIDE DEF new, t, o
    <3>6. \A u : HeadersOf(u, table)' = HeadersOf(u, new)
      BY <3>5 DEF HeadersOf
    <3>7. Installed(table)' = Installed(new)
      BY <3>6 DEF Installed
    <3>8. Board(table)' = Board(new)
      BY <2>1, <3>5 DEF Board, Occ
    <3>9. Cov(HeadersOf(L[q], table))' = Cov(HeadersOf(L[q], new))
      BY <3>6 DEF Cov, Span
    <3> QED
      BY <2>2, <3>4, <3>6, <3>7, <3>8, <3>9
  <2>6. q + 1 \in 1 .. Len(L) + 1 /\ OnPlan(L, O, q + 1)'
    <3>1. CASE InstallRefused
      <4>1. Refuses(t) /\ table' = table /\ failures' = failures
        BY <3>1 DEF InstallRefused
      <4>2. failures' # {} /\ Len(drive) # 1
        BY <2>2, <4>1
      <4> QED
        BY <1>5, <2>4, <4>1, <4>2, PlanMoves
    <3>2. CASE InstallWrites
      <4>1. ~Refuses(t) /\ table' = HdlAllocate(t, table) /\ refused' = refused /\ failures' = failures
        BY <3>2 DEF InstallWrites
      <4>2. /\ Installed(table)' = Installed(table) \cup {t}
            /\ \A u \in Titles \ {t} : HeadersOf(u, table)' = HeadersOf(u, table)
            /\ Cardinality(Cov(HeadersOf(L[q], table)))' = Takes(o, b)
            /\ Board(table)' = After(o, b)
        BY <2>5, <4>1
      <4> HIDE DEF o, b
      <4>3. Installed(table)' \subseteq Installed(table) \cup {Head(todo)}
        BY <4>2
      <4>4. failures' = {} =>
              /\ failures = {} /\ refused' = {} /\ Board(table)' = O[q + 1]
              /\ \A u \in Titles \ {Head(todo)} : HeadersOf(u, table)' = HeadersOf(u, table)
              /\ Cardinality(Cov(HeadersOf(L[q], table)))' = Takes(O[q], Size[L[q]])
        BY <2>2, <2>3, <4>1, <4>2 DEF b
      <4>5. Len(drive) = 1 =>
              refused' = {} /\ Ahead(Free(drive[1], O[q + 1][1]), Free(drive[1], Board(table)'[1]))
        BY <2>2, <2>3, <4>1, <4>2
      <4> QED
        BY <1>5, <4>3, <4>4, <4>5, PlanMoves
    <3>3. CASE InstallFails
      <4>1. /\ ~Refuses(t) /\ table' \in {table, HdlAllocate(t, table)} /\ refused' = refused
            /\ failures' = failures \cup {t}
        BY <3>3 DEF InstallFails
      <4>2. failures' # {}
        BY <4>1
      <4>3. /\ Installed(table)' \subseteq Installed(table) \cup {Head(todo)}
            /\ Board(table)' = o \/ Board(table)' = After(o, b)
        BY <2>4, <2>5, <4>1
      <4> HIDE DEF o, b
      <4>4. Len(drive) = 1 =>
              refused' = {} /\ Ahead(Free(drive[1], O[q + 1][1]), Free(drive[1], Board(table)'[1]))
        BY <2>2, <2>3, <4>1, <4>3
      <4> QED
        BY <1>5, <4>2, <4>3, <4>4, PlanMoves
    <3> QED
      BY <1>5, <3>1, <3>2, <3>3
  <2> QED
    BY <2>6
<1>6. ASSUME InstallRefused \/ InstallWrites \/ InstallFails PROVE PInv'
  <2>1. NextTitle /\ plan' = plan /\ freeKnown' = freeKnown
    BY <1>6 DEF InstallRefused, InstallWrites, InstallFails, NextTitle
  <2>2. CASE plan = <<>> \/ ~freeKnown
    BY <1>4, <2>1, <2>2
  <2>3. CASE plan # <<>> /\ freeKnown
    <3>1. PICK L, O : \E q \in 1 .. Len(L) + 1 : OnPlan(L, O, q)
      BY <2>3 DEF PInv
    <3>2. PICK q \in 1 .. Len(L) + 1 : OnPlan(L, O, q)
      BY <3>1
    <3>3. \E r \in 1 .. Len(L) + 1 : OnPlan(L, O, r)'
      BY <1>5, <1>6, <2>1, <3>2
    <3> QED
      BY <2>1, <2>3, <3>3 DEF PInv
  <2> QED
    BY <2>2, <2>3
<1>7. CASE UNCHANGED allocVars
  <2>1. /\ drive' = drive /\ table' = table /\ plan' = plan /\ todo' = todo
        /\ refused' = refused /\ failures' = failures /\ freeKnown' = freeKnown
    BY <1>7 DEF allocVars
  <2>2. Installed(table)' = Installed(table) /\ Board(table)' = Board(table)
        /\ \A u : HeadersOf(u, table)' = HeadersOf(u, table)
    BY <2>1 DEF Installed, HeadersOf, Board, Occ
  <2>3. ASSUME NEW L, NEW O, NEW q \in 1 .. Len(L) + 1, OnPlan(L, O, q), freeKnown PROVE PInv'
    <3>1. Foretold(L, O)'
      BY <2>1, <2>3, ForetoldStays DEF OnPlan
    <3>2. (\A i \in DOMAIN plan : Tells(plan[i], L, O))'
      <4>1. \A i \in DOMAIN plan : Tells(plan[i], L, O)
        BY <2>3 DEF OnPlan
      <4>2. PICK es : es = plan
        OBVIOUS
      <4>3. \A i \in DOMAIN es : Tells(es[i], L, O)'
        BY <2>1, <4>1, <4>2, ForetoldStays
      <4> QED
        BY <2>1, <4>2, <4>3
    <3>3. \A k : Cov(HeadersOf(L[k], table))' = Cov(HeadersOf(L[k], table))
      BY <2>2 DEF Cov, Span
    <3>4. \A k : Takes(O[k], Size[L[k]])' = Takes(O[k], Size[L[k]])
      BY <2>1, ForetoldStays
    <3>5. OnPlan(L, O, q)'
      BY <2>1, <2>2, <2>3, <3>1, <3>2, <3>3, <3>4 DEF OnPlan
    <3> QED
      BY <2>1, <2>3, <3>5 DEF PInv
  <2>4. CASE plan = <<>> \/ ~freeKnown
    BY <1>4, <2>1, <2>4
  <2> QED
    BY <2>3, <2>4 DEF PInv
<1> QED
  BY <1>1, <1>2, <1>3, <1>6, <1>7 DEF AllocNext

-----------------------------------------------------------------------------
\* Partitions lie inside their slice and on chunks of their own.
THEOREM AllocTypes == AllocSpec => []ATypeOK
<1>1. AInv => ATypeOK
  BY DEF AInv, ATypeOK, Sound, Entries, Live
<1> QED
  BY <1>1, InitSound, AllocStep, PTL DEF AllocSpec

LEMMA Audited == ASSUME AInv PROVE AuditClean
<1> SUFFICES ASSUME NEW t \in Installed(table)
             PROVE  Bytes(Footprint(t)) \in MinAllocationFor(Size[t]) .. MaxAllocationFor(Size[t])
  BY DEF AuditClean
<1> DEFINE H == HeadersOf(t, table)
           c == Cardinality(Cov(H))
           w == chunksToCover(Size[t])
           m == MaxChunks(Size[t])
<1>1. Held(t, table)
  BY DEF AInv, Sound
<1>2. Lying(H) /\ c \in w .. m
  BY <1>1 DEF Held
<1>3. MapThenSumSet(LAMBDA h : h.len, H) = c
  BY <1>2, SumIs
<1>4. Footprint(t) = c
  BY <1>3 DEF Footprint
<1>5. Size[t] \in Nat \ {0}
  BY SizeAssumption DEF Installed
<1>6. w \in Nat /\ m \in Nat
  BY <1>5, CoverPositive, MaxChunksIs
<1> HIDE DEF c, w, m
<1>7. c \in Nat /\ w <= c /\ c <= m
  BY <1>2, <1>6
<1>8. Bytes(w) <= Bytes(c) /\ Bytes(c) <= Bytes(m) /\ Bytes(c) \in Nat /\ Bytes(w) \in Nat /\ Bytes(m) \in Nat
  BY <1>6, <1>7, BytesGrow
<1> QED
  BY <1>4, <1>8 DEF MinAllocationFor, MaxAllocationFor, w, m

\* What a title occupies is between the bounds the audit uses, and a slice with the
\* worst case free holds the title.
THEOREM AllocationsBounded == AllocSpec => []AllocationBounded
<1>1. ASSUME AInv PROVE AuditClean
  BY <1>1, Audited
<1>2. ASSUME AInv PROVE MaxIsEnough
  <2> SUFFICES ASSUME NEW t \in Titles, NEW i \in DOMAIN drive,
                      Bytes(ReadTOC(table)[i].free) >= MaxAllocationFor(Size[t])
               PROVE  allocationChunks(ReadTOC(table)[i], Size[t]) \in 1 .. MaxChunks(Size[t])
    BY DEF MaxIsEnough
  <2> DEFINE n == drive[i]
             occ == Board(table)[i]
             b == Size[t]
             f == Cardinality(Free(n, occ))
             a == allocationChunks(Statistics(n, occ), b)
  <2>1. ReadTOC(table) = View(Board(table)) /\ Board(table) \in Boards
    BY BoardIs
  <2>2. drive \in Seq(Nat)
    BY <1>2, DriveIs
  <2>3. n \in Nat /\ occ \in SUBSET (0 .. n - 1) /\ b \in Nat \ {0}
    BY <2>1, <2>2, SizeAssumption DEF Boards
  <2>4. ReadTOC(table)[i] = Statistics(n, occ)
    BY <2>1 DEF View
  <2> HIDE DEF n, occ, b
  <2>5. Statistics(n, occ).free = f /\ f \in Nat
    BY <2>3, FreeIs
  <2>6. MaxChunks(b) \in Nat
    BY <2>3, MaxChunksIs
  <2>7. Bytes(f) >= Bytes(MaxChunks(b))
    BY <2>4, <2>5 DEF MaxAllocationFor, b
  <2>8. MaxChunks(b) <= f
    <3> HIDE DEF f
    <3>1. Bytes(f) \in Nat /\ Bytes(MaxChunks(b)) \in Nat
      BY <2>5, <2>6, BytesGrow
    <3>2. Bytes(MaxChunks(b)) <= Bytes(f)
      BY <2>7, <3>1
    <3> QED
      BY <2>5, <2>6, <3>2, BytesGrow
  <2>9. /\ a \in Nat /\ (a # 0 => a <= MaxChunks(b)) /\ (MaxChunks(b) <= f => a # 0)
    BY <2>3, AllocationIs
  <2>10. a \in 1 .. MaxChunks(b)
    BY <2>6, <2>8, <2>9
  <2> QED
    BY <2>4, <2>10 DEF b
<1>3. AInv => AllocationBounded
  BY <1>1, <1>2 DEF AllocationBounded
<1> QED
  BY <1>3, InitSound, AllocStep, PTL DEF AllocSpec

\* No title the plan said would fit is refused, and what fits takes what was said.
THEOREM PlansKept == AllocSpec => []PlanKept
<1>1. ASSUME AInv, PInv PROVE PlanKept
  <2>1. CASE plan = <<>>
    BY <2>1 DEF PlanKept, PlanKeptAlways
  <2>2. ASSUME freeKnown, NEW L, NEW O, NEW q \in 1 .. Len(L) + 1, OnPlan(L, O, q) PROVE PlanKept
    <3>1. /\ Foretold(L, O) /\ \A i \in DOMAIN plan : Tells(plan[i], L, O)
          /\ \A k \in q .. Len(L) : L[k] \notin Installed(table)
          /\ failures = {} =>
               \A k \in 1 .. q - 1 : Cardinality(Cov(HeadersOf(L[k], table))) = Takes(O[k], Size[L[k]])
          /\ Len(drive) = 1 \/ failures = {} => refused = {}
      BY <2>2 DEF OnPlan
    <3>2. L \in Seq(Titles) /\ Len(L) \in Nat /\ \A k \in 1 .. Len(L) : L[k] \in Titles
      BY <3>1 DEF Foretold
    <3>3. ASSUME failures = {}, NEW i \in DOMAIN plan, plan[i].fits, plan[i].game \in whole
          PROVE  Bytes(Footprint(plan[i].game)) = plan[i].bytes
      <4>1. PICK k \in 1 .. Len(L) : plan[i].game = L[k] /\ plan[i].bytes = Bytes(Takes(O[k], Size[L[k]]))
        BY <3>1, <3>3 DEF Tells
      <4>2. L[k] \in Installed(table)
        BY <1>1, <3>3, <4>1 DEF AInv
      <4>3. k \in 1 .. q - 1
        BY <3>1, <3>2, <4>2
      <4>4. Cardinality(Cov(HeadersOf(L[k], table))) = Takes(O[k], Size[L[k]])
        BY <3>1, <3>3, <4>3
      <4>5. Lying(HeadersOf(L[k], table))
        BY <1>1, <4>2 DEF AInv, Sound, Held
      <4>6. MapThenSumSet(LAMBDA h : h.len, HeadersOf(L[k], table)) = Cardinality(Cov(HeadersOf(L[k], table)))
        BY <4>5, SumIs
      <4>7. Footprint(L[k]) = Takes(O[k], Size[L[k]])
        BY <4>4, <4>6 DEF Footprint
      <4> QED
        BY <4>1, <4>7
    <3>4. Len(drive) = 1 \/ failures = {} => PlanKeptAlways
      BY <3>1 DEF PlanKeptAlways
    <3> QED
      BY <2>2, <3>3, <3>4 DEF PlanKept
  <2>3. ASSUME ~freeKnown, Guess(plan) PROVE PlanKept
    <3> SUFFICES ASSUME NEW i \in DOMAIN plan, plan[i].game \in whole
                 PROVE  Bytes(Footprint(plan[i].game)) <= plan[i].bytes
      BY <2>3 DEF PlanKept
    <3>1. PICK t : t = plan[i].game
      OBVIOUS
    <3>2. t \in Installed(table) /\ t \in Titles
      BY <1>1, <3>1 DEF AInv, Installed
    <3>3. Bytes(Footprint(t)) \in MinAllocationFor(Size[t]) .. MaxAllocationFor(Size[t])
      BY <1>1, <3>2, Audited DEF AuditClean
    <3>4. plan[i].bytes = MaxAllocationFor(Size[t])
      BY <2>3, <3>1 DEF Guess
    <3> QED
      BY <3>1, <3>3, <3>4
  <2> QED
    BY <1>1, <2>1, <2>2, <2>3 DEF PInv
<1> QED
  BY <1>1, InitSound, AllocStep, PlanStep, PTL DEF AllocSpec
=============================================================================
