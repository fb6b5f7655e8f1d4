---------------------------- MODULE SessionProofs ----------------------------
(***************************************************************************)
(* Theorems about what one session of the program shares.  MountManager,   *)
(* for any number of goroutines, partitions and managers, and whatever     *)
(* directories mountDirName gives: map entries, kernel mounts and holders  *)
(* account for each other.  Interface, for any titles, capacity and number *)
(* of keys: whatever uses the queue leaves a command behind that listens,  *)
(* and of all loads the newest is followed, until it answers or a newer    *)
(* one begins.                                                             *)
(***************************************************************************)
EXTENDS MountManager, Interface, FiniteSetTheorems, SequenceTheorems, TLAPS

(* The mounts of a session. *)

Holders(m, p) == {u \in Users : Holds(u, m, p)}

Basics ==
  /\ mounts \in Managers \cup {NoManager} /\ validated \in BOOLEAN
  /\ created \in SUBSET Managers
  /\ owned \in [Managers -> [Partitions -> Nat]]
  /\ kernel \in [Dirs -> Partitions \cup {Nothing, Foreign}]
  /\ at \in [Users -> {"idle", "target", "ready", "using"}]
  /\ mgr \in [Users -> Managers \cup {NoManager}]
  /\ part \in [Users -> Partitions \cup {Nothing}]
  /\ main \in {"open", "closing"} /\ closing \in Managers \cup {NoManager}
  /\ closes \in 0..2 /\ closed \in SUBSET Managers
  /\ (main = "closing" => closes < 2)
  /\ process \in {"alive", "exited", "crashed"}
  /\ ours \in SUBSET Dirs /\ refused \in SUBSET ours

\* The count is that of the goroutines inside With; Close may have cleared it
\* under some of them.
Counted ==
  \A m \in Managers, p \in Partitions :
    /\ owned[m][p] <= Cardinality(Holders(m, p))
    /\ m \notin closed => owned[m][p] = Cardinality(Holders(m, p))

\* An entry of a map stands for a mount this process made ...
Backed ==
  \A m \in Managers, p \in Partitions : owned[m][p] > 0 =>
    m \in created /\ kernel[DirOf[p]] = p /\ DirOf[p] \in ours

\* ... and no two entries for one mount.
Sole ==
  \A m, n \in Managers, p, q \in Partitions :
    owned[m][p] > 0 /\ owned[n][q] > 0 /\ DirOf[p] = DirOf[q] => m = n /\ p = q

\* What this process mounted is there until it is unmounted, and has an entry
\* until its unmount is refused.
Accounted ==
  \A d \in ours :
    /\ kernel[d] \in Partitions
    /\ d \notin refused => \E m \in Managers, p \in Partitions :
                             owned[m][p] > 0 /\ DirOf[p] = d

\* Every manager is the session's, the one being closed, or closed.
Reach ==
  /\ created \subseteq closed \cup {mounts, closing}
  /\ mounts \in created \cup {NoManager}
  /\ main = "open" => closing = NoManager
  /\ \A u \in Users : mgr[u] \in created \cup {NoManager}
  /\ \A u \in Users : at[u] = "using" => mgr[u] # NoManager /\ part[u] \in Partitions

MInv == Basics /\ Counted /\ Backed /\ Sole /\ Accounted /\ Reach

-----------------------------------------------------------------------------
\* The holders of a partition are finitely many, and no more than there are
\* goroutines.
LEMMA HoldersFinite ==
  ASSUME NEW m, NEW p
  PROVE  /\ IsFiniteSet(Holders(m, p))
         /\ Cardinality(Holders(m, p)) \in Nat
         /\ Cardinality(Holders(m, p)) <= Cardinality(Users)
<1>1. IsFiniteSet(Users)
  BY MountAssumption DEF MountAssumption
<1>2. Holders(m, p) \subseteq Users
  BY DEF Holders
<1> QED BY <1>1, <1>2, FS_Subset, FS_CardinalityType

\* Initially nothing is mounted by this process and nobody holds anything.
LEMMA MountInitHolds == MountInit => MInv
<1> SUFFICES ASSUME MountInit PROVE MInv
  OBVIOUS
<1> USE MountAssumption DEF MountAssumption, MountInit
<1>1. Basics
  <2>1. owned \in [Managers -> [Partitions -> Nat]]
    OBVIOUS
  <2>2. kernel \in [Dirs -> Partitions \cup {Nothing, Foreign}]
    OBVIOUS
  <2>3. /\ at \in [Users -> {"idle", "target", "ready", "using"}]
        /\ mgr \in [Users -> Managers \cup {NoManager}]
        /\ part \in [Users -> Partitions \cup {Nothing}]
    OBVIOUS
  <2>4. closes \in 0..2 /\ closed \in SUBSET Managers /\ closes < 2
    OBVIOUS
  <2>5. /\ mounts \in Managers \cup {NoManager} /\ validated \in BOOLEAN
        /\ created \in SUBSET Managers
        /\ main = "open" /\ closing \in Managers \cup {NoManager}
        /\ process = "alive" /\ ours \in SUBSET Dirs /\ refused \in SUBSET ours
    OBVIOUS
  <2> HIDE DEF MountInit
  <2> QED BY <2>1, <2>2, <2>3, <2>4, <2>5 DEF Basics
<1>2. Counted
  <2> SUFFICES ASSUME NEW m \in Managers, NEW p \in Partitions
               PROVE  owned[m][p] = Cardinality(Holders(m, p))
                      /\ owned[m][p] = 0
    BY DEF Counted
  <2>1. Holders(m, p) = {}
    BY DEF Holders, Holds
  <2> QED BY <2>1, FS_EmptySet
<1>3. Backed /\ Sole /\ Accounted /\ Reach
  BY DEF Backed, Sole, Accounted, Reach
<1> QED BY <1>1, <1>2, <1>3 DEF MInv

\* A step that touches no count, no mount and nobody inside With keeps the
\* invariant, as far as the counts and the mounts go.
LEMMA QuietStep ==
  ASSUME MInv, UNCHANGED << owned, kVars, closed >>,
         \A u \in Users : /\ (at'[u] = "using") <=> (at[u] = "using")
                          /\ at[u] = "using" => mgr'[u] = mgr[u] /\ part'[u] = part[u],
         created \subseteq created'
  PROVE  Counted' /\ Backed' /\ Sole' /\ Accounted'
<1>1. ASSUME NEW m \in Managers, NEW p \in Partitions
      PROVE  Holders(m, p)' = Holders(m, p)
  BY DEF Holders, Holds
<1>2. Counted'
  BY <1>1 DEF MInv, Counted
<1>3. Backed'
  BY DEF MInv, Backed, kVars
<1>4. Sole'
  BY DEF MInv, Sole
<1>5. Accounted'
  BY DEF MInv, Accounted, kVars
<1> QED BY <1>2, <1>3, <1>4, <1>5

\* Target keeps the invariant: at most it adds a manager nobody has used.
LEMMA TargetKeeps == ASSUME MInv, NEW u \in Users, Target(u) PROVE MInv'
<1> USE DEF Target, Goes, cVars, kVars
<1>1. /\ created' \in SUBSET Managers /\ created \subseteq created'
      /\ mounts' \in created' \cup {NoManager}
      /\ created' \subseteq created \cup {mounts'}
      /\ mounts # NoManager => mounts' = mounts
      /\ validated' \in BOOLEAN
  BY DEF MInv, Basics, Reach, Validate, sVars
<1>2. Basics'
  BY <1>1 DEF MInv, Basics
<1>3. Reach'
  <2>1. main' = main /\ closing' = closing /\ mgr' = mgr
    OBVIOUS
  <2>2. created' \subseteq closed' \cup {mounts', closing'}
    BY <1>1, <2>1, MountAssumption DEF MInv, Basics, Reach, MountAssumption
  <2>3. \A w \in Users : mgr'[w] \in created' \cup {NoManager}
    BY <1>1, <2>1 DEF MInv, Reach
  <2>4. ASSUME NEW w \in Users, at'[w] = "using"
        PROVE  mgr'[w] # NoManager /\ part'[w] \in Partitions
    <3>1. at[w] = "using"
      BY <2>4 DEF MInv, Basics
    <3> QED BY <3>1 DEF MInv, Reach
  <2>5. main' = "open" => closing' = NoManager
    BY <2>1 DEF MInv, Reach
  <2> QED BY <1>1, <2>1, <2>2, <2>3, <2>4, <2>5 DEF Reach
<1>4. Counted' /\ Backed' /\ Sole' /\ Accounted'
  BY <1>1, QuietStep DEF MInv, Basics
<1> QED BY <1>2, <1>3, <1>4 DEF MInv

\* The steps of a goroutine outside With, and those of Close and Exit that
\* touch no manager, keep the invariant.
LEMMA OtherKeeps ==
  ASSUME MInv,
         \/ \E u \in Users : GetMounts(u) \/ NilManager(u) \/ Return(u)
         \/ \E u \in Users, p \in Partitions : MountFails(u, mgr[u], p) /\ Mount(u)
         \/ CloseServices \/ Exit
         \/ closing = NoManager /\ CloseMounts
         \/ UNCHANGED mountVars
  PROVE  MInv'
<1> USE DEF kVars, cVars, uVars, sVars, Goes
<1>1. ASSUME NEW u \in Users, GetMounts(u) \/ NilManager(u) \/ Return(u)
      PROVE  MInv'
  <2>1. /\ UNCHANGED << owned, kVars, sVars, part, main, closing, closes, closed >>
        /\ process' \in {"alive", "exited", "crashed"}
        /\ at' \in [Users -> {"idle", "target", "ready", "using"}]
        /\ mgr' \in [Users -> created \cup {NoManager}]
        /\ \A w \in Users : /\ (at'[w] = "using") <=> (at[w] = "using")
                            /\ at[w] = "using" => mgr'[w] = mgr[w]
    BY <1>1 DEF MInv, Basics, Reach, GetMounts, NilManager, Return
  <2>2. Basics'
    BY <2>1 DEF MInv, Basics
  <2>3. Reach'
    BY <2>1 DEF MInv, Reach
  <2>4. Counted' /\ Backed' /\ Sole' /\ Accounted'
    BY <2>1, QuietStep DEF MInv, Basics
  <2> QED BY <2>2, <2>3, <2>4 DEF MInv
<1>2. ASSUME NEW u \in Users, NEW p \in Partitions, MountFails(u, mgr[u], p), Mount(u)
      PROVE  MInv'
  <2>1. /\ UNCHANGED << owned, kVars, sVars, part, mgr, cVars >>
        /\ at[u] = "ready" /\ at' = [at EXCEPT ![u] = "idle"]
    BY <1>2 DEF MountFails, Mount
  <2>2. Basics'
    BY <2>1 DEF MInv, Basics
  <2>3. Reach'
    BY <2>1 DEF MInv, Basics, Reach
  <2>4. Counted' /\ Backed' /\ Sole' /\ Accounted'
    BY <2>1, QuietStep DEF MInv, Basics
  <2> QED BY <2>2, <2>3, <2>4 DEF MInv
<1>3. ASSUME \/ CloseServices \/ Exit
             \/ closing = NoManager /\ CloseMounts
             \/ UNCHANGED mountVars
      PROVE  MInv'
  <2>1. UNCHANGED << owned, kVars, closed, uVars, created, validated >>
    BY <1>3, MountAssumption DEF CloseServices, Exit, CloseMounts, mountVars, MountAssumption,
       MInv, Basics
  <2>2. Counted' /\ Backed' /\ Sole' /\ Accounted'
    BY <2>1, QuietStep
  <2>3. Basics'
    BY <1>3, <2>1 DEF MInv, Basics, CloseServices, Exit, CloseMounts, mountVars
  <2>4. Reach'
    BY <1>3, <2>1 DEF MInv, Basics, Reach, CloseServices, Exit, CloseMounts, mountVars
  <2> QED BY <2>2, <2>3, <2>4 DEF MInv
<1> QED BY <1>1, <1>2, <1>3

\* Mount, when it succeeds, adds a reference and a holder; a new entry is the
\* only one of its mount, because the directory was no mount before.
LEMMA MountKeeps ==
  ASSUME MInv, NEW u \in Users, mgr[u] # NoManager, NEW p \in Partitions,
         MountAgain(u, mgr[u], p) \/ MountNew(u, mgr[u], p),
         UNCHANGED << sVars, mgr, cVars >>
  PROVE  MInv'
<1> DEFINE m == mgr[u]
<1> USE MountAssumption DEF MountAssumption, kVars, cVars, sVars
<1>1. m \in Managers /\ m \in created
  BY DEF MInv, Basics, Reach
<1>2. /\ at[u] = "ready" /\ at' = [at EXCEPT ![u] = "using"]
      /\ part' = [part EXCEPT ![u] = p]
      /\ owned[m][p] \in Nat
      /\ owned' = [owned EXCEPT ![m][p] = owned[m][p] + 1]
  BY <1>1 DEF MountAgain, MountNew, Holding, Goes, MInv, Basics
<1>3. Basics'
  <2>1. DirOf[p] \in Dirs
    BY DEF Dirs
  <2>2. /\ kernel' \in [Dirs -> Partitions \cup {Nothing, Foreign}]
        /\ ours' \in SUBSET Dirs /\ refused' \in SUBSET ours'
    BY <2>1 DEF MountAgain, MountNew, MInv, Basics
  <2>3. owned' \in [Managers -> [Partitions -> Nat]]
    BY <1>1, <1>2 DEF MInv, Basics
  <2>4. /\ at' \in [Users -> {"idle", "target", "ready", "using"}]
        /\ part' \in [Users -> Partitions \cup {Nothing}]
    BY <1>2 DEF MInv, Basics
  <2> QED BY <2>2, <2>3, <2>4 DEF MInv, Basics
<1>4. Counted'
  <2> SUFFICES ASSUME NEW n \in Managers, NEW q \in Partitions
               PROVE  /\ owned'[n][q] <= Cardinality(Holders(n, q)')
                      /\ n \notin closed => owned'[n][q] = Cardinality(Holders(n, q)')
    BY DEF Counted
  <2>1. IsFiniteSet(Holders(n, q)) /\ Cardinality(Holders(n, q)) \in Nat
    BY HoldersFinite
  <2>2. CASE n = m /\ q = p
    <3>1. Holders(n, q)' = Holders(n, q) \cup {u} /\ u \notin Holders(n, q)
      BY <1>2, <2>2 DEF Holders, Holds, MInv, Basics
    <3>2. Cardinality(Holders(n, q)') = Cardinality(Holders(n, q)) + 1
      BY <2>1, <3>1, FS_AddElement
    <3>3. owned'[n][q] = owned[n][q] + 1
      BY <1>1, <1>2, <2>2 DEF MInv, Basics
    <3> QED BY <1>1, <1>2, <2>1, <2>2, <3>2, <3>3 DEF MInv, Counted
  <2>3. CASE ~(n = m /\ q = p)
    <3>1. Holders(n, q)' = Holders(n, q)
      BY <1>2, <2>3 DEF Holders, Holds, MInv, Basics
    <3>2. owned'[n][q] = owned[n][q]
      BY <1>1, <1>2, <2>3 DEF MInv, Basics
    <3> QED BY <3>1, <3>2 DEF MInv, Counted
  <2> QED BY <2>2, <2>3
<1>5. ASSUME NEW n \in Managers, NEW q \in Partitions, owned'[n][q] > 0
      PROVE  \/ n = m /\ q = p
             \/ owned[n][q] > 0
  BY <1>1, <1>2, <1>5 DEF MInv, Basics
<1>6. CASE MountAgain(u, m, p)
  <2>1. owned[m][p] > 0 /\ UNCHANGED << kernel, ours, refused >>
    BY <1>6 DEF MountAgain
  <2>2. \A n \in Managers, q \in Partitions : owned'[n][q] > 0 <=> owned[n][q] > 0
    BY <1>1, <1>2, <2>1 DEF MInv, Basics
  <2>3. Backed' /\ Sole' /\ Accounted'
    BY <2>1, <2>2 DEF MInv, Backed, Sole, Accounted
  <2> QED BY <1>3, <1>4, <2>3, <1>2 DEF MInv, Basics, Reach
<1>7. CASE MountNew(u, m, p)
  <2>1. /\ owned[m][p] = 0 /\ kernel[DirOf[p]] = Nothing
        /\ kernel' = [kernel EXCEPT ![DirOf[p]] = p]
        /\ ours' = ours \cup {DirOf[p]} /\ refused' = refused
    BY <1>7 DEF MountNew
  <2>2. DirOf[p] \in Dirs /\ DirOf[p] \notin ours
    BY <2>1 DEF Dirs, MInv, Accounted
  <2>3. \A n \in Managers, q \in Partitions : owned[n][q] > 0 => DirOf[q] # DirOf[p]
    BY <2>2 DEF MInv, Backed
  <2>4. \A n \in Managers, q \in Partitions :
          owned'[n][q] > 0 <=> (n = m /\ q = p) \/ owned[n][q] > 0
    BY <1>1, <1>2 DEF MInv, Basics
  <2>5. Backed'
    <3> SUFFICES ASSUME NEW n \in Managers, NEW q \in Partitions, owned'[n][q] > 0
                 PROVE  n \in created /\ kernel'[DirOf[q]] = q /\ DirOf[q] \in ours'
      BY DEF Backed
    <3>1. DirOf[q] \in Dirs
      BY DEF Dirs
    <3>2. CASE n = m /\ q = p
      BY <1>1, <2>1, <3>1, <3>2 DEF MInv, Basics
    <3>3. CASE owned[n][q] > 0
      BY <2>1, <2>3, <3>1, <3>3 DEF MInv, Basics, Backed
    <3> QED BY <2>4, <3>2, <3>3
  <2>6. Sole'
    BY <2>3, <2>4 DEF MInv, Sole
  <2>7. Accounted'
    <3> SUFFICES ASSUME NEW d \in ours'
                 PROVE  /\ kernel'[d] \in Partitions
                        /\ d \notin refused' =>
                             \E n \in Managers, q \in Partitions :
                               owned'[n][q] > 0 /\ DirOf[q] = d
      BY DEF Accounted
    <3>1. CASE d = DirOf[p]
      BY <1>1, <2>1, <2>2, <2>4, <3>1 DEF MInv, Basics
    <3>2. CASE d # DirOf[p]
      BY <2>1, <2>4, <3>2 DEF MInv, Basics, Accounted
    <3> QED BY <3>1, <3>2
  <2> QED BY <1>3, <1>4, <2>5, <2>6, <2>7, <1>2 DEF MInv, Basics, Reach
<1> QED BY <1>6, <1>7

\* Releasing directories that entries stand for takes away none but mounts of
\* this process.
LEMMA ReleaseFrees ==
  ASSUME MInv, NEW ds \in SUBSET Dirs, NEW no, Releases(ds, no), ds \subseteq ours
  PROVE  /\ kernel' \in [Dirs -> Partitions \cup {Nothing, Foreign}]
         /\ ours' \in SUBSET Dirs /\ refused' \in SUBSET ours'
         /\ \A d \in Dirs : d \notin ds \/ d \in no => kernel'[d] = kernel[d]
         /\ \A d \in Dirs : d \notin ds => (d \in ours' <=> d \in ours)
                                           /\ (d \in refused' <=> d \in refused)
         /\ \A d \in ds : d \in ours' => d \in refused' /\ d \in no /\ d \in ours
BY DEF Releases, MInv, Basics

\* Unmount takes away a reference and a holder, and with the last reference the
\* entry and, unless it is refused, the mount.
LEMMA UnmountKeeps == ASSUME MInv, NEW u \in Users, Unmount(u) PROVE MInv'
<1> DEFINE m == mgr[u]
           p == part[u]
<1> USE MountAssumption DEF MountAssumption, kVars, cVars, sVars
<1>1. /\ at[u] = "using" /\ at' = [at EXCEPT ![u] = "ready"]
      /\ part' = [part EXCEPT ![u] = Nothing]
      /\ UNCHANGED << mounts, validated, created, mgr, main, closing, closes, closed, process >>
      /\ m \in Managers /\ p \in Partitions /\ owned[m][p] \in Nat
      /\ DirOf[p] \in Dirs
  BY DEF Unmount, Goes, MInv, Basics, Reach, Dirs
<1>2. /\ owned' = [owned EXCEPT ![m][p] = IF owned[m][p] > 1 THEN owned[m][p] - 1 ELSE 0]
  BY <1>1 DEF Unmount, UnmountLast, UnmountEarlier, MInv, Basics
<1>3. owned' \in [Managers -> [Partitions -> Nat]]
  BY <1>1, <1>2 DEF MInv, Basics
<1>4. /\ at' \in [Users -> {"idle", "target", "ready", "using"}]
      /\ part' \in [Users -> Partitions \cup {Nothing}]
  BY <1>1 DEF MInv, Basics
<1>5. Counted'
  <2> SUFFICES ASSUME NEW n \in Managers, NEW q \in Partitions
               PROVE  /\ owned'[n][q] <= Cardinality(Holders(n, q)')
                      /\ n \notin closed => owned'[n][q] = Cardinality(Holders(n, q)')
    BY <1>1 DEF Counted
  <2>1. IsFiniteSet(Holders(n, q)) /\ Cardinality(Holders(n, q)) \in Nat
    BY HoldersFinite
  <2>2. CASE n = m /\ q = p
    <3>1. Holders(n, q)' = Holders(n, q) \ {u} /\ u \in Holders(n, q)
      BY <1>1, <2>2 DEF Holders, Holds, MInv, Basics
    <3>2. Cardinality(Holders(n, q)') = Cardinality(Holders(n, q)) - 1
      BY <2>1, <3>1, FS_RemoveElement
    <3>3. Cardinality(Holders(n, q)) # 0
      BY <2>1, <3>1, FS_EmptySet
    <3>4. owned'[n][q] = IF owned[n][q] > 1 THEN owned[n][q] - 1 ELSE 0
      BY <1>1, <1>2, <2>2 DEF MInv, Basics
    <3> QED BY <1>1, <2>1, <2>2, <3>2, <3>3, <3>4 DEF MInv, Counted
  <2>3. CASE ~(n = m /\ q = p)
    <3>1. Holders(n, q)' = Holders(n, q)
      BY <1>1, <2>3 DEF Holders, Holds, MInv, Basics
    <3>2. owned'[n][q] = owned[n][q]
      BY <1>1, <1>2, <2>3 DEF MInv, Basics
    <3> QED BY <3>1, <3>2 DEF MInv, Counted
  <2> QED BY <2>2, <2>3
<1>6. Reach'
  BY <1>1 DEF MInv, Basics, Reach
<1>7. CASE UnmountEarlier(m, p)
  <2>1. owned[m][p] # 1 /\ UNCHANGED << kernel, ours, refused >>
    BY <1>7 DEF UnmountEarlier
  <2>2. \A n \in Managers, q \in Partitions : owned'[n][q] > 0 <=> owned[n][q] > 0
    BY <1>1, <1>2, <2>1 DEF MInv, Basics
  <2>3. Backed' /\ Sole' /\ Accounted'
    BY <1>1, <2>1, <2>2 DEF MInv, Backed, Sole, Accounted
  <2>4. Basics'
    BY <1>1, <1>3, <1>4, <2>1 DEF MInv, Basics
  <2> QED BY <1>5, <1>6, <2>3, <2>4 DEF MInv
<1>8. CASE UnmountLast(m, p)
  <2>1. owned[m][p] = 1
    BY <1>8 DEF UnmountLast
  <2>2. PICK no \in SUBSET {DirOf[p]} : Releases({DirOf[p]}, no)
    BY <1>8 DEF UnmountLast
  <2>3. {DirOf[p]} \in SUBSET Dirs /\ {DirOf[p]} \subseteq ours
    BY <1>1, <2>1 DEF MInv, Backed
  <2>4. /\ kernel' \in [Dirs -> Partitions \cup {Nothing, Foreign}]
        /\ ours' \in SUBSET Dirs /\ refused' \in SUBSET ours'
        /\ \A d \in Dirs : d \notin {DirOf[p]} \/ d \in no => kernel'[d] = kernel[d]
        /\ \A d \in Dirs : d \notin {DirOf[p]} => (d \in ours' <=> d \in ours)
                                          /\ (d \in refused' <=> d \in refused)
        /\ \A d \in {DirOf[p]} : d \in ours' => d \in refused' /\ d \in no /\ d \in ours
    <3> HIDE DEF p, m
    <3> DEFINE one == {DirOf[p]}
    <3>1. one \in SUBSET Dirs /\ one \subseteq ours /\ Releases(one, no)
      BY <2>2, <2>3
    <3> HIDE DEF one
    <3>2. /\ kernel' \in [Dirs -> Partitions \cup {Nothing, Foreign}]
          /\ ours' \in SUBSET Dirs /\ refused' \in SUBSET ours'
          /\ \A d \in Dirs : d \notin one \/ d \in no => kernel'[d] = kernel[d]
          /\ \A d \in Dirs : d \notin one => (d \in ours' <=> d \in ours)
                                             /\ (d \in refused' <=> d \in refused)
          /\ \A d \in one : d \in ours' => d \in refused' /\ d \in no /\ d \in ours
      BY <3>1, ReleaseFrees
    <3> QED BY <3>2 DEF one
  <2>5. \A n \in Managers, q \in Partitions :
          owned'[n][q] > 0 <=> owned[n][q] > 0 /\ ~(n = m /\ q = p)
    BY <1>1, <1>2, <2>1 DEF MInv, Basics
  <2>6. \A n \in Managers, q \in Partitions : owned'[n][q] > 0 => DirOf[q] # DirOf[p]
    BY <1>1, <2>1, <2>5 DEF MInv, Sole
  <2>7. \A q \in Partitions : DirOf[q] \in Dirs
    BY DEF Dirs
  <2>8. Backed'
    BY <1>1, <2>4, <2>5, <2>6, <2>7 DEF MInv, Backed
  <2>9. Sole'
    BY <2>5 DEF MInv, Sole
  <2>10. Accounted'
    <3> SUFFICES ASSUME NEW d \in ours'
                 PROVE  /\ kernel'[d] \in Partitions
                        /\ d \notin refused' =>
                             \E n \in Managers, q \in Partitions :
                               owned'[n][q] > 0 /\ DirOf[q] = d
      BY DEF Accounted
    <3>1. CASE d = DirOf[p]
      BY <1>1, <2>4, <3>1 DEF MInv, Accounted
    <3>2. CASE d # DirOf[p]
      <4>1. d \in ours /\ kernel'[d] = kernel[d] /\ (d \in refused' <=> d \in refused)
        BY <2>4, <3>2
      <4>2. kernel[d] \in Partitions
        BY <4>1 DEF MInv, Accounted
      <4>3. d \notin refused' => \E n \in Managers, q \in Partitions :
                                   owned'[n][q] > 0 /\ DirOf[q] = d
        BY <2>5, <3>2, <4>1 DEF MInv, Accounted
      <4> QED BY <4>1, <4>2, <4>3
    <3> QED BY <3>1, <3>2
  <2>11. Basics'
    BY <1>1, <1>3, <1>4, <2>4 DEF MInv, Basics
  <2> QED BY <1>5, <1>6, <2>8, <2>9, <2>10, <2>11 DEF MInv
<1> QED BY <1>7, <1>8 DEF Unmount

\* Close takes every entry of its manager and no other.
LEMMA CloseKeeps == ASSUME MInv, CloseMounts, closing # NoManager PROVE MInv'
<1> DEFINE m == closing
           ds == {DirOf[p] : p \in {q \in Partitions : owned[m][q] > 0}}
<1> USE MountAssumption DEF MountAssumption, kVars, cVars, sVars, uVars
<1>1. /\ main = "closing" /\ main' = "open" /\ closing' = NoManager
      /\ closes' = closes + 1 /\ closes < 2 /\ m \in Managers
      /\ UNCHANGED << mounts, validated, created, at, mgr, part, process >>
      /\ closed' = closed \cup {m}
      /\ owned' = [owned EXCEPT ![m] = [p \in Partitions |-> 0]]
  BY DEF CloseMounts, CloseManager, MInv, Basics
<1>2. PICK no \in SUBSET ds : Releases(ds, no)
  BY DEF CloseMounts, CloseManager
<1>3. ds \in SUBSET Dirs /\ ds \subseteq ours
  BY <1>1 DEF MInv, Backed, Dirs
<1>4. /\ kernel' \in [Dirs -> Partitions \cup {Nothing, Foreign}]
      /\ ours' \in SUBSET Dirs /\ refused' \in SUBSET ours'
      /\ \A d \in Dirs : d \notin ds \/ d \in no => kernel'[d] = kernel[d]
      /\ \A d \in Dirs : d \notin ds => (d \in ours' <=> d \in ours)
                                        /\ (d \in refused' <=> d \in refused)
      /\ \A d \in ds : d \in ours' => d \in refused' /\ d \in no /\ d \in ours
  BY <1>2, <1>3, ReleaseFrees
<1>5. \A n \in Managers, q \in Partitions :
        owned'[n][q] = IF n = m THEN 0 ELSE owned[n][q]
  BY <1>1 DEF MInv, Basics
<1>6. Basics'
  <2>1. owned' \in [Managers -> [Partitions -> Nat]]
    BY <1>1 DEF MInv, Basics
  <2>2. closes' \in 0..2
    BY <1>1 DEF MInv, Basics
  <2> QED BY <1>1, <1>4, <2>1, <2>2 DEF MInv, Basics
<1>7. Counted'
  <2> SUFFICES ASSUME NEW n \in Managers, NEW q \in Partitions
               PROVE  /\ owned'[n][q] <= Cardinality(Holders(n, q)')
                      /\ n \notin closed' => owned'[n][q] = Cardinality(Holders(n, q)')
    BY DEF Counted
  <2>1. Cardinality(Holders(n, q)) \in Nat
    BY HoldersFinite
  <2>2. Holders(n, q)' = Holders(n, q)
    BY <1>1 DEF Holders, Holds
  <2> QED BY <1>1, <1>5, <2>1, <2>2 DEF MInv, Counted
<1>8. \A n \in Managers, q \in Partitions : owned'[n][q] > 0 =>
        n # m /\ owned[n][q] > 0 /\ DirOf[q] \notin ds
  BY <1>1, <1>5 DEF MInv, Sole
<1>9. Backed'
  BY <1>1, <1>4, <1>8 DEF MInv, Backed, Dirs
<1>10. Sole'
  BY <1>8 DEF MInv, Sole
<1>11. Accounted'
  <2> SUFFICES ASSUME NEW d \in ours'
               PROVE  /\ kernel'[d] \in Partitions
                      /\ d \notin refused' =>
                           \E n \in Managers, q \in Partitions :
                             owned'[n][q] > 0 /\ DirOf[q] = d
    BY DEF Accounted
  <2>1. CASE d \in ds
    BY <1>3, <1>4, <2>1 DEF MInv, Accounted
  <2>2. CASE d \notin ds
    <3>1. d \in ours /\ kernel'[d] = kernel[d] /\ (d \in refused' <=> d \in refused)
      BY <1>4, <2>2
    <3>2. ASSUME d \notin refused'
          PROVE  \E n \in Managers, q \in Partitions : owned'[n][q] > 0 /\ DirOf[q] = d
      <4>1. PICK n \in Managers, q \in Partitions : owned[n][q] > 0 /\ DirOf[q] = d
        BY <3>1, <3>2 DEF MInv, Accounted
      <4>2. n # m
        BY <2>2, <4>1
      <4> QED BY <1>5, <4>1, <4>2
    <3> QED BY <3>1, <3>2 DEF MInv, Accounted
  <2> QED BY <2>1, <2>2
<1>12. Reach'
  BY <1>1 DEF MInv, Basics, Reach
<1> QED BY <1>6, <1>7, <1>9, <1>10, <1>11, <1>12 DEF MInv

\* Every step keeps the invariant.
LEMMA NextKeeps == MInv /\ [MountNext]_mountVars => MInv'
<1> SUFFICES ASSUME MInv, [MountNext]_mountVars PROVE MInv'
  OBVIOUS
<1>1. ASSUME NEW u \in Users, User(u) PROVE MInv'
  <2>1. CASE Target(u)
    BY <2>1, TargetKeeps
  <2>2. CASE GetMounts(u) \/ NilManager(u) \/ Return(u)
    BY <2>2, OtherKeeps
  <2>3. CASE Mount(u)
    <3>1. PICK p \in Partitions : \/ MountAgain(u, mgr[u], p) \/ MountNew(u, mgr[u], p)
                                  \/ MountFails(u, mgr[u], p)
      BY <2>3 DEF Mount
    <3>2. CASE MountFails(u, mgr[u], p)
      BY <2>3, <3>2, OtherKeeps
    <3>3. CASE MountAgain(u, mgr[u], p) \/ MountNew(u, mgr[u], p)
      BY <2>3, <3>3, MountKeeps DEF Mount
    <3> QED BY <3>1, <3>2, <3>3
  <2>4. CASE Unmount(u)
    BY <2>4, UnmountKeeps
  <2> QED BY <1>1, <2>1, <2>2, <2>3, <2>4 DEF User
<1>2. ASSUME CloseServices \/ CloseMounts \/ Exit \/ UNCHANGED mountVars PROVE MInv'
  BY <1>2, OtherKeeps, CloseKeeps
<1> QED BY <1>1, <1>2 DEF MountNext, Close

-----------------------------------------------------------------------------
(* The invariant the theorems below follow from: entries of the maps, mounts   *)
(* in the kernel and goroutines inside With account for each other, whatever   *)
(* Close and a new validation do in between.                                   *)
THEOREM MountInductive == MountSpec => []MInv
BY MountInitHolds, NextKeeps, PTL DEF MountSpec

(* MTypeOK: the fields of the manager, the session and the kernel keep their   *)
(* types; a count never exceeds the number of goroutines, even after Close.    *)
THEOREM MountTypes == MountSpec => []MTypeOK
<1>1. MInv => MTypeOK
  <2> SUFFICES ASSUME MInv PROVE MTypeOK
    OBVIOUS
  <2>1. ASSUME NEW m \in Managers, NEW p \in Partitions
        PROVE  owned[m][p] \in 0..Cardinality(Users)
    <3>1. IsFiniteSet(Users) /\ Cardinality(Users) \in Nat
      BY MountAssumption, FS_CardinalityType DEF MountAssumption
    <3>2. /\ Cardinality(Holders(m, p)) \in Nat
          /\ Cardinality(Holders(m, p)) <= Cardinality(Users)
      BY HoldersFinite
    <3>3. owned[m][p] \in Nat /\ owned[m][p] <= Cardinality(Holders(m, p))
      BY DEF MInv, Basics, Counted
    <3> QED BY <3>1, <3>2, <3>3
  <2>2. owned \in [Managers -> [Partitions -> 0..Cardinality(Users)]]
    BY <2>1 DEF MInv, Basics
  <2> QED BY <2>2 DEF MInv, Basics, MTypeOK
<1> QED BY <1>1, MountInductive, PTL

(* RefsCountHolders: until a manager is closed, its count of a partition is    *)
(* the number of goroutines inside With on it, for any number of them.         *)
THEOREM CountsExact == MountSpec => []RefsCountHolders
<1>1. MInv => RefsCountHolders
  BY DEF MInv, Counted, RefsCountHolders, Holders
<1> QED BY <1>1, MountInductive, PTL

(* HeldIsMounted: inside With the partition asked for is under the path, until *)
(* the manager is closed.                                                      *)
THEOREM HeldStaysMounted == MountSpec => []HeldIsMounted
<1>1. MInv => HeldIsMounted
  <2> SUFFICES ASSUME MInv, NEW u \in Users, at[u] = "using", mgr[u] \notin closed
               PROVE  kernel[DirOf[part[u]]] = part[u]
    BY DEF HeldIsMounted
  <2>1. mgr[u] \in Managers /\ part[u] \in Partitions
    BY DEF MInv, Basics, Reach
  <2>2. u \in Holders(mgr[u], part[u])
    BY DEF Holders, Holds
  <2>3. Cardinality(Holders(mgr[u], part[u])) # 0
    BY <2>2, HoldersFinite, FS_EmptySet
  <2>4. owned[mgr[u]][part[u]] > 0
    BY <2>1, <2>3, HoldersFinite DEF MInv, Basics, Counted
  <2> QED BY <2>1, <2>4 DEF MInv, Backed
<1> QED BY <1>1, MountInductive, PTL

(* NoneLost: a mount the process made is known to a manager that has been or   *)
(* will be closed, until its unmount is refused.                               *)
THEOREM NoMountIsLost == MountSpec => []NoneLost
<1>1. MInv => NoneLost
  <2> SUFFICES ASSUME MInv, NEW d \in ours \ refused
               PROVE  \E m \in Managers, p \in Partitions :
                        /\ owned[m][p] > 0 /\ DirOf[p] = d /\ kernel[d] = p
                        /\ m \in closed \/ m \in {mounts, closing}
    BY DEF NoneLost
  <2>1. PICK m \in Managers, p \in Partitions : owned[m][p] > 0 /\ DirOf[p] = d
    BY DEF MInv, Accounted
  <2>2. m \in created /\ kernel[DirOf[p]] = p
    BY <2>1 DEF MInv, Backed
  <2> QED BY <2>1, <2>2 DEF MInv, Reach
<1> QED BY <1>1, MountInductive, PTL

(* HeldAndReleased: both at once, there for whoever holds it and never lost.   *)
THEOREM HeldUntilReleased == MountSpec => []HeldAndReleased
<1>1. HeldIsMounted /\ NoneLost => HeldAndReleased
  BY DEF HeldAndReleased
<1> QED BY <1>1, HeldStaysMounted, NoMountIsLost, PTL

(* ForeignUntouched: no step of this process unmounts or covers a mount it did *)
(* not make.                                                                   *)
THEOREM ForeignStays == MountSpec => ForeignUntouched
<1>1. MInv /\ [MountNext]_mountVars =>
        [\A d \in Dirs : kernel[d] = Foreign => kernel'[d] = Foreign]_mountVars
  <2> SUFFICES ASSUME MInv, MountNext, NEW d \in Dirs, kernel[d] = Foreign
               PROVE  kernel'[d] = Foreign
    OBVIOUS
  <2> USE MountAssumption DEF MountAssumption
  <2>1. d \notin ours
    BY DEF MInv, Accounted
  <2>2. ASSUME NEW u \in Users, Mount(u) PROVE kernel'[d] = Foreign
    BY <2>2 DEF Mount, MountAgain, MountNew, MountFails, kVars, MInv, Basics
  <2>3. ASSUME NEW u \in Users, Unmount(u) PROVE kernel'[d] = Foreign
    <3>1. CASE UnmountEarlier(mgr[u], part[u])
      BY <3>1 DEF UnmountEarlier, kVars
    <3>2. CASE UnmountLast(mgr[u], part[u])
      <4>1. mgr[u] \in Managers /\ part[u] \in Partitions /\ owned[mgr[u]][part[u]] > 0
        BY <2>3, <3>2 DEF Unmount, Goes, UnmountLast, MInv, Basics, Reach
      <4>2. DirOf[part[u]] \in ours
        BY <4>1 DEF MInv, Backed
      <4> QED BY <2>1, <3>2, <4>2 DEF UnmountLast, Releases
    <3> QED BY <2>3, <3>1, <3>2 DEF Unmount
  <2>4. ASSUME CloseMounts PROVE kernel'[d] = Foreign
    <3>1. CASE closing = NoManager
      BY <2>4, <3>1 DEF CloseMounts, kVars
    <3>2. CASE closing # NoManager
      <4> DEFINE ds == {DirOf[p] : p \in {q \in Partitions : owned[closing][q] > 0}}
      <4>1. ds \subseteq ours
        BY <3>2 DEF MInv, Basics, Backed
      <4>2. PICK no \in SUBSET ds : Releases(ds, no)
        BY <2>4, <3>2 DEF CloseMounts, CloseManager
      <4> QED BY <2>1, <4>1, <4>2 DEF Releases
    <3> QED BY <3>1, <3>2
  <2>5. ASSUME NEW u \in Users, Target(u) \/ GetMounts(u) \/ NilManager(u) \/ Return(u)
        PROVE  kernel'[d] = Foreign
    BY <2>5 DEF Target, GetMounts, NilManager, Return, kVars
  <2>6. ASSUME CloseServices \/ Exit PROVE kernel'[d] = Foreign
    BY <2>6 DEF CloseServices, Exit, kVars
  <2> QED BY <2>2, <2>3, <2>4, <2>5, <2>6 DEF MountNext, User, Close
<1> QED BY <1>1, MountInductive, PTL DEF MountSpec, ForeignUntouched

-----------------------------------------------------------------------------
(* The stream of updates, the library and the keys. *)

\* As StreamAlive, of what failed too: it may wait again.
Used == Pending \/ failed # {} \/ events # <<>>
Listeners == waiters + arrived["complete"] + arrived["other"]
StreamKept == Used => Listeners > 0

\* A load is about to begin, for a title removed or an install that is complete.
Coming ==
  \/ \E i \in DOMAIN removals : removals[i].went = "done"
  \/ \E i \in DOMAIN events : events[i] = "complete"
  \/ arrived["complete"] > 0

\* The newest load has not answered, and reads or has read the drive as it is.
NewestReads ==
  /\ loads # <<>>
  /\ ~loads[Len(loads)].late
  /\ loads[Len(loads)].state = "read" => loads[Len(loads)].has = drive

\* The newest load has answered, and the library is its own unless it says not.
NewestShown ==
  /\ \A i \in DOMAIN loads : loads[i].late
  /\ warned \/ overtaken \/ shown = drive

NewestFresh == unread \/ Coming \/ NewestReads \/ NewestShown

IInv == Shape /\ StreamKept /\ NewestFresh

-----------------------------------------------------------------------------
\* What is left when the i-th of a sequence is taken out.
LEMMA TakenOut ==
  ASSUME NEW T, NEW s \in Seq(T), NEW i \in 1 .. Len(s)
  PROVE  /\ RemoveAt(s, i) \in Seq(T)
         /\ Len(RemoveAt(s, i)) = Len(s) - 1
         /\ \A k \in 1 .. Len(s) - 1 :
              RemoveAt(s, i)[k] = IF k < i THEN s[k] ELSE s[k + 1]
<1> DEFINE a == SubSeq(s, 1, i - 1)
           b == SubSeq(s, i + 1, Len(s))
<1>1. /\ a \in Seq(T) /\ Len(a) = i - 1
      /\ \A k \in 1 .. i - 1 : a[k] = s[k]
  OBVIOUS
<1>2. /\ b \in Seq(T) /\ Len(b) = Len(s) - i
      /\ \A k \in 1 .. Len(s) - i : b[k] = s[i + k]
  OBVIOUS
<1>3. RemoveAt(s, i) = a \o b
  BY DEF RemoveAt
<1> HIDE DEF a, b
<1>4. /\ a \o b \in Seq(T) /\ Len(a \o b) = Len(a) + Len(b)
      /\ \A k \in 1 .. Len(a) + Len(b) :
           (a \o b)[k] = IF k <= Len(a) THEN a[k] ELSE b[k - Len(a)]
  BY <1>1, <1>2, ConcatProperties
<1>5. Len(s) \in Nat /\ Len(a) + Len(b) = Len(s) - 1
  BY <1>1, <1>2
<1>6. ASSUME NEW k \in 1 .. Len(s) - 1
      PROVE  (a \o b)[k] = IF k < i THEN s[k] ELSE s[k + 1]
  <2>1. CASE k < i
    BY <1>1, <1>4, <1>5, <2>1
  <2>2. CASE k >= i
    <3> DEFINE n == k - Len(a)
    <3>1. n \in 1 .. Len(s) - i /\ ~ (k <= Len(a)) /\ i + n = k + 1
      BY <1>1, <1>5, <2>2
    <3>2. (a \o b)[k] = b[n]
      BY <1>4, <1>5, <3>1
    <3>3. b[n] = s[i + n]
      BY <1>2, <3>1
    <3>4. ~ (k < i)
      BY <1>5, <2>2
    <3> HIDE DEF n
    <3> QED
      BY <3>1, <3>2, <3>3, <3>4
  <2> QED
    BY <1>5, <2>1, <2>2
<1> QED
  BY <1>3, <1>4, <1>5, <1>6
-----------------------------------------------------------------------------
USE DEF vars, work, library, ui, queue, stream

LEMMA RowsFinite ==
  ASSUME Shape, NEW t \in Tables
  PROVE  Rows(t) \subseteq Titles /\ IsFiniteSet(Rows(t))
<1>1. Rows(t) \subseteq Titles
  BY DEF Shape, Rows, Listed
<1> QED
  BY <1>1, InterfaceAssumption, FS_Subset

\* A place in a finite set of rows is a number.
LEMMA PlaceIsNat ==
  ASSUME NEW S, IsFiniteSet(S), NEW c \in Nat, NEW k
  PROVE  Before(S, k) \in Nat /\ Clamp(S, c) \in Nat
<1>1. Before(S, k) \in Nat
  BY FS_Subset, FS_CardinalityType DEF Before
<1>2. Cardinality(S) \in Nat /\ (Cardinality(S) = 0 <=> S = {})
  BY FS_CardinalityType, FS_EmptySet
<1> QED
  BY <1>1, <1>2 DEF Clamp

LEMMA RefreshKeepsType ==
  ASSUME Shape, refreshTables,
         shown' \subseteq Titles, offered' \subseteq Titles,
         hidden' \in [Tables -> SUBSET Titles]
  PROVE  cursor' \in [Tables -> Nat]
<1> SUFFICES ASSUME NEW t \in Tables
             PROVE  SetRows(Rows(t), Listed(shown', offered', hidden')[t], cursor[t]) \in Nat
  BY DEF refreshTables
<1> DEFINE S == Listed(shown', offered', hidden')[t]
<1>1. S \subseteq Titles
  BY DEF Listed
<1>2. IsFiniteSet(S)
  BY <1>1, InterfaceAssumption, FS_Subset
<1>3. cursor[t] \in Nat
  BY DEF Shape
<1>4. \A k : Before(S, k) \in Nat
  BY <1>2, <1>3, PlaceIsNat
<1>5. Clamp(S, cursor[t]) \in Nat
  BY <1>2, <1>3, PlaceIsNat
<1> HIDE DEF S
<1>6. SetRows(Rows(t), S, cursor[t]) \in Nat
  BY <1>4, <1>5 DEF SetRows
<1> QED
  BY <1>6 DEF S

\* What a table offers for a question are rows of it.
LEMMA SelectedAreRows ==
  ASSUME Shape, NEW t \in Tables
  PROVE  Selected(t) \subseteq Rows(t)
  BY DEF Selected, CursorRow

\* The pieces the steps put together have their types.
LEMMA Pieces ==
  ASSUME Shape
  PROVE  /\ loadCatalog(loads) \in Seq(Loads)
         /\ Notice \in Dialogs /\ NoDialog \in Dialogs
         /\ \A k \in Questions, games \in SUBSET Titles : Ask(k, games) \in Dialogs
         /\ DOMAIN loads = 1 .. Len(loads) /\ DOMAIN removals = 1 .. Len(removals)
         /\ Len(loads) \in Nat /\ Len(removals) \in Nat
         /\ \A i \in DOMAIN loads : loads[i] \in Loads
         /\ \A i \in DOMAIN removals : removals[i] \in Removals
<1>1. Reading \in Loads
  BY DEF Reading, Loads
<1>2. NoDialog \in Dialogs
  BY DEF NoDialog, Dialogs
<1>3. Notice \in Dialogs
  BY DEF NoDialog, Notice, Dialogs
<1>4. \A k \in Questions, games \in SUBSET Titles : Ask(k, games) \in Dialogs
  BY DEF Ask, Dialogs
<1>5. loads \in Seq(Loads) /\ removals \in Seq(Removals)
  BY DEF Shape
<1> QED
  BY <1>1, <1>2, <1>3, <1>4, <1>5 DEF loadCatalog

LEMMA NotifyKeepsType ==
  ASSUME Shape, NEW u \in Updates, Notify(u)
  PROVE  events' \in Seq(Updates)
<1>1. events \in Seq(Updates)
  BY DEF Shape
<1>2. Append(events, u) \in Seq(Updates)
  BY <1>1
<1> QED
  BY <1>1, <1>2 DEF Notify

\* The updates of a pass that ends are added to those that wait.
LEMMA EachIsKept ==
  ASSUME Shape, cancelRemaining
  PROVE  /\ events' \in Seq(Updates)
         /\ waiting = {} => events' = events
         /\ \A k \in DOMAIN events : k \in DOMAIN events' /\ events'[k] = events[k]
<1> DEFINE room == Capacity - Len(events)
           n == Cardinality(waiting)
           each == [k \in 1 .. (IF n < room THEN n ELSE room) |-> "other"]
<1>1. /\ events \in Seq(Updates) /\ Len(events) \in Nat /\ room \in Int
      /\ DOMAIN events = 1 .. Len(events)
  BY InterfaceAssumption DEF Shape
<1>2. n \in Nat /\ (waiting = {} => n = 0)
  <2>1. IsFiniteSet(waiting)
    BY InterfaceAssumption, FS_Subset DEF Shape
  <2> QED
    BY <2>1, FS_CardinalityType, FS_EmptySet
<1>3. PICK m \in Nat : /\ 1 .. (IF n < room THEN n ELSE room) = 1 .. m
                       /\ waiting = {} => m = 0
  <2>1. CASE room < 0
    <3>1. 1 .. (IF n < room THEN n ELSE room) = 1 .. 0
      BY <1>1, <1>2, <2>1
    <3> QED
      BY <3>1
  <2>2. CASE room >= 0
    BY <1>1, <1>2, <2>2
  <2> QED
    BY <1>1, <2>1, <2>2
<1>4. each = [k \in 1 .. m |-> "other"]
  BY <1>3
<1>5. events' = events \o each
  BY DEF cancelRemaining
<1> HIDE DEF each, room, n
<1>6. each \in Seq(Updates) /\ Len(each) = m
  BY <1>4 DEF Updates
<1>7. /\ events \o each \in Seq(Updates)
      /\ Len(events \o each) = Len(events) + m
      /\ \A k \in 1 .. Len(events) + m :
           (events \o each)[k] = IF k <= Len(events) THEN events[k] ELSE each[k - Len(events)]
  BY <1>1, <1>6, ConcatProperties
<1>8. \A k \in DOMAIN events : k \in 1 .. Len(events) + m /\ k <= Len(events)
  BY <1>1, <1>3
<1>9. DOMAIN events' = 1 .. Len(events) + m
  BY <1>5, <1>7
<1>10. waiting = {} => events' = events
  <2> SUFFICES ASSUME waiting = {} PROVE events' = events
    OBVIOUS
  <2>1. each = <<>>
    BY <1>3, <1>6
  <2> QED
    BY <1>1, <1>5, <2>1
<1> QED
  BY <1>5, <1>7, <1>8, <1>9, <1>10

LEMMA ShapeStep ==
  ASSUME Shape, [Next]_vars
  PROVE  Shape'
<1>1. CASE UNCHANGED vars
  BY <1>1 DEF Shape
<1>2. ASSUME NEW t \in Tables, Move(t) PROVE Shape'
  <2>1. Cardinality(Rows(t)) \in Nat
    BY RowsFinite, FS_CardinalityType
  <2> QED
    BY <1>2, <2>1, InterfaceAssumption DEF Move, FreeKey, Shape
<1>3. ASSUME NEW t \in Tables, ToggleSelection(t) PROVE Shape'
  <2>1. IsFiniteSet(Rows(t)) /\ Rows(t) \subseteq Titles
    BY RowsFinite
  <2>2. cursor[t] + 1 \in Nat
    BY DEF Shape
  <2>3. Clamp(Rows(t), cursor[t] + 1) \in Nat
    BY <2>1, <2>2, PlaceIsNat
  <2>4. CursorRow(Rows(t), cursor[t]) \subseteq Titles
    BY <2>1 DEF CursorRow
  <2>5. cursor' \in [Tables -> Nat]
    BY <1>3, <2>3 DEF ToggleSelection, Shape
  <2>6. selected' \in [Tables -> SUBSET Titles]
    BY <1>3, <2>4 DEF ToggleSelection, Shape
  <2> QED
    BY <1>3, <2>5, <2>6, InterfaceAssumption DEF ToggleSelection, FreeKey, Shape
<1>4. ASSUME NEW t \in Tables, ClearSelection(t) PROVE Shape'
  BY <1>4, InterfaceAssumption DEF ClearSelection, FreeKey, Shape
<1>5. CASE SelectAll
  <2>1. "source" \in Tables /\ Rows("source") \subseteq Titles
    BY RowsFinite DEF Tables
  <2> QED
    BY <1>5, <2>1, InterfaceAssumption DEF SelectAll, FreeKey, Shape
<1>6. CASE Search
  <2>1. cursor' \in [Tables -> Nat]
    BY <1>6, RefreshKeepsType DEF Search, Shape
  <2> QED
    BY <1>6, <2>1, InterfaceAssumption DEF Search, FreeKey, Shape
<1>7. CASE refreshAll
  <2>1. loads' \in Seq(Loads) /\ unread' \in BOOLEAN
    BY <1>7, Pieces DEF refreshAll
  <2> QED
    BY <1>7, <2>1, InterfaceAssumption DEF refreshAll, FreeKey, Shape
<1>8. CASE confirmInstall
  <2>1. Selected("source") \subseteq Titles
    BY SelectedAreRows, RowsFinite DEF Tables
  <2> QED
    BY <1>8, <2>1, InterfaceAssumption
    DEF confirmInstall, FreeKey, Ask, Dialogs, Questions, Shape
<1>9. CASE confirmRemove
  <2>1. Selected("installed") \subseteq Titles
    BY SelectedAreRows, RowsFinite DEF Tables
  <2> QED
    BY <1>9, <2>1, InterfaceAssumption
    DEF confirmRemove, FreeKey, Ask, Dialogs, Questions, Shape
<1>10. CASE syncAssets
  BY <1>10, InterfaceAssumption DEF syncAssets, FreeKey, Shape
<1>11. CASE AskOrTell
  <2>1. dialog' \in Dialogs
    BY <1>11, Pieces DEF AskOrTell, Questions, Shape
  <2> QED
    BY <1>11, <2>1, InterfaceAssumption DEF AskOrTell, FreeKey, Shape
<1>12. CASE Clear
  BY <1>12, InterfaceAssumption DEF Clear, FreeKey, Shape
<1>13. CASE Retry
  BY <1>13, InterfaceAssumption DEF Retry, FreeKey, Shape
<1>14. CASE Quit
  BY <1>14, InterfaceAssumption DEF Quit, Cancel, FreeKey, Shape
<1>15. CASE Dismiss
  BY <1>15 DEF Dismiss, DialogKey, NoDialog, Dialogs, Shape
<1>16. CASE cancelRemaining
  <2>1. failed' \subseteq Titles
    BY <1>16 DEF cancelRemaining, Shape
  <2>2. events' \in Seq(Updates)
    BY <1>16, EachIsKept DEF cancelRemaining
  <2> QED
    BY <1>16, <2>1, <2>2 DEF cancelRemaining, Shape
<1>17. CASE runDialogAction
  <2>1. dialog.games \subseteq Titles /\ keys' \in 0 .. MaxKeys /\ dialog' \in Dialogs
    BY <1>17 DEF runDialogAction, DialogKey, NoDialog, Dialogs, Shape
  <2>2. CASE enqueue(dialog.games)
    BY <1>17, <2>1, <2>2 DEF runDialogAction, enqueue, Shape
  <2>3. CASE removeGames(dialog.games)
    <3>1. [todo |-> dialog.games, went |-> "busy"] \in Removals
      BY <2>1 DEF Removals
    <3> QED
      BY <1>17, <2>1, <2>3, <3>1 DEF runDialogAction, removeGames, Shape
  <2>4. CASE syncs' = syncs + 1 /\ UNCHANGED <<drive, removals, queue, stream, quitting>>
    BY <1>17, <2>1, <2>4 DEF runDialogAction, Shape
  <2>5. CASE Cancel /\ quitting' \in BOOLEAN
    BY <1>17, <2>1, <2>5 DEF runDialogAction, Cancel, Shape
  <2>6. quitting \in BOOLEAN
    BY DEF Shape
  <2> QED
    BY <1>17, <2>2, <2>3, <2>4, <2>5, <2>6 DEF runDialogAction
<1>18. ASSUME NEW i \in DOMAIN loads, LoadReads(i) PROVE Shape'
  <2>1. \A l \in Loads : /\ [l EXCEPT !.state = "failed"] \in Loads
                         /\ [l EXCEPT !.state = "read", !.has = drive] \in Loads
                         /\ [l EXCEPT !.state = "partial", !.has = drive \ Pops] \in Loads
    BY DEF Loads, Shape
  <2>2. loads' \in Seq(Loads)
    <3>1. \A l \in Loads : [loads EXCEPT ![i] = l] \in Seq(Loads)
      BY DEF Shape
    <3>2. loads[i] \in Loads
      BY Pieces
    <3> HIDE DEF Loads
    <3> QED
      BY <1>18, <2>1, <3>1, <3>2 DEF LoadReads
  <2> QED
    BY <1>18, <2>2 DEF LoadReads, Shape
<1>19. ASSUME NEW i \in DOMAIN loads, catalogLoaded(i) PROVE Shape'
  <2>1. Overtake(i) \in Seq(Loads) /\ Len(Overtake(i)) = Len(loads) /\ i \in 1 .. Len(loads)
    <3>1. \A j \in 1 .. Len(loads) : Overtake(i)[j] \in Loads
      BY Pieces DEF Overtake, Loads
    <3> QED
      BY <3>1, Pieces, SeqDef DEF Overtake
  <2>2. loads' \in Seq(Loads)
    BY <1>19, <2>1, TakenOut DEF catalogLoaded
  <2>3. loads[i].has \subseteq Titles /\ loads[i].late \in BOOLEAN
    BY Pieces DEF Loads
  <2>4. CASE loads[i].state = "failed"
    BY <1>19, <2>2, <2>4 DEF catalogLoaded, Shape
  <2>5. CASE loads[i].state # "failed"
    <3>1. shown' \subseteq Titles /\ offered' \subseteq Titles /\ hidden' \in [Tables -> SUBSET Titles]
      BY <1>19, <2>3, <2>5, InterfaceAssumption DEF catalogLoaded, Shape
    <3>2. cursor' \in [Tables -> Nat]
      BY <1>19, <2>5, <3>1, RefreshKeepsType DEF catalogLoaded
    <3> QED
      BY <1>19, <2>2, <2>3, <2>5, <3>1, <3>2 DEF catalogLoaded, Shape
  <2> QED
    BY <2>4, <2>5
<1>20. ASSUME NEW i \in DOMAIN removals, RemoveNext(i) PROVE Shape'
  <2>1. \A t, how : how \in {"done", "failed"} =>
           [todo |-> removals[i].todo \ {t}, went |-> how] \in Removals
    BY Pieces DEF Removals
  <2>2. removals' \in Seq(Removals)
    <3>1. \A r \in Removals : [removals EXCEPT ![i] = r] \in Seq(Removals)
      BY DEF Shape
    <3>2. \A t : Went(i, t, "done") \/ Went(i, t, "failed") => removals' \in Seq(Removals)
      BY <2>1, <3>1 DEF Went
    <3> QED
      BY <1>20, <3>2 DEF RemoveNext
  <2>3. drive' \subseteq Titles /\ unread' \in BOOLEAN
    BY <1>20 DEF RemoveNext, Shape
  <2> QED
    BY <1>20, <2>2, <2>3 DEF RemoveNext, Went, Shape
<1>21. ASSUME NEW i \in DOMAIN removals, removeDone(i) PROVE Shape'
  <2>1. i \in 1 .. Len(removals) /\ removals \in Seq(Removals)
    BY DEF Shape
  <2>2. RemoveAt(removals, i) \in Seq(Removals)
    BY <2>1, TakenOut
  <2>3. [removals EXCEPT ![i].went = "busy"] \in Seq(Removals)
    <3>1. [removals[i] EXCEPT !.went = "busy"] \in Removals
      BY Pieces DEF Removals
    <3> QED
      BY <2>1, <3>1
  <2>4. removals' \in Seq(Removals)
    BY <1>21, <2>2, <2>3 DEF removeDone
  <2>5. loads' \in Seq(Loads) /\ dialog' \in Dialogs /\ unread' \in BOOLEAN
    BY <1>21, Pieces DEF removeDone, Shape
  <2> QED
    BY <1>21, <2>4, <2>5 DEF removeDone, Shape
<1>22. CASE assetSyncDone
  <2>1. loads' \in Seq(Loads) /\ dialog' \in Dialogs /\ unread' \in BOOLEAN
    BY <1>22, Pieces DEF assetSyncDone, Shape
  <2>2. syncs' \in Nat
    BY <1>22 DEF assetSyncDone, Shape
  <2> QED
    BY <1>22, <2>1, <2>2 DEF assetSyncDone, Shape
<1>23. CASE Take
  <2>1. events' \in Seq(Updates)
    BY <1>23, NotifyKeepsType DEF Take, Updates
  <2> QED
    BY <1>23, <2>1 DEF Take, Shape
<1>24. CASE Progress
  <2>1. events' \in Seq(Updates)
    BY <1>24, NotifyKeepsType DEF Progress, Updates
  <2> QED
    BY <1>24, <2>1 DEF Progress, Shape
<1>25. CASE Installed
  <2>1. events' \in Seq(Updates)
    BY <1>25, NotifyKeepsType DEF Installed, Updates
  <2>2. unread' \in BOOLEAN
    BY <1>25 DEF Installed
  <2> QED
    BY <1>25, <2>1, <2>2 DEF Installed, Shape
<1>26. CASE InstallFails
  <2>1. events' \in Seq(Updates)
    BY <1>26, NotifyKeepsType DEF InstallFails, Updates
  <2>2. working \in Titles
    BY <1>26 DEF InstallFails, Shape
  <2>3. unread' \in BOOLEAN /\ drive' \subseteq Titles
    BY <1>26, <2>2 DEF InstallFails, Shape
  <2> QED
    BY <1>26, <2>1, <2>2, <2>3 DEF InstallFails, Shape
<1>27. CASE Receive
  <2>1. Head(events) \in Updates /\ Tail(events) \in Seq(Updates)
    BY <1>27, HeadTailProperties DEF Receive, Shape
  <2>2. arrived' \in [Updates -> Nat] /\ waiters' \in Nat
    BY <1>27, <2>1 DEF Receive, Shape
  <2> QED
    BY <1>27, <2>1, <2>2 DEF Receive, Shape
<1>28. ASSUME NEW u \in Updates, queueUpdate(u) PROVE Shape'
  <2>1. loads' \in Seq(Loads) /\ unread' \in BOOLEAN
    BY <1>28, Pieces DEF queueUpdate, Shape
  <2>2. arrived' \in [Updates -> Nat] /\ waiters' \in Nat
    BY <1>28 DEF queueUpdate, Shape
  <2> QED
    BY <1>28, <2>1, <2>2 DEF queueUpdate, Shape
<1> QED
  BY <1>1, <1>2, <1>3, <1>4, <1>5, <1>6, <1>7, <1>8, <1>9, <1>10, <1>11, <1>12, <1>13, <1>14,
     <1>15, <1>16, <1>17, <1>18, <1>19, <1>20, <1>21, <1>22, <1>23, <1>24, <1>25, <1>26, <1>27, <1>28
  DEF Next, handleKey, Update, Background

-----------------------------------------------------------------------------
\* A command always waits for the updates of the queue, or is about to.
LEMMA StreamStep ==
  ASSUME Shape, StreamKept, [Next]_vars
  PROVE  StreamKept'
<1>1. /\ waiters \in Nat /\ arrived \in [Updates -> Nat]
      /\ arrived["complete"] \in Nat /\ arrived["other"] \in Nat
  BY DEF Shape, Updates
<1>2. ASSUME Used' => Used, Listeners' = Listeners PROVE StreamKept'
  BY <1>2 DEF StreamKept
<1>3. ASSUME UNCHANGED <<queue, stream>> PROVE StreamKept'
  BY <1>2, <1>3 DEF Used, Pending, Listeners
<1>4. CASE UNCHANGED vars
  BY <1>3, <1>4
<1>5. ASSUME NEW t \in Tables, Move(t) \/ ToggleSelection(t) \/ ClearSelection(t) PROVE StreamKept'
  BY <1>3, <1>5 DEF Move, ToggleSelection, ClearSelection
<1>6. CASE SelectAll \/ Search \/ refreshAll \/ confirmInstall \/ confirmRemove \/ syncAssets
  BY <1>3, <1>6 DEF SelectAll, Search, refreshAll, confirmInstall, confirmRemove, syncAssets
<1>7. CASE AskOrTell \/ Dismiss \/ assetSyncDone
  BY <1>3, <1>7 DEF AskOrTell, Dismiss, assetSyncDone
<1>8. ASSUME NEW i \in DOMAIN loads, LoadReads(i) \/ catalogLoaded(i) PROVE StreamKept'
  BY <1>3, <1>8 DEF LoadReads, catalogLoaded
<1>9. ASSUME NEW i \in DOMAIN removals, RemoveNext(i) \/ removeDone(i) PROVE StreamKept'
  BY <1>3, <1>9 DEF RemoveNext, removeDone
<1>10. ASSUME waiters' = waiters + 1, UNCHANGED <<events, arrived>> PROVE StreamKept'
  BY <1>1, <1>10 DEF StreamKept, Listeners
<1>11. CASE Retry
  BY <1>10, <1>11 DEF Retry
<1>12. ASSUME Cancel PROVE StreamKept'
  BY <1>2, <1>12 DEF Cancel, Used, Pending, Listeners
<1>13. CASE Clear
  BY <1>2, <1>13 DEF Clear, Used, Pending, Listeners
<1>14. CASE Quit
  BY <1>12, <1>14 DEF Quit
<1>15. CASE runDialogAction
  BY <1>3, <1>10, <1>12, <1>15 DEF runDialogAction, enqueue, removeGames
<1>16. CASE Take \/ Progress \/ Installed \/ InstallFails
  <2>1. Used /\ Listeners' = Listeners
    BY <1>16, InterfaceAssumption
    DEF Take, Progress, Installed, InstallFails, Used, Pending, Listeners
  <2> QED
    BY <1>2, <2>1
<1>17. CASE Receive
  <2>1. Head(events) \in Updates
    BY <1>17, HeadTailProperties DEF Receive, Shape
  <2>2. Listeners' = Listeners
    BY <1>1, <1>17, <2>1 DEF Receive, Listeners, Updates
  <2> QED
    BY <1>2, <1>17, <2>2 DEF Receive, Used, Pending
<1>18. ASSUME NEW u \in Updates, queueUpdate(u) PROVE StreamKept'
  <2>1. Listeners' = Listeners
    BY <1>1, <1>18 DEF queueUpdate, Listeners, Updates
  <2> QED
    BY <1>2, <1>18, <2>1 DEF queueUpdate, Used, Pending
<1>19. CASE cancelRemaining
  <2>1. waiting = {} => events' = events
    BY <1>19, EachIsKept DEF cancelRemaining
  <2>2. Used' => Used
    BY <1>19, <2>1 DEF cancelRemaining, Used, Pending
  <2> QED
    BY <1>2, <1>19, <2>2 DEF cancelRemaining, Listeners
<1> QED
  BY <1>4, <1>5, <1>6, <1>7, <1>8, <1>9, <1>11, <1>13, <1>14, <1>15, <1>16, <1>17, <1>18, <1>19
  DEF Next, handleKey, Update, Background

-----------------------------------------------------------------------------
\* While a load is to come nothing is asked of those there are.
LEMMA StillComing ==
  ASSUME Coming' PROVE NewestFresh'
  BY DEF NewestFresh

\* A load that begins now reads the drive as it is, or as it will be.
LEMMA BegunNow ==
  ASSUME Shape, loads' = loadCatalog(loads) PROVE NewestReads'
<1>1. loads \in Seq(Loads)
  BY DEF Shape
<1>2. loads' # <<>> /\ loads'[Len(loads')] = Reading
  BY <1>1 DEF loadCatalog
<1> QED
  BY <1>2 DEF NewestReads, Reading

\* A step that changes nothing of these, and takes no load back that was to come,
\* keeps what is known of them.
LEMMA NothingNew ==
  ASSUME NewestFresh, Coming => Coming', UNCHANGED <<drive, library, loads, unread>>
  PROVE  NewestFresh'
  BY DEF NewestFresh, NewestReads, NewestShown

LEMMA NotifyLosesNone ==
  ASSUME Shape, NEW u \in Updates, Notify(u), UNCHANGED <<removals, arrived>>
  PROVE  /\ Coming => Coming'
         /\ u = "complete" /\ ~Dropped => Coming'
<1>1. events \in Seq(Updates)
  BY DEF Shape
<1>2. CASE Len(events) < Capacity
  <2>1. events' = Append(events, u)
    BY <1>2 DEF Notify
  <2>2. /\ Len(events) + 1 \in DOMAIN events' /\ events'[Len(events) + 1] = u
        /\ \A k \in DOMAIN events : k \in DOMAIN events' /\ events'[k] = events[k]
    BY <1>1, <2>1
  <2> QED
    BY <2>2 DEF Coming
<1>3. CASE ~ (Len(events) < Capacity)
  <2>1. Dropped
    BY <1>1, <1>3, InterfaceAssumption DEF Dropped
  <2> QED
    BY <1>3, <2>1 DEF Notify, Coming
<1> QED
  BY <1>2, <1>3

\* The drive's reading by one of the loads.
LEMMA FreshAfterReading ==
  ASSUME Shape, NewestFresh, NEW i \in DOMAIN loads, LoadReads(i)
  PROVE  NewestFresh'
<1>1. UNCHANGED <<drive, library, unread, removals, events, arrived>>
  BY DEF LoadReads
<1>2. PICK l : /\ loads' = [loads EXCEPT ![i] = l]
               /\ l.late = loads[i].late
               /\ l.state = "read" => l.has = drive
  <2> DEFINE a == [loads[i] EXCEPT !.state = "read", !.has = drive]
             b == [loads[i] EXCEPT !.state = "partial", !.has = drive \ Pops]
             c == [loads[i] EXCEPT !.state = "failed"]
             Good(l) == l.late = loads[i].late /\ (l.state = "read" => l.has = drive)
  <2>1. Good(a) /\ Good(b) /\ Good(c)
    BY Pieces DEF Loads
  <2>2. \/ loads' = [loads EXCEPT ![i] = a]
        \/ loads' = [loads EXCEPT ![i] = b]
        \/ loads' = [loads EXCEPT ![i] = c]
    BY DEF LoadReads
  <2> HIDE DEF a, b, c
  <2> QED
    BY <2>1, <2>2
<1>3. loads \in Seq(Loads) /\ loads' \in Seq({l} \cup Loads)
  BY <1>2 DEF Shape
<1>4. loads # <<>> /\ Len(loads') = Len(loads) /\ loads' # <<>> /\ DOMAIN loads' = DOMAIN loads
  BY <1>2, <1>3
<1>5. loads'[i] = l /\ \A k \in DOMAIN loads : k # i => loads'[k] = loads[k]
  BY <1>2, <1>3
<1>6. NewestReads => NewestReads'
  <2>1. CASE i = Len(loads)
    BY <1>1, <1>2, <1>4, <1>5, <2>1 DEF NewestReads
  <2>2. CASE i # Len(loads)
    <3>1. Len(loads) \in DOMAIN loads
      BY <1>3, <1>4
    <3> QED
      BY <1>1, <1>4, <1>5, <2>2, <3>1 DEF NewestReads
  <2> QED
    BY <2>1, <2>2
<1>7. ASSUME NewestShown PROVE NewestShown'
  <2>1. \A k \in DOMAIN loads : loads'[k].late
    BY <1>2, <1>5, <1>7 DEF NewestShown
  <2> QED
    BY <1>1, <1>4, <1>7, <2>1 DEF NewestShown
<1> QED
  BY <1>1, <1>6, <1>7 DEF NewestFresh, Coming

\* An answer: of the newest load, or of one that is still to be overtaken, or of
\* one that was.
LEMMA FreshAfterAnswer ==
  ASSUME Shape, NewestFresh, NEW i \in DOMAIN loads, catalogLoaded(i)
  PROVE  NewestFresh'
<1> DEFINE n == Len(loads)
<1>1. UNCHANGED <<drive, unread, removals, events, arrived>>
  BY DEF catalogLoaded
<1>2. loads \in Seq(Loads) /\ n \in Nat /\ i \in 1 .. n /\ DOMAIN loads = 1 .. n
  BY DEF Shape
<1>3. /\ Overtake(i) \in Seq(Loads) /\ Len(Overtake(i)) = n
      /\ \A k \in 1 .. n : Overtake(i)[k] = IF k < i THEN [loads[k] EXCEPT !.late = TRUE] ELSE loads[k]
  <2>1. \A k \in 1 .. n : Overtake(i)[k] \in Loads
    BY Pieces DEF Overtake, Loads
  <2> QED
    BY <1>2, <2>1, Pieces, SeqDef DEF Overtake
<1> HIDE DEF n
<1>4. /\ loads' \in Seq(Loads) /\ Len(loads') = n - 1 /\ DOMAIN loads' = 1 .. n - 1
      /\ \A k \in 1 .. n - 1 : loads'[k] = IF k < i THEN Overtake(i)[k] ELSE Overtake(i)[k + 1]
  <2> DEFINE o == Overtake(i)
  <2>1. loads' = RemoveAt(o, i)
    BY DEF catalogLoaded
  <2>2. o \in Seq(Loads) /\ Len(o) = n /\ i \in 1 .. Len(o)
    BY <1>2, <1>3
  <2> HIDE DEF o
  <2>3. /\ loads' \in Seq(Loads) /\ Len(loads') = n - 1
        /\ \A k \in 1 .. n - 1 : loads'[k] = IF k < i THEN o[k] ELSE o[k + 1]
    BY <2>1, <2>2, TakenOut
  <2> QED
    BY <2>3 DEF o
<1>5. \A k \in 1 .. n : loads[k] \in Loads
  BY <1>2
<1>6. ASSUME NEW k \in 1 .. n - 1, k < i PROVE loads'[k].late = TRUE
  <2>1. k \in 1 .. n
    BY <1>2
  <2>2. loads'[k] = [loads[k] EXCEPT !.late = TRUE]
    BY <1>3, <1>4, <1>6, <2>1
  <2> QED
    BY <1>5, <2>1, <2>2 DEF Loads
<1>7. ASSUME NEW k \in 1 .. n - 1, k >= i PROVE loads'[k] = loads[k + 1]
  <2>1. k + 1 \in 1 .. n /\ ~ (k < i) /\ ~ (k + 1 < i)
    BY <1>2, <1>7
  <2> QED
    BY <1>3, <1>4, <2>1
<1>8. warned' = (loads[i].state # "read")
  BY DEF catalogLoaded
<1>9. loads[i].state # "failed" => shown' = loads[i].has /\ overtaken' = loads[i].late
  BY DEF catalogLoaded
<1>10. ASSUME NewestReads, i = n PROVE NewestShown'
  <2>1. \A k \in DOMAIN loads' : loads'[k].late
    <3> SUFFICES ASSUME NEW k \in 1 .. n - 1 PROVE loads'[k].late
      BY <1>4
    <3>1. k < i
      BY <1>2, <1>10
    <3> QED
      BY <1>6, <3>1
  <2>2. loads[i].state = "read" => shown' = drive
    BY <1>9, <1>10 DEF NewestReads, n
  <2> QED
    BY <1>1, <1>8, <2>1, <2>2 DEF NewestShown
<1>11. ASSUME NewestReads, i # n PROVE NewestReads'
  <2>1. n - 1 \in 1 .. n - 1 /\ n - 1 >= i /\ (n - 1) + 1 = n
    BY <1>2, <1>11
  <2>2. loads'[n - 1] = loads[n] /\ loads' # <<>>
    BY <1>4, <1>7, <2>1
  <2> QED
    BY <1>1, <1>4, <1>11, <2>2 DEF NewestReads, n
<1>12. ASSUME NewestShown PROVE NewestShown'
  <2>1. \A k \in 1 .. n : loads[k].late
    BY <1>2, <1>12 DEF NewestShown
  <2>2. \A k \in 1 .. n - 1 : loads'[k].late
    <3> TAKE k \in 1 .. n - 1
    <3>1. k + 1 \in 1 .. n /\ (k < i \/ k >= i)
      BY <1>2
    <3> QED
      BY <1>6, <1>7, <2>1, <3>1
  <2>3. warned' \/ overtaken'
    BY <1>2, <1>8, <1>9, <2>1
  <2> QED
    BY <1>4, <2>2, <2>3 DEF NewestShown
<1> QED
  BY <1>1, <1>10, <1>11, <1>12 DEF NewestFresh, Coming

LEMMA FreshStep ==
  ASSUME Shape, NewestFresh, [Next]_vars
  PROVE  NewestFresh'
<1>1. ASSUME UNCHANGED <<drive, library, loads, unread, removals, events, arrived>> PROVE NewestFresh'
  BY <1>1, NothingNew DEF Coming
<1>2. CASE UNCHANGED vars
  BY <1>1, <1>2
<1>3. ASSUME NEW t \in Tables, Move(t) \/ ToggleSelection(t) \/ ClearSelection(t) PROVE NewestFresh'
  BY <1>1, <1>3 DEF Move, ToggleSelection, ClearSelection
<1>4. CASE SelectAll \/ Search \/ confirmInstall \/ confirmRemove \/ syncAssets
  BY <1>1, <1>4 DEF SelectAll, Search, confirmInstall, confirmRemove, syncAssets
<1>5. CASE AskOrTell \/ Clear \/ Retry \/ Quit \/ Dismiss
  BY <1>1, <1>5 DEF AskOrTell, Clear, Retry, Quit, Cancel, Dismiss
<1>6. ASSUME loads' = loadCatalog(loads) PROVE NewestFresh'
  BY <1>6, BegunNow DEF NewestFresh
<1>7. CASE refreshAll
  BY <1>6, <1>7 DEF refreshAll
<1>8. CASE runDialogAction
  <2>1. CASE UNCHANGED removals
    BY <1>1, <1>8, <2>1 DEF runDialogAction, enqueue, removeGames, Cancel
  <2>2. CASE removeGames(dialog.games)
    <3>1. \A k \in DOMAIN removals : k \in DOMAIN removals' /\ removals'[k] = removals[k]
      BY <2>2 DEF removeGames, Shape
    <3>2. Coming => Coming'
      BY <2>2, <3>1 DEF Coming, removeGames
    <3> QED
      BY <1>8, <2>2, <3>2, NothingNew DEF runDialogAction, removeGames
  <2> QED
    BY <1>8, <2>1, <2>2 DEF runDialogAction, enqueue, Cancel
<1>9. ASSUME NEW i \in DOMAIN loads, LoadReads(i) \/ catalogLoaded(i) PROVE NewestFresh'
  BY <1>9, FreshAfterReading, FreshAfterAnswer
<1>10. ASSUME NEW i \in DOMAIN removals, RemoveNext(i) PROVE NewestFresh'
  <2> DEFINE t == Min(removals[i].todo)
  <2>1. ASSUME NEW how, Went(i, t, how)
        PROVE  /\ i \in DOMAIN removals' /\ removals'[i].went = how
               /\ \A k \in DOMAIN removals : k # i => k \in DOMAIN removals' /\ removals'[k] = removals[k]
    BY <2>1 DEF Went, Shape
  <2>2. CASE Went(i, t, "done")
    BY <2>1, <2>2, StillComing DEF Coming
  <2>3. CASE Went(i, t, "failed") /\ UNCHANGED <<drive, unread>>
    <3>1. Coming => Coming'
      BY <1>10, <2>1, <2>3 DEF Coming, RemoveNext
    <3> QED
      BY <1>10, <2>3, <3>1, NothingNew DEF RemoveNext
  <2>4. CASE unread' = TRUE
    BY <2>4 DEF NewestFresh
  <2> QED
    BY <1>10, <2>2, <2>3, <2>4 DEF RemoveNext
<1>11. ASSUME NEW i \in DOMAIN removals, removeDone(i) PROVE NewestFresh'
  <2>1. CASE removals[i].went = "done"
    BY <1>6, <1>11, <2>1 DEF removeDone
  <2>2. CASE removals[i].went # "done"
    <3>1. removals \in Seq(Removals) /\ i \in 1 .. Len(removals)
      BY DEF Shape
    <3>2. CASE removals' = RemoveAt(removals, i)
      <4>0. /\ removals' \in Seq(Removals) /\ Len(removals') = Len(removals) - 1
            /\ \A k \in 1 .. Len(removals) - 1 :
                 removals'[k] = IF k < i THEN removals[k] ELSE removals[k + 1]
        BY <3>1, <3>2, TakenOut
      <4>1. \A k \in 1 .. Len(removals) :
               k # i => \E j \in DOMAIN removals' : removals'[j] = removals[k]
        <5> TAKE k \in 1 .. Len(removals)
        <5> HAVE k # i
        <5>0. DOMAIN removals' = 1 .. Len(removals) - 1 /\ Len(removals) \in Nat
          BY <3>1, <4>0
        <5>1. CASE k < i
          <6>1. k \in 1 .. Len(removals) - 1
            BY <3>1, <5>0, <5>1
          <6> QED
            BY <4>0, <5>0, <5>1, <6>1
        <5>2. CASE k > i
          <6>1. k - 1 \in 1 .. Len(removals) - 1 /\ ~ (k - 1 < i) /\ (k - 1) + 1 = k
            BY <3>1, <5>0, <5>2
          <6>2. removals'[k - 1] = removals[k]
            BY <4>0, <6>1
          <6> QED
            BY <5>0, <6>1, <6>2
        <5> QED
          BY <3>1, <5>1, <5>2
      <4> QED
        BY <1>11, <2>2, <3>1, <4>1, NothingNew DEF removeDone, Coming
    <3>3. CASE removals' = [removals EXCEPT ![i].went = "busy"]
      <4>1. \A k \in DOMAIN removals : k # i => k \in DOMAIN removals' /\ removals'[k] = removals[k]
        BY <3>1, <3>3
      <4> QED
        BY <1>11, <2>2, <4>1, NothingNew DEF removeDone, Coming
    <3> QED
      BY <1>11, <3>2, <3>3 DEF removeDone
  <2> QED
    BY <2>1, <2>2
<1>12. CASE assetSyncDone
  BY <1>1, <1>6, <1>12 DEF assetSyncDone
<1>13. CASE Take \/ Progress
  <2>1. Notify("other") /\ UNCHANGED <<drive, library, loads, unread, removals, arrived>>
    BY <1>13 DEF Take, Progress
  <2> QED
    BY <2>1, NotifyLosesNone, NothingNew DEF Updates
<1>14. CASE Installed
  <2>1. Notify("complete") /\ unread' = (unread \/ Dropped) /\ UNCHANGED <<removals, arrived>>
    BY <1>14 DEF Installed
  <2>2. CASE Dropped
    BY <2>1, <2>2 DEF NewestFresh
  <2>3. CASE ~Dropped
    BY <2>1, <2>3, NotifyLosesNone, StillComing DEF Updates
  <2> QED
    BY <2>2, <2>3
<1>15. CASE InstallFails
  <2>1. CASE unread' = TRUE
    BY <2>1 DEF NewestFresh
  <2>2. CASE UNCHANGED <<drive, unread>>
    <3>1. Notify("other") /\ UNCHANGED <<library, loads, removals, arrived>>
      BY <1>15 DEF InstallFails
    <3> QED
      BY <2>2, <3>1, NotifyLosesNone, NothingNew DEF Updates
  <2> QED
    BY <1>15, <2>1, <2>2 DEF InstallFails
<1>16. CASE Receive
  <2>1. /\ events \in Seq(Updates) /\ events # <<>>
        /\ arrived \in [Updates -> Nat]
        /\ events' = Tail(events)
        /\ arrived' = [arrived EXCEPT ![Head(events)] = @ + 1]
    BY <1>16 DEF Receive, Shape
  <2>2. Head(events) = events[1] /\ events[1] \in Updates
    BY <2>1
  <2>3. ASSUME NEW k \in DOMAIN events, events[k] = "complete" PROVE Coming'
    <3>1. CASE k = 1
      <4>1. arrived'["complete"] = arrived["complete"] + 1 /\ arrived["complete"] \in Nat
        BY <2>1, <2>2, <2>3, <3>1
      <4> QED
        BY <4>1 DEF Coming
    <3>2. CASE k # 1
      <4>1. k - 1 \in DOMAIN Tail(events) /\ Tail(events)[k - 1] = events[k]
        BY <2>1, <3>2
      <4> QED
        BY <2>1, <2>3, <4>1 DEF Coming
    <3> QED
      BY <3>1, <3>2
  <2>4. arrived["complete"] > 0 => arrived'["complete"] > 0
    BY <2>1, <2>2 DEF Updates
  <2>5. Coming => Coming'
    BY <1>16, <2>3, <2>4 DEF Coming, Receive
  <2> QED
    BY <1>16, <2>5, NothingNew DEF Receive
<1>17. ASSUME NEW u \in Updates, queueUpdate(u) PROVE NewestFresh'
  <2>1. CASE u = "complete"
    BY <1>6, <1>17, <2>1 DEF queueUpdate
  <2>2. CASE u # "complete"
    <3>1. arrived'["complete"] = arrived["complete"]
      BY <1>17, <2>2 DEF queueUpdate, Shape, Updates
    <3>2. Coming => Coming'
      BY <1>17, <3>1 DEF queueUpdate, Coming
    <3> QED
      BY <1>17, <2>2, <3>2, NothingNew DEF queueUpdate
  <2> QED
    BY <2>1, <2>2
<1>18. CASE cancelRemaining
  <2>1. \A k \in DOMAIN events : k \in DOMAIN events' /\ events'[k] = events[k]
    BY <1>18, EachIsKept DEF cancelRemaining
  <2>2. Coming => Coming'
    BY <1>18, <2>1 DEF cancelRemaining, Coming
  <2> QED
    BY <1>18, <2>2, NothingNew DEF cancelRemaining
<1> QED
  BY <1>2, <1>3, <1>4, <1>5, <1>7, <1>8, <1>9, <1>10, <1>11, <1>12, <1>13, <1>14, <1>15, <1>16, <1>17, <1>18
  DEF Next, handleKey, Update, Background

-----------------------------------------------------------------------------
\* The inductive invariant: types, a listener for the queue once it was used, and
\* what the newest load is about.
THEOREM InterfaceInductive == Spec => []IInv
<1>1. Init => IInv
  <2> SUFFICES ASSUME Init PROVE IInv
    OBVIOUS
  <2>1. Shape
    <3>1. Reading \in Loads /\ NoDialog \in Dialogs
      BY DEF Reading, Loads, NoDialog, Dialogs
    <3>2. /\ loads \in Seq(Loads) /\ dialog \in Dialogs
          /\ removals \in Seq(Removals) /\ events \in Seq(Updates)
      BY <3>1 DEF Init
    <3>3. /\ cursor \in [Tables -> Nat] /\ arrived \in [Updates -> Nat]
          /\ selected \in [Tables -> SUBSET Titles] /\ hidden \in [Tables -> SUBSET Titles]
      BY DEF Init
    <3>4. /\ syncs \in Nat /\ waiters \in Nat /\ keys \in 0 .. MaxKeys
          /\ working \in Titles \cup {None}
      BY InterfaceAssumption DEF Init, None
    <3>5. /\ drive \subseteq Titles /\ shown \subseteq Titles /\ offered \subseteq Titles
          /\ waiting \subseteq Titles /\ failed \subseteq Titles
          /\ warned \in BOOLEAN /\ overtaken \in BOOLEAN
          /\ unread \in BOOLEAN /\ quitting \in BOOLEAN /\ stopping \in BOOLEAN
      BY DEF Init
    <3> QED
      BY <3>2, <3>3, <3>4, <3>5 DEF Shape
  <2>2. StreamKept
    BY DEF Init, StreamKept, Used, Pending
  <2>3. NewestReads
    BY DEF Init, NewestReads, Reading
  <2> QED
    BY <2>1, <2>2, <2>3 DEF IInv, NewestFresh
<1>2. IInv /\ [Next]_vars => IInv'
  BY ShapeStep, StreamStep, FreshStep DEF IInv
<1> QED
  BY <1>1, <1>2, PTL DEF Spec

\* The stream of updates never ends while the queue has work or an update waits,
\* for any capacity of the channel and any number of keys (queueUpdateMsg).
THEOREM StreamNeverEnds == Spec => []StreamAlive
<1>1. IInv => StreamAlive
  BY DEF IInv, StreamKept, Used, Listeners, StreamAlive
<1> QED
  BY <1>1, InterfaceInductive, PTL

\* A library that is out of date at rest is so for a reason FreshWhenQuiet names,
\* however many loads, removals and installs there were (catalogLoadedMsg).
THEOREM LibraryIsFresh == Spec => []FreshWhenQuiet
<1>1. IInv => FreshWhenQuiet
  BY DEF IInv, Shape, NewestFresh, NewestReads, NewestShown, Coming, FreshWhenQuiet, Quiet, Updates
<1> QED
  BY <1>1, InterfaceInductive, PTL

-----------------------------------------------------------------------------
\* No two rows have the same place.
LEMMA OnePlace ==
  ASSUME NEW S \in SUBSET Titles, NEW k \in S
  PROVE  CursorRow(S, Before(S, k)) = {k}
<1>1. IsFiniteSet(S) /\ S \subseteq Nat
  BY InterfaceAssumption, FS_Subset
<1>2. ASSUME NEW x \in S, NEW y \in S, x < y PROVE Before(S, x) # Before(S, y)
  <2> DEFINE A == {j \in S : j < x}
             B == {j \in S : j < y}
  <2>0. A \subseteq B /\ x \in B /\ x \notin A
    <3>1. x \in Nat /\ y \in Nat /\ \A j \in S : j \in Nat
      BY <1>1
    <3>2. ~ (x < x) /\ \A j \in S : j < x => j < y
      BY <1>2, <3>1
    <3> QED
      BY <1>2, <3>2
  <2>1. IsFiniteSet(B)
    BY <1>1, FS_Subset
  <2> HIDE DEF A, B
  <2>2. Cardinality(A) # Cardinality(B)
    BY <2>0, <2>1, FS_Subset
  <2> QED
    BY <2>2 DEF Before, A, B
<1>3. ASSUME NEW x \in S, Before(S, x) = Before(S, k) PROVE x = k
  <2>1. x < k \/ k < x \/ x = k
    BY <1>1
  <2> QED
    BY <1>2, <1>3, <2>1
<1> QED
  BY <1>3 DEF CursorRow

\* Rows that are replaced keep the cursor's title, where it is among the new.
LEMMA SetRowsKeeps ==
  ASSUME NEW old \in SUBSET Titles, NEW new \in SUBSET Titles, NEW c,
         CursorRow(old, c) \cap new # {}
  PROVE  CursorRow(new, SetRows(old, new, c)) = CursorRow(old, c)
<1> DEFINE same == CursorRow(old, c) \cap new
<1>1. PICK k \in same : SetRows(old, new, c) = Before(new, k)
  BY DEF SetRows
<1>2. CursorRow(new, Before(new, k)) = {k}
  BY <1>1, OnePlace
<1>3. k \in old /\ c = Before(old, k)
  BY <1>1 DEF CursorRow
<1>4. CursorRow(old, c) = {k}
  BY <1>3, OnePlace
<1> QED
  BY <1>1, <1>2, <1>4

\* No step but a key moves the cursor off a title that is still listed, for any
\* catalog (SetRows, catalogLoadedMsg).
THEOREM CursorKept == Spec => CursorKeeps
<1> DEFINE Keeps ==
      keys' = keys =>
        \A t \in Tables :
          LET k == CursorRow(Rows(t), cursor[t])
          IN k \cap Rows(t)' # {} => CursorRow(Rows(t)', cursor'[t]) = k
<1>1. ASSUME Shape, Shape', [Next]_vars PROVE Keeps
  <2> SUFFICES ASSUME keys' = keys, NEW t \in Tables,
                      CursorRow(Rows(t), cursor[t]) \cap Rows(t)' # {}
               PROVE  CursorRow(Rows(t)', cursor'[t]) = CursorRow(Rows(t), cursor[t])
    OBVIOUS
  <2>1. ~FreeKey
    BY <1>1, InterfaceAssumption DEF FreeKey, Shape
  <2>2. CASE UNCHANGED <<shown, offered, hidden, cursor>>
    <3>1. Rows(t)' = Rows(t)
      BY <2>2 DEF Rows, Listed
    <3> QED
      BY <2>2, <3>1 DEF CursorRow
  <2>3. ASSUME NEW i \in DOMAIN loads, catalogLoaded(i), loads[i].state # "failed"
        PROVE  CursorRow(Rows(t)', cursor'[t]) = CursorRow(Rows(t), cursor[t])
    <3>1. cursor'[t] = SetRows(Rows(t), Rows(t)', cursor[t])
      BY <2>3 DEF catalogLoaded, refreshTables, Rows
    <3>2. Rows(t) \in SUBSET Titles /\ Rows(t)' \in SUBSET Titles
      BY <1>1 DEF Shape, Rows, Listed
    <3> QED
      BY <3>1, <3>2, SetRowsKeeps
  <2>4. ASSUME NEW i \in DOMAIN loads, catalogLoaded(i), loads[i].state = "failed"
        PROVE  UNCHANGED <<shown, offered, hidden, cursor>>
    BY <2>4 DEF catalogLoaded
  <2>5. handleKey => UNCHANGED <<shown, offered, hidden, cursor>>
    BY <2>1 DEF handleKey, Move, ToggleSelection, ClearSelection, SelectAll, Search, refreshAll,
                confirmInstall, confirmRemove, syncAssets, AskOrTell, Clear, Retry, Quit,
                Dismiss, runDialogAction
  <2>6. Background => UNCHANGED <<shown, offered, hidden, cursor>>
    BY DEF Background, LoadReads, RemoveNext, Take, Progress, Installed, InstallFails, cancelRemaining, Receive
  <2>7. ASSUME \/ \E i \in DOMAIN removals : removeDone(i)
               \/ assetSyncDone \/ \E u \in Updates : queueUpdate(u)
        PROVE  UNCHANGED <<shown, offered, hidden, cursor>>
    BY <2>7 DEF removeDone, assetSyncDone, queueUpdate
  <2> QED
    BY <1>1, <2>2, <2>3, <2>4, <2>5, <2>6, <2>7 DEF Next, Update
<1>2. IInv /\ IInv' /\ [Next]_vars => [Keeps]_vars
  BY <1>1 DEF IInv
<1> QED
  BY <1>2, InterfaceInductive, PTL DEF Spec, CursorKeeps

\* What is removed is what the dialog named, whatever came between the question
\* and the answer (confirmRemove, runDialogAction).
THEOREM RemovesWhatIsNamed == Spec => RemovesWhatWasShown
<1> DEFINE Named ==
      /\ dialog'.kind = "remove" /\ dialog.kind # "remove" => dialog'.games \subseteq Rows("installed")
      /\ Len(removals') > Len(removals) =>
           dialog.kind = "remove" /\ Last(removals').todo = dialog.games
<1>1. ASSUME Shape, Next PROVE Named
  <2>1. Len(removals) \in Nat /\ removals \in Seq(Removals)
    BY <1>1 DEF Shape
  <2>2. ASSUME UNCHANGED removals, UNCHANGED dialog \/ dialog'.kind # "remove" PROVE Named
    BY <2>1, <2>2
  <2>3. NoDialog.kind # "remove" /\ Notice.kind # "remove" /\ \A k, g : Ask(k, g).kind = k /\ Ask(k, g).games = g
    BY DEF NoDialog, Notice, Ask
  <2>4. CASE confirmRemove
    <3>1. Selected("installed") \subseteq Rows("installed")
      BY <1>1, SelectedAreRows DEF Tables
    <3>2. UNCHANGED removals /\ dialog'.games \subseteq Rows("installed")
      BY <2>3, <2>4, <3>1 DEF confirmRemove
    <3> QED
      BY <2>1, <3>2
  <2>5. CASE runDialogAction
    <3>1. dialog'.kind # "remove"
      BY <2>3, <2>5 DEF runDialogAction
    <3>2. CASE dialog.kind = "remove" /\ removeGames(dialog.games)
      <4>1. Last(removals') = [todo |-> dialog.games, went |-> "busy"]
        BY <2>1, <3>2 DEF removeGames, Last
      <4> QED
        BY <3>1, <3>2, <4>1
    <3>3. CASE UNCHANGED removals
      BY <2>2, <3>1, <3>3
    <3> QED
      BY <2>5, <3>2, <3>3 DEF runDialogAction, enqueue, Cancel
  <2>6. ASSUME NEW t \in Tables, Move(t) \/ ToggleSelection(t) \/ ClearSelection(t) PROVE Named
    BY <2>2, <2>6 DEF Move, ToggleSelection, ClearSelection
  <2>7. CASE SelectAll \/ Search \/ refreshAll \/ syncAssets \/ Clear \/ Retry \/ Quit
    BY <2>2, <2>7 DEF SelectAll, Search, refreshAll, syncAssets, Clear, Retry, Quit, Cancel
  <2>8. CASE confirmInstall \/ AskOrTell \/ Dismiss
    BY <2>2, <2>3, <2>8 DEF confirmInstall, AskOrTell, Dismiss
  <2>9. CASE cancelRemaining
    BY <2>2, <2>9 DEF cancelRemaining
  <2>10. ASSUME NEW i \in DOMAIN loads, LoadReads(i) \/ catalogLoaded(i) PROVE Named
    BY <2>2, <2>10 DEF LoadReads, catalogLoaded
  <2>11. ASSUME NEW i \in DOMAIN removals, RemoveNext(i) PROVE Named
    <3>1. Len(removals') = Len(removals) /\ UNCHANGED dialog
      BY <2>1, <2>11 DEF RemoveNext, Went
    <3> QED
      BY <2>1, <3>1
  <2>12. ASSUME NEW i \in DOMAIN removals, removeDone(i) PROVE Named
    <3>1. i \in 1 .. Len(removals)
      BY <2>1
    <3>2. Len(RemoveAt(removals, i)) = Len(removals) - 1
      BY <2>1, <3>1, TakenOut
    <3>3. ~ (Len(removals') > Len(removals))
      BY <2>1, <2>12, <3>2 DEF removeDone
    <3>4. UNCHANGED dialog \/ dialog' = Notice
      BY <2>12 DEF removeDone
    <3> QED
      BY <2>3, <3>3, <3>4
  <2>13. CASE assetSyncDone
    BY <2>2, <2>3, <2>13 DEF assetSyncDone
  <2>14. CASE Take \/ Progress \/ Installed \/ InstallFails \/ Receive
    BY <2>2, <2>14 DEF Take, Progress, Installed, InstallFails, Receive
  <2>15. ASSUME NEW u \in Updates, queueUpdate(u) PROVE Named
    BY <2>2, <2>15 DEF queueUpdate
  <2> QED
    BY <1>1, <2>4, <2>5, <2>6, <2>7, <2>8, <2>9, <2>10, <2>11, <2>12, <2>13, <2>14, <2>15
    DEF Next, handleKey, Update, Background
<1>2. IInv /\ [Next]_vars => [Named]_vars
  BY <1>1 DEF IInv
<1> QED
  BY <1>2, InterfaceInductive, PTL DEF Spec, RemovesWhatWasShown
=============================================================================
