----------------------------- MODULE TitleFiles -----------------------------
(* The files of PS1 titles on the drive, over three partitions: the discs in  *)
(* __.POPS, POPStarter's support files in __common, the launcher in +OPL.     *)
(* Installing, removing and repairing are many writes under the drive's lock, *)
(* each of which may fail or be cut short; what they go by was read before.   *)
EXTENDS Naturals, Sequences, FiniteSets, SequencesExt

CONSTANTS
  DiscCount,  \* of each release, releases being numbered in the order of their serials
  TitleOf,    \* the title of each release
  Options,    \* of each release, how it may be installed: <<widescreen, with launcher>>
  Played,     \* discs that are played, and cheats written for, between commands
  MaxFaults,  \* bound on failed writes, failed mounts and crashes together
  MaxCommands \* bound on installs, removals and repairs

Releases == DOMAIN DiscCount
Vcds == UNION {{r} \X (1 .. DiscCount[r]) : r \in Releases}
DiscsOf(r) == [i \in 1 .. DiscCount[r] |-> <<r, i>>]
Multi(r) == DiscCount[r] > 1

Kinds == {"vcd", "discs", "vmcdir", "cheats", "card", "elf", "cfg"}
Files == Kinds \X Vcds
SupportKinds == {"discs", "vmcdir", "cheats", "card"}
Dirs == {"POPS", "APPS"} \X Vcds
In(d) == (IF d[1] = "POPS" THEN SupportKinds ELSE {"elf", "cfg"}) \X {d[2]}

\* What a file holds; an empty set is no file, Part one whose writing was cut
\* short.  A CHEATS.TXT has the directive this program adds and the user's codes.
Lines == {"file", "data", "ours", "codes"}
None == {}
Part == {"file"}
Whole == {"file", "data"}

Threads == {"queue", "screen", "setup"}
Idle == [kind |-> "idle", names |-> <<>>, wide |-> FALSE, launcher |-> FALSE,
         phase |-> "lock", todo |-> <<>>, writing |-> FALSE, body |-> None,
         warned |-> FALSE]

ASSUME TitleFilesAssumption ==
  /\ DiscCount \in Seq(Nat \ {0})
  /\ DOMAIN TitleOf = DOMAIN DiscCount
  /\ \A r \in Releases : Options[r] \subseteq BOOLEAN \X BOOLEAN
  /\ Played \subseteq Vcds
  /\ MaxFaults \in Nat /\ MaxCommands \in Nat

VARIABLES
  disk,     \* file -> what it holds
  dirs,     \* directories that exist
  op,       \* thread -> the operation it is in
  lock,     \* hddLock: the thread that holds it, or "free"
  catalog,  \* the installed titles as the interface last read them
  faults,   \* failures and crashes so far
  commands, \* installs, removals and repairs so far
  mine,     \* files with something of the user's in them (history)
  repaired  \* discs for which a repair was to make an entry (history)

vars == <<disk, dirs, op, lock, catalog, faults, commands, mine, repaired>>

-----------------------------------------------------------------------------
(* What is installed: ScanPOPS makes titles of the files it finds. *)

Exists(f) == disk[f] # None
Present == {v \in Vcds : Exists(<<"vcd", v>>)}

\* Discs of several are grouped by title alone, a single one is a title.
SameTitle(v, w) ==
  \/ v = w
  \/ (Multi(v[1]) /\ Multi(w[1]) /\ TitleOf[v[1]] = TitleOf[w[1]])

\* In disc order, those of one number in the order of their names.
Before(v, w) == v[2] < w[2] \/ (v[2] = w[2] /\ v[1] < w[1])
InDiscOrder(S) ==
  [i \in 1 .. Cardinality(S) |->
     CHOOSE v \in S : Cardinality({w \in S : Before(w, v)}) = i - 1]

ScanPOPS == {InDiscOrder({w \in Present : SameTitle(v, w)}) : v \in Present}

\* A title's serial is that of its first disc present.
Key(g) == g[1]

\* The disc the launcher boots; POPStarter swaps to the others itself.
launcherVCD(g) == g[1]

\* ensureNotInstalled
Installed(r) == \E g \in ScanPOPS : Key(g) = <<r, 1>>

\* scanLaunchers: the title.cfg files that can be read whole.
Boots(v) == disk[<<"cfg", v>>] = Whole

-----------------------------------------------------------------------------
(* What an operation does, partition by partition. *)

Do(what, at) == [do |-> what, at |-> at]

\* installPS1, writePS1Support, installPS1Launcher
VcdWrites(o) == [i \in DOMAIN o.names |-> Do("write", <<"vcd", o.names[i]>>)]

SupportWrites(o) ==
  LET of(i) ==
        (IF Len(o.names) > 1 THEN <<Do("write", <<"discs", o.names[i]>>)>> ELSE <<>>)
        \o (IF i > 1 THEN <<Do("write", <<"vmcdir", o.names[i]>>)>> ELSE <<>>)
        \o (IF o.wide THEN <<Do("write", <<"cheats", o.names[i]>>)>> ELSE <<>>)
  IN FlattenSeq([i \in DOMAIN o.names |-> of(i)])

LauncherWrites(v) == <<Do("write", <<"elf", v>>), Do("write", <<"cfg", v>>)>>

\* removePS1
VcdDeletes(o) == [i \in DOMAIN o.names |-> Do("delete", <<"vcd", o.names[i]>>)]

\* Mutant: the support files of the first disc only.
SupportDeletesFirst(o) ==
  <<Do("delete", <<"discs", o.names[1]>>), Do("delete", <<"vmcdir", o.names[1]>>),
    Do("tidy", <<"POPS", o.names[1]>>)>>

SupportDeletes(o) ==
  LET of(v) == <<Do("delete", <<"discs", v>>), Do("delete", <<"vmcdir", v>>),
                 Do("tidy", <<"POPS", v>>)>>
  IN FlattenSeq([i \in DOMAIN o.names |-> of(o.names[i])])

LauncherDeletes(v) ==
  <<Do("delete", <<"elf", v>>), Do("delete", <<"cfg", v>>), Do("tidy", <<"APPS", v>>)>>

Steps(o, phase) ==
  CASE o.kind = "install" /\ phase = "vcd"      -> VcdWrites(o)
    [] o.kind = "install" /\ phase = "support"  -> SupportWrites(o)
    [] o.kind = "install" /\ phase = "launcher" ->
         IF o.launcher THEN LauncherWrites(o.names[1]) ELSE <<>>
    [] o.kind = "remove" /\ phase = "vcd"       -> VcdDeletes(o)
    [] o.kind = "remove" /\ phase = "support"   -> SupportDeletes(o)
    [] o.kind = "remove" /\ phase = "launcher"  -> LauncherDeletes(o.names[1])
    [] o.kind = "repair" /\ phase = "launcher"  ->
         FlattenSeq([i \in DOMAIN o.names |-> LauncherWrites(o.names[i])])
    [] OTHER -> <<>>

NextPhase(phase) ==
  CASE phase = "lock" -> "vcd" [] phase = "vcd" -> "support" [] OTHER -> "launcher"

InPhase(o, phase) ==
  [o EXCEPT !.phase = phase, !.todo = Steps(o, phase), !.writing = FALSE, !.body = None]

\* The last step is done; the lock is still held.
Finished(o) == o.kind # "idle" /\ o.phase = "launcher" /\ o.todo = <<>>

-----------------------------------------------------------------------------
(* Initial state and actions. *)

Init ==
  /\ disk = [f \in Files |-> None] /\ dirs = {}
  /\ op = [t \in Threads |-> Idle] /\ lock = "free"
  /\ catalog = {} /\ faults = 0 /\ commands = 0 /\ mine = {} /\ repaired = {}

AllIdle == \A t \in Threads : op[t] = Idle

Start(t, o) ==
  /\ op[t] = Idle /\ op["setup"] = Idle
  /\ op' = [op EXCEPT ![t] = o]
  /\ commands < MaxCommands /\ commands' = commands + 1
  /\ UNCHANGED <<disk, dirs, lock, catalog, faults, mine>>

\* The checks of an install come before the lock.
StartInstall(r, o) ==
  /\ ~ Installed(r)
  /\ Start("queue", [Idle EXCEPT !.kind = "install", !.names = DiscsOf(r),
                                 !.wide = o[1], !.launcher = o[2]])
  /\ UNCHANGED repaired

\* The title removed is one the interface showed.
StartRemove(g) ==
  /\ Start("screen", [Idle EXCEPT !.kind = "remove", !.names = g])
  /\ UNCHANGED repaired

\* AuditPS1Launchers
Missing == {g \in ScanPOPS : ~ Boots(launcherVCD(g))}

\* RepairPS1Launchers is a command of its own; it finds its titles by name.
StartRepair ==
  LET want == {TitleOf[Key(g)[1]] : g \in Missing}
      all  == {launcherVCD(g) : g \in {h \in ScanPOPS : TitleOf[Key(h)[1]] \in want}}
  IN /\ AllIdle /\ Missing # {}
     /\ Start("setup", [Idle EXCEPT !.kind = "repair", !.names = InDiscOrder(all)])
     /\ repaired' = repaired \cup all

LoadCatalog ==
  /\ catalog' = ScanPOPS
  /\ UNCHANGED <<disk, dirs, op, lock, faults, commands, mine, repaired>>

\* Mutant: nobody waits for anybody.
TakeLockAnyway(t) ==
  /\ op[t] # Idle /\ op[t].phase = "lock"
  /\ lock' = t
  /\ op' = [op EXCEPT ![t] = InPhase(@, "vcd")]
  /\ UNCHANGED <<disk, dirs, catalog, faults, commands, mine, repaired>>

TakeLock(t) ==
  /\ op[t] # Idle /\ op[t].phase = "lock" /\ lock = "free"
  /\ lock' = t
  /\ op' = [op EXCEPT ![t] = InPhase(@, "vcd")]
  /\ UNCHANGED <<disk, dirs, catalog, faults, commands, mine, repaired>>

NextPart(t) ==
  /\ op[t].phase \in {"vcd", "support"} /\ op[t].todo = <<>>
  /\ op' = [op EXCEPT ![t] = InPhase(@, NextPhase(@.phase))]
  /\ UNCHANGED <<disk, dirs, lock, catalog, faults, commands, mine, repaired>>

End(t) ==
  /\ Finished(op[t])
  /\ op' = [op EXCEPT ![t] = Idle]
  /\ lock' = "free"
  /\ UNCHANGED <<disk, dirs, catalog, faults, commands, mine, repaired>>

\* The step at hand, and the file or directory it is about.
At(t, what) == op[t].todo # <<>> /\ Head(op[t].todo).do = what
Where(t) == Head(op[t].todo).at
DirOf(f) == {d \in Dirs : f \in In(d)}

Done(o) == [o EXCEPT !.todo = Tail(@), !.writing = FALSE, !.body = None]

\* The first partition failing ends an install or a removal, the other two are
\* warned of: the discs are the title.
Failed(o) ==
  IF o.phase = "vcd" \/ o.kind = "repair" THEN Idle
  ELSE IF o.phase = "support" THEN [InPhase(o, "launcher") EXCEPT !.warned = TRUE]
  ELSE [o EXCEPT !.todo = <<>>, !.writing = FALSE, !.body = None, !.warned = TRUE]

Fail(t) ==
  /\ op' = [op EXCEPT ![t] = Failed(@)]
  /\ lock' = IF Failed(op[t]) = Idle THEN "free" ELSE lock
  /\ UNCHANGED <<dirs, commands, catalog, repaired>>

\* A conversion, a mount, a deletion or a directory fails, or the command is
\* interrupted, before the step has changed anything.
StepFails(t) ==
  /\ op[t].todo # <<>> /\ ~ op[t].writing /\ ~ At(t, "tidy")
  /\ faults < MaxFaults /\ faults' = faults + 1
  /\ Fail(t)
  /\ UNCHANGED <<disk, mine>>

\* "already exists in __.POPS; remove it first"
VcdInTheWay(t) ==
  /\ op[t].phase = "vcd" /\ ~ op[t].writing /\ At(t, "write") /\ Exists(Where(t))
  /\ Fail(t)
  /\ UNCHANGED <<disk, faults, mine>>

\* addCheat leaves a file alone that has the directive.
CheatThere(t) ==
  /\ ~ op[t].writing /\ At(t, "write")
  /\ Where(t)[1] = "cheats" /\ "ours" \in disk[Where(t)]
  /\ op' = [op EXCEPT ![t] = Done(@)]
  /\ UNCHANGED <<disk, dirs, lock, catalog, faults, commands, mine, repaired>>

\* Mutant: without looking whether the disc is there.
BeginWriteOver(t) ==
  /\ ~ op[t].writing /\ At(t, "write")
  /\ ~ (Where(t)[1] = "cheats" /\ "ours" \in disk[Where(t)])
  /\ op' = [op EXCEPT ![t].writing = TRUE, ![t].body = disk[Where(t)]]
  /\ disk' = [disk EXCEPT ![Where(t)] = Part]
  /\ dirs' = dirs \cup DirOf(Where(t))
  /\ UNCHANGED <<lock, catalog, faults, commands, mine, repaired>>

\* MkdirAll, then pfs.Create: what was there is removed first.
BeginWrite(t) ==
  /\ ~ op[t].writing /\ At(t, "write")
  /\ ~ (op[t].phase = "vcd" /\ Exists(Where(t)))
  /\ ~ (Where(t)[1] = "cheats" /\ "ours" \in disk[Where(t)])
  /\ op' = [op EXCEPT ![t].writing = TRUE, ![t].body = disk[Where(t)]]
  /\ disk' = [disk EXCEPT ![Where(t)] = Part]
  /\ dirs' = dirs \cup DirOf(Where(t))
  /\ UNCHANGED <<lock, catalog, faults, commands, mine, repaired>>

\* Mutant: an install that replaces CHEATS.TXT.
ContentsReplaced(f, body) == IF f[1] = "cheats" THEN {"file", "ours"} ELSE Whole

Contents(f, body) == IF f[1] = "cheats" THEN body \cup {"file", "ours"} ELSE Whole

EndWrite(t) ==
  /\ op[t].writing
  /\ disk' = [disk EXCEPT ![Where(t)] = Contents(Where(t), op[t].body)]
  /\ op' = [op EXCEPT ![t] = Done(@)]
  /\ UNCHANGED <<dirs, lock, catalog, faults, commands, mine, repaired>>

\* copyFile and writeFile remove what they could not finish.
WriteFails(t) ==
  /\ op[t].writing
  /\ faults < MaxFaults /\ faults' = faults + 1
  /\ disk' = [disk EXCEPT ![Where(t)] = None]
  /\ mine' = mine \ {Where(t)}
  /\ Fail(t)

Delete(t) ==
  /\ At(t, "delete")
  /\ disk' = [disk EXCEPT ![Where(t)] = None]
  /\ op' = [op EXCEPT ![t] = Done(@)]
  /\ UNCHANGED <<dirs, lock, catalog, faults, commands, mine, repaired>>

\* removeIfOnlyOurs
LeftIn(d) ==
  {f \in In(d) : Exists(f) /\ ~ (f[1] = "cheats" /\ disk[f] = {"file", "ours"})}

\* The directory goes when nothing is left in it.
Tidy(t) ==
  /\ At(t, "tidy")
  /\ disk' = [f \in Files |-> IF f \in In(Where(t)) \ LeftIn(Where(t)) THEN None ELSE disk[f]]
  /\ dirs' = IF LeftIn(Where(t)) = {} THEN dirs \ {Where(t)} ELSE dirs
  /\ op' = [op EXCEPT ![t] = Done(@)]
  /\ UNCHANGED <<lock, catalog, faults, commands, mine, repaired>>

\* What tidying cannot do is not told.
TidyFails(t) ==
  /\ At(t, "tidy")
  /\ faults < MaxFaults /\ faults' = faults + 1
  /\ op' = [op EXCEPT ![t] = Done(@)]
  /\ UNCHANGED <<disk, dirs, lock, catalog, commands, mine, repaired>>

\* The process is killed, or the drive pulled.
Crash ==
  /\ ~ AllIdle
  /\ faults < MaxFaults /\ faults' = faults + 1
  /\ mine' = mine \ {Where(t) : t \in {u \in Threads : op[u].writing}}
  /\ op' = [t \in Threads |-> Idle]
  /\ lock' = "free" /\ catalog' = {}
  /\ UNCHANGED <<disk, dirs, commands, repaired>>

\* The console, between commands: a memory card appears in the directory
\* VMCDIR.TXT names, or in the disc's own.
CardDir(v) ==
  IF v[2] > 1 /\ disk[<<"vmcdir", v>>] = Whole /\ <<"POPS", <<v[1], 1>>>> \in dirs
  THEN <<v[1], 1>> ELSE v

UserWrites(f, what) ==
  /\ AllIdle /\ f \notin mine
  /\ disk' = [disk EXCEPT ![f] = @ \cup what]
  /\ dirs' = dirs \cup DirOf(f)
  /\ mine' = mine \cup {f}
  /\ UNCHANGED <<op, lock, catalog, faults, commands, repaired>>

Play(v) ==
  /\ disk[<<"vcd", v>>] = Whole
  /\ UserWrites(<<"card", CardDir(v)>>, Whole)

WriteCodes(v) ==
  /\ Exists(<<"vcd", v>>)
  /\ UserWrites(<<"cheats", v>>, {"file", "codes"})

Step(t) ==
  \/ TakeLock(t) \/ NextPart(t) \/ End(t)
  \/ StepFails(t) \/ VcdInTheWay(t) \/ CheatThere(t)
  \/ BeginWrite(t) \/ EndWrite(t) \/ WriteFails(t)
  \/ Delete(t) \/ Tidy(t) \/ TidyFails(t)

Next ==
  \/ \E r \in Releases : \E o \in Options[r] : StartInstall(r, o)
  \/ \E g \in catalog : StartRemove(g)
  \/ StartRepair
  \/ LoadCatalog
  \/ \E t \in Threads : Step(t)
  \/ Crash
  \/ \E v \in Played : Play(v) \/ WriteCodes(v)

Spec == Init /\ [][Next]_vars

-----------------------------------------------------------------------------
(* Properties. *)

Operations ==
  [kind : {"idle", "install", "remove", "repair"}, names : Seq(Vcds),
   wide : BOOLEAN, launcher : BOOLEAN, phase : {"lock", "vcd", "support", "launcher"},
   todo : Seq([do : {"write", "delete", "tidy"}, at : Files \cup Dirs]),
   writing : BOOLEAN, body : SUBSET Lines, warned : BOOLEAN]

\* Types; the lock is held by the one operation past it, and a file is in a
\* directory that exists (remove.go:236, "the directory only goes when it is
\* empty").
FTypeOK ==
  /\ disk \in [Files -> SUBSET Lines]
  /\ dirs \subseteq Dirs
  /\ op \in [Threads -> Operations]
  /\ lock \in Threads \cup {"free"}
  /\ \A t \in Threads : lock = t <=> op[t].phase # "lock"
  /\ catalog \subseteq Seq(Vcds)
  /\ mine \subseteq Files /\ repaired \subseteq Vcds
  /\ \A d \in Dirs : \A f \in In(d) : Exists(f) => d \in dirs

\* "Anything else in the directory is the user's -- their cheat codes, a virtual
\* memory card" (remove.go:220): no install, removal or repair takes them away,
\* unless the write that adds the directive to CHEATS.TXT fails half-way.
UserFilesKept ==
  \A f \in mine :
    \/ IF f[1] = "card" THEN disk[f] = Whole ELSE "codes" \in disk[f]
    \/ \E t \in Threads : op[t].writing /\ Where(t) = f /\ "codes" \in op[t].body

\* An install that ends without a warning leaves a title that is all there:
\* the discs, the files that make swapping and one card work, the launcher.
InstalledIsWhole ==
  \A t \in Threads :
    LET o == op[t]
    IN o.kind = "install" /\ Finished(o) /\ ~ o.warned =>
         /\ \A i \in DOMAIN o.names :
              /\ disk[<<"vcd", o.names[i]>>] = Whole
              /\ Len(o.names) > 1 => disk[<<"discs", o.names[i]>>] = Whole
              /\ i > 1 => CardDir(o.names[i]) = o.names[1]
              /\ o.wide => "ours" \in disk[<<"cheats", o.names[i]>>]
         /\ o.launcher => disk[<<"elf", o.names[1]>>] = Whole /\ Boots(o.names[1])

\* A removal that ends without a warning leaves no disc and no support file of
\* the discs it names, nor the entry of the first; and of the others' entries none
\* but those the code does not look for, as it goes by names[0] alone
\* (remove.go:190): the first disc's of another release that ScanPOPS has put in
\* the same row (pops.go:429), and one that a repair made for a later disc while
\* the first was missing.  Either is "an entry on OPL's Apps page that boots
\* nothing" (remove.go:187).
RemovedIsGone ==
  \A t \in Threads :
    LET o == op[t]
    IN o.kind = "remove" /\ Finished(o) /\ ~ o.warned =>
         \A i \in DOMAIN o.names :
           /\ \A k \in {"vcd", "discs", "vmcdir"} : ~ Exists(<<k, o.names[i]>>)
           /\ \A k \in {"elf", "cfg"} : Exists(<<k, o.names[i]>>) =>
                i # 1 /\ (o.names[i][2] = 1 \/ o.names[i] \in repaired)

\* A disc that is on the drive stays as it is until a removal names it: no
\* install writes over it, though its check was made before the lock.
DiscsStay ==
  [][\A v \in Vcds :
       disk[<<"vcd", v>>] = Whole /\ disk'[<<"vcd", v>>] # Whole =>
         \E t \in Threads : op[t].kind = "remove" /\ v \in Range(op[t].names)]_vars

\* After a repair the console lists every installed title (launchers.go:159);
\* the program an entry boots is there too if nothing has failed before.
RepairedIsListed ==
  op["setup"].kind = "repair" /\ Finished(op["setup"]) =>
    \A g \in ScanPOPS :
      Boots(g[1]) /\ (faults = 0 => disk[<<"elf", g[1]>>] = Whole)

\* What an operation reports without a warning is so.
ReportedIsDone == RemovedIsGone /\ RepairedIsListed

=============================================================================
