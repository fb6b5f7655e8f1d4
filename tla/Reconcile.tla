------------------------------- MODULE Reconcile -------------------------------
(***************************************************************************)
(* From files to the library: the discs of one release are grouped into a   *)
(* title (src/internal/platform/ps1/multidisc.go), the titles of the source *)
(* directories are merged with what is on the drive (catalog/reconcile.go,  *)
(* catalog/installed.go, Services.CatalogWith), and a line of a list is     *)
(* resolved to one of them (cli/plan.go, cli/install.go).  Pure functions:  *)
(* the one variable is the library they are given.                          *)
(*                                                                         *)
(* A file is numbered from 1 in the order of the paths; 0 is no file, which *)
(* is what a title of the drive has.  A disc is what inspecting one told,   *)
(* with the base title and the marker of its name.                          *)
(***************************************************************************)
EXTENDS Integers, Sequences, FiniteSets, SequencesExt

CONSTANTS
  Discs,      \* the discs there may be: [file, dir, base, n, id]; n = 0: unmarked
  Root,       \* the source directory itself
  DirTitle,   \* BaseTitle of each directory's name
  Bare,       \* the base title of names like "Disc 1", which say nothing
  BaseName,   \* of a file: its name without the directory
  FullName,   \* and without the extension too
  Images,     \* the PS2 titles there may be in the sources
  Installed2, \* titles there may be on the drive, by platform
  Installed1,
  PartOf,     \* pairs of a text and a title that contains it
  NoId,       \* no serial
  Unread      \* no list of installed titles

IsTitle(g) == g = [ platform |-> g.platform, id |-> g.id, file |-> g.file,
                   title |-> g.title, discs |-> g.discs ]

ASSUME LibraryAssumption ==
  /\ \A d \in Discs : d.file \in Nat \ {0} /\ d.n \in Nat
  /\ \A d, e \in Discs : d.file = e.file => d = e
  /\ \A g \in Images \cup Installed2 \cup Installed1 : IsTitle(g)
  /\ \A g \in Images : g.file \in Nat \ {0}
  /\ \A g \in Installed2 \cup Installed1 : g.file = 0
  /\ IsFiniteSet(Discs) /\ IsFiniteSet(Images)
  /\ IsFiniteSet(Installed2) /\ IsFiniteSet(Installed1)

VARIABLE library   \* the discs and images in the sources, the titles on the drive, and
                   \* whether one is configured and all, half or none of it is read

Libraries == [ discs : SUBSET Discs, images : SUBSET Images,
               on2 : SUBSET Installed2, on1 : SUBSET Installed1,
               drive : {"none", "unread", "partial", "read"} ]

NoLibrary == [ discs |-> {}, images |-> {}, on2 |-> {}, on1 |-> {},
               drive |-> "none" ]

-----------------------------------------------------------------------------
(* Grouping.                                                               *)

\* What the bucket of a disc is named after.
BucketTitle(d) == IF d.dir # Root /\ d.base = Bare THEN DirTitle[d.dir] ELSE d.base
Bucket(d) == << d.dir, BucketTitle(d) >>

\* Mutant: a file without a marker goes with the set beside it.
KeepTogether(bucket) == {bucket}

\* "A file that names no disc cannot be a disc of a release whose other files
\* all name one."
splitUnmarked(bucket) ==
  LET marked == {d \in bucket : d.n > 0} IN
  IF marked \in {{}, bucket} THEN {bucket}
  ELSE {marked} \cup {{d} : d \in bucket \ marked}

\* By number, those without one last, then by path.
Before(d, e) == \/ d.n = e.n /\ d.file < e.file
                \/ d.n # e.n /\ d.n # 0 /\ (e.n = 0 \/ d.n < e.n)

\* A disc's number in its title: its marker or its place.
NumberIn(group, d) ==
  IF d.n # 0 THEN d.n ELSE 1 + Cardinality({e \in group : Before(e, d)})

FirstOf(group) == CHOOSE d \in group : \A e \in group \ {d} : Before(d, e)

\* One title of a bucket; one split off is named by its whole file name.
TitleOf(group, bucket) ==
  LET first == FirstOf(group) IN
  [ platform |-> "PS1", id |-> first.id, file |-> first.file,
    title    |-> IF group = bucket \/ first.n > 0 THEN BucketTitle(first)
                 ELSE FullName[first.file],
    discs    |-> {[number |-> NumberIn(group, d), file |-> d.file] : d \in group} ]

Group(D) ==
  UNION {{TitleOf(group, bucket) : group \in splitUnmarked(bucket)} :
         bucket \in {{e \in D : Bucket(e) = Bucket(d)} : d \in D}}

\* Discs the user named together, in the order given.
GroupExplicit(named) ==
  LET order == SortSeq(named, LAMBDA d, e : d.n # 0 /\ (e.n = 0 \/ d.n < e.n)) IN
  [i \in DOMAIN order |->
     [file |-> order[i].file, number |-> IF order[i].n = 0 THEN i ELSE order[i].n]]

\* InspectSources groups what InspectSource made of each path, which is a title of
\* one disc and has numbered it.
InspectSources(named) ==
  GroupExplicit([i \in DOMAIN named |->
    [named[i] EXCEPT !.n = GroupExplicit(<< named[i] >>)[1].number]])

-----------------------------------------------------------------------------
(* The library.                                                            *)

\* Mutant: titles are told apart by name.
KeyByTitle(g) == << g.platform, g.title >>

\* Game.Key
Key(g) == IF g.id # NoId THEN << g.platform, g.id >> ELSE << g.platform, "title", g.title >>

NoSource == [platform |-> "", id |-> NoId, file |-> 0, title |-> "", discs |-> {}]

Row(g, onDrive) == [ game |-> g, installed |-> onDrive, inSource |-> ~onDrive,
                     source |-> NoSource ]

\* One source title: into the last row of its key, or a row of its own.
MergeSource(rows, g) ==
  LET same == {i \in DOMAIN rows : Key(rows[i].game) = Key(g)} IN
  IF same = {} THEN Append(rows, Row(g, FALSE))
  ELSE LET i == CHOOSE j \in same : \A k \in same : k <= j IN
       [rows EXCEPT ![i].inSource = TRUE, ![i].source = g,
                    ![i].game.file = IF @ = 0 THEN g.file ELSE @]

\* Reconcile, before the rows are sorted.
Rows(installed, source) ==
  FoldLeft(MergeSource, [i \in DOMAIN installed |-> Row(installed[i], TRUE)], source)

\* InstalledReader.All: the PS2 half is read from the table, the PS1 half through a
\* mount.  Without the first nothing is known, without the second it is partial.
InstalledRead(ps2, ps1) ==
  IF ps2 = Unread THEN [games |-> Unread, partial |-> FALSE]
  ELSE IF ps1 = Unread THEN [games |-> ps2, partial |-> TRUE]
  ELSE [games |-> ps2 \o ps1, partial |-> FALSE]

\* Mutant: an unreadable drive is taken for an empty one.
CatalogLenient(configured, read, source) ==
  [ failed |-> FALSE, warned |-> read.partial,
    rows |-> Rows(IF read.games = Unread THEN << >> ELSE read.games, source) ]

\* CatalogWith: a drive that is configured and cannot be read ends it.
CatalogWith(configured, read, source) ==
  IF configured /\ read.games = Unread THEN [failed |-> TRUE, warned |-> FALSE, rows |-> << >>]
  ELSE [ failed |-> FALSE, warned |-> read.partial \/ ~configured,
         rows |-> Rows(IF configured THEN read.games ELSE << >>, source) ]

-----------------------------------------------------------------------------
(* One line of a list.                                                     *)

\* sourceFilesOf: by which files a row may be named.
FilesOf(row) ==
  (UNION {{g.file} \cup {d.file : d \in g.discs} : g \in {row.game, row.source}}) \ {0}

\* A line: its text and that without an extension, the serial inside one that is more
\* than its serial, and the title of the image if it is the path of one.
Line(text, stem, serial, path) ==
  [text |-> text, stem |-> stem, serial |-> serial, path |-> path]

\* FindSourceFile: rows with a file of that very name, in whatever directory, or else
\* of that name but for the extension.
FindSourceFile(rows, line) ==
  LET exact == {i \in DOMAIN rows : \E f \in FilesOf(rows[i]) : BaseName[f] = line.text}
      loose == {i \in DOMAIN rows : \E f \in FilesOf(rows[i]) : FullName[f] = line.stem} IN
  IF exact # {} THEN exact ELSE loose

sourceView(row) == IF row.source # NoSource THEN row.source ELSE row.game

\* Catalog.Find: a serial names one row, then exact titles, then parts of titles.
Find(rows, text) ==
  LET byId    == {i \in DOMAIN rows : text # NoId /\ rows[i].game.id = text}
      byTitle == {i \in DOMAIN rows : rows[i].game.title = text}
      byPart  == {i \in DOMAIN rows : << text, rows[i].game.title >> \in PartOf} IN
  IF byId # {} THEN {i \in byId : \A j \in byId : i <= j}
  ELSE IF byTitle # {} THEN byTitle ELSE byPart

\* resolveSourceEntry: of what a text finds, the titles the sources hold.
resolveSourceEntry(rows, text) == {i \in Find(rows, text) : rows[i].inSource}

\* The rows a line that is no path means: by a file name before a title, and last by
\* the serial inside it.
RowsMeant(rows, line) ==
  LET named    == FindSourceFile(rows, line)
      found    == resolveSourceEntry(rows, line.text)
      bySerial == resolveSourceEntry(rows, line.serial) IN
  IF named # {} THEN named
  ELSE IF Cardinality(found) # 1 /\ line.serial # NoId /\ Cardinality(bySerial) = 1 THEN bySerial
  ELSE found

installedInCatalog(rows, id) ==
  id # NoId /\ \E i \in DOMAIN rows : rows[i].installed /\ rows[i].game.id = id

\* A title a line may mean, and whether the drive has it.
OfRow(rows, i) ==
  [row |-> i, game |-> sourceView(rows[i]), installed |-> rows[i].installed]
OfPath(rows, g) ==
  [row |-> 0, game |-> g, installed |-> installedInCatalog(rows, g.id)]

\* resolveListEntry: the path of an image that cannot be read is an error, as is what
\* means several titles or none.
resolveListEntry(rows, line) ==
  IF line.path = Unread THEN {}
  ELSE IF line.path # NoSource THEN {OfPath(rows, line.path)}
  ELSE {OfRow(rows, i) : i \in RowsMeant(rows, line)}

\* Mutant: a line that was seen before is planned again.
TakeAgain(rows, plan, line) ==
  LET meant == resolveListEntry(rows, line) IN
  IF Cardinality(meant) # 1 THEN [plan EXCEPT !.unresolved = @ + 1]
  ELSE LET m == CHOOSE x \in meant : TRUE IN
       IF m.installed THEN [plan EXCEPT !.skipped = @ + 1]
       ELSE [plan EXCEPT !.games = Append(@, m.game)]

\* One line of planList.
TakeLine(rows, plan, line) ==
  LET meant == resolveListEntry(rows, line) IN
  IF Cardinality(meant) # 1 THEN [plan EXCEPT !.unresolved = @ + 1]
  ELSE LET m   == CHOOSE x \in meant : TRUE
           key == << m.game.id, m.game.title >> IN
       IF key \in plan.seen THEN plan
       ELSE IF m.installed THEN [plan EXCEPT !.seen = @ \cup {key}, !.skipped = @ + 1]
       ELSE [plan EXCEPT !.seen = @ \cup {key}, !.games = Append(@, m.game)]

\* planList: every line resolves, or there is no plan.
planList(rows, lines) ==
  LET plan == FoldLeft(LAMBDA p, l : TakeLine(rows, p, l),
                [games |-> << >>, skipped |-> 0, seen |-> {}, unresolved |-> 0], lines) IN
  IF plan.unresolved > 0 THEN [failed |-> TRUE, games |-> << >>, skipped |-> 0]
  ELSE [failed |-> FALSE, games |-> plan.games, skipped |-> plan.skipped]

-----------------------------------------------------------------------------
(* Properties.                                                             *)

FileSet(t) == {d.file : d \in t.discs}
DiscOf(f)  == CHOOSE d \in Discs : d.file = f

(* Grouping loses no disc and lists none twice; a file without a marker is       *)
(* never a disc of a numbered release ("which put two foreign images in its      *)
(* DISCS.TXT"), the marked discs of a release stay together, and two discs of a  *)
(* title have one number only if their names say so.                             *)
EveryDiscOnce ==
  LET D == library.discs
      T == Group(D) IN
  /\ UNION {FileSet(t) : t \in T} = {d.file : d \in D}
  /\ \A t, u \in T : t # u => FileSet(t) \cap FileSet(u) = {}
  /\ \A t \in T : \A x, y \in t.discs :
       /\ DiscOf(x.file).n = 0 => DiscOf(y.file).n = 0
       /\ x.number = y.number => x = y \/ DiscOf(x.file).n = DiscOf(y.file).n
  /\ \A d, e \in D : d.n > 0 /\ e.n > 0 /\ Bucket(d) = Bucket(e) =>
       \E t \in T : {d.file, e.file} \subseteq FileSet(t)

\* In one order or another: SortGames puts the titles in that of their names.
Listing(S) == SetToSeq(S)

Source == Listing(Group(library.discs) \cup library.images)

\* A title is told by its serial, or without one by its name.
SameTitle(g, h) ==
  /\ g.platform = h.platform /\ g.id = h.id
  /\ g.id = NoId => g.title = h.title

OneOfKey(rows, g) == Cardinality({i \in DOMAIN rows : rows[i].inSource /\ Key(rows[i].game) = Key(g)}) = 1

(* "A catalog built from the source half alone says every title is not           *)
(* installed.  That is not a degraded answer, it is a wrong one" (Catalog): a    *)
(* title of the drive is shown as available only beside a warning, whichever of  *)
(* the two readings failed; every title of the drive that was read has its row;  *)
(* and every source title is on exactly one row.                                 *)
RowsTell ==
  LET d    == library.drive
      read == InstalledRead(IF d \in {"none", "unread"} THEN Unread ELSE Listing(library.on2),
                            IF d = "partial" THEN Unread ELSE Listing(library.on1))
      c    == CatalogWith(d # "none", read, Source) IN
  ~c.failed =>
    /\ \A g \in library.on2 \cup library.on1, i \in DOMAIN c.rows :
         SameTitle(g, c.rows[i].game) => c.rows[i].installed \/ c.warned
    /\ \A g \in library.on2 : d # "none" =>
         \E i \in DOMAIN c.rows : c.rows[i].installed /\ c.rows[i].game.title = g.title
    /\ \A i \in DOMAIN Source : OneOfKey(c.rows, Source[i])

\* A row keeps the files of the last copy of its title, and of the first its own, with
\* those of its discs where the drive has not the title: a copy in between is on no row.
Shown(i, f) ==
  \/ \A j \in DOMAIN Source : i < j => Key(Source[j]) # Key(Source[i])
  \/ /\ \A j \in DOMAIN Source : j < i => Key(Source[j]) # Key(Source[i])
     /\ f = Source[i].file \/ \A g \in library.on2 : Key(g) # Key(Source[i])

(* What a list plans is what it names: a line that is the name of a scanned file *)
(* on a row plans that file's title, unless the drive has it (and then the other *)
(* copy of it, where the sources hold two); no title is planned twice, nor one   *)
(* the drive was read to have; and a plan answers for every line.  A path is     *)
(* another matter: it plans the image as it is named, beside another copy of its *)
(* title of another name ("a list that names the same game twice", plan.go:70),  *)
(* or, without a serial, though the drive has it.                                *)
NamedIsMeant ==
  LET rows   == Rows(Listing(library.on2), Source)
      names  == {Line(BaseName[g.file], FullName[g.file], NoId, NoSource) :
                   g \in library.discs \cup library.images}
      others == {Line(g.title, g.title, NoId, NoSource) : g \in Images}
                \cup {Line(g.id, g.id, NoId, NoSource) : g \in Images}
                \cup {Line(Unread, Unread, g.id, NoSource) : g \in Images}
                \cup {Line(BaseName[g.file], FullName[g.file], NoId, g) : g \in Images} IN
  library.drive = "read" /\ library.on1 = {} => \A k \in names, l \in others :
    LET p == planList(rows, << k, l >>) IN
    ~p.failed =>
      /\ IsInjective([i \in DOMAIN p.games |-> << Key(p.games[i]), p.games[i].title >>])
      /\ l.path = NoSource => IsInjective([i \in DOMAIN p.games |-> Key(p.games[i])])
      /\ \A i \in DOMAIN p.games : \A g \in library.on2 :
           Key(p.games[i]) = Key(g) => p.games[i] = l.path /\ g.id = NoId
      /\ \A i \in DOMAIN Source : \A f \in ({Source[i].file} \cup FileSet(Source[i])) \ {0} :
         BaseName[f] = k.text /\ Shown(i, f) =>
           \/ \E j \in DOMAIN p.games : Key(p.games[j]) = Key(Source[i])
           \/ p.skipped > 0 /\ \E g \in library.on2 : Key(g) = Key(Source[i])
================================================================================
