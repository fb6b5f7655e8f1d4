------------------------------- MODULE DiscImage -------------------------------
(***************************************************************************)
(* Which game an image is.  The volume descriptor and the root directory    *)
(* lead to SYSTEM.CNF, whose boot line names the serial; of an image in an  *)
(* archive only the head is unpacked, and where SYSTEM.CNF lies beyond it   *)
(* the boot file's own name in the root directory has to do.  Pure          *)
(* functions: the one variable is the archive they are given.               *)
(*                                                                         *)
(* An image is the volume each stride finds in it, its size, the blocks it  *)
(* has, and how many of them the head holds.  An entry of a directory has   *)
(* the serial its name is the boot file of, and the keys its lines set.     *)
(*                                                                         *)
(* Source: internal/iso9660/iso9660.go, internal/platform/ps1/inspect.go,   *)
(* internal/platform/ps2/inspect.go, internal/catalog/archive.go.           *)
(***************************************************************************)
EXTENDS VcdConvert

CONSTANTS
  Archives,     \* the archives that may be looked into
  MaxRoot,      \* blocks of the largest root directory
  MaxFile,      \* blocks of the largest file read as metadata
  CDSizeLimit,  \* the largest CD
  Nameless      \* a name or a value that holds no serial

\* The descriptors end before block 24; a head is 16 MiB of an image, or all of it.
IsVolume(v) ==
  /\ v.rootAt \in Nat /\ v.rootBlocks \in Nat /\ v.root \in Seq(Range(v.root))
  /\ \A i \in DOMAIN v.root : v.root[i].at \in Nat /\ v.root[i].blocks \in Nat
IsDisc(d) ==
  /\ d.blocks \in Nat /\ d.head \in Nat /\ d.head >= 24
  /\ \A v \in {d.plain, d.raw} : v = Absent \/ IsVolume(v)

ASSUME ArchivesAssumption == \A a \in Archives :
  /\ a \in Seq(Range(a))
  /\ \A i \in DOMAIN a : a[i].kind = "image" => a[i].size \in Nat /\ IsDisc(a[i].disc)
  /\ \A i \in DOMAIN a : a[i].kind = "cue" => IsText(a[i].lines)

VARIABLE archived    \* the members of an archive: images by their names, sheets as listed

\* Of the elements of s that pass, the first.
FirstIn(s, Test(_)) ==
  LET fit == {i \in DOMAIN s : Test(s[i])}
  IN  IF fit = {} THEN Absent ELSE s[CHOOSE i \in fit : \A j \in fit : i <= j]

\* iso9660.Open: eight blocks from the sixteenth, to the first descriptor that ends it.
\* Other descriptors, and blocks without the signature, are passed over.
OpenVolume(v, reach) ==
  LET ends == {i \in 1 .. 8 : i \in DOMAIN v.descriptors /\ v.descriptors[i] \in {"primary", "end"}}
      i == CHOOSE k \in ends : \A j \in ends : k <= j
  IN  IF v # Absent /\ ends # {} /\ 15 + i < reach /\ v.descriptors[i] = "primary" THEN v ELSE Absent

\* Volume.readRoot; "." and ".." are skipped.
readRoot(v, reach) ==
  IF v.rootBlocks \in 1 .. MaxRoot /\ v.rootAt + v.rootBlocks <= reach THEN v.root ELSE Absent

\* Volume.ReadFile of SYSTEM.CNF: the first file of that name, whole or not at all.
ReadFile(v, reach) ==
  LET root == readRoot(v, reach)
      cnf  == IF root = Absent THEN Absent ELSE FirstIn(root, LAMBDA e : ~e.dir /\ e.name = "SYSTEM.CNF")
  IN  IF cnf # Absent /\ cnf.blocks <= MaxFile /\ cnf.at + cnf.blocks <= reach THEN cnf.keys ELSE Absent

\* parseKey and FindGameID: the serial in the first line that sets the key.
BootSerial(keys, key) ==
  LET line == FirstIn(keys, LAMBDA l : l.key = key)
  IN  IF line = Absent THEN Nameless ELSE line.serial

\* MUTANT: the first name that looks like a serial.
serialFirst(v, reach) ==
  LET root == readRoot(v, reach)
      e == IF root = Absent THEN Absent ELSE FirstIn(root, LAMBDA x : x.serial # Nameless)
  IN  IF e = Absent THEN Nameless ELSE e.serial

\* "It insists on exactly one match."  A directory of such a name matches too.
serialFromRoot(v, reach) ==
  LET root == readRoot(v, reach)
      found == {i \in DOMAIN root : root[i].serial # Nameless}
  IN  IF root = Absent \/ Cardinality(found) # 1 THEN Nameless
      ELSE root[CHOOSE i \in found : TRUE].serial

\* What the reader of an image is given.
Reach(d, part) == IF part /\ d.head < d.blocks THEN d.head ELSE d.blocks

\* Raw sectors are tried first for a PS1 disc and last for a PS2 disc, and only for a
\* size that is a whole number of them.
openPS1Volume(d, part) ==
  LET raw == IF d.size % SectorSize = 0 THEN OpenVolume(d.raw, Reach(d, part)) ELSE Absent
  IN  IF raw # Absent THEN raw ELSE OpenVolume(d.plain, Reach(d, part))

openVolume(d, part) ==
  LET plain == OpenVolume(d.plain, Reach(d, part))
  IN  IF plain # Absent \/ d.size % SectorSize # 0 THEN plain ELSE OpenVolume(d.raw, Reach(d, part))

\* SYSTEM.CNF where it can be read; the root directory only for a part of an image.
SerialOf(v, reach, key, part) ==
  LET cnf == ReadFile(v, reach)
  IN  IF cnf # Absent THEN BootSerial(cnf, key)
      ELSE IF part THEN serialFromRoot(v, reach) ELSE Nameless

\* identify (ps1) of a data track in a rip of this many bytes and gaps.
identify(d, bytes, gaps, part) ==
  LET v  == openPS1Volume(d, part)
      id == IF v = Absent THEN Nameless ELSE SerialOf(v, Reach(d, part), "BOOT", part)
  IN  IF id = Nameless THEN Absent ELSE [id |-> id, size |-> bytes, charge |-> VCDSize(bytes, gaps)]

\* MediaType: the XA signature says, a blank one too, and else the size.
MediaType(v, size) ==
  IF v.xa = "other" THEN (IF size <= CDSizeLimit THEN "CD" ELSE "DVD")
  ELSE IF v.xa = "signed" THEN "CD" ELSE "DVD"

\* InspectAt (ps2).  The volume may be smaller than its file.
InspectAt(d, part) ==
  LET v    == openVolume(d, part)
      id   == IF v = Absent THEN Nameless ELSE SerialOf(v, Reach(d, part), "BOOT2", part)
      size == IF v.size > 0 /\ v.size < d.size THEN v.size ELSE d.size
  IN  IF id = Nameless THEN Absent ELSE [id |-> id, size |-> size, media |-> MediaType(v, size)]

-----------------------------------------------------------------------------
(* Archives.                                                               *)

OfKind(a, k) == FoldLeft(LAMBDA some, m : IF m.kind = k THEN Append(some, m) ELSE some, << >>, a)

\* "Not even enough for the volume descriptor and the root directory" (readHead).
MinHead == 34

\* FindImage and InspectArchivedPS2: one image or none.
InspectArchivedPS2(a) ==
  LET images == OfKind(a, "image")
  IN  IF Len(images) # 1 \/ Reach(images[1].disc, TRUE) < MinHead THEN Absent
      ELSE InspectAt(images[1].disc, TRUE)

\* The first sheet.
SheetOf(a) ==
  LET cues == OfKind(a, "cue")
  IN  IF cues = << >> THEN Absent ELSE cues[1]

\* MUTANT: the rip weighs what its first track weighs.
FindPS1MembersFirst(a) ==
  LET data == OfKind(a, "image")
  IN  [cue |-> SheetOf(a), data |-> data,
       bytes |-> IF data = << >> THEN 0 ELSE data[1].size]

\* The first sheet, and the data files by name.  An archive in the archive is none.
FindPS1Members(a) ==
  LET data == OfKind(a, "image")
  IN  [cue |-> SheetOf(a), data |-> data,
       bytes |-> SumOf([i \in DOMAIN data |-> data[i].size])]

\* The sheet is read whole and has to parse; without one there must be one data file.
\* Nothing here is next to a sheet that is only text: its file is not looked for.
InspectArchivedPS1(a) ==
  LET m == FindPS1Members(a)
      c == ParseCue(m.cue.lines)
      usable == \/ m.cue = Absent /\ Len(m.data) = 1
                \/ m.cue # Absent /\ c.ok /\ SheetFits(c)
  IN  IF m.data = << >> \/ ~usable THEN Absent
      ELSE identify(m.data[1].disc, m.bytes, IF m.cue = Absent THEN 0 ELSE GapSectors(c), TRUE)

-----------------------------------------------------------------------------
(* The same files unpacked, as an install finds them.                      *)

Unpacked(a) ==
  LET data  == OfKind(a, "image")
      cue   == SheetOf(a)
  IN  [ shape |-> IF cue = Absent THEN "bin" ELSE "cue",
        dir   |-> [i \in DOMAIN data |-> [name |-> data[i].name, size |-> data[i].size]],
        lines |-> IF cue = Absent THEN << >> ELSE cue.lines,
        sections |-> << >>, volume |-> TRUE ]

\* The data file that is opened: the one the sheet names first, or the image alone.
DataFile(a) ==
  LET data  == OfKind(a, "image")
      cue   == SheetOf(a)
      name  == ParseCue(cue.lines).files[1]
      first == FirstIn(data, LAMBDA m : m.name = name)
  IN  IF cue = Absent THEN data[1]
      ELSE IF first # Absent THEN first
      ELSE FirstIn(data, LAMBDA m : m.name.lower = name.lower)

\* Inspect (ps1) of a sheet, or of an image alone.  A size that cannot be summed is the
\* first file's.
InspectUnpacked(a) ==
  LET r == Unpacked(a)
      c == ParseCue(r.lines)
      sizes == Sizes(r, c)
      bytes == IF r.shape = "bin" THEN r.dir[1].size
               ELSE IF \E i \in DOMAIN sizes : sizes[i] = Absent THEN sizes[1] ELSE SumOf(sizes)
  IN  IF r.shape # "bin" /\ ~Validate(r, c) THEN Absent
      ELSE identify(DataFile(a).disc, bytes, IF r.shape = "bin" THEN 0 ELSE GapSectors(c), FALSE)

\* A root directory that has the boot file under its serial.
HasBootFile(v, id) == \E i \in DOMAIN v.root : v.root[i].serial = id

\* A sheet that names each of its files once.
EachOnce(a) ==
  LET files == ParseCue(Unpacked(a).lines).files
  IN  \A i, j \in DOMAIN files : files[i].lower = files[j].lower => i = j

\* What the head tells (head) and what the files tell (full), where both tell.
AgreesPS1(a, first, head, full) ==
  head # Absent /\ full # Absent =>
    /\ HasBootFile(openPS1Volume(first.disc, FALSE), full.id) /\ DataFile(a) = first => head.id = full.id
    /\ EachOnce(a) => full.charge <= head.charge
AgreesPS2(first, head, full) ==
  head # Absent /\ full # Absent =>
    /\ HasBootFile(openVolume(first.disc, FALSE), full.id) => head.id = full.id
    /\ head.media = full.media /\ head.size = full.size

(* What the scan tells of an archive, from the head of one member and the text of *)
(* another, is what the files tell once unpacked: never another game of the same  *)
(* console for a disc that keeps its boot file in the root directory under its    *)
(* serial, wherever SYSTEM.CNF lies, in a rip whose sheet names the first data    *)
(* file first; for a PS2 image the same medium and size; and for a PS1 rip no     *)
(* fewer bytes than the space check charges the unpacked one with, when its sheet *)
(* names no file twice.                                                           *)
ArchiveTellsDisc ==
  archived # << >> =>
    LET first == OfKind(archived, "image")[1]
    IN  /\ AgreesPS1(archived, first, InspectArchivedPS1(archived), InspectUnpacked(archived))
        /\ AgreesPS2(first, InspectArchivedPS2(archived), InspectAt(first.disc, FALSE))
================================================================================
