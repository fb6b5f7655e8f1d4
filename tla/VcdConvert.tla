----------------------------- MODULE VcdConvert -----------------------------
(***************************************************************************)
(* What a PS1 rip becomes.  A sheet -- a cuesheet, a CloneCD control file, *)
(* or none -- says where the tracks of a disc start; Convert joins the     *)
(* data files, writes a header that says where the tracks start in the     *)
(* VCD, copies the sectors in chunks that are no whole number of sectors,  *)
(* and slips a two-second pregap into the stream for a sheet that only     *)
(* declares it.  The space check counts the bytes beforehand.              *)
(*                                                                         *)
(* Text is abstracted: a sheet is the sequence of its statements, a        *)
(* control file the sequence of its [TRACK] sections.                      *)
(*                                                                         *)
(* Source: internal/platform/ps1/cue.go, ccd.go, sheet.go, vcd.go.         *)
(***************************************************************************)
EXTENDS Integers, SequencesExt

CONSTANTS
  Rips,         \* the rips that may be converted
  SectorSize,   \* bytes of a raw sector
  HeaderSize,   \* bytes of the POPS header
  BufSize,      \* bytes of the copy buffer
  Absent

\* What ParseMSF lets pass: as many minutes as are written.
Timecodes == [m : Nat, s : 0 .. 59, f : 0 .. 74]

ASSUME VcdAssumption ==
  /\ SectorSize \in Nat \ {0} /\ HeaderSize \in Nat /\ BufSize \in Nat \ {0}
  /\ Absent \notin Timecodes

IsText(lines) ==
  /\ lines \in Seq(Range(lines))
  /\ \A i \in DOMAIN lines : lines[i].word = "INDEX" => lines[i].at \in Timecodes

\* The directory a rip is in, the lines of its sheet, the sections of its control
\* file; an image without either is the first file of its directory.
ASSUME RipsAssumption == \A r \in Rips :
  /\ r.dir \in Seq(Range(r.dir)) /\ IsText(r.lines)
  /\ r.sections \in Seq(Range(r.sections))
  /\ \A i \in DOMAIN r.dir : r.dir[i].size \in Nat
  /\ \A i \in DOMAIN r.sections : {r.sections[i].lba0, r.sections[i].lba1} \subseteq Int \cup {Absent}
  /\ r.shape \notin {"cue", "ccd"} => r.dir # << >>

leadInSectors == 150

VARIABLES
  rip,       \* the rip being converted
  at,        \* where the conversion stands
  header,    \* the POPS header
  done,      \* bytes of the source copied
  needPad,   \* the pregap is still to be written
  partial,   \* the .partial file: pieces of the source and the pregap
  vcd        \* the file under its own name

vcdVars == <<rip, at, header, done, needPad, partial, vcd>>

\* Timecodes: minutes, seconds and 75ths.
LBA(t) == t.m * 60 * 75 + t.s * 75 + t.f

MSFFromLBA(n) ==
  LET lba == IF n < 0 THEN 0 ELSE n
  IN  [m |-> lba \div 4500, s |-> (lba % 4500) \div 75, f |-> lba % 75]

plus2Seconds(t) ==
  IF t.s + 2 >= 60 THEN [t EXCEPT !.s = @ + 2 - 60, !.m = @ + 1] ELSE [t EXCEPT !.s = @ + 2]

bcd(v) == ((v \div 10) * 16 + (v % 10)) % 256
BCD(t) == [m |-> bcd(t.m), s |-> bcd(t.s), f |-> bcd(t.f)]

Zero == [m |-> 0, s |-> 0, f |-> 0]

-----------------------------------------------------------------------------
\* The file a FILE statement names: the exact name, else the first of the
\* directory that differs in case only.
fileResolver(dir, name) ==
  LET exact == {i \in DOMAIN dir : dir[i].name = name}
      alike == {i \in DOMAIN dir : dir[i].name.lower = name.lower}
      first(S) == CHOOSE i \in S : \A j \in S : i <= j
  IN  IF exact # {} THEN dir[first(exact)].size
      ELSE IF alike # {} THEN dir[first(alike)].size ELSE Absent

NoSheet == [ok |-> FALSE, type |-> "BINARY", files |-> << >>, tracks |-> << >>]

\* One statement of a cuesheet.  Statements of another kind change nothing; a
\* gap before any TRACK is skipped, an INDEX there refuses the sheet.
ParseLine(c, l) ==
  LET n == Len(c.tracks)
  IN  CASE l.word = "FILE"  -> [c EXCEPT !.files = Append(@, l.name),
                                          !.type = IF c.files = << >> THEN l.type ELSE @]
        [] l.word = "TRACK" ->
             [c EXCEPT !.tracks = Append(@,
                [number |-> l.n, mode |-> l.mode, file |-> IF c.files = << >> THEN 1 ELSE Len(c.files),
                 index0 |-> Absent, index1 |-> Zero, pregap |-> FALSE, postgap |-> FALSE])]
        [] l.word = "INDEX" /\ n = 0 -> [c EXCEPT !.ok = FALSE]
        [] l.word = "INDEX" /\ n > 0 /\ l.n = 0 -> [c EXCEPT !.tracks[n].index0 = l.at]
        [] l.word = "INDEX" /\ n > 0 /\ l.n = 1 -> [c EXCEPT !.tracks[n].index1 = l.at]
        [] l.word = "PREGAP" /\ n > 0  -> [c EXCEPT !.tracks[n].pregap = TRUE]
        [] l.word = "POSTGAP" /\ n > 0 -> [c EXCEPT !.tracks[n].postgap = TRUE]
        [] OTHER -> c

ParseCue(lines) ==
  LET c == FoldLeft(ParseLine, [NoSheet EXCEPT !.ok = TRUE], lines)
  IN  [c EXCEPT !.ok = @ /\ c.files # << >> /\ c.tracks # << >>]

\* One [TRACK] section of a control file with the control flag of its [Entry];
\* indexes are absolute.
CCDTrack(t) ==
  LET i0 == IF t.lba0 = Absent THEN Absent ELSE MSFFromLBA(t.lba0)
  IN  [number |-> t.n,
       mode |-> IF t.mode = 0 \/ t.audio THEN "AUDIO" ELSE IF t.mode = 1 THEN "MODE1" ELSE "MODE2",
       file |-> 1, index0 |-> i0,
       index1 |-> IF t.lba1 # Absent THEN MSFFromLBA(t.lba1) ELSE IF i0 # Absent THEN i0 ELSE Zero,
       pregap |-> FALSE, postgap |-> FALSE]

ParseCCDFile(r) ==
  [ok |-> /\ r.dir # << >> /\ r.sections # << >>
          /\ \A i \in DOMAIN r.sections : r.sections[i].mode \in 0 .. 2,
   type |-> "BINARY", files |-> << "img" >>,
   tracks |-> [i \in DOMAIN r.sections |-> CCDTrack(r.sections[i])]]

\* A bare image is taken for one data track when its size and its volume
\* descriptor say it is one.
sheetForRawImage(r) ==
  LET size == r.dir[1].size
  IN  [ok |-> size # 0 /\ size % SectorSize = 0 /\ r.volume,
       type |-> "BINARY", files |-> << r.dir[1].name >>,
       tracks |-> << [number |-> 1, mode |-> "MODE2", file |-> 1, index0 |-> Absent,
                      index1 |-> Zero, pregap |-> FALSE, postgap |-> FALSE] >>]

LoadSheet(r) ==
  CASE r.shape = "cue" -> ParseCue(r.lines)
    [] r.shape = "ccd" -> ParseCCDFile(r)
    [] r.shape = "nrg" -> NoSheet
    [] OTHER -> sheetForRawImage(r)

\* The size of each data file, in sheet order (openTracks, trackSizes).
Sizes(r, c) ==
  [i \in DOMAIN c.files |->
     IF r.shape = "cue" THEN fileResolver(r.dir, c.files[i]) ELSE r.dir[1].size]

SumOf(s) == FoldLeft(LAMBDA a, b : a + b, 0, s)

\* The part of Validate that looks at no file.
SheetFits(c) ==
  /\ c.type = "BINARY" /\ c.tracks[1].mode = "MODE2"
  /\ \A i \in DOMAIN c.tracks : c.tracks[i].mode \in {"AUDIO", "MODE1", "MODE2"}

\* Only the first data file is looked at here.
Validate(r, c) ==
  /\ c.ok /\ SheetFits(c)
  /\ LET first == Sizes(r, c)[1] IN first # Absent /\ first % SectorSize = 0

PregapCount(c) == Cardinality({i \in DOMAIN c.tracks : c.tracks[i].pregap})
PostgapCount(c) == Cardinality({i \in DOMAIN c.tracks : c.tracks[i].postgap})

\* One PREGAP and no POSTGAP: the pregap is declared, not in the image.
LooksLikeCDRWIN(c) == PregapCount(c) = 1 /\ PostgapCount(c) = 0

GapSectors(c) == leadInSectors * (PregapCount(c) + PostgapCount(c))

\* MUTANT: the gaps are forgotten.
VCDSizeGapless(bytes, gaps) == IF bytes <= 0 THEN 0 ELSE HeaderSize + bytes

\* What the space check charges (Inspect: SourceBytes and GapSectors).
VCDSize(bytes, gaps) == IF bytes <= 0 THEN 0 ELSE HeaderSize + bytes + gaps * SectorSize

\* MUTANT: the timecodes of a split sheet are taken as they are.
JoinedFlat(c, sizes) ==
  [c EXCEPT !.ok = @ /\ \A i \in DOMAIN sizes : sizes[i] % SectorSize = 0,
            !.tracks = [i \in DOMAIN @ |-> [@[i] EXCEPT !.file = 1]]]

\* The single-file sheet a split sheet would be: each track moves by the sectors of
\* the files before its own.
Joined(c, sizes) ==
  LET base(t) == SumOf(SubSeq(sizes, 1, t.file - 1)) \div SectorSize
      moved(t) ==
        [t EXCEPT !.index1 = MSFFromLBA(base(t) + LBA(@)),
                  !.index0 = IF @ = Absent THEN Absent ELSE MSFFromLBA(base(t) + LBA(@)),
                  !.file = 1]
  IN  [c EXCEPT !.ok = @ /\ \A i \in DOMAIN sizes : sizes[i] % SectorSize = 0,
                !.tracks = [i \in DOMAIN @ |-> moved(@[i])]]

\* The sheet a conversion works with.
Sheet(r) ==
  LET c == LoadSheet(r)
  IN  IF Len(c.files) > 1 THEN Joined(c, Sizes(r, c)) ELSE c

\* The header's entry of track i: INDEX 01 moves by the lead-in, INDEX 00 too but for
\* track 1, and both by the pregap of a CDRWIN sheet but for track 1.
TrackEntry(c, i) ==
  LET t == c.tracks[i]
      shift(x) == IF LooksLikeCDRWIN(c) /\ i # 1 THEN plus2Seconds(x) ELSE x
      idx0 == IF t.index0 = Absent THEN t.index1 ELSE t.index0
  IN  [type |-> IF t.mode = "AUDIO" THEN "audio" ELSE "data", number |-> bcd(t.number),
       index0 |-> BCD(shift(IF i = 1 THEN idx0 ELSE plus2Seconds(idx0))),
       index1 |-> BCD(shift(plus2Seconds(t.index1)))]

BuildHeader(c, binSize) ==
  LET sectors == binSize \div SectorSize + GapSectors(c)
  IN  [entries |-> [i \in DOMAIN c.tracks |-> TrackEntry(c, i)],
       content |-> TrackEntry(c, Len(c.tracks)).type,
       last |-> TrackEntry(c, Len(c.tracks)).number,
       sectors |-> sectors,
       leadOut |-> BCD(MSFFromLBA(sectors + leadInSectors))]

\* Where the pregap goes: before the first audio track, else at the end.
PadOffset(c, binSize) ==
  LET audio == {i \in DOMAIN c.tracks : c.tracks[i].mode = "AUDIO"}
      t == c.tracks[CHOOSE i \in audio : \A j \in audio : i <= j]
      off == LBA(IF t.index0 = Absent THEN t.index1 ELSE t.index0) * SectorSize
  IN  IF audio = {} \/ off > binSize THEN binSize ELSE off

-----------------------------------------------------------------------------
VcdInit ==
  /\ rip \in Rips
  /\ at = "load" /\ header = Absent /\ done = 0 /\ needPad = FALSE
  /\ partial = Absent /\ vcd = Absent

Total(r) == SumOf(Sizes(r, LoadSheet(r)))

\* LoadSheet, Validate, openTracks, Joined, BuildHeader; the temporary file is made
\* and the header written.  A header holds a hundred tracks.
Open ==
  LET c == Sheet(rip)
      sizes == Sizes(rip, LoadSheet(rip))
      good == /\ Validate(rip, LoadSheet(rip))
              /\ \A i \in DOMAIN sizes : sizes[i] # Absent
              /\ c.ok /\ Total(rip) > 0 /\ Total(rip) % SectorSize = 0
              /\ Len(c.tracks) <= 99
  IN  /\ at = "load"
      /\ IF good
         THEN /\ header' = BuildHeader(c, Total(rip))
              /\ needPad' = LooksLikeCDRWIN(c)
              /\ partial' = << >> /\ at' = "copy"
         ELSE at' = "refused" /\ UNCHANGED <<header, needPad, partial>>
      /\ UNCHANGED <<rip, done, vcd>>

Piece(from, to) == [from |-> from, to |-> to]
Pad == [from |-> -1, to |-> -1]

\* MUTANT: a chunk runs over the place of the pregap.
ChunkWhole ==
  LET total == Total(rip)
      padAt == PadOffset(Sheet(rip), total)
      n == IF total - done < BufSize THEN total - done ELSE BufSize
      here == needPad /\ done + n = padAt
  IN  /\ at = "copy" /\ done < total
      /\ done' = done + n
      /\ partial' = partial \o << Piece(done, done + n) >>
                     \o (IF here THEN << Pad >> ELSE << >>)
      /\ needPad' = (needPad /\ ~here)
      /\ UNCHANGED <<rip, at, header, vcd>>

\* One buffer of copyWithPad: cut at the pregap's place, which is filled when the
\* copy stands exactly there.
Chunk ==
  LET total == Total(rip)
      padAt == PadOffset(Sheet(rip), total)
      left == IF total - done < BufSize THEN total - done ELSE BufSize
      n == IF needPad /\ done < padAt /\ done + left > padAt THEN padAt - done ELSE left
      here == needPad /\ done + n = padAt
  IN  /\ at = "copy" /\ done < total
      /\ done' = done + n
      /\ partial' = partial \o << Piece(done, done + n) >>
                     \o (IF here THEN << Pad >> ELSE << >>)
      /\ needPad' = (needPad /\ ~here)
      /\ UNCHANGED <<rip, at, header, vcd>>

\* What is left of the pregap goes to the end; sync, close and rename.
Publish ==
  /\ at = "copy" /\ done = Total(rip)
  /\ vcd' = partial \o (IF needPad THEN << Pad >> ELSE << >>)
  /\ partial' = Absent /\ needPad' = FALSE /\ at' = "converted"
  /\ UNCHANGED <<rip, header, done>>

\* A read or a write fails: the temporary file is removed (defer); a kill leaves it.
Abort(killed) ==
  /\ at = "copy"
  /\ at' = IF killed THEN "killed" ELSE "failed"
  /\ partial' = IF killed THEN partial ELSE Absent
  /\ UNCHANGED <<rip, header, done, needPad, vcd>>

Convert == Open \/ Chunk \/ Publish \/ \E killed \in BOOLEAN : Abort(killed)

VcdSpec == VcdInit /\ [][Convert]_vcdVars
-----------------------------------------------------------------------------
SizeOf(p) == IF p = Pad THEN leadInSectors * SectorSize ELSE p.to - p.from

\* Where byte b of the source stands in a stream, header excluded.
Place(stream, b) ==
  LET i == CHOOSE k \in DOMAIN stream : stream[k].from <= b /\ b < stream[k].to
  IN  SumOf([k \in 1 .. i - 1 |-> SizeOf(stream[k])]) + b - stream[i].from

UnBCD(b) == (b \div 16) * 10 + (b % 16)
Reads(t) == LBA([m |-> UnBCD(t.m), s |-> UnBCD(t.s), f |-> UnBCD(t.f)])

\* Where index x of track t is in the data files laid end to end, as the sheet has it.
InRip(r, t, x) ==
  SumOf(SubSeq(Sizes(r, LoadSheet(r)), 1, t.file - 1)) + LBA(x) * SectorSize

StartOf(r, i) == LET t == LoadSheet(r).tracks[i] IN InRip(r, t, t.index1)
GapOf(r, i) ==
  LET t == LoadSheet(r).tracks[i] IN InRip(r, t, IF t.index0 = Absent THEN t.index1 ELSE t.index0)

\* The tracks follow each other; no parser asks for it.
InOrder(r) ==
  \A i \in DOMAIN LoadSheet(r).tracks :
    GapOf(r, i) <= StartOf(r, i) /\ \A j \in 1 .. i - 1 : StartOf(r, j) < GapOf(r, i)

\* A data track after the first, before any audio, of a sheet whose pregap is
\* materialised: the header moves it, the stream does not.
Misplaced(r, i) ==
  LET c == LoadSheet(r)
  IN  LooksLikeCDRWIN(c) /\ i # 1 /\ \A j \in 1 .. i : c.tracks[j].mode # "AUDIO"

\* The header tells the truth about the stream behind it: whatever the shape of the
\* rip, however its files were joined and wherever the copy's buffers ended, each track
\* starts in the VCD where the header says, two seconds of lead-in apart, if its
\* minutes go into a BCD byte and, where a pregap is slipped in, the tracks are in order;
\* and a VCD exists under its name only when it is whole (vcd.go BuildHeader against
\* copyWithPad, cue.go Joined).
HeaderTells ==
  vcd # Absent =>
    LET cdrwin == LooksLikeCDRWIN(LoadSheet(rip))
        tellable(i) == /\ StartOf(rip, i) < Total(rip) /\ StartOf(rip, i) < 159 * 4500 * SectorSize
                       /\ (cdrwin => InOrder(rip)) /\ ~Misplaced(rip, i)
    IN  /\ \A i \in DOMAIN LoadSheet(rip).tracks :
             tellable(i) => Place(vcd, StartOf(rip, i))
                              = (Reads(header.entries[i].index1) - leadInSectors) * SectorSize
        /\ SumOf([k \in DOMAIN vcd |-> SizeOf(vcd[k])])
             = Total(rip) + (IF cdrwin THEN leadInSectors * SectorSize ELSE 0)

\* The space check never understates: what it charges covers what the conversion has
\* written at every moment, and is the VCD to the byte -- as is the sector count
\* of the header -- unless the sheet declares gaps nothing fills (cue.go
\* SourceBytes, GapSectors; vcd.go VCDSize).
SpaceIsEnough ==
  LET c == Sheet(rip)
      charged == VCDSize(Total(rip), GapSectors(LoadSheet(rip)))
      stream == IF vcd # Absent THEN vcd ELSE IF partial # Absent THEN partial ELSE << >>
      written == SumOf([k \in DOMAIN stream |-> SizeOf(stream[k])])
  IN  header # Absent =>
        /\ HeaderSize + written <= charged
        /\ vcd # Absent /\ (LooksLikeCDRWIN(c) \/ GapSectors(c) = 0)
             => charged = HeaderSize + written /\ header.sectors * SectorSize = written
=============================================================================
