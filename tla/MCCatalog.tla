------------------------------ MODULE MCCatalog ------------------------------
EXTENDS SourceScan, Reconcile, DiscImage, TLC

CONSTANTS archive, sheet, track

MCOrder == << archive, track, sheet >>
MCImage == [f \in Files |-> IF f = sheet THEN track ELSE f]
MCFolder == [f \in Files |-> IF f = archive THEN "ps2" ELSE "psx"]
MCStocks == {[there |-> {archive, track, sheet}, events |-> 1], [there |-> {}, events |-> 2]}
MCJunk  == {<<sheet,1>>}
MCConcurrency == << 2, 1 >>

\* A flat directory with a numbered release, an unmarked one beside it and a copy of
\* its first disc; a directory named for its title.
MCDiscs ==
  { [file |-> 1, dir |-> "psx", base |-> "ff", n |-> 1, id |-> "SCUS_941.63"],
    [file |-> 2, dir |-> "psx", base |-> "ff", n |-> 2, id |-> "SCUS_941.64"],
    [file |-> 3, dir |-> "psx", base |-> "ff", n |-> 0, id |-> "SLUS_900.28"],
    [file |-> 4, dir |-> "psx", base |-> "ff", n |-> 1, id |-> "SCUS_941.63"],
    [file |-> 5, dir |-> "mgs", base |-> "disc", n |-> 0, id |-> "SLUS_005.94"],
    [file |-> 6, dir |-> "mgs", base |-> "disc", n |-> 0, id |-> "SLUS_007.76"] }
MCDirTitle == [d \in {"psx", "mgs"} |-> d]
\* Two copies of a disc and of an image differ in their extensions, and one name is in
\* two directories.
MCNames == << "ff 1", "ff 2", "ff demo", "ff 1", "disc a", "disc b", "ico", "rez", "rez", "ico" >>
MCBases == << "ff 1.cue", "ff 2.cue", "ff demo.cue", "ff 1.bin", "disc a.cue", "disc b.cue",
              "ico.iso", "rez.iso", "rez.iso", "ico.7z" >>
Image2(f, id, title) == [platform |-> "PS2", id |-> id, file |-> f, title |-> title, discs |-> {}]
MCImages == {Image2(7, "SCUS_971.13", "ico"), Image2(8, "SCUS_971.13", "ico (backup)"),
             Image2(9, "SLUS_201.29", "rez"), Image2(10, "SCUS_971.13", "ico (copy)")}
MCInstalled2 == {Image2(0, "SCUS_971.13", "Ico"), Image2(0, "SLUS_201.29", "rez")}
MCInstalled1 == {[Image2(0, "SCUS_941.63", "ff") EXCEPT !.platform = "PS1"]}
MCPartOf == {<< "ico", "ico (backup)" >>}

\* Every set of discs, and every choice of the rest beside discs of one release.
MCLibraries ==
  {l \in Libraries : \/ l.images = {} /\ l.on2 = {}
                     \/ \A d \in l.discs : d.file \in 1 .. 2}

\* Rips: names in two cases, gaps declared in every number, tracks in one file or
\* in their own, and the shapes that are refused.
File(n, lower, size) == [name |-> [as |-> n, lower |-> lower], size |-> size]
FILE(n, lower) == [word |-> "FILE", name |-> [as |-> n, lower |-> lower], type |-> "BINARY"]
TRACK(n, mode) == [word |-> "TRACK", n |-> n, mode |-> mode]
INDEX(n, lba) == [word |-> "INDEX", n |-> n, at |-> MSFFromLBA(lba)]
GAP(word) == IF word = "" THEN << >> ELSE << [word |-> word] >>
Rip(shape, dir, lines, sections, volume) ==
  [shape |-> shape, dir |-> dir, lines |-> lines, sections |-> sections, volume |-> volume]
Cue(dir, lines) == Rip("cue", dir, lines, << >>, TRUE)

\* One file, three tracks; the second may be data, and may have an INDEX 00.
OneFile ==
  { Cue(<< File("A", "a", 2 * 4700) >>,
        << FILE("A", "a"), TRACK(1, "MODE2"), INDEX(1, 0), TRACK(2, mode) >>
        \o GAP(g2) \o (IF i0 THEN << INDEX(0, 220) >> ELSE << >>)
        \o << INDEX(1, 225 + 4275 * late), TRACK(3, "AUDIO") >> \o GAP(g3) \o << INDEX(1, 4600) >>) :
      mode \in {"MODE2", "AUDIO"}, g2 \in {"", "PREGAP"}, g3 \in {"", "PREGAP", "POSTGAP"},
      i0 \in BOOLEAN, late \in 0 .. 1 }
\* Three files, written in another case, of which one may be cut short.
Split ==
  { Cue(<< File("A", "a", 602), File("b", "b", size), File("c", "c", 300) >>,
        << FILE("a", "a"), TRACK(1, "MODE2"), INDEX(1, 0), FILE("B", "b"), TRACK(2, "AUDIO") >>
        \o GAP(g) \o << INDEX(0, 0), INDEX(1, 150), FILE(third, third), TRACK(3, "AUDIO"), INDEX(1, 0) >>) :
      size \in {401, 400}, g \in {"", "PREGAP"}, third \in {"c", "d"} }
Section(n, mode, lba0, lba1) ==
  [n |-> n, mode |-> mode, audio |-> mode = 0, lba0 |-> lba0, lba1 |-> lba1]
CloneCD ==
  { Rip("ccd", << File("i", "i", 900) >>, << >>,
        << Section(1, first, -150, 0), Section(2, second, 200, Absent) >>, TRUE) :
      first \in 1 .. 2, second \in {0, 3} }
Bare2 ==
  { Rip(shape, << File("r", "r", size) >>, << >>, << >>, volume) :
      shape \in {"bin", "nrg"}, size \in {0, 7, 600}, volume \in BOOLEAN }
Broken ==
  { Cue(<< File("A", "a", 600) >>, << INDEX(1, 0), FILE("A", "a"), TRACK(1, "MODE2") >>),
    Cue(<< File("A", "a", 600) >>,
        << FILE("A", "a"), TRACK(1, "MODE2"), INDEX(1, 0), TRACK(2, "AUDIO") >> \o GAP("PREGAP") \o << INDEX(1, 0) >>),
    Cue(<< File("A", "a", 600) >>, GAP("PREGAP") \o << FILE("A", "a"), TRACK(1, "MODE2"), TRACK(2, "AUDIO") >>),
    Cue(<< File("A", "a", 600) >>, << [FILE("A", "a") EXCEPT !.type = "WAVE"], TRACK(1, "MODE2") >>) }
MCRips == OneFile \cup Split \cup CloneCD \cup Bare2 \cup Broken

\* Archives: a disc read with either stride or, with the wrong one, to a descriptor
\* and no more; SYSTEM.CNF near, beyond the head, beyond the end or missing; the boot
\* file under its serial or not, alone or beside a name that looks like one.
Entry1(name, serial, dir, place, keys) ==
  [name |-> name, serial |-> serial, dir |-> dir, at |-> place, blocks |-> 1, keys |-> keys]
Cnf(place, key) == << Entry1("SYSTEM.CNF", "", FALSE, place, << [key |-> "VMODE", serial |-> ""],
                                                    [key |-> key, serial |-> "SLUS_202.16"] >>) >>
Roots ==
  { other \o boot \o cnf :
      other \in {<< >>, << Entry1("x", "SLES_500.01", FALSE, 25, << >>) >>,
                 << Entry1("SYSTEM.CNF", "", TRUE, 25, << >>) >>},
      boot  \in {<< Entry1("boot", "SLUS_202.16", FALSE, 26, << >>) >>, << Entry1("main", "", FALSE, 26, << >>) >>},
      cnf   \in {<< >>} \cup {Cnf(place, key) : place \in {24, 300, 900}, key \in {"BOOT", "BOOT2"}} }
Volume(descriptors, root, n, xa) ==
  [descriptors |-> descriptors, root |-> root, rootBlocks |-> n, rootAt |-> 20, xa |-> xa, size |-> 800]
Volumes ==
  { Volume(<< "other", "primary" >>, root, 1, xa) : root \in Roots, xa \in {"signed", "blank", "other"} }
  \cup { Volume(descriptors, Cnf(24, "BOOT"), n, "other") :
           descriptors \in {<< "primary" >>, << "end", "primary" >>, << "junk" >>}, n \in {0, 1, 9} }
Ghost == Volume(<< "primary" >>, << >>, 0, "other")
MCDumps ==
  { [plain |-> plain, raw |-> raw, size |-> size, blocks |-> 500, head |-> 100] :
      plain \in Volumes \cup {Absent}, raw \in {Absent, Ghost}, size \in {700, 1000} }
  \cup { [plain |-> plain, raw |-> raw, size |-> 1000, blocks |-> 500, head |-> head] :
           plain \in {Absent, Ghost}, raw \in Volumes, head \in {100, 30, 600} }
Member(n, lower, d) == [kind |-> "image", name |-> [as |-> n, lower |-> lower], size |-> d.size, disc |-> d]
Text(lines) == [kind |-> "cue", name |-> [as |-> "s", lower |-> "s"], size |-> 1, lines |-> lines]
AudioDisc == [plain |-> Absent, raw |-> Absent, size |-> 400, blocks |-> 200, head |-> 100]
CueOf(names, mode) ==
  << FILE(names[1], names[1]), TRACK(1, mode), INDEX(1, 0), FILE(names[2], names[2]),
     TRACK(2, "AUDIO"), [word |-> "PREGAP"], INDEX(1, 0) >>
MCArchives ==
  { << Member("A", "a", d) >> \o rest : d \in MCDumps,
      rest \in {<< >>, << Member("B", "b", AudioDisc), Text(CueOf(<< "a", "b" >>, "MODE2")) >>,
                << Member("B", "b", AudioDisc), Member("C", "c", AudioDisc),
                   Text(CueOf(<< "A", "b" >>, "MODE2")) >>} }
  \cup { << [kind |-> "archive"], Member("B", "b", d) >> \o rest : d \in {[plain |-> v, raw |-> Absent,
             size |-> 1000, blocks |-> 500, head |-> 100] : v \in Volumes},
           rest \in {<< Text(CueOf(<< "b", "c" >>, "MODE2")) >>, << Text(CueOf(<< "b", "b" >>, "MODE2")) >>,
                     << Text(CueOf(<< "b", "c" >>, "MODE1")) >>,
                     << Text(<< TRACK(1, "MODE2") >>) >>, << Member("C", "c", AudioDisc) >>} }
  \cup {<< [kind |-> "archive"] >>}

NoRip == /\ rip = Absent /\ at = "none" /\ header = Absent /\ done = 0 /\ needPad = FALSE
        /\ partial = Absent /\ vcd = Absent

\* A run scans, reconciles one library, converts one rip or looks into one archive.
Parked == /\ disk = NoDisk /\ edits = 0 /\ events = 0
          /\ mem = NoEntries /\ saved = NoEntries /\ dirty = FALSE
          /\ pc = [s \in Scans |-> "done"] /\ ctxDone = [s \in Scans |-> FALSE]
          /\ referenced = [s \in Scans |-> {}] /\ files = [s \in Scans |-> << >>]
          /\ fed = [s \in Scans |-> 0] /\ worker = [s \in Scans |-> NoWorkers(s)]
          /\ out = [s \in Scans |-> << >>] /\ told = [s \in Scans |-> NotTold]
          /\ began = [s \in Scans |-> NoDisk] /\ walked = [s \in Scans |-> NoWalk]

CatalogInit == \/ Init /\ library = NoLibrary /\ NoRip /\ archived = << >>
               \/ Parked /\ library \in MCLibraries /\ NoRip /\ archived = << >>
               \/ Parked /\ library = NoLibrary /\ VcdInit /\ archived = << >>
               \/ Parked /\ library = NoLibrary /\ NoRip /\ archived \in Archives

still == << library, archived >>
all == << vars, still, vcdVars >>

CatalogSpec == /\ CatalogInit
               /\ [][ (Next /\ UNCHANGED << still, vcdVars >>)
                      \/ (Convert /\ UNCHANGED << vars, still >>)]_all
               /\ \A s \in Scans : WF_all(Scan(s) /\ UNCHANGED << still, vcdVars >>)
==============================================================================
