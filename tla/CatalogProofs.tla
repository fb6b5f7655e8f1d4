---------------------------- MODULE CatalogProofs ----------------------------
(***************************************************************************)
(* What is guaranteed of the titles a user keeps, whatever the constants.  *)
(* SourceScan: a cache that tells the truth, listings no older than their  *)
(* scan, no entry lost but by a scan that has answered all its walk had in *)
(* sight, and answers that are a prefix of the listing but for what the    *)
(* other workers have in hand.  VcdConvert: for any sheet, files, sector and buffer, what the    *)
(* space check charges covers what is written, to the byte when the gaps   *)
(* declared are written, and each track starts where the header says.      *)
(* DiscImage: for any archive, its head tells the game, the medium and no  *)
(* less than the size that the files tell once unpacked.                   *)
(***************************************************************************)
EXTENDS SourceScan, DiscImage, FoldLemmas

(* What a scan tells. *)

Outcomes == Nat \X Nat
Records == [ver : Nat \ {0}, res : Outcomes]
Places == {"idle", "got", "inspect", "gone"}

\* Types, as far as the proofs need them.
Shape ==
  /\ edits \in Nat /\ disk \in [Files -> Nat]
  /\ mem \in [Files -> Records \cup {None}] /\ saved \in [Files -> Records \cup {None}]
  /\ pc \in [Scans -> {"idle", "collect", "feed", "wait", "save", "done"}]
  /\ ctxDone \in [Scans -> BOOLEAN]
  /\ files \in [Scans -> Seq(Files)]
  /\ out \in [Scans -> Seq(Outcomes \cup {None})]
  /\ fed \in [Scans -> Nat]
  /\ began \in [Scans -> [Files -> Nat]]
  /\ worker = [s \in Scans |-> worker[s]]
  /\ \A s \in Scans : worker[s] \in [Workers(s) -> [at : Places, i : Nat, ver : Nat]]

\* A worker with a file in hand.
Busy(s, w) == worker[s][w].at \in {"got", "inspect"}

\* What was fed is in the listing, and who works on it has looked at it.
InListing(s) ==
  /\ Len(out[s]) = Len(files[s]) /\ fed[s] <= Len(files[s])
  /\ \A w \in Workers(s) : Busy(s, w) => worker[s][w].i \in 1..fed[s]
  /\ \A w \in Workers(s) : worker[s][w].at = "inspect" => worker[s][w].ver # 0

\* No version is from the future, and a file that is there is no older than at the
\* beginning of a scan.
Dated ==
  /\ \A f \in Files : /\ disk[f] <= edits + 1
                      /\ mem[f] # None => mem[f].ver <= edits + 1
                      /\ saved[f] # None => saved[f].ver <= edits + 1
  /\ \A s \in Scans, f \in Files : /\ began[s][f] <= edits + 1
                                   /\ disk[f] # 0 => began[s][f] <= disk[f]
  /\ \A s \in Scans : \A w \in Workers(s) :
       worker[s][w].at = "inspect" => worker[s][w].ver <= edits + 1

\* What was fed is answered or in somebody's hands, unless the scan is interrupted.
Covered(s) ==
  /\ pc[s] \in {"idle", "collect", "done"} => fed[s] = 0 /\ Len(out[s]) = 0
  /\ pc[s] = "wait" /\ ~ctxDone[s] => fed[s] = Len(files[s])
  /\ \A i \in 1..fed[s] :
       \/ out[s][i] # None \/ ctxDone[s]
       \/ \E w \in Workers(s) : Busy(s, w) /\ worker[s][w].i = i

\* The inductive invariant.
SInv == /\ Shape /\ Dated /\ CacheTruth /\ ListedIsRecent
        /\ \A s \in Scans : InListing(s) /\ Covered(s)

-----------------------------------------------------------------------------
\* What a reading tells is an outcome, and true of the version it was made of.
LEMMA IdentityTells ==
  ASSUME Shape, NEW f \in Files
  PROVE  /\ Identity(f) \in Outcomes
         /\ disk[f] # 0 => Honest(f, Entry(disk[f], Identity(f)))
         /\ IsGame(Identity(f)) => disk[f] # 0 /\ Identity(f)[1] = disk[f]
<1> USE ScanAssumption DEF Shape, Outcomes
<1>1. Image[f] \in Files
  OBVIOUS
<1>2. Identity(f) \in {Fault, NoGame, <<disk[f], disk[Image[f]]>>}
  BY DEF Identity
<1>3. Identity(f) \in Outcomes
  BY <1>1, <1>2 DEF Fault, NoGame
<1>4. IsGame(Identity(f)) => disk[f] # 0 /\ Identity(f)[1] = disk[f]
  BY <1>1, <1>2 DEF IsGame, Failures, Identity
<1>5. ASSUME disk[f] # 0 PROVE Honest(f, Entry(disk[f], Identity(f)))
  <2>1. CASE Identity(f) = Fault
    BY <2>1 DEF Honest, Entry
  <2>2. CASE Identity(f) # Fault /\ \E g \in {f, Image[f]} : << g, disk[g] >> \in Junk
    <3>1. Identity(f) = NoGame
      BY <2>2 DEF Identity
    <3> QED BY <2>2, <3>1 DEF Honest, Entry
  <2>3. CASE Identity(f) # Fault /\ ~ \E g \in {f, Image[f]} : << g, disk[g] >> \in Junk
    <3>1. Identity(f) = <<disk[f], disk[Image[f]]>>
      BY <2>3 DEF Identity
    <3>2. Identity(f) # None /\ Identity(f) \notin Failures
      BY <1>3, <1>5, <3>1 DEF Failures, NoGame, Fault
    <3> QED BY <3>1, <3>2 DEF Honest, Entry, IsGame
  <2> QED BY <2>1, <2>2, <2>3
<1> QED BY <1>3, <1>4, <1>5

\* The listing of a walk is a sequence of the files it found.
LEMMA ListingIsSeq ==
  ASSUME NEW S \in SUBSET Files, NEW l \in Listings(S)
  PROVE  l \in Seq(Files) /\ Range(l) = S
<1>1. Cardinality(S) \in Nat
  BY ScanAssumption, FS_Subset, FS_CardinalityType
<1>2. l \in [1..Cardinality(S) -> S] /\ Range(l) = S
  BY DEF Listings
<1> QED BY <1>1, <1>2


-----------------------------------------------------------------------------
\* A worker that changes alone: what it may turn into, and what the rest needs.
LEMMA WorkerMoves ==
  ASSUME SInv, NEW s \in Scans, NEW w \in Workers(s), NEW to \in [at : Places, i : Nat, ver : Nat],
         Work(s, w, to)
  PROVE  /\ worker' = [r \in Scans |-> worker'[r]]
         /\ \A r \in Scans : worker'[r] \in [Workers(r) -> [at : Places, i : Nat, ver : Nat]]
         /\ \A r \in Scans : \A v \in Workers(r) :
              worker'[r][v] = IF r = s /\ v = w THEN to ELSE worker[r][v]
BY DEF SInv, Shape, Work

\* An answer that is reported is one more element of the scan's outcomes.
LEMMA AnswerIsKept ==
  ASSUME SInv, NEW s \in Scans, NEW i \in 1..Len(files[s]), NEW r \in Outcomes, Report(s, i, r)
  PROVE  /\ out' \in [Scans -> Seq(Outcomes \cup {None})]
         /\ \A q \in Scans : Len(out'[q]) = Len(out[q])
         /\ \A q \in Scans : \A j \in DOMAIN out[q] :
              out'[q][j] = IF q = s /\ j = i THEN r ELSE out[q][j]
<1> USE DEF SInv, Shape, InListing
<1>1. out[s] \in Seq(Outcomes \cup {None}) /\ i \in 1..Len(out[s])
  OBVIOUS
<1>2. [out[s] EXCEPT ![i] = r] \in Seq(Outcomes \cup {None}) /\ Len([out[s] EXCEPT ![i] = r]) = Len(out[s])
  BY <1>1
<1>3. out' = [out EXCEPT ![s] = [out[s] EXCEPT ![i] = r]]
  BY DEF Report
<1> QED BY <1>1, <1>2, <1>3

\* What a worker has in hand is a file of the listing.
LEMMA InHand ==
  ASSUME SInv, NEW s \in Scans, NEW w \in Workers(s), Busy(s, w)
  PROVE  /\ worker[s][w].i \in 1..Len(files[s]) /\ worker[s][w].i \in 1..fed[s]
         /\ files[s][worker[s][w].i] \in Files
         /\ worker[s][w] \in [at : Places, i : Nat, ver : Nat]
<1> USE DEF SInv, Shape, InListing
<1>1. worker[s][w].i \in 1..fed[s] /\ fed[s] <= Len(files[s]) /\ fed[s] \in Nat /\ files[s] \in Seq(Files)
  OBVIOUS
<1> QED BY <1>1

\* One answer, of a worker that had the file in hand, true of that file and no older
\* than the scan: the listing stays as it has to be.
LEMMA AnswerStep ==
  ASSUME SInv, NEW s \in Scans, NEW w \in Workers(s), Busy(s, w), NEW r \in Outcomes,
         Work(s, w, Idle), Report(s, worker[s][w].i, r),
         IsGame(r) => r[1] >= began[s][files[s][worker[s][w].i]],
         UNCHANGED << disk, edits, pc, ctxDone, files, fed, began >>
  PROVE  /\ out' \in [Scans -> Seq(Outcomes \cup {None})]
         /\ ListedIsRecent' /\ \A q \in Scans : InListing(q)' /\ Covered(q)'
<1> DEFINE i == worker[s][w].i
<1>1. /\ i \in 1..Len(files[s]) /\ i \in 1..fed[s] /\ files[s][i] \in Files
  BY InHand
<1>2. /\ out' \in [Scans -> Seq(Outcomes \cup {None})]
      /\ \A q \in Scans : Len(out'[q]) = Len(out[q])
      /\ \A q \in Scans : \A j \in DOMAIN out[q] :
           out'[q][j] = IF q = s /\ j = i THEN r ELSE out[q][j]
  BY <1>1, AnswerIsKept
<1>3. Idle \in [at : Places, i : Nat, ver : Nat] /\ Idle.at = "idle"
  BY DEF Idle, Places
<1>4. \A q \in Scans : \A v \in Workers(q) :
        worker'[q][v] = IF q = s /\ v = w THEN Idle ELSE worker[q][v]
  BY <1>3, WorkerMoves
<1>5. ListedIsRecent'
  <2>1. \A q \in Scans : DOMAIN out'[q] = DOMAIN out[q]
    BY <1>2 DEF SInv, Shape
  <2>2. ASSUME NEW q \in Scans, NEW j \in DOMAIN out[q], IsGame(out'[q][j])
        PROVE  out'[q][j][1] >= began[q][files[q][j]]
    <3>1. CASE q = s /\ j = i
      BY <1>2, <2>2, <3>1
    <3>2. CASE ~ (q = s /\ j = i)
      BY <1>2, <2>2, <3>2 DEF SInv, ListedIsRecent
    <3> QED BY <3>1, <3>2
  <2> QED BY <2>1, <2>2 DEF ListedIsRecent, IsGame
<1>6. ASSUME NEW q \in Scans PROVE InListing(q)'
  <2>1. Len(out'[q]) = Len(files'[q]) /\ fed'[q] <= Len(files'[q])
    BY <1>2 DEF InListing, SInv
  <2>2. ASSUME NEW v \in Workers(q), worker'[q][v].at # "idle"
        PROVE  worker'[q][v] = worker[q][v]
    BY <1>3, <1>4, <2>2
  <2> QED BY <2>1, <2>2 DEF InListing, SInv, Busy
<1>7. ASSUME NEW q \in Scans PROVE Covered(q)'
  <2>1. \A j \in 1..fed[q] : j \in DOMAIN out[q]
    BY DEF SInv, InListing, Shape
  <2>2. r # None
    BY ScanAssumption DEF Outcomes
  <2>3. ASSUME NEW j \in 1..fed[q], out'[q][j] = None, ~ctxDone[q]
        PROVE  \E v \in Workers(q) : Busy(q, v)' /\ worker'[q][v].i = j
    <3>1. out[q][j] = None /\ ~ (q = s /\ j = i)
      BY <1>2, <2>1, <2>2, <2>3
    <3>2. PICK v \in Workers(q) : Busy(q, v) /\ worker[q][v].i = j
      BY <2>3, <3>1 DEF SInv, Covered
    <3> QED BY <1>4, <3>1, <3>2 DEF Busy
  <2>4. UNCHANGED << pc, ctxDone, files, fed >> /\ Len(out'[q]) = Len(out[q]) /\ Covered(q)
    BY <1>2 DEF SInv
  <2> QED BY <2>3, <2>4 DEF Covered
<1> QED BY <1>2, <1>5, <1>6, <1>7

\* A scan that returns leaves nothing of its own behind.
LEMMA ReturnedStep ==
  ASSUME SInv, NEW S \in SUBSET Scans, Returned(S), UNCHANGED << disk, edits >>
  PROVE  /\ pc' \in [Scans -> {"idle", "collect", "feed", "wait", "save", "done"}]
         /\ ctxDone' \in [Scans -> BOOLEAN] /\ files' \in [Scans -> Seq(Files)]
         /\ out' \in [Scans -> Seq(Outcomes \cup {None})] /\ fed' \in [Scans -> Nat]
         /\ began' \in [Scans -> [Files -> Nat]] /\ worker' = [q \in Scans |-> worker'[q]]
         /\ \A q \in Scans : worker'[q] \in [Workers(q) -> [at : Places, i : Nat, ver : Nat]]
         /\ ListedIsRecent' /\ \A q \in Scans : InListing(q)' /\ Covered(q)'
         /\ \A q \in Scans, f \in Files :
              began'[q][f] <= edits + 1 /\ (disk[f] # 0 => began'[q][f] <= disk[f])
         /\ \A q \in Scans : \A w \in Workers(q) :
              worker'[q][w].at = "inspect" => worker'[q][w].ver <= edits + 1
<1> USE DEF SInv, Shape
<1>1. << >> \in Seq(Files) /\ << >> \in Seq(Outcomes \cup {None}) /\ Len(<< >>) = 0 /\ DOMAIN << >> = {}
  OBVIOUS
<1>2. \A q \in Scans : /\ NoWorkers(q) \in [Workers(q) -> [at : Places, i : Nat, ver : Nat]]
                       /\ \A w \in Workers(q) : NoWorkers(q)[w].at = "idle"
  BY DEF NoWorkers, Idle, Places
<1>3. \A f \in Files : NoDisk[f] = 0
  BY DEF NoDisk
<1>4. NoDisk \in [Files -> Nat]
  BY DEF NoDisk
<1>5. ASSUME NEW q \in Scans
      PROVE  IF q \in S THEN /\ pc'[q] = "done" /\ ~ctxDone'[q] /\ files'[q] = << >> /\ fed'[q] = 0
                             /\ worker'[q] = NoWorkers(q) /\ out'[q] = << >> /\ began'[q] = NoDisk
             ELSE /\ pc'[q] = pc[q] /\ ctxDone'[q] = ctxDone[q] /\ files'[q] = files[q] /\ fed'[q] = fed[q]
                  /\ worker'[q] = worker[q] /\ out'[q] = out[q] /\ began'[q] = began[q]
  BY DEF Returned
<1>6. /\ pc' \in [Scans -> {"idle", "collect", "feed", "wait", "save", "done"}]
      /\ ctxDone' \in [Scans -> BOOLEAN] /\ files' \in [Scans -> Seq(Files)]
      /\ fed' \in [Scans -> Nat]
  BY <1>1 DEF Returned
<1>7. out' \in [Scans -> Seq(Outcomes \cup {None})]
  BY <1>1 DEF Returned
<1>8. began' \in [Scans -> [Files -> Nat]]
  BY <1>4 DEF Returned
<1>9. worker' = [q \in Scans |-> worker'[q]]
  BY DEF Returned
<1>10. ASSUME NEW q \in Scans
       PROVE  /\ worker'[q] \in [Workers(q) -> [at : Places, i : Nat, ver : Nat]]
              /\ \A w \in Workers(q) : worker'[q][w].at = "inspect" => worker'[q][w].ver <= edits + 1
  BY <1>2, <1>5 DEF Dated
<1>11. ListedIsRecent'
  BY <1>1, <1>5 DEF ListedIsRecent
<1>12. ASSUME NEW q \in Scans PROVE InListing(q)' /\ Covered(q)'
  <2>1. CASE q \in S
    BY <1>1, <1>2, <1>5, <2>1 DEF InListing, Covered, Busy
  <2>2. CASE q \notin S
    BY SMTT(30), <1>5, <2>2 DEF InListing, Covered, Busy
  <2> QED BY <2>1, <2>2
<1>13. ASSUME NEW q \in Scans, NEW f \in Files
       PROVE  began'[q][f] <= edits + 1 /\ (disk[f] # 0 => began'[q][f] <= disk[f])
  <2>1. began'[q] = NoDisk \/ began'[q] = began[q]
    BY <1>5
  <2> QED BY <1>3, <2>1 DEF Dated
<1> QED BY <1>6, <1>7, <1>8, <1>9, <1>10, <1>11, <1>12, <1>13

-----------------------------------------------------------------------------
\* The steps of a scan that change neither the cache nor an answer.
LEMMA QuietSteps ==
  ASSUME SInv, NEW s \in Scans, Begin(s) \/ FeedEnds(s) \/ Cancel(s)
  PROVE  SInv'
<1> USE DEF SInv
<1>1. UNCHANGED << disk, edits, cache, files, fed, worker, out >>
  BY DEF Begin, FeedEnds, Cancel, diskVars
<1>2. Shape'
  BY ZenonT(30), <1>1 DEF Shape, Begin, FeedEnds, Cancel, cache
<1>3. CacheTruth'
  BY <1>1 DEF CacheTruth, Honest, IsGame, cache
<1>4. Dated'
  <2>1. CASE Begin(s)
    BY <1>1, <2>1 DEF Begin, Dated, Shape, cache
  <2>2. CASE FeedEnds(s) \/ Cancel(s)
    BY <1>1, <2>2 DEF FeedEnds, Cancel, Dated, cache
  <2> QED BY <2>1, <2>2
<1>5. \A q \in Scans : InListing(q)'
  BY <1>1 DEF InListing, Busy
<1>6. ListedIsRecent'
  <2>1. CASE Begin(s)
    <3>1. DOMAIN out[s] = {}
      BY <2>1 DEF Begin, Covered, Shape
    <3>2. ASSUME NEW q \in Scans, NEW i \in DOMAIN out[q], IsGame(out[q][i])
          PROVE  out[q][i][1] >= began'[q][files[q][i]]
      <4>1. CASE q = s
        BY <3>1, <3>2, <4>1
      <4>2. CASE q # s
        BY <2>1, <3>2, <4>2 DEF Begin, ListedIsRecent, Shape
      <4> QED BY <4>1, <4>2
    <3> QED BY <1>1, <3>2 DEF ListedIsRecent, IsGame
  <2>2. CASE FeedEnds(s) \/ Cancel(s)
    BY <1>1, <2>2 DEF FeedEnds, Cancel, ListedIsRecent
  <2> QED BY <2>1, <2>2
<1>7. ASSUME NEW q \in Scans PROVE Covered(q)'
  <2>1. \A i \in 1..fed[q] : \A v \in Workers(q) : Busy(q, v)' <=> Busy(q, v)
    BY <1>1 DEF Busy
  <2>2. CASE Begin(s)
    <3>1. UNCHANGED ctxDone /\ (q # s => pc'[q] = pc[q]) /\ (q = s => pc[q] = "idle" /\ pc'[q] = "collect")
      BY <2>2 DEF Begin, Shape
    <3> QED BY <1>1, <2>1, <3>1 DEF Covered
  <2>3. CASE FeedEnds(s)
    <3>1. /\ UNCHANGED ctxDone /\ (q # s => pc'[q] = pc[q])
          /\ (q = s => pc'[q] = "wait" /\ (fed[q] = Len(files[q]) \/ ctxDone[q]))
      BY <2>3 DEF FeedEnds, Shape
    <3> QED BY <1>1, <2>1, <3>1 DEF Covered
  <2>4. CASE Cancel(s)
    <3>1. UNCHANGED pc /\ (q # s => ctxDone'[q] = ctxDone[q]) /\ (q = s => ctxDone'[q])
      BY <2>4 DEF Cancel, Shape
    <3> QED BY <1>1, <2>1, <3>1 DEF Covered
  <2> QED BY <2>2, <2>3, <2>4
<1> QED BY <1>2, <1>3, <1>4, <1>5, <1>6, <1>7

\* The walk makes the listing; nothing of it is answered or handed out yet.
LEMMA CollectStep ==
  ASSUME SInv, NEW s \in Scans, Collect(s)
  PROVE  SInv'
<1> USE DEF SInv
<1> PICK hidden \in SUBSET Folders : \E l \in Listings(InSight(hidden) \ referenced[s]) :
         /\ files' = [files EXCEPT ![s] = l]
         /\ out' = [out EXCEPT ![s] = [i \in DOMAIN l |-> None]]
  BY DEF Collect
<1>1. PICK l \in Listings(InSight(hidden) \ referenced[s]) :
         /\ files' = [files EXCEPT ![s] = l]
         /\ out' = [out EXCEPT ![s] = [i \in DOMAIN l |-> None]]
  OBVIOUS
<1>2. UNCHANGED << disk, edits, mem, saved, ctxDone, fed, worker, began >>
  BY DEF Collect, diskVars, cache
<1>3. l \in Seq(Files)
  BY <1>1, ListingIsSeq DEF InSight, There
<1>4. /\ [i \in DOMAIN l |-> None] \in Seq(Outcomes \cup {None})
      /\ Len([i \in DOMAIN l |-> None]) = Len(l) /\ DOMAIN [i \in DOMAIN l |-> None] = DOMAIN l
  BY <1>3
<1>5. fed[s] = 0 /\ pc[s] = "collect" /\ pc' = [pc EXCEPT ![s] = "feed"]
  BY DEF Collect, Covered
<1>6. Shape'
  BY <1>1, <1>2, <1>3, <1>4, <1>5 DEF Shape
<1>7. Dated' /\ CacheTruth'
  BY <1>2 DEF Dated, CacheTruth, Honest, IsGame
<1>8. ListedIsRecent'
  <2>1. ASSUME NEW q \in Scans, NEW i \in DOMAIN out'[q], IsGame(out'[q][i])
        PROVE  out'[q][i][1] >= began'[q][files'[q][i]]
    <3>1. CASE q = s
      BY <1>1, <1>4, <2>1, <3>1 DEF IsGame, Shape
    <3>2. CASE q # s
      BY <1>1, <1>2, <2>1, <3>2 DEF ListedIsRecent, Shape
    <3> QED BY <3>1, <3>2
  <2> QED BY <2>1 DEF ListedIsRecent, IsGame
<1>9. ASSUME NEW q \in Scans PROVE InListing(q)' /\ Covered(q)'
  <2>1. CASE q = s
    <3>1. /\ files'[s] = l /\ Len(out'[s]) = Len(l) /\ fed'[s] = 0 /\ pc'[s] = "feed"
          /\ worker'[s] = worker[s] /\ Len(l) \in Nat
      BY <1>1, <1>2, <1>3, <1>4, <1>5 DEF Shape
    <3> QED BY <1>5, <2>1, <3>1 DEF InListing, Covered, Busy
  <2>2. CASE q # s
    BY <1>1, <1>2, <1>5, <2>2 DEF InListing, Covered, Busy, Shape
  <2> QED BY <2>1, <2>2
<1> QED BY <1>6, <1>7, <1>8, <1>9

\* A file goes from the feed to a worker, and one from a worker to nobody once the scan
\* is interrupted.
LEMMA HandStep ==
  ASSUME SInv, NEW s \in Scans, NEW w \in Workers(s), Hand(s, w) \/ GoHome(s, w) \/ LookFresh(s, w)
  PROVE  SInv'
<1> USE DEF SInv
<1>1. UNCHANGED << disk, edits, mem, saved, pc, ctxDone, files, out, began >>
  BY DEF Hand, GoHome, LookFresh, diskVars, cache
<1>2. fed' \in [Scans -> Nat] /\ \A q \in Scans \ {s} : fed'[q] = fed[q]
  <2>1. CASE Hand(s, w)
    BY SMTT(30), <2>1 DEF Hand, Shape
  <2>2. CASE GoHome(s, w) \/ LookFresh(s, w)
    BY <2>2 DEF GoHome, LookFresh, Shape
  <2> QED BY <2>1, <2>2
<1>3. PICK to \in [at : Places, i : Nat, ver : Nat] :
         /\ Work(s, w, to)
         /\ \/ Hand(s, w) /\ to.at = "got" /\ to.i = fed[s] + 1 /\ fed'[s] = fed[s] + 1
            \/ GoHome(s, w) /\ to.at = "gone" /\ fed'[s] = fed[s]
            \/ /\ LookFresh(s, w) /\ to.at = "inspect" /\ to.i = worker[s][w].i /\ fed'[s] = fed[s]
               /\ to.ver = disk[files[s][worker[s][w].i]]
  <2>1. CASE Hand(s, w)
    <3> DEFINE to == [Idle EXCEPT !.at = "got", !.i = fed'[s]]
    <3>1. to \in [at : Places, i : Nat, ver : Nat] /\ to.at = "got" /\ to.i = fed'[s] /\ fed'[s] = fed[s] + 1
      BY <2>1, <1>2 DEF Hand, Idle, Places, Shape
    <3> QED BY <2>1, <3>1 DEF Hand, Work
  <2>2. CASE GoHome(s, w)
    <3>1. Gone \in [at : Places, i : Nat, ver : Nat] /\ Gone.at = "gone"
      BY DEF Gone, Idle, Places
    <3> QED BY <2>2, <3>1 DEF GoHome, Shape
  <2>3. CASE LookFresh(s, w)
    <3> DEFINE f == files[s][worker[s][w].i]
               to == [worker[s][w] EXCEPT !.at = "inspect", !.ver = disk[f]]
    <3>1. f \in Files /\ worker[s][w] \in [at : Places, i : Nat, ver : Nat]
      BY <2>3, InHand DEF LookFresh, Busy
    <3>2. /\ to \in [at : Places, i : Nat, ver : Nat] /\ to.at = "inspect" /\ to.i = worker[s][w].i
          /\ to.ver = disk[f]
      BY <3>1 DEF Places, Shape
    <3> QED BY <2>3, <3>2 DEF LookFresh
  <2> QED BY <2>1, <2>2, <2>3
<1>4. /\ worker' = [r \in Scans |-> worker'[r]]
      /\ \A r \in Scans : worker'[r] \in [Workers(r) -> [at : Places, i : Nat, ver : Nat]]
      /\ \A r \in Scans : \A v \in Workers(r) :
           worker'[r][v] = IF r = s /\ v = w THEN to ELSE worker[r][v]
  BY <1>3, WorkerMoves
<1>5. Shape'
  BY <1>1, <1>2, <1>4 DEF Shape
<1>6. CacheTruth' /\ ListedIsRecent'
  BY <1>1 DEF CacheTruth, Honest, IsGame, ListedIsRecent
<1>7. Dated'
  <2>1. to.at = "inspect" => to.ver <= edits + 1
    BY <1>3, InHand DEF LookFresh, Busy, Dated
  <2> QED BY <1>1, <1>4, <2>1 DEF Dated
<1>8. to.at = "inspect" => to.ver # 0
  BY <1>3 DEF LookFresh
<1>9. fed'[s] <= Len(files[s]) /\ fed[s] <= fed'[s] /\ fed[s] \in Nat /\ fed'[s] \in Nat
  BY <1>2, <1>3 DEF Hand, InListing, Shape
<1>10. to.at \in {"got", "inspect"} => to.i \in 1..fed'[s]
  <2>1. LookFresh(s, w) => worker[s][w].i \in 1..fed[s]
    BY InHand DEF LookFresh, Busy
  <2> QED BY <1>3, <1>9, <2>1
<1>11. ASSUME NEW q \in Scans PROVE InListing(q)'
  <2>1. ASSUME NEW v \in Workers(q)
        PROVE  /\ worker'[q][v].at \in {"got", "inspect"} => worker'[q][v].i \in 1..fed'[q]
               /\ worker'[q][v].at = "inspect" => worker'[q][v].ver # 0
    <3>1. CASE q = s /\ v = w
      BY <1>4, <1>8, <1>10, <3>1
    <3>2. CASE ~ (q = s /\ v = w)
      <4>1. worker'[q][v] = worker[q][v]
        BY <1>4, <3>2
      <4>2. fed[q] \in Nat /\ fed'[q] \in Nat /\ fed[q] <= fed'[q]
        <5>1. CASE q = s
          BY <1>9, <5>1
        <5>2. CASE q # s
          <6>1. fed'[q] = fed[q] /\ fed[q] \in Nat
            BY <1>2, <5>2 DEF Shape
          <6> QED BY <6>1
        <5> QED BY <5>1, <5>2
      <4>3. /\ worker[q][v].at \in {"got", "inspect"} => worker[q][v].i \in 1..fed[q]
            /\ worker[q][v].at = "inspect" => worker[q][v].ver # 0
        BY DEF InListing, Busy
      <4> QED BY <4>1, <4>2, <4>3
    <3> QED BY <3>1, <3>2
  <2>2. Len(out'[q]) = Len(files'[q]) /\ fed'[q] <= Len(files'[q])
    BY <1>1, <1>2, <1>9 DEF InListing
  <2> QED BY <2>1, <2>2 DEF InListing, Busy
<1>12. ASSUME NEW q \in Scans PROVE Covered(q)'
  <2>1. CASE q # s
    <3>1. \A v \in Workers(q) : Busy(q, v)' <=> Busy(q, v)
      BY <1>4, <2>1 DEF Busy
    <3>2. \A v \in Workers(q) : worker'[q][v].i = worker[q][v].i
      BY <1>4, <2>1
    <3>3. fed'[q] = fed[q] /\ Covered(q)
      BY <1>2, <2>1
    <3> QED BY <1>1, <3>1, <3>2, <3>3 DEF Covered
  <2>2. CASE q = s
    <3>1. /\ pc[s] \in {"idle", "collect", "done"} => fed'[s] = 0
          /\ pc[s] = "wait" /\ ~ctxDone[s] => fed'[s] = Len(files[s])
          /\ pc[s] \in {"idle", "collect", "done"} => Len(out[s]) = 0
      <4>1. CASE Hand(s, w)
        BY <4>1 DEF Hand
      <4>2. CASE ~ Hand(s, w)
        BY <1>3, <4>2 DEF Covered
      <4> QED BY <4>1, <4>2
    <3>2. ASSUME NEW j \in 1..fed'[s], out[s][j] = None, ~ctxDone[s]
          PROVE  \E v \in Workers(s) : worker'[s][v].at \in {"got", "inspect"} /\ worker'[s][v].i = j
      <4>1. ~ GoHome(s, w)
        BY <3>2 DEF GoHome
      <4>2. CASE j = fed[s] + 1
        <5>1. Hand(s, w)
          BY <1>3, <1>9, <3>2, <4>1, <4>2
        <5>2. to.at = "got" /\ to.i = j
          BY <1>3, <4>2, <5>1 DEF Hand, GoHome, LookFresh
        <5> QED BY <1>4, <5>2
      <4>3. CASE j \in 1..fed[s]
        <5>1. PICK v \in Workers(s) : Busy(s, v) /\ worker[s][v].i = j
          BY <3>2, <4>3 DEF Covered
        <5>2. CASE v = w
          <6>1. LookFresh(s, w)
            BY <1>3, <4>1, <5>1, <5>2 DEF Hand, Busy
          <6> QED BY <1>3, <1>4, <5>1, <5>2, <6>1 DEF Hand, LookFresh, GoHome
        <5>3. CASE v # w
          BY <1>4, <5>1, <5>3 DEF Busy
        <5> QED BY <5>2, <5>3
      <4>4. j \in 1..fed[s] \/ j = fed[s] + 1
        BY <1>3, <1>9
      <4> QED BY <4>2, <4>3, <4>4
    <3> QED BY <1>1, <2>2, <3>1, <3>2 DEF Covered, Busy
  <2> QED BY <2>1, <2>2
<1> QED BY <1>5, <1>6, <1>7, <1>11, <1>12

\* What AnswerStep leaves to show of the whole invariant.
LEMMA AnswerKeeps ==
  ASSUME SInv, NEW s \in Scans, NEW w \in Workers(s), Busy(s, w), NEW r \in Outcomes,
         Work(s, w, Idle), Report(s, worker[s][w].i, r),
         IsGame(r) => r[1] >= began[s][files[s][worker[s][w].i]],
         UNCHANGED << disk, edits, saved, pc, ctxDone, files, fed, began >>,
         mem' \in [Files -> Records \cup {None}], CacheTruth',
         \A f \in Files : mem'[f] # None => mem'[f].ver <= edits + 1
  PROVE  SInv'
<1>1. /\ out' \in [Scans -> Seq(Outcomes \cup {None})]
      /\ ListedIsRecent' /\ \A q \in Scans : InListing(q)' /\ Covered(q)'
  BY AnswerStep
<1>2. Idle \in [at : Places, i : Nat, ver : Nat] /\ Idle.at = "idle"
  BY DEF Idle, Places
<1>3. /\ worker' = [q \in Scans |-> worker'[q]]
      /\ \A q \in Scans : worker'[q] \in [Workers(q) -> [at : Places, i : Nat, ver : Nat]]
      /\ \A q \in Scans : \A v \in Workers(q) :
           worker'[q][v] = IF q = s /\ v = w THEN Idle ELSE worker[q][v]
  BY <1>2, WorkerMoves
<1>4. Shape'
  BY <1>1, <1>3 DEF SInv, Shape
<1>5. \A q \in Scans : \A v \in Workers(q) :
        worker'[q][v].at = "inspect" => worker'[q][v] = worker[q][v]
  BY <1>2, <1>3
<1>6. Dated'
  BY <1>5 DEF SInv, Dated
<1> QED BY <1>1, <1>4, <1>6 DEF SInv

\* A file that is gone, and one the cache knows.
LEMMA LookStep ==
  ASSUME SInv, NEW s \in Scans, NEW w \in Workers(s), LookMissing(s, w) \/ LookCached(s, w)
  PROVE  SInv'
<1> DEFINE i == worker[s][w].i
           f == files[s][i]
<1>1. Busy(s, w) /\ f \in Files
  BY InHand DEF LookMissing, LookCached, Busy
<1>2. UNCHANGED << disk, edits, mem, saved, pc, ctxDone, files, fed, began >> /\ Work(s, w, Idle)
  BY DEF LookMissing, LookCached, diskVars, cache
<1>3. PICK r \in Outcomes : Report(s, i, r) /\ (IsGame(r) => r[1] >= began[s][f])
  <2>1. CASE LookMissing(s, w)
    <3>1. Fault \in Outcomes /\ ~ IsGame(Fault)
      BY DEF Fault, Outcomes, IsGame, Failures
    <3> QED BY <2>1, <3>1 DEF LookMissing
  <2>2. CASE LookCached(s, w)
    <3> DEFINE r == mem[f].res
    <3>1. mem[f] # None /\ mem[f].ver = disk[f] /\ disk[f] # 0 /\ Report(s, i, r)
      BY <2>2 DEF LookCached, Fresh
    <3>2. mem[f] \in Records
      BY <1>1, <3>1 DEF SInv, Shape
    <3>3. r \in Outcomes
      BY <3>2 DEF Records
    <3>4. ASSUME IsGame(r) PROVE r[1] = disk[f]
      <4>1. Honest(f, mem[f])
        BY <1>1 DEF SInv, CacheTruth
      <4> QED BY <3>1, <3>4, <4>1 DEF Honest, IsGame, Failures
    <3>5. began[s][f] <= disk[f] /\ began[s][f] \in Nat /\ disk[f] \in Nat
      BY <1>1, <3>1 DEF SInv, Dated, Shape
    <3> QED BY <3>1, <3>3, <3>4, <3>5
  <2> QED BY <2>1, <2>2
<1>4. CacheTruth'
  BY <1>2 DEF SInv, CacheTruth, Honest, IsGame
<1>5. mem' \in [Files -> Records \cup {None}] /\ \A g \in Files : mem'[g] # None => mem'[g].ver <= edits + 1
  BY <1>2 DEF SInv, Shape, Dated
<1> QED BY <1>1, <1>2, <1>3, <1>4, <1>5, AnswerKeeps

\* What a worker reads of its file goes into the cache under the version seen before.
LEMMA InspectStep ==
  ASSUME SInv, NEW s \in Scans, NEW w \in Workers(s), Inspect(s, w)
  PROVE  SInv' /\ \A g \in Files : mem[g] # None => mem'[g] # None
<1> DEFINE i == worker[s][w].i
           f == files[s][i]
           v == worker[s][w].ver
<1>1. Busy(s, w) /\ f \in Files /\ v \in Nat \ {0} /\ v <= edits + 1
  BY InHand DEF Inspect, Busy, SInv, InListing, Dated
<1>2. UNCHANGED << disk, edits, saved, pc, ctxDone, files, fed, began >>
  BY DEF Inspect
<1>3. PICK r \in {Identity(f), Fault} :
         mem' = [mem EXCEPT ![f] = Entry(v, r)] /\ Work(s, w, Idle) /\ Report(s, i, r)
  BY DEF Inspect
<1>4. r \in Outcomes /\ (IsGame(r) => disk[f] # 0 /\ r[1] = disk[f])
  <2>1. Fault \in Outcomes /\ ~ IsGame(Fault)
    BY DEF Fault, Outcomes, IsGame, Failures
  <2> QED BY <1>1, <2>1, IdentityTells DEF SInv
<1>5. Entry(v, r) \in Records /\ Entry(v, r).ver = v /\ Entry(v, r).res = r
  BY <1>1, <1>4 DEF Entry, Records
<1>6. Entry(v, r) # None
  BY <1>5, ScanAssumption DEF Records, Outcomes
<1>7. /\ mem' \in [Files -> Records \cup {None}]
      /\ \A g \in Files : mem'[g] = IF g = f THEN Entry(v, r) ELSE mem[g]
  BY <1>1, <1>3, <1>5 DEF SInv, Shape
<1>8. \A g \in Files : mem'[g] # None => mem'[g].ver <= edits + 1
  BY <1>1, <1>5, <1>7 DEF SInv, Dated
<1>9. Honest(f, Entry(v, r))
  <2>1. CASE r = Fault
    BY <1>5, <2>1 DEF Honest
  <2>2. CASE r = Identity(f) /\ v = disk[f]
    <3>1. disk[f] # 0
      BY <1>1, <2>2
    <3> QED BY <1>1, <2>2, <3>1, IdentityTells DEF SInv
  <2>3. CASE v # disk[f]
    BY <1>5, <2>3 DEF Honest
  <2> QED BY <1>3, <2>1, <2>2, <2>3
<1>10. CacheTruth'
  <2>1. ASSUME NEW g \in Files PROVE Honest(g, mem'[g]) /\ Honest(g, saved[g])
    BY <1>7, <1>9 DEF SInv, CacheTruth
  <2> QED BY <1>2, <2>1 DEF CacheTruth, Honest, IsGame
<1>11. IsGame(r) => r[1] >= began[s][f]
  BY <1>1, <1>4 DEF SInv, Dated, Shape
<1>12. SInv'
  BY <1>1, <1>2, <1>3, <1>4, <1>7, <1>8, <1>10, <1>11, AnswerKeeps
<1> QED BY <1>6, <1>7, <1>12

-----------------------------------------------------------------------------
\* Once every worker has come home, nothing that was fed is left open.
LEMMA AllAnswered ==
  ASSUME SInv, NEW s \in Scans, pc[s] = "wait", ~ctxDone[s],
         \A w \in Workers(s) : worker[s][w].at \in {"idle", "gone"}
  PROVE  /\ Range(files[s]) = Seen(s) /\ Answered(s) = DOMAIN files[s]
         /\ Cardinality(Answered(s)) = Len(files[s])
<1> USE DEF SInv, Shape
<1>1. fed[s] = Len(files[s]) /\ Len(out[s]) = Len(files[s]) /\ files[s] \in Seq(Files)
      /\ out[s] \in Seq(Outcomes \cup {None})
  BY DEF Covered, InListing
<1>2. \A i \in 1..Len(files[s]) : out[s][i] # None
  BY <1>1 DEF Covered, Busy
<1>3. DOMAIN files[s] = 1..Len(files[s]) /\ DOMAIN out[s] = 1..Len(files[s]) /\ Len(files[s]) \in Nat
  BY <1>1
<1>4. Answered(s) = 1..Len(files[s])
  BY <1>2, <1>3 DEF Answered
<1>5. Range(files[s]) = Seen(s)
  <2>1. {j \in DOMAIN files[s] : out[s][j] # None} = DOMAIN files[s]
    BY <1>2, <1>3
  <2>2. Range(files[s]) = {files[s][i] : i \in DOMAIN files[s]}
    BY DEF Range
  <2> QED BY <2>1, <2>2 DEF Seen
<1>6. Cardinality(1..Len(files[s])) = Len(files[s])
  <2> HIDE DEF SInv, Shape
  <2> DEFINE n == Len(files[s])
  <2>1. n \in Nat
    BY <1>3
  <2> HIDE DEF n
  <2>2. Cardinality(1..n) = n
    BY <2>1, FS_Interval
  <2> QED BY <2>2 DEF n
<1> QED BY <1>3, <1>4, <1>5, <1>6

\* What a scan that was let run drops: its listing does not have the file, and every
\* file it has is answered.
Missed(s, f) ==
  /\ pc[s] = "wait" /\ pc'[s] = "save" /\ ~ctxDone[s] /\ f \notin Range(files[s])
  /\ \A g \in Range(files[s]) : \E i \in Answered(s) : files[s][i] = g

\* Pruning takes entries away and invents none; what it takes a whole scan did not list.
LEMMA PruneStep ==
  ASSUME SInv, NEW s \in Scans, Prune(s)
  PROVE  /\ SInv'
         /\ \A f \in Files : mem[f] # None /\ mem'[f] = None => Missed(s, f)
<1> USE DEF SInv
<1>1. /\ UNCHANGED << disk, edits, saved, ctxDone, files, fed, worker, out, began >>
      /\ pc[s] = "wait" /\ pc' = [pc EXCEPT ![s] = "save"]
  BY DEF Prune, diskVars
<1>2. \A f \in Files : mem'[f] \in {mem[f], None}
  BY DEF Prune
<1>3. mem' \in [Files -> Records \cup {None}]
  BY DEF Prune, Shape
<1>4. Shape'
  BY <1>1, <1>3 DEF Shape
<1>5. Dated'
  BY <1>1, <1>2 DEF Dated
<1>6. CacheTruth'
  <2>1. ASSUME NEW f \in Files PROVE Honest(f, mem'[f]) /\ Honest(f, saved[f])
    <3>1. CASE mem'[f] = None
      BY <3>1 DEF CacheTruth, Honest
    <3>2. CASE mem'[f] = mem[f]
      BY <3>2 DEF CacheTruth
    <3> QED BY <1>2, <3>1, <3>2
  <2> QED BY <1>1, <2>1 DEF CacheTruth, Honest, IsGame
<1>7. ListedIsRecent'
  BY <1>1 DEF ListedIsRecent, IsGame
<1>8. ASSUME NEW q \in Scans PROVE InListing(q)' /\ Covered(q)'
  <2>1. InListing(q)'
    BY <1>1 DEF InListing, Busy
  <2>2. pc'[q] = pc[q] \/ pc'[q] = "save"
    BY <1>1 DEF Shape
  <2>3. \A v \in Workers(q) : Busy(q, v)' <=> Busy(q, v)
    BY <1>1 DEF Busy
  <2> QED BY <1>1, <2>1, <2>2, <2>3 DEF Covered
<1>9. ASSUME NEW f \in Files, mem[f] # None, mem'[f] = None
      PROVE  Missed(s, f)
  <2>1. ~ctxDone[s] /\ f \notin Seen(s)
    BY <1>9 DEF Prune
  <2>2. \A w \in Workers(s) : worker[s][w].at \in {"idle", "gone"}
    BY DEF Prune
  <2>3. Answered(s) = DOMAIN files[s] /\ f \notin Range(files[s])
    BY <1>1, <2>1, <2>2, AllAnswered
  <2>4. \A g \in Range(files[s]) : \E i \in DOMAIN files[s] : files[s][i] = g
    BY DEF Range
  <2>5. pc'[s] = "save"
    BY <1>1 DEF Shape
  <2> QED BY <1>1, <2>1, <2>3, <2>4, <2>5 DEF Missed
<1> QED BY <1>4, <1>5, <1>6, <1>7, <1>8, <1>9

\* A scan that returns, and a program that is started anew.
LEMMA ReturnStep ==
  ASSUME SInv, NEW S \in SUBSET Scans, Returned(S), UNCHANGED << disk, edits >>,
         mem' \in {mem, saved}, saved' \in {mem, saved}
  PROVE  SInv'
<1> USE DEF SInv
<1>1. Shape'
  BY ReturnedStep DEF Shape
<1>2. Dated'
  <2>1. \A f \in Files : /\ disk'[f] <= edits' + 1
                         /\ mem'[f] # None => mem'[f].ver <= edits' + 1
                         /\ saved'[f] # None => saved'[f].ver <= edits' + 1
    BY DEF Dated
  <2>2. /\ \A q \in Scans, f \in Files :
             began'[q][f] <= edits' + 1 /\ (disk'[f] # 0 => began'[q][f] <= disk'[f])
        /\ \A q \in Scans : \A w \in Workers(q) :
             worker'[q][w].at = "inspect" => worker'[q][w].ver <= edits' + 1
    BY ReturnedStep
  <2> QED BY <2>1, <2>2 DEF Dated
<1>3. CacheTruth'
  <2>1. ASSUME NEW f \in Files PROVE Honest(f, mem'[f]) /\ Honest(f, saved'[f])
    BY DEF CacheTruth
  <2> QED BY <2>1 DEF CacheTruth, Honest, IsGame
<1> QED BY <1>1, <1>2, <1>3, ReturnedStep

\* An emptied cache says nothing that is not so.
LEMMA ClearStep == ASSUME SInv, Clear PROVE SInv'
<1> USE DEF SInv
<1>1. UNCHANGED << disk, edits, pc, ctxDone, files, fed, worker, out, began >>
  BY DEF Clear, scanVars
<1>2. mem' = NoEntries /\ saved' = NoEntries
  BY DEF Clear
<1>3. Shape'
  BY <1>1, <1>2 DEF Shape, NoEntries
<1>4. Dated' /\ CacheTruth'
  BY <1>1, <1>2 DEF Dated, CacheTruth, Honest, NoEntries
<1>5. ListedIsRecent'
  BY <1>1 DEF ListedIsRecent, IsGame
<1>6. \A q \in Scans : InListing(q)' /\ Covered(q)'
  BY <1>1 DEF InListing, Covered, Busy
<1> QED BY <1>3, <1>4, <1>5, <1>6

\* A file changes: no entry is of its new version, and that version is later than any scan.
LEMMA EditStep == ASSUME SInv, NEW f \in Files, Edit(f) PROVE SInv'
<1> USE DEF SInv
<1>1. UNCHANGED << mem, saved, pc, ctxDone, files, fed, worker, out, began >> /\ edits' = edits + 1
  BY DEF Edit, scanVars, cache
<1>2. PICK v \in {0, edits + 2} : disk' = [disk EXCEPT ![f] = v]
  BY DEF Edit
<1>3. edits \in Nat /\ \A g \in Files : disk'[g] = IF g = f THEN v ELSE disk[g]
  BY <1>2 DEF Shape
<1>4. Shape'
  BY <1>1, <1>2 DEF Shape
<1>5. Dated'
  <2>1. ASSUME NEW g \in Files
        PROVE  /\ disk'[g] <= edits' + 1
               /\ mem'[g] # None => mem'[g].ver <= edits' + 1
               /\ saved'[g] # None => saved'[g].ver <= edits' + 1
    <3>1. /\ disk[g] \in Nat /\ disk[g] <= edits + 1
          /\ mem[g] # None => mem[g].ver \in Nat /\ mem[g].ver <= edits + 1
          /\ saved[g] # None => saved[g].ver \in Nat /\ saved[g].ver <= edits + 1
      BY DEF Dated, Shape, Records
    <3> QED BY <1>1, <1>3, <3>1
  <2>2. ASSUME NEW q \in Scans, NEW g \in Files
        PROVE  began'[q][g] <= edits' + 1 /\ (disk'[g] # 0 => began'[q][g] <= disk'[g])
    <3>1. began[q][g] \in Nat /\ began[q][g] <= edits + 1 /\ (disk[g] # 0 => began[q][g] <= disk[g])
      BY DEF Dated, Shape
    <3> QED BY <1>1, <1>3, <3>1
  <2>3. ASSUME NEW q \in Scans, NEW w \in Workers(q), worker'[q][w].at = "inspect"
        PROVE  worker'[q][w].ver <= edits' + 1
    <3>1. worker[q][w].ver \in Nat /\ worker[q][w].ver <= edits + 1
      BY <1>1, <2>3 DEF Dated, Shape
    <3> QED BY <1>1, <1>3, <3>1
  <2> QED BY <2>1, <2>2, <2>3 DEF Dated
<1>6. CacheTruth'
  <2>1. ASSUME NEW g \in Files, NEW e \in Records \cup {None}, Honest(g, e),
               e # None => e.ver <= edits + 1
        PROVE  Honest(g, e)'
    <3>1. CASE g # f
      BY <1>3, <2>1, <3>1 DEF Honest, IsGame
    <3>2. CASE g = f /\ e # None
      <4>1. e.ver \in Nat \ {0}
        BY <3>2 DEF Records
      <4>2. e.ver # disk'[g]
        BY <1>3, <2>1, <3>2, <4>1
      <4> QED BY <4>2 DEF Honest
    <3>3. CASE e = None
      BY <3>3 DEF Honest
    <3> QED BY <3>1, <3>2, <3>3
  <2>2. ASSUME NEW g \in Files PROVE Honest(g, mem[g])' /\ Honest(g, saved[g])'
    <3>1. Honest(g, mem[g])'
      BY <1>1, <2>1 DEF CacheTruth, Dated, Shape
    <3>2. Honest(g, saved[g])'
      BY <1>1, <2>1 DEF CacheTruth, Dated, Shape
    <3> QED BY <3>1, <3>2
  <2> QED BY <2>2 DEF CacheTruth
<1>7. ListedIsRecent'
  BY <1>1 DEF ListedIsRecent, IsGame
<1>8. \A q \in Scans : InListing(q)' /\ Covered(q)'
  BY <1>1 DEF InListing, Covered, Busy
<1> QED BY <1>4, <1>5, <1>6, <1>7, <1>8

-----------------------------------------------------------------------------
\* Before anything runs.
LEMMA InitScan == Init => SInv
<1> SUFFICES ASSUME Init PROVE SInv
  OBVIOUS
<1>1. /\ edits = 0 /\ mem = NoEntries /\ saved = NoEntries
      /\ pc = [s \in Scans |-> "idle"] /\ ctxDone = [s \in Scans |-> FALSE]
      /\ files = [s \in Scans |-> << >>] /\ fed = [s \in Scans |-> 0]
      /\ worker = [s \in Scans |-> NoWorkers(s)] /\ out = [s \in Scans |-> << >>]
      /\ began = [s \in Scans |-> NoDisk]
  BY DEF Init
<1>2. disk \in [Files -> Nat] /\ \A f \in Files : disk[f] <= 1
  BY DEF Init
<1>3. << >> \in Seq(Files) /\ << >> \in Seq(Outcomes \cup {None}) /\ Len(<< >>) = 0 /\ DOMAIN << >> = {}
  OBVIOUS
<1>4. \A s \in Scans : /\ NoWorkers(s) \in [Workers(s) -> [at : Places, i : Nat, ver : Nat]]
                       /\ \A w \in Workers(s) : NoWorkers(s)[w].at = "idle"
  BY DEF NoWorkers, Idle, Places
<1>5. NoDisk \in [Files -> Nat] /\ \A f \in Files : NoDisk[f] = 0
  BY DEF NoDisk
<1>6. Shape
  BY <1>1, <1>2, <1>3, <1>4, <1>5 DEF Shape, NoEntries
<1>7. Dated /\ CacheTruth
  BY <1>1, <1>2, <1>4, <1>5 DEF Dated, CacheTruth, Honest, NoEntries
<1>8. ListedIsRecent
  BY <1>1, <1>3 DEF ListedIsRecent
<1>9. \A s \in Scans : InListing(s) /\ Covered(s)
  BY <1>1, <1>3, <1>4 DEF InListing, Covered, Busy
<1> QED BY <1>6, <1>7, <1>8, <1>9 DEF SInv

\* No scan runs, as after a restart.
AllOver == \A s \in Scans : pc'[s] \in {"idle", "done"}

\* Every step keeps the invariant and takes no entry that a whole scan did not miss.
LEMMA NextScan ==
  ASSUME SInv, [Next]_vars
  PROVE  /\ SInv'
         /\ \A f \in Files : mem[f] # None /\ mem'[f] = None =>
              AllOver \/ \E s \in Scans : Missed(s, f)
<1>1. ASSUME NEW s \in Scans, Begin(s) \/ FeedEnds(s) \/ Cancel(s) PROVE SInv' /\ mem' = mem
  BY <1>1, QuietSteps DEF Begin, FeedEnds, Cancel, cache
<1>2. ASSUME NEW s \in Scans, Collect(s) PROVE SInv' /\ mem' = mem
  BY <1>2, CollectStep DEF Collect, cache
<1>3. ASSUME NEW s \in Scans, NEW w \in Workers(s), Hand(s, w) \/ GoHome(s, w) \/ LookFresh(s, w)
      PROVE  SInv' /\ mem' = mem
  BY <1>3, HandStep DEF Hand, GoHome, LookFresh, cache
<1>4. ASSUME NEW s \in Scans, NEW w \in Workers(s), LookMissing(s, w) \/ LookCached(s, w)
      PROVE  SInv' /\ mem' = mem
  BY <1>4, LookStep DEF LookMissing, LookCached, cache
<1>5. ASSUME NEW s \in Scans, Save(s) \/ RootGone(s) PROVE SInv' /\ mem' = mem
  <2>1. {s} \in SUBSET Scans /\ Returned({s}) /\ UNCHANGED << disk, edits, mem >> /\ saved' \in {mem, saved}
    BY <1>5 DEF Save, RootGone, cache
  <2> QED BY <2>1, ReturnStep
<1>6. ASSUME Restart PROVE SInv' /\ AllOver
  <2> DEFINE S == {s \in Scans : pc[s] # "idle"}
  <2>1. S \in SUBSET Scans /\ Returned(S) /\ UNCHANGED << disk, edits, saved >> /\ mem' = saved
    BY <1>6 DEF Restart
  <2>2. AllOver
    BY <2>1 DEF AllOver, Returned
  <2> HIDE DEF S
  <2> QED BY <2>1, <2>2, ReturnStep
<1>7. ASSUME Clear PROVE SInv' /\ AllOver
  <2>1. AllOver
    BY <1>7 DEF Clear, scanVars, AllOver
  <2> QED BY <1>7, <2>1, ClearStep
<1>8. ASSUME NEW f \in Files, Edit(f) PROVE SInv' /\ mem' = mem
  BY <1>8, EditStep DEF Edit, cache
<1>9. ASSUME UNCHANGED vars PROVE SInv' /\ mem' = mem
  <2>1. UNCHANGED << disk, edits, mem, saved, pc, ctxDone, files, fed, worker, out, began >>
    BY <1>9 DEF vars, diskVars, cache, scanVars
  <2>2. Shape' /\ Dated' /\ CacheTruth' /\ ListedIsRecent'
    BY <2>1 DEF SInv, Shape, Dated, CacheTruth, Honest, ListedIsRecent, IsGame
  <2>3. \A q \in Scans : InListing(q)' /\ Covered(q)'
    BY <2>1 DEF SInv, InListing, Covered, Busy
  <2> QED BY <2>1, <2>2, <2>3 DEF SInv
<1>10. CASE \E s \in Scans : \E w \in Workers(s) : Inspect(s, w)
  BY <1>10, InspectStep
<1>11. CASE \E s \in Scans : Prune(s)
  BY <1>11, PruneStep
<1>12. CASE ~ (\E s \in Scans : Prune(s) \/ \E w \in Workers(s) : Inspect(s, w))
  <2>1. SInv' /\ (mem' = mem \/ AllOver)
    BY <1>1, <1>2, <1>3, <1>4, <1>5, <1>6, <1>7, <1>8, <1>9, <1>12 DEF Next, Scan, Worker
  <2> QED BY <2>1
<1> QED BY <1>10, <1>11, <1>12

\* The inductive invariant holds throughout: types, dates, what is fed and who has it.
THEOREM ScanInductive == Spec => []SInv
<1>1. Init => SInv
  BY InitScan
<1>2. SInv /\ [Next]_vars => SInv'
  BY NextScan
<1> QED BY <1>1, <1>2, PTL DEF Spec

\* The cache serves nothing its own file does not hold (catalog/cache.go, Entry.fresh),
\* for any number of scans sharing it.
THEOREM CacheIsTrue == Spec => []CacheTruth
<1>1. SInv => CacheTruth
  BY DEF SInv
<1> QED BY <1>1, ScanInductive, PTL

\* A scan lists no game its file no longer held when the scan began, from the cache or read.
THEOREM ListingIsRecent == Spec => []ListedIsRecent
<1>1. SInv => ListedIsRecent
  BY DEF SInv
<1> QED BY <1>1, ScanInductive, PTL

\* The listing is what the walk had in sight and no sheet spoke for, until the scan ends.
WInv ==
  /\ walked = [s \in Scans |-> walked[s]] /\ referenced = [s \in Scans |-> referenced[s]]
  /\ \A s \in Scans : pc[s] \in {"feed", "wait", "save"} => Range(files[s]) = Walked(s)

\* Steps that leave a listing, its walk and what is spoken for as they are.
LEMMA WalkStays ==
  ASSUME WInv, UNCHANGED << walked, referenced, files >>,
         \A s \in Scans : pc'[s] \in {"feed", "wait", "save"} => pc[s] \in {"feed", "wait", "save"}
  PROVE  WInv'
BY DEF WInv, Walked

LEMMA WalkReturns ==
  ASSUME WInv, NEW S \in SUBSET Scans, Returned(S)
  PROVE  WInv'
<1>1. walked' = [s \in Scans |-> walked'[s]] /\ referenced' = [s \in Scans |-> referenced'[s]]
  BY DEF Returned
<1>2. ASSUME NEW s \in Scans, pc'[s] \in {"feed", "wait", "save"} PROVE Range(files'[s]) = Walked(s)'
  <2>1. s \notin S /\ pc'[s] = pc[s]
    BY <1>2 DEF Returned
  <2>2. walked'[s] = walked[s] /\ referenced'[s] = referenced[s] /\ files'[s] = files[s]
    BY <2>1 DEF Returned
  <2> QED BY <1>2, <2>1, <2>2 DEF WInv, Walked
<1> QED BY <1>1, <1>2 DEF WInv

LEMMA WalkListed ==
  ASSUME SInv, WInv, NEW s \in Scans, Collect(s)
  PROVE  WInv'
<1>1. PICK hidden \in SUBSET Folders :
         /\ walked' = [walked EXCEPT ![s] = [there |-> There, hidden |-> hidden]]
         /\ \E l \in Listings(InSight(hidden) \ referenced[s]) : files' = [files EXCEPT ![s] = l]
  BY DEF Collect
<1>2. PICK l \in Listings(InSight(hidden) \ referenced[s]) : files' = [files EXCEPT ![s] = l]
  BY <1>1
<1>3. UNCHANGED referenced /\ pc' = [pc EXCEPT ![s] = "feed"]
  BY DEF Collect
<1>4. walked'[s] = [there |-> There, hidden |-> hidden] /\ \A q \in Scans \ {s} : walked'[q] = walked[q]
  BY <1>1 DEF WInv
<1>5. files'[s] = l /\ \A q \in Scans \ {s} : files'[q] = files[q] /\ pc'[q] = pc[q]
  BY <1>2, <1>3 DEF SInv, Shape
<1>6. Range(l) = InSight(hidden) \ referenced[s]
  BY <1>2, ListingIsSeq DEF InSight, There
<1>7. Walked(s)' = InSight(hidden) \ referenced[s]
  BY <1>3, <1>4 DEF Walked, InSight
<1>8. \A q \in Scans \ {s} : Walked(q)' = Walked(q)
  BY <1>3, <1>4 DEF Walked
<1>9. walked' = [q \in Scans |-> walked'[q]] /\ referenced' = [q \in Scans |-> referenced'[q]]
  BY <1>1, <1>3 DEF WInv
<1> QED BY <1>5, <1>6, <1>7, <1>8, <1>9 DEF WInv

LEMMA NextWalk == ASSUME SInv, WInv, [Next]_vars PROVE WInv'
<1>1. ASSUME NEW s \in Scans, Begin(s) PROVE WInv'
  <2>1. /\ UNCHANGED << walked, files >> /\ pc' = [pc EXCEPT ![s] = "collect"]
        /\ \E R : referenced' = [referenced EXCEPT ![s] = R]
    BY <1>1 DEF Begin
  <2>2. /\ \A q \in Scans \ {s} : pc'[q] = pc[q] /\ referenced'[q] = referenced[q]
        /\ pc'[s] = "collect"
    BY <2>1 DEF SInv, Shape, WInv
  <2>3. \A q \in Scans \ {s} : Walked(q)' = Walked(q)
    BY <2>1, <2>2 DEF Walked
  <2>4. referenced' = [q \in Scans |-> referenced'[q]]
    BY <2>1 DEF WInv
  <2> QED BY <2>1, <2>2, <2>3, <2>4 DEF WInv
<1>2. ASSUME NEW s \in Scans, FeedEnds(s) \/ Cancel(s) \/ Prune(s) PROVE WInv'
  <2>1. UNCHANGED << walked, referenced, files >>
    BY <1>2 DEF FeedEnds, Cancel, Prune
  <2>2. /\ pc[s] \in {"feed", "wait"} /\ \E a \in {"wait", "save"} : pc' = [pc EXCEPT ![s] = a]
        \/ UNCHANGED pc
    BY <1>2 DEF FeedEnds, Cancel, Prune
  <2>3. \A q \in Scans : pc'[q] \in {"feed", "wait", "save"} => pc[q] \in {"feed", "wait", "save"}
    BY <2>2 DEF SInv, Shape
  <2> QED BY <2>1, <2>3, WalkStays
<1>3. ASSUME NEW s \in Scans, NEW w \in Workers(s), Hand(s, w) \/ Worker(s, w) PROVE WInv'
  <2>1. UNCHANGED << walked, referenced, files, pc >>
    BY <1>3 DEF Hand, Worker, GoHome, LookMissing, LookCached, LookFresh, Inspect
  <2> QED BY <2>1, WalkStays
<1>4. ASSUME NEW s \in Scans, Save(s) \/ RootGone(s) PROVE WInv'
  <2>1. {s} \in SUBSET Scans /\ Returned({s})
    BY <1>4 DEF Save, RootGone
  <2> QED BY <2>1, WalkReturns
<1>5. ASSUME Restart PROVE WInv'
  <2> DEFINE S == {s \in Scans : pc[s] # "idle"}
  <2>1. S \in SUBSET Scans /\ Returned(S)
    BY <1>5 DEF Restart
  <2> HIDE DEF S
  <2> QED BY <2>1, WalkReturns
<1>6. ASSUME Clear \/ (\E f \in Files : Edit(f)) \/ UNCHANGED vars PROVE WInv'
  <2>1. UNCHANGED << walked, referenced, files, pc >>
    BY <1>6 DEF Clear, Edit, vars, scanVars
  <2> QED BY <2>1, WalkStays
<1>7. ASSUME NEW s \in Scans, Collect(s) PROVE WInv'
  BY <1>7, WalkListed
<1> QED BY <1>1, <1>2, <1>3, <1>4, <1>5, <1>6, <1>7 DEF Next, Scan

LEMMA InitWalk == Init => WInv
<1>1. Init => /\ walked = [s \in Scans |-> NoWalk] /\ referenced = [s \in Scans |-> {}]
              /\ pc = [s \in Scans |-> "idle"]
  BY DEF Init
<1> QED BY <1>1 DEF WInv

\* While the program runs, an entry is dropped only by a scan that was let run and has an
\* answer for every file its own walk had in sight and no sheet spoke for, and the dropped
\* one is none of those (source.go, the Prune after wg.Wait): it was not there then, was
\* spoken for, or lay in a directory that the walk could not read.
THEOREM PruneIsSafe == Spec => PrunedWasGone
<1> DEFINE Safe == \A f \in Files : mem[f] # None /\ mem'[f] = None =>
       \/ \A s \in Scans : pc'[s] \in {"idle", "done"}
       \/ \E s \in Scans : /\ pc[s] = "wait" /\ pc'[s] = "save" /\ ~ctxDone[s]
                           /\ f \notin Walked(s)
                           /\ \A g \in Walked(s) : \E i \in Answered(s) : files[s][i] = g
<1>1. SInv /\ WInv /\ [Next]_vars => [Safe]_vars
  <2> SUFFICES ASSUME SInv, WInv, [Next]_vars PROVE Safe
    OBVIOUS
  <2>1. ASSUME NEW f \in Files, mem[f] # None, mem'[f] = None
        PROVE  AllOver \/ \E s \in Scans : Missed(s, f)
    BY <2>1, NextScan
  <2>2. ASSUME NEW f \in Files, NEW s \in Scans, Missed(s, f)
        PROVE  /\ pc[s] = "wait" /\ pc'[s] = "save" /\ ~ctxDone[s] /\ f \notin Walked(s)
               /\ \A g \in Walked(s) : \E i \in Answered(s) : files[s][i] = g
    BY <2>2 DEF Missed, WInv
  <2> QED BY <2>1, <2>2 DEF AllOver
<1>2. Init => WInv
  BY InitWalk
<1>3. SInv /\ WInv /\ [Next]_vars => WInv'
  BY NextWalk
<1>4. Spec => [][Safe]_vars
  BY <1>1, <1>2, <1>3, ScanInductive, PTL DEF Spec
<1> QED BY <1>4 DEF PrunedWasGone

-----------------------------------------------------------------------------
(* How far a scan has come: the files handed out and not answered yet, and the  *)
(* workers that are not waiting for one.                                       *)
Unanswered(s) == {i \in 1..fed[s] : out[s][i] = None}
Off(s) == {w \in Workers(s) : worker[s][w].at # "idle"}

\* Who works on what: nobody on an answered file, no two on the same, and nobody
\* once the scan is over; nothing beyond the feed is answered.
Held(s) ==
  /\ \A w \in Workers(s) : Busy(s, w) => out[s][worker[s][w].i] = None
  /\ \A v, w \in Workers(s) :
       Busy(s, v) /\ Busy(s, w) /\ worker[s][v].i = worker[s][w].i => v = w
  /\ \A i \in DOMAIN out[s] : i > fed[s] => out[s][i] = None
  /\ pc[s] = "save" => \A w \in Workers(s) : ~Busy(s, w)

\* AnsweredIsPrefix, of one scan.
Prefix(s) ==
  LET holes == {i \in 1..told[s].path : i \notin Answered(s)} IN
  /\ Cardinality(holes) < Concurrency[s]
  /\ told[s].done = Cardinality(Answered(s))
  /\ pc[s] = "save" /\ ~ctxDone[s] => told[s].done = Len(files[s])

\* Every open file is accounted for by a worker: the one that has it, or one that
\* dropped it and went home.
Progress(s) ==
  /\ told[s] \in [done : Nat, path : Nat] /\ told[s].path <= fed[s]
  /\ Held(s) /\ Prefix(s)
  /\ Cardinality(Unanswered(s)) <= Cardinality(Off(s))

PInv == told = [s \in Scans |-> told[s]] /\ \A s \in Scans : Progress(s)

\* A step that moves no file of a scan and frees or takes up no worker of it.
LEMMA ProgressStays ==
  ASSUME NEW q \in Scans, Progress(q), fed'[q] = fed[q], out'[q] = out[q],
         told'[q] = told[q], files'[q] = files[q],
         \A v \in Workers(q) : /\ worker'[q][v].at = "idle" <=> worker[q][v].at = "idle"
                               /\ Busy(q, v)' => Busy(q, v) /\ worker'[q][v].i = worker[q][v].i,
         pc'[q] = "save" => \A v \in Workers(q) : ~Busy(q, v),
         pc'[q] = "save" /\ ~ctxDone'[q] =>
           (pc[q] = "save" /\ ~ctxDone[q]) \/ Cardinality(Answered(q)) = Len(files[q])
  PROVE  Progress(q)'
<1>1. Answered(q)' = Answered(q)
  BY DEF Answered
<1>2. Unanswered(q)' = Unanswered(q) /\ Off(q)' = Off(q)
  BY DEF Unanswered, Off
<1>3. Held(q)'
  BY DEF Progress, Held
<1>4. Prefix(q)'
  BY <1>1 DEF Progress, Prefix
<1> QED BY <1>2, <1>3, <1>4 DEF Progress

\* Finite sets of a scan, and their sizes.
LEMMA ScanSets ==
  ASSUME SInv, NEW q \in Scans
  PROVE  /\ IsFiniteSet(Unanswered(q)) /\ Cardinality(Unanswered(q)) \in Nat
         /\ IsFiniteSet(Off(q)) /\ Cardinality(Off(q)) \in Nat
         /\ IsFiniteSet(Answered(q)) /\ Cardinality(Answered(q)) \in Nat
         /\ IsFiniteSet(Workers(q)) /\ Cardinality(Workers(q)) = Concurrency[q]
         /\ Concurrency[q] \in Nat \ {0}
<1>1. /\ Concurrency[q] \in Nat \ {0} /\ fed[q] \in Nat /\ Len(out[q]) \in Nat
      /\ DOMAIN out[q] = 1..Len(out[q])
  BY ScanAssumption DEF SInv, Shape
<1>2. IsFiniteSet(Workers(q)) /\ Cardinality(Workers(q)) = Concurrency[q]
  <2> DEFINE c == Concurrency[q]
  <2>1. c \in Nat \ {0}
    BY <1>1
  <2> HIDE DEF c
  <2>2. IsFiniteSet(1..c) /\ Cardinality(1..c) = c
    BY <2>1, FS_Interval
  <2> QED BY <2>2 DEF c, Workers
<1>3. IsFiniteSet(1..fed[q]) /\ IsFiniteSet(1..Len(out[q]))
  <2>1. ASSUME NEW n \in Nat PROVE IsFiniteSet(1..n)
    BY FS_Interval
  <2> QED BY <1>1, <2>1
<1>4. /\ Unanswered(q) \in SUBSET (1..fed[q]) /\ Off(q) \in SUBSET Workers(q)
      /\ Answered(q) \in SUBSET (1..Len(out[q]))
  BY <1>1 DEF Unanswered, Off, Answered
<1>5. IsFiniteSet(Unanswered(q)) /\ IsFiniteSet(Off(q)) /\ IsFiniteSet(Answered(q))
  BY <1>2, <1>3, <1>4, FS_Subset
<1> QED BY <1>1, <1>2, <1>5, FS_CardinalityType

\* The feed hands a file to a worker that waited: one more open, one more not waiting.
LEMMA HandProgress ==
  ASSUME SInv, NEW s \in Scans, NEW w \in Workers(s), Hand(s, w), Progress(s)
  PROVE  Progress(s)'
<1> DEFINE n == fed[s] + 1
           to == [Idle EXCEPT !.at = "got", !.i = fed'[s]]
<1>1. /\ worker[s][w].at = "idle" /\ pc[s] = "feed" /\ fed[s] < Len(files[s])
      /\ worker' = [worker EXCEPT ![s][w] = to]
      /\ UNCHANGED << pc, ctxDone, files, out, told >>
  BY DEF Hand
<1>2. /\ fed[s] \in Nat /\ fed'[s] = n /\ n \in DOMAIN out[s] /\ Len(out[s]) \in Nat
      /\ n <= Len(files[s])
  BY <1>1 DEF Hand, SInv, Shape, InListing
<1>3. to \in [at : Places, i : Nat, ver : Nat] /\ to.at = "got" /\ to.i = n
  <2>1. fed'[s] \in Nat /\ fed'[s] = n
    BY <1>2
  <2> HIDE DEF n
  <2>2. to \in [at : Places, i : Nat, ver : Nat] /\ to.at = "got" /\ to.i = fed'[s]
    BY <2>1 DEF Idle, Places
  <2> QED BY <2>1, <2>2
<1>4. \A v \in Workers(s) : worker'[s][v] = IF v = w THEN to ELSE worker[s][v]
  BY <1>1, <1>3, WorkerMoves DEF Work
<1> HIDE DEF to, n
<1>5. Answered(s)' = Answered(s)
  BY <1>1 DEF Answered
<1>6. Prefix(s)'
  BY <1>1, <1>5 DEF Progress, Prefix
<1>7. \A v \in Workers(s) : Busy(s, v) => worker[s][v].i \in 1..fed[s]
  BY DEF SInv, InListing
<1>8. out[s][n] = None
  BY <1>2 DEF Progress, Held, n
<1>9. Held(s)'
  <2>1. ASSUME NEW v \in Workers(s), Busy(s, v)' PROVE out'[s][worker'[s][v].i] = None
    BY <1>1, <1>3, <1>4, <1>8, <2>1 DEF Progress, Held, Busy
  <2>2. ASSUME NEW u \in Workers(s), NEW v \in Workers(s), Busy(s, u)', Busy(s, v)',
               worker'[s][u].i = worker'[s][v].i
        PROVE  u = v
    <3>1. CASE u # w /\ v # w
      BY <1>4, <2>2, <3>1 DEF Progress, Held, Busy
    <3>2. CASE u = w /\ v # w
      <4>1. worker[s][v].i \in 1..fed[s] /\ worker[s][v].i = n
        BY <1>3, <1>4, <1>7, <2>2, <3>2 DEF Busy
      <4> QED BY <1>2, <4>1 DEF n
    <3>3. CASE u # w /\ v = w
      <4>1. worker[s][u].i \in 1..fed[s] /\ worker[s][u].i = n
        BY <1>3, <1>4, <1>7, <2>2, <3>3 DEF Busy
      <4> QED BY <1>2, <4>1 DEF n
    <3> QED BY <3>1, <3>2, <3>3
  <2>3. ASSUME NEW i \in DOMAIN out[s], i > n PROVE out[s][i] = None
    <3>1. i > fed[s]
      BY <1>2, <2>3 DEF n, SInv, Shape
    <3> QED BY <3>1 DEF Progress, Held
  <2> QED BY <1>1, <1>2, <2>1, <2>2, <2>3 DEF Held
<1>10. Unanswered(s)' = Unanswered(s) \cup {n}
  BY <1>1, <1>2, <1>8 DEF Unanswered, n
<1>11. Off(s)' = Off(s) \cup {w} /\ w \notin Off(s)
  BY <1>1, <1>3, <1>4 DEF Off
<1>12. n \notin Unanswered(s)
  BY <1>2 DEF Unanswered, n
<1>13. /\ Cardinality(Unanswered(s)') = Cardinality(Unanswered(s)) + 1
       /\ Cardinality(Off(s)') = Cardinality(Off(s)) + 1
  BY <1>10, <1>11, <1>12, ScanSets, FS_AddElement
<1>14. told'[s].path <= fed'[s] /\ told'[s] \in [done : Nat, path : Nat]
  BY <1>1, <1>2 DEF Progress, n
<1> QED BY <1>6, <1>9, <1>13, <1>14, ScanSets DEF Progress

\* A worker answers the file it has and waits for another: one less open, and of the
\* files below the furthest reported only those of the other workers are.
LEMMA AnswerProgress ==
  ASSUME SInv, NEW s \in Scans, NEW w \in Workers(s), Busy(s, w), NEW r \in Outcomes,
         Work(s, w, Idle), Report(s, worker[s][w].i, r),
         UNCHANGED << pc, ctxDone, files, fed >>, told = [q \in Scans |-> told[q]], Progress(s)
  PROVE  Progress(s)'
<1> DEFINE i == worker[s][w].i
<1>1. i \in 1..Len(files[s]) /\ i \in 1..fed[s] /\ i \in 1..Len(out[s]) /\ out[s][i] = None
  BY InHand DEF Progress, Held, SInv, InListing
<1>2. /\ Len(out'[s]) = Len(out[s]) /\ DOMAIN out[s] = 1..Len(out[s])
      /\ \A j \in DOMAIN out[s] : out'[s][j] = IF j = i THEN r ELSE out[s][j]
      /\ DOMAIN out'[s] = DOMAIN out[s]
  <2>1. i \in 1..Len(files[s]) /\ Report(s, i, r)
    BY <1>1
  <2>2. /\ out' \in [Scans -> Seq(Outcomes \cup {None})] /\ Len(out'[s]) = Len(out[s])
        /\ \A j \in DOMAIN out[s] : out'[s][j] = IF j = i THEN r ELSE out[s][j]
    <3> HIDE DEF i
    <3> QED BY <2>1, AnswerIsKept
  <2>3. out[s] \in Seq(Outcomes \cup {None}) /\ out'[s] \in Seq(Outcomes \cup {None})
    BY <2>2 DEF SInv, Shape
  <2>4. DOMAIN out[s] = 1..Len(out[s]) /\ DOMAIN out'[s] = 1..Len(out'[s])
    BY <2>3
  <2> QED BY <2>2, <2>4
<1>3. /\ fed[s] \in Nat /\ fed[s] <= Len(out[s]) /\ r # None /\ fed'[s] = fed[s]
      /\ Len(out[s]) \in Nat
  BY ScanAssumption DEF SInv, Shape, InListing, Outcomes
<1>4. Idle \in [at : Places, i : Nat, ver : Nat] /\ Idle.at = "idle"
  BY DEF Idle, Places
<1>5. \A v \in Workers(s) : worker'[s][v] = IF v = w THEN Idle ELSE worker[s][v]
  BY <1>4, WorkerMoves
<1>6. told'[s] = [done |-> told[s].done + 1,
                  path |-> IF i > told[s].path THEN i ELSE told[s].path]
  BY DEF Report
<1> HIDE DEF i
<1>7. told'[s] \in [done : Nat, path : Nat] /\ told'[s].path <= fed'[s]
  BY <1>1, <1>3, <1>6 DEF Progress
<1>8. Answered(s)' = Answered(s) \cup {i} /\ i \notin Answered(s)
  BY <1>1, <1>2, <1>3 DEF Answered
<1>9. Unanswered(s)' = Unanswered(s) \ {i} /\ i \in Unanswered(s)
  BY <1>1, <1>2, <1>3 DEF Unanswered
<1>10. Off(s)' = Off(s) \ {w} /\ w \in Off(s)
  BY <1>4, <1>5 DEF Off, Busy
<1>11. /\ Cardinality(Answered(s)') = Cardinality(Answered(s)) + 1
       /\ Cardinality(Unanswered(s)') = Cardinality(Unanswered(s)) - 1
       /\ Cardinality(Off(s)') = Cardinality(Off(s)) - 1
  <2>1. Cardinality(Answered(s)') = Cardinality(Answered(s)) + 1
    BY <1>8, ScanSets, FS_AddElement, ZenonT(40)
  <2>2. Cardinality(Unanswered(s)') = Cardinality(Unanswered(s)) - 1
    BY <1>9, ScanSets, FS_RemoveElement, ZenonT(40)
  <2>3. Cardinality(Off(s)') = Cardinality(Off(s)) - 1
    BY <1>10, ScanSets, FS_RemoveElement, ZenonT(40)
  <2> QED BY <2>1, <2>2, <2>3
<1>12. Cardinality(Unanswered(s)') <= Cardinality(Off(s)')
  BY <1>11, ScanSets DEF Progress
<1>13. Held(s)'
  <2>1. \A v \in Workers(s) : Busy(s, v)' => v # w /\ Busy(s, v) /\ worker'[s][v] = worker[s][v]
    BY <1>4, <1>5 DEF Busy
  <2>2. ASSUME NEW v \in Workers(s), Busy(s, v)' PROVE out'[s][worker'[s][v].i] = None
    <3>1. Busy(s, v) /\ v # w /\ worker'[s][v].i = worker[s][v].i
      BY <2>1, <2>2
    <3>2. worker[s][v].i # i /\ out[s][worker[s][v].i] = None
      BY <3>1 DEF Progress, Held, i
    <3>3. worker[s][v].i \in DOMAIN out[s]
      BY <1>2, <1>3, <3>1, InHand
    <3> QED BY <1>2, <3>1, <3>2, <3>3
  <2>3. \A j \in DOMAIN out[s] : j > fed[s] => out'[s][j] = None
    BY <1>1, <1>2, <1>3 DEF Progress, Held
  <2>4. pc[s] = "save" => \A v \in Workers(s) : ~Busy(s, v)'
    BY <2>1 DEF Progress, Held
  <2>5. \A u, v \in Workers(s) :
          Busy(s, u)' /\ Busy(s, v)' /\ worker'[s][u].i = worker'[s][v].i => u = v
    BY <2>1 DEF Progress, Held
  <2> QED BY <1>2, <1>3, <2>2, <2>3, <2>4, <2>5 DEF Held
<1>14. Prefix(s)'
  <2> DEFINE holes == {j \in 1..told'[s].path : j \notin Answered(s)'}
  <2>1. holes \subseteq Unanswered(s)'
    <3>1. ASSUME NEW j \in 1..told'[s].path, j \notin Answered(s)' PROVE j \in Unanswered(s)'
      <4>1. j \in 1..fed[s] /\ j \in DOMAIN out'[s]
        BY <1>2, <1>3, <1>7
      <4>2. out'[s][j] = None
        BY <3>1, <4>1 DEF Answered
      <4> QED BY <1>3, <4>1, <4>2 DEF Unanswered
    <3> QED BY <3>1
  <2>2. Cardinality(holes) <= Cardinality(Unanswered(s)') /\ Cardinality(holes) \in Nat
    <3>1. IsFiniteSet(Unanswered(s)')
      BY <1>9, ScanSets, FS_RemoveElement
    <3> QED BY <2>1, <3>1, FS_Subset, FS_CardinalityType
  <2>3. Cardinality(Off(s)) <= Concurrency[s]
    <3>1. Off(s) \in SUBSET Workers(s)
      BY DEF Off
    <3> QED BY <3>1, ScanSets, FS_Subset
  <2> HIDE DEF holes
  <2>4. Cardinality(holes) < Concurrency[s]
    BY <1>11, <1>12, <2>2, <2>3, ScanSets
  <2>5. told'[s].done = Cardinality(Answered(s)')
    BY <1>6, <1>11 DEF Progress, Prefix
  <2>6. pc[s] # "save"
    BY DEF Progress, Held
  <2> QED BY <2>4, <2>5, <2>6 DEF Prefix, holes
<1> QED BY <1>7, <1>12, <1>13, <1>14 DEF Progress

\* A scan of which nothing is fed, listed or told.
LEMMA ProgressFresh ==
  ASSUME NEW q \in Scans, Concurrency[q] \in Nat \ {0}, fed'[q] = 0, told'[q] = NotTold,
         \A i \in DOMAIN out'[q] : out'[q][i] = None,
         \A w \in Workers(q) : ~Busy(q, w)', pc'[q] # "save",
         Cardinality(Off(q)') \in Nat
  PROVE  Progress(q)'
<1>1. told'[q] \in [done : Nat, path : Nat] /\ told'[q].path = 0 /\ told'[q].done = 0
  BY DEF NotTold
<1>2. Unanswered(q)' = {} /\ Answered(q)' = {}
  BY DEF Unanswered, Answered
<1>3. Cardinality(Unanswered(q)') = 0 /\ Cardinality(Answered(q)') = 0
  BY <1>2, FS_EmptySet
<1>4. {i \in 1..told'[q].path : i \notin Answered(q)'} = {}
  BY <1>1
<1>5. Prefix(q)'
  BY <1>1, <1>3, <1>4, FS_EmptySet DEF Prefix
<1>6. Held(q)'
  BY DEF Held
<1> QED BY <1>1, <1>3, <1>5, <1>6 DEF Progress

\* A scan that has returned is as fresh as one that was never started.
LEMMA ReturnProgress ==
  ASSUME SInv, PInv, NEW S \in SUBSET Scans, Returned(S)
  PROVE  PInv'
<1>1. ASSUME NEW q \in Scans
      PROVE  IF q \in S THEN /\ pc'[q] = "done" /\ fed'[q] = 0 /\ worker'[q] = NoWorkers(q)
                             /\ out'[q] = << >> /\ told'[q] = NotTold
             ELSE /\ pc'[q] = pc[q] /\ ctxDone'[q] = ctxDone[q] /\ files'[q] = files[q]
                  /\ fed'[q] = fed[q] /\ worker'[q] = worker[q] /\ out'[q] = out[q]
                  /\ told'[q] = told[q]
  BY DEF Returned, SInv, Shape
<1>2. ASSUME NEW q \in S PROVE Progress(q)'
  <2>1. \A w \in Workers(q) : NoWorkers(q)[w].at = "idle"
    BY DEF NoWorkers, Idle
  <2>2. Off(q)' = {}
    BY <1>1, <2>1 DEF Off
  <2>3. Cardinality(Off(q)') \in Nat
    BY <2>2, FS_EmptySet
  <2>4. \A w \in Workers(q) : ~Busy(q, w)'
    BY <1>1, <2>1 DEF Busy
  <2>5. DOMAIN out'[q] = {}
    BY <1>1
  <2> QED BY <1>1, <2>3, <2>4, <2>5, ScanSets, ProgressFresh
<1>3. ASSUME NEW q \in Scans \ S PROVE Progress(q)'
  <2>1. \A v \in Workers(q) : Busy(q, v)' <=> Busy(q, v)
    BY <1>1 DEF Busy
  <2>2. pc[q] = "save" => \A v \in Workers(q) : ~Busy(q, v)
    BY DEF PInv, Progress, Held
  <2> QED BY <1>1, <2>1, <2>2, ProgressStays DEF PInv
<1>4. told' = [q \in Scans |-> told'[q]]
  BY DEF Returned
<1> QED BY <1>2, <1>3, <1>4 DEF PInv

\* A step of one scan leaves the others where they are.
LEMMA OthersStay ==
  ASSUME PInv, NEW s \in Scans, Progress(s)',
         told' = [q \in Scans |-> told'[q]],
         \A q \in Scans \ {s} :
           /\ fed'[q] = fed[q] /\ out'[q] = out[q] /\ told'[q] = told[q] /\ files'[q] = files[q]
           /\ worker'[q] = worker[q] /\ pc'[q] = pc[q] /\ ctxDone'[q] = ctxDone[q]
  PROVE  PInv'
<1>1. ASSUME NEW q \in Scans \ {s} PROVE Progress(q)'
  <2>1. Progress(q)
    BY DEF PInv
  <2>2. pc[q] = "save" => \A v \in Workers(q) : ~Busy(q, v)
    BY <2>1 DEF Progress, Held
  <2>3. \A v \in Workers(q) : Busy(q, v)' <=> Busy(q, v)
    BY DEF Busy
  <2> QED BY <2>1, <2>2, <2>3, ProgressStays
<1> QED BY <1>1 DEF PInv

\* Every step keeps the account.
LEMMA NextProgress == ASSUME SInv, PInv, [Next]_vars PROVE PInv'
<1> USE DEF PInv
<1>0. \A s \in Scans : pc[s] = "save" => \A v \in Workers(s) : ~Busy(s, v)
  BY DEF Progress, Held
<1>1. ASSUME NEW s \in Scans, Begin(s) \/ FeedEnds(s) \/ Cancel(s) PROVE PInv'
  <2>1. UNCHANGED << files, fed, worker, out, told >>
    BY <1>1 DEF Begin, FeedEnds, Cancel
  <2>2. ASSUME NEW q \in Scans PROVE Progress(q)'
    <3>1. \A v \in Workers(q) : Busy(q, v)' <=> Busy(q, v)
      BY <2>1 DEF Busy
    <3>2. pc'[q] = "save" => pc[q] = "save" /\ (~ctxDone'[q] => ~ctxDone[q])
      BY <1>1 DEF Begin, FeedEnds, Cancel, SInv, Shape
    <3> QED BY <1>0, <2>1, <3>1, <3>2, ProgressStays
  <2> QED BY <2>1, <2>2
<1>2. ASSUME NEW s \in Scans, Collect(s) PROVE PInv'
  <2> PICK hidden \in SUBSET Folders : \E l \in Listings(InSight(hidden) \ referenced[s]) :
         /\ files' = [files EXCEPT ![s] = l]
         /\ out' = [out EXCEPT ![s] = [i \in DOMAIN l |-> None]]
    BY <1>2 DEF Collect
  <2>1. PICK l \in Listings(InSight(hidden) \ referenced[s]) :
         /\ files' = [files EXCEPT ![s] = l]
         /\ out' = [out EXCEPT ![s] = [i \in DOMAIN l |-> None]]
    OBVIOUS
  <2>2. UNCHANGED << ctxDone, fed, worker, told >> /\ pc[s] = "collect" /\ pc' = [pc EXCEPT ![s] = "feed"]
    BY <1>2 DEF Collect
  <2>3. fed[s] = 0 /\ Len(out[s]) = 0
    BY <2>2 DEF SInv, Covered
  <2>4. out'[s] = [i \in DOMAIN l |-> None]
    BY <2>1 DEF SInv, Shape
  <2>5. \A w \in Workers(s) : ~Busy(s, w)'
    BY <2>2, <2>3 DEF SInv, InListing, Busy
  <2>6. told[s] = NotTold
    <3>1. told[s] \in [done : Nat, path : Nat] /\ told[s].path <= 0
      BY <2>3 DEF Progress
    <3>2. Answered(s) = {}
      BY <2>3 DEF Answered, SInv, Shape
    <3>3. told[s].done = 0
      BY <3>2, FS_EmptySet DEF Progress, Prefix
    <3> QED BY <3>1, <3>3 DEF NotTold
  <2>7. Cardinality(Off(s)') \in Nat
    <3>1. Off(s)' = Off(s)
      BY <2>2 DEF Off
    <3> QED BY <3>1, ScanSets
  <2>8. pc'[s] = "feed"
    BY <2>2 DEF SInv, Shape
  <2>9. Progress(s)'
    BY <2>2, <2>3, <2>4, <2>5, <2>6, <2>7, <2>8, ScanSets, ProgressFresh
  <2>10. \A q \in Scans \ {s} : out'[q] = out[q] /\ files'[q] = files[q] /\ pc'[q] = pc[q]
    BY <2>1, <2>2 DEF SInv, Shape
  <2> QED BY <2>2, <2>9, <2>10, OthersStay
<1>3. ASSUME NEW s \in Scans, NEW w \in Workers(s), Hand(s, w) PROVE PInv'
  <2>1. Progress(s)'
    BY <1>3, HandProgress
  <2>2. UNCHANGED << pc, ctxDone, files, out, told >>
    BY <1>3 DEF Hand
  <2>3. \A q \in Scans \ {s} : fed'[q] = fed[q] /\ worker'[q] = worker[q]
    BY <1>3 DEF Hand, SInv, Shape
  <2> QED BY <2>1, <2>2, <2>3, OthersStay
<1>4. ASSUME NEW s \in Scans, NEW w \in Workers(s), GoHome(s, w) \/ LookFresh(s, w) PROVE PInv'
  <2>1. UNCHANGED << pc, ctxDone, files, fed, out, told >>
    BY <1>4 DEF GoHome, LookFresh
  <2>2. Busy(s, w)
    BY <1>4 DEF GoHome, LookFresh, Busy
  <2>3. PICK to \in [at : Places, i : Nat, ver : Nat] :
          /\ Work(s, w, to) /\ to.at \in {"gone", "inspect"}
          /\ to.at = "inspect" => to.i = worker[s][w].i
    <3>1. CASE GoHome(s, w)
      <4>1. Gone \in [at : Places, i : Nat, ver : Nat] /\ Gone.at = "gone"
        BY DEF Gone, Idle, Places
      <4> QED BY <3>1, <4>1 DEF GoHome
    <3>2. CASE LookFresh(s, w)
      <4> DEFINE f == files[s][worker[s][w].i]
                 to == [worker[s][w] EXCEPT !.at = "inspect", !.ver = disk[f]]
      <4>1. disk[f] \in Nat /\ worker[s][w] \in [at : Places, i : Nat, ver : Nat]
        BY <2>2, InHand DEF SInv, Shape
      <4>2. to \in [at : Places, i : Nat, ver : Nat] /\ to.at = "inspect" /\ to.i = worker[s][w].i
        BY <4>1 DEF Places
      <4> QED BY <3>2, <4>2 DEF LookFresh
    <3> QED BY <1>4, <3>1, <3>2
  <2>4. \A q \in Scans : \A v \in Workers(q) :
          worker'[q][v] = IF q = s /\ v = w THEN to ELSE worker[q][v]
    BY <2>3, WorkerMoves
  <2>5. ASSUME NEW q \in Scans PROVE Progress(q)'
    <3>1. ASSUME NEW v \in Workers(q)
          PROVE  /\ worker'[q][v].at = "idle" <=> worker[q][v].at = "idle"
                 /\ Busy(q, v)' => Busy(q, v) /\ worker'[q][v].i = worker[q][v].i
      BY <2>2, <2>3, <2>4 DEF Busy
    <3> QED BY <1>0, <2>1, <3>1, ProgressStays
  <2> QED BY <2>1, <2>5
<1>5. ASSUME NEW s \in Scans, NEW w \in Workers(s),
             LookMissing(s, w) \/ LookCached(s, w) \/ Inspect(s, w)
      PROVE  PInv'
  <2>1. UNCHANGED << pc, ctxDone, files, fed >> /\ Busy(s, w)
    BY <1>5 DEF LookMissing, LookCached, Inspect, Busy
  <2>2. PICK r \in Outcomes : Work(s, w, Idle) /\ Report(s, worker[s][w].i, r)
    <3> DEFINE f == files[s][worker[s][w].i]
    <3>1. f \in Files
      BY <2>1, InHand
    <3>2. Fault \in Outcomes
      BY DEF Fault, Outcomes
    <3>3. Identity(f) \in Outcomes
      BY <3>1, IdentityTells DEF SInv
    <3>4. CASE LookMissing(s, w)
      BY <3>2, <3>4 DEF LookMissing
    <3>5. CASE LookCached(s, w)
      <4>1. mem[f] # None
        BY <3>5 DEF LookCached, Fresh
      <4>2. mem[f].res \in Outcomes
        BY <3>1, <4>1 DEF SInv, Shape, Records
      <4> QED BY <3>5, <4>2 DEF LookCached
    <3>6. CASE Inspect(s, w)
      BY <3>2, <3>3, <3>6 DEF Inspect
    <3> QED BY <1>5, <3>4, <3>5, <3>6
  <2>3. Progress(s)'
    BY <2>1, <2>2, AnswerProgress
  <2>4. told' = [q \in Scans |-> told'[q]]
    BY <2>2 DEF Report
  <2>5. \A q \in Scans \ {s} : out'[q] = out[q] /\ told'[q] = told[q] /\ worker'[q] = worker[q]
    BY <2>2 DEF Report, Work, SInv, Shape
  <2> QED BY <2>1, <2>3, <2>4, <2>5, OthersStay
<1>6. ASSUME NEW s \in Scans, Prune(s) PROVE PInv'
  <2>1. /\ UNCHANGED << ctxDone, files, fed, worker, out, told >>
        /\ pc[s] = "wait" /\ pc' = [pc EXCEPT ![s] = "save"]
        /\ \A w \in Workers(s) : worker[s][w].at \in {"idle", "gone"}
    BY <1>6 DEF Prune
  <2>2. ~ctxDone[s] => Cardinality(Answered(s)) = Len(files[s])
    BY <2>1, AllAnswered
  <2>3. ASSUME NEW q \in Scans PROVE Progress(q)'
    <3>1. \A v \in Workers(q) : Busy(q, v)' <=> Busy(q, v)
      BY <2>1 DEF Busy
    <3>2. CASE q = s
      BY <2>1, <2>2, <3>1, <3>2, ProgressStays DEF Busy
    <3>3. CASE q # s
      <4>1. pc'[q] = pc[q]
        BY <2>1, <3>3 DEF SInv, Shape
      <4> QED BY <1>0, <2>1, <3>1, <4>1, ProgressStays
    <3> QED BY <3>2, <3>3
  <2> QED BY <2>1, <2>3
<1>7. ASSUME NEW s \in Scans, Save(s) \/ RootGone(s) PROVE PInv'
  <2>1. {s} \in SUBSET Scans /\ Returned({s})
    BY <1>7 DEF Save, RootGone
  <2> QED BY <2>1, ReturnProgress
<1>8. ASSUME Restart PROVE PInv'
  <2> DEFINE S == {s \in Scans : pc[s] # "idle"}
  <2>1. S \in SUBSET Scans /\ Returned(S)
    BY <1>8 DEF Restart
  <2> HIDE DEF S
  <2> QED BY <2>1, ReturnProgress
<1>9. ASSUME UNCHANGED scanVars PROVE PInv'
  <2>1. UNCHANGED << pc, ctxDone, files, fed, worker, out, told >>
    BY <1>9 DEF scanVars
  <2>2. ASSUME NEW q \in Scans PROVE Progress(q)'
    <3>1. \A v \in Workers(q) : Busy(q, v)' <=> Busy(q, v)
      BY <2>1 DEF Busy
    <3> QED BY <1>0, <2>1, <3>1, ProgressStays
  <2> QED BY <2>1, <2>2
<1>10. Clear \/ (\E f \in Files : Edit(f)) \/ UNCHANGED vars => UNCHANGED scanVars
  BY DEF Clear, Edit, vars
<1> QED BY <1>1, <1>2, <1>3, <1>4, <1>5, <1>6, <1>7, <1>8, <1>9, <1>10 DEF Next, Scan, Worker

LEMMA InitProgress == ASSUME Init PROVE PInv
<1>1. /\ told = [s \in Scans |-> NotTold] /\ fed = [s \in Scans |-> 0]
      /\ out = [s \in Scans |-> << >>] /\ worker = [s \in Scans |-> NoWorkers(s)]
      /\ pc = [s \in Scans |-> "idle"]
  BY DEF Init
<1>2. ASSUME NEW q \in Scans PROVE Progress(q)
  <2>1. \A w \in Workers(q) : worker[q][w].at = "idle"
    BY <1>1 DEF NoWorkers, Idle
  <2>2. Unanswered(q) = {} /\ Off(q) = {} /\ Answered(q) = {}
    BY <1>1, <2>1 DEF Unanswered, Off, Answered
  <2>3. told[q] \in [done : Nat, path : Nat] /\ told[q].path = 0 /\ told[q].done = 0
    BY <1>1 DEF NotTold
  <2>4. {i \in 1..told[q].path : i \notin Answered(q)} = {}
    BY <2>3
  <2>5. Cardinality({}) = 0 /\ Concurrency[q] \in Nat \ {0} /\ pc[q] # "save"
    BY <1>1, ScanAssumption, FS_EmptySet
  <2>6. Prefix(q)
    BY <2>2, <2>3, <2>4, <2>5 DEF Prefix
  <2>7. Held(q)
    BY <1>1, <2>1, <2>5 DEF Held, Busy
  <2> QED BY <1>1, <2>2, <2>3, <2>5, <2>6, <2>7 DEF Progress
<1> QED BY <1>1, <1>2 DEF PInv

\* What inspectAll promises of a cancelled scan: its answers are a prefix of the listing
\* but for one file of each other worker; and a scan that was let run has answered every
\* file and reported it once, however the workers interleave.
THEOREM PrefixIsAnswered == Spec => []AnsweredIsPrefix
<1>1. Init => PInv
  BY InitProgress
<1>2. SInv /\ PInv /\ [Next]_vars => PInv'
  BY NextProgress
<1>3. PInv => AnsweredIsPrefix
  BY DEF PInv, Progress, Prefix, AnsweredIsPrefix
<1> QED BY <1>1, <1>2, <1>3, ScanInductive, PTL DEF Spec

-----------------------------------------------------------------------------
(* What a conversion writes: sums, sheets and pieces. *)

\* A sum of numbers, and of one number more.
SumChain(s, a) ==
  /\ a[0] = 0
  /\ \A i \in 1 .. Len(s) : a[i] = a[i - 1] + s[i]
  /\ \A i \in 0 .. Len(s) : a[i] \in Nat
  /\ SumOf(s) = a[Len(s)]

LEMMA SumSteps == ASSUME NEW s \in Seq(Nat) PROVE \E a : SumChain(s, a)
<1> DEFINE n == Len(s)
           G == [i \in 1 .. n |-> [v \in Nat |-> v + s[i]]]
           Fix(f) == f = [S \in SUBSET (1 .. n) |->
                            IF S = {} THEN 0 ELSE f[S \ {Max(S)}] + s[Max(S)]]
           fl == CHOOSE f : Fix(f)
<1>1. n \in Nat /\ DOMAIN s = 1 .. n /\ \A i \in 1 .. n : s[i] \in Nat
  OBVIOUS
<1>2. SumOf(s) = fl[1 .. n]
  BY <1>1 DEF SumOf, FoldLeft, MapThenFoldSet
<1>3. G \in [1 .. n -> [Nat -> Nat]]
  BY <1>1
<1>4. ASSUME NEW S \in SUBSET (1 .. n), S # {} PROVE Max(S) \in 1 .. n
  BY <1>1, <1>4, MaxIs
<1> HIDE DEF n
<1>5. Fix(fl)
  <2> HIDE DEF G
  <2>0. PICK g : Folded(g, n, Nat, 0, G)
    BY <1>1, <1>3, FoldExists
  <2>1. /\ g \in [SUBSET (1 .. n) -> Nat]
        /\ \A S \in SUBSET (1 .. n) : g[S] = IF S = {} THEN 0 ELSE G[Max(S)][g[S \ {Max(S)}]]
    BY <2>0 DEF Folded
  <2>2. ASSUME NEW S \in SUBSET (1 .. n), S # {}
        PROVE  g[S] = g[S \ {Max(S)}] + s[Max(S)]
    BY <1>4, <2>1, <2>2 DEF G
  <2>3. Fix(g)
    BY <2>1, <2>2
  <2> QED
    BY <2>3
<1> HIDE DEF fl
<1>6. FoldValues(fl, n, Nat, 0, G)
  <2>1. \A S \in SUBSET (1 .. n) :
          /\ S = {} => fl[S] = 0
          /\ S # {} /\ fl[S \ {Max(S)}] \in Nat => fl[S] = G[Max(S)][fl[S \ {Max(S)}]]
    BY <1>4, <1>5
  <2> HIDE DEF G
  <2> QED
    BY <1>1, <1>3, <2>1, FoldSteps
<1>7. PICK a : Folding(a, n, Nat, 0, G) /\ a[n] = fl[1 .. n]
  BY <1>6 DEF FoldValues
<1>8. \A i \in 1 .. n : a[i] = a[i - 1] + s[i]
  <2> SUFFICES ASSUME NEW i \in 1 .. n PROVE a[i] = a[i - 1] + s[i]
    OBVIOUS
  <2>1. i - 1 \in 0 .. n
    BY <1>1
  <2>2. a[i - 1] \in Nat /\ a[i] = G[i][a[i - 1]]
    BY <1>7, <2>1 DEF Folding
  <2> QED
    BY <2>2
<1>9. SumChain(s, a)
  BY <1>2, <1>7, <1>8 DEF SumChain, Folding, n
<1> QED
  BY <1>9

LEMMA SumIs ==
  ASSUME NEW s \in Seq(Nat)
  PROVE  /\ SumOf(s) \in Nat
         /\ s = << >> => SumOf(s) = 0
         /\ \A x \in Nat : SumOf(Append(s, x)) = SumOf(s) + x
<1> DEFINE n == Len(s)
<1>1. PICK a : SumChain(s, a)
  BY SumSteps
<1>2. n \in Nat /\ SumOf(s) = a[n] /\ a[n] \in Nat /\ a[0] = 0
  BY <1>1 DEF SumChain
<1>3. ASSUME NEW x \in Nat PROVE SumOf(Append(s, x)) = SumOf(s) + x
  <2> DEFINE t == Append(s, x)
  <2>1. t \in Seq(Nat) /\ Len(t) = n + 1 /\ t[n + 1] = x /\ \A i \in 1 .. n : t[i] = s[i]
    BY AppendProperties
  <2> HIDE DEF t
  <2>2. PICK b : SumChain(t, b)
    BY <2>1, SumSteps
  <2>3. /\ b[0] = 0 /\ SumOf(t) = b[n + 1]
        /\ \A i \in 1 .. n + 1 : b[i] = b[i - 1] + t[i]
    BY <2>1, <2>2 DEF SumChain
  <2> DEFINE E == {i \in Nat : i <= n => b[i] = a[i]}
  <2>4. 0 \in E
    BY <1>2, <2>3
  <2>5. ASSUME NEW i \in Nat, i \in E PROVE i + 1 \in E
    <3> SUFFICES ASSUME i + 1 <= n PROVE b[i + 1] = a[i + 1]
      OBVIOUS
    <3>1. i + 1 \in 1 .. n /\ i + 1 \in 1 .. n + 1 /\ (i + 1) - 1 = i /\ b[i] = a[i]
      BY <1>2, <2>5
    <3>2. a[i + 1] = a[i] + s[i + 1]
      BY <1>1, <3>1 DEF SumChain
    <3> QED
      BY <2>1, <2>3, <3>1, <3>2
  <2>6. n \in E
    BY <1>2, <2>4, <2>5, SetInduction
  <2>7. b[n + 1] = b[n] + t[n + 1]
    <3> HIDE DEF n
    <3>1. n + 1 \in 1 .. n + 1 /\ (n + 1) - 1 = n
      BY <1>2
    <3> QED
      BY <2>3, <3>1
  <2> QED
    BY <1>2, <2>1, <2>3, <2>6, <2>7 DEF t
<1> QED
  BY <1>2, <1>3

\* Whole sectors are their number times their size.
LEMMA WholeIs ==
  ASSUME NEW n \in Nat, NEW k \in Nat \ {0}, n % k = 0
  PROVE  n = (n \div k) * k /\ n \div k \in Nat
  OBVIOUS

LEMMA TimesIs ==
  ASSUME NEW a \in Nat, NEW b \in Nat, NEW k \in Nat
  PROVE  (a + b) * k = a * k + b * k /\ a * k \in Nat /\ b * k \in Nat
  OBVIOUS

\* Multiples of a number are multiples together.
LEMMA MultiplesAdd ==
  ASSUME NEW k \in Nat \ {0}, NEW a \in Nat, NEW b \in Nat, a % k = 0, b % k = 0
  PROVE  (a + b) % k = 0
<1> DEFINE p == a \div k
           q == b \div k
<1>1. a = p * k /\ p \in Nat /\ b = q * k /\ q \in Nat
  BY WholeIs
<1> HIDE DEF p, q
<1>2. a + b = (p + q) * k /\ p + q \in Nat
  BY <1>1
<1>3. \A x \in Nat : (x * k) % k = 0
  OBVIOUS
<1> QED
  BY <1>2, <1>3

\* So are the sums of a sequence of them.
LEMMA WholeSums ==
  ASSUME NEW k \in Nat \ {0}, NEW s \in Seq(Nat), \A i \in 1 .. Len(s) : s[i] % k = 0
  PROVE  SumOf(s) \in Nat /\ SumOf(s) % k = 0
<1> DEFINE n == Len(s)
<1>1. PICK a : SumChain(s, a)
  BY SumSteps
<1>2. n \in Nat /\ a[0] = 0 /\ SumOf(s) = a[n]
      /\ (\A i \in 1 .. n : a[i] = a[i - 1] + s[i] /\ s[i] \in Nat) /\ \A i \in 0 .. n : a[i] \in Nat
  BY <1>1 DEF SumChain
<1> DEFINE E == {i \in Nat : i <= n => a[i] % k = 0}
<1>3. 0 \in E
  BY <1>2
<1> HIDE DEF n
<1>4. ASSUME NEW i \in Nat, i \in E PROVE i + 1 \in E
  <2> SUFFICES ASSUME i + 1 <= n PROVE a[i + 1] % k = 0
    OBVIOUS
  <2>1. i + 1 \in 1 .. n /\ i \in 0 .. n /\ (i + 1) - 1 = i /\ a[i] % k = 0
    BY <1>2, <1>4
  <2>2. a[i + 1] = a[i] + s[i + 1] /\ s[i + 1] \in Nat /\ s[i + 1] % k = 0 /\ a[i] \in Nat
    BY <1>2, <2>1 DEF n
  <2> QED
    BY <2>1, <2>2, MultiplesAdd
<1>5. n \in E
  BY <1>2, <1>3, <1>4, SetInduction
<1>6. n \in 0 .. n
  BY <1>2
<1> QED
  BY <1>2, <1>5, <1>6

\* The bytes of a stream.
Pieces == [from : Nat, to : Nat] \cup {Pad}
Written(stream) == SumOf([k \in DOMAIN stream |-> SizeOf(stream[k])])

\* Pieces in the order of the source have sizes.
Sized(stream) == stream \in Seq(Pieces) /\ \A k \in DOMAIN stream : SizeOf(stream[k]) \in Nat

LEMMA PadIs == SizeOf(Pad) = leadInSectors * SectorSize /\ SizeOf(Pad) \in Nat /\ Pad \in Pieces
  BY VcdAssumption DEF SizeOf, Pad, leadInSectors, Pieces

LEMMA PieceIs ==
  ASSUME NEW d \in Nat, NEW n \in Nat
  PROVE  Piece(d, d + n) \in Pieces /\ SizeOf(Piece(d, d + n)) = n
  BY DEF Piece, Pieces, SizeOf, Pad

LEMMA WrittenIs ==
  ASSUME NEW s, Sized(s)
  PROVE  /\ Written(s) \in Nat
         /\ s = << >> => Written(s) = 0
         /\ \A p \in Pieces : SizeOf(p) \in Nat =>
              /\ Sized(s \o << p >>)
              /\ Written(s \o << p >>) = Written(s) + SizeOf(p)
<1> DEFINE z == [k \in DOMAIN s |-> SizeOf(s[k])]
           n == Len(s)
<1>1. s \in Seq(Pieces) /\ n \in Nat /\ DOMAIN s = 1 .. n /\ \A k \in 1 .. n : SizeOf(s[k]) \in Nat
  BY DEF Sized
<1>2. z \in Seq(Nat) /\ DOMAIN z = 1 .. n /\ Len(z) = n
  <2>1. z \in [1 .. n -> Nat]
    BY <1>1
  <2> QED
    BY <1>1, <2>1, SeqDef, LenProperties
<1>3. s = << >> => z = << >>
  BY <1>1, <1>2
<1>4. ASSUME NEW p \in Pieces, SizeOf(p) \in Nat
      PROVE  Sized(s \o << p >>) /\ Written(s \o << p >>) = Written(s) + SizeOf(p)
  <2> DEFINE t == s \o << p >>
             y == [k \in DOMAIN t |-> SizeOf(t[k])]
  <2>1. t = Append(s, p)
    BY <1>1, AppendIsConcat
  <2>2. /\ t \in Seq(Pieces) /\ DOMAIN t = 1 .. n + 1 /\ t[n + 1] = p
        /\ \A k \in 1 .. n : t[k] = s[k]
    BY <1>1, <2>1, AppendProperties
  <2>3. \A k \in 1 .. n + 1 : k = n + 1 \/ k \in 1 .. n
    BY <1>1
  <2> HIDE DEF t
  <2>4. Sized(t)
    BY <1>1, <1>4, <2>2, <2>3 DEF Sized
  <2>5. y = Append(z, SizeOf(p))
    <3> DEFINE w == Append(z, SizeOf(p))
    <3>1. /\ w \in Seq(Nat) /\ DOMAIN w = 1 .. n + 1 /\ w[n + 1] = SizeOf(p)
          /\ \A k \in 1 .. n : w[k] = z[k]
      BY <1>2, <1>4, AppendProperties
    <3>2. \A k \in 1 .. n : z[k] = SizeOf(s[k])
      BY <1>1
    <3>3. DOMAIN y = 1 .. n + 1 /\ \A k \in 1 .. n + 1 : y[k] = SizeOf(t[k])
      BY <2>2
    <3>4. Len(w) = n + 1
      BY <1>2, <1>4, AppendProperties
    <3> HIDE DEF w
    <3>5. w \in [1 .. n + 1 -> Nat]
      BY <3>1, <3>4, LenProperties
    <3> HIDE DEF z, n
    <3>6. \A k \in 1 .. n + 1 : SizeOf(t[k]) = w[k]
      BY <2>2, <2>3, <3>1, <3>2, <3>3
    <3>7. w = [k \in 1 .. n + 1 |-> w[k]]
      BY <3>5
    <3>8. y = [k \in 1 .. n + 1 |-> w[k]]
      BY <2>2, <3>6
    <3> QED
      BY <3>7, <3>8 DEF w
  <2>6. SumOf(Append(z, SizeOf(p))) = SumOf(z) + SizeOf(p)
    BY <1>2, <1>4, SumIs
  <2> QED
    BY <2>4, <2>5, <2>6 DEF Written, t
<1>5. SumOf(z) \in Nat /\ (z = << >> => SumOf(z) = 0)
  BY <1>2, SumIs
<1> QED
  BY <1>3, <1>4, <1>5 DEF Written

-----------------------------------------------------------------------------
(* What a sheet is. *)

Types(r)   == {"BINARY"} \cup {r.lines[i].type : i \in DOMAIN r.lines}
Names(r)   == {r.lines[i].name : i \in DOMAIN r.lines}
Tracks(r)  == [number : {r.lines[i].n : i \in DOMAIN r.lines},
               mode : {r.lines[i].mode : i \in DOMAIN r.lines}, file : Nat \ {0},
               index0 : Timecodes \cup {Absent}, index1 : Timecodes,
               pregap : BOOLEAN, postgap : BOOLEAN]

\* The sheets the lines of a cuesheet can make: each track in a file named before it.
FileCount(c) == IF c.files = << >> THEN 1 ELSE Len(c.files)
Sheets(r) ==
  {c \in [ok : BOOLEAN, type : Types(r), files : Seq(Names(r)), tracks : Seq(Tracks(r))] :
     \A i \in DOMAIN c.tracks : c.tracks[i].file <= FileCount(c)}

LEMMA LineIs ==
  ASSUME NEW r, IsText(r.lines), NEW i \in DOMAIN r.lines, NEW c \in Sheets(r)
  PROVE  ParseLine(c, r.lines[i]) \in Sheets(r)
<1> DEFINE l == r.lines[i]
           n == Len(c.tracks)
           new == [number |-> l.n, mode |-> l.mode, file |-> IF c.files = << >> THEN 1 ELSE Len(c.files),
                   index0 |-> Absent, index1 |-> Zero, pregap |-> FALSE, postgap |-> FALSE]
<1>0. /\ c.ok \in BOOLEAN /\ c.type \in Types(r) /\ c.files \in Seq(Names(r)) /\ c.tracks \in Seq(Tracks(r))
      /\ c = [ok |-> c.ok, type |-> c.type, files |-> c.files, tracks |-> c.tracks]
      /\ \A j \in DOMAIN c.tracks : c.tracks[j].file <= FileCount(c)
  BY DEF Sheets
<1>1. /\ l.type \in Types(r) /\ l.name \in Names(r)
      /\ l.n \in {r.lines[j].n : j \in DOMAIN r.lines}
      /\ l.mode \in {r.lines[j].mode : j \in DOMAIN r.lines}
      /\ l.word = "INDEX" => l.at \in Timecodes
  BY DEF Types, Names, IsText
<1>2. /\ n \in Nat /\ DOMAIN c.tracks = 1 .. n
      /\ \A j \in 1 .. n : c.tracks[j] \in Tracks(r)
      /\ FileCount(c) \in Nat \ {0}
  BY <1>0, EmptySeq, LenProperties DEF FileCount
<1>3. new \in Tracks(r) /\ new.file = FileCount(c)
  <2> DEFINE m == IF c.files = << >> THEN 1 ELSE Len(c.files)
  <2>1. m = FileCount(c) /\ m \in Nat \ {0}
    BY <1>2 DEF FileCount
  <2>2. Zero \in Timecodes
    BY DEF Zero, Timecodes
  <2> HIDE DEF m
  <2> QED
    BY <1>1, <2>1, <2>2 DEF Tracks, m
<1> DEFINE Put(k, t) == [c EXCEPT !.tracks[k] = t]
<1>4. ASSUME NEW t \in Tracks(r), n > 0, t.file = c.tracks[n].file
      PROVE  [c EXCEPT !.tracks = [c.tracks EXCEPT ![n] = t]] \in Sheets(r)
  <2> DEFINE s == [c.tracks EXCEPT ![n] = t]
             d == [c EXCEPT !.tracks = s]
  <2>1. s \in Seq(Tracks(r)) /\ DOMAIN s = 1 .. n /\ \A j \in 1 .. n : s[j].file = c.tracks[j].file
    <3>1. /\ s \in Seq(Tracks(r)) /\ Len(s) = n
      BY <1>0, <1>2, <1>4, ExceptSeq
    <3>2. DOMAIN s = 1 .. n /\ \A j \in 1 .. n : s[j] = IF j = n THEN t ELSE c.tracks[j]
      BY <1>0, <1>2
    <3> QED
      BY <1>4, <3>1, <3>2
  <2> HIDE DEF s
  <2>2. d = [ok |-> c.ok, type |-> c.type, files |-> c.files, tracks |-> s]
    BY <1>0
  <2>3. d.tracks = s /\ d.files = c.files /\ FileCount(d) = FileCount(c)
    BY <2>2 DEF FileCount
  <2>4. d \in [ok : BOOLEAN, type : Types(r), files : Seq(Names(r)), tracks : Seq(Tracks(r))]
    BY <1>0, <2>1, <2>2
  <2> HIDE DEF d
  <2>5. d \in Sheets(r)
    BY <1>0, <1>2, <2>1, <2>3, <2>4 DEF Sheets
  <2> QED
    BY <2>5 DEF d, s
<1>5. CASE l.word = "FILE"
  <2> DEFINE d == ParseLine(c, l)
             fs == Append(c.files, l.name)
             ty == IF c.files = << >> THEN l.type ELSE c.type
  <2>1. d = [c EXCEPT !.files = Append(@, l.name), !.type = IF c.files = << >> THEN l.type ELSE @]
    BY <1>5 DEF ParseLine
  <2>2. d = [ok |-> c.ok, type |-> ty, files |-> fs, tracks |-> c.tracks]
    BY <1>0, <2>1
  <2>3. fs \in Seq(Names(r)) /\ Len(fs) = Len(c.files) + 1 /\ fs # << >> /\ Len(c.files) \in Nat
    BY <1>0, <1>1, AppendProperties
  <2>4. ty \in Types(r)
    BY <1>0, <1>1
  <2> HIDE DEF fs, ty, d
  <2>5. d.tracks = c.tracks /\ d.files = fs
    BY <2>2
  <2>6. FileCount(c) <= FileCount(d)
    BY <2>3, <2>5 DEF FileCount
  <2>7. \A j \in DOMAIN c.tracks : c.tracks[j].file \in Nat
    BY <1>2 DEF Tracks
  <2>8. FileCount(d) \in Nat
    BY <2>3, <2>5 DEF FileCount
  <2>9. \A j \in DOMAIN d.tracks : d.tracks[j].file <= FileCount(d)
    BY <1>0, <1>2, <2>5, <2>6, <2>7, <2>8
  <2>10. d \in [ok : BOOLEAN, type : Types(r), files : Seq(Names(r)), tracks : Seq(Tracks(r))]
    BY <1>0, <2>2, <2>3, <2>4
  <2> QED
    BY <2>9, <2>10 DEF Sheets, d
<1>6. CASE l.word = "TRACK"
  <2> DEFINE d == ParseLine(c, l)
             ts == Append(c.tracks, new)
  <2>1. d = [c EXCEPT !.tracks = Append(@, new)]
    BY <1>6 DEF ParseLine
  <2> HIDE DEF new
  <2>2. d = [ok |-> c.ok, type |-> c.type, files |-> c.files, tracks |-> ts]
    BY <1>0, <2>1
  <2>3. /\ ts \in Seq(Tracks(r)) /\ DOMAIN ts = 1 .. n + 1 /\ ts[n + 1] = new
        /\ \A j \in 1 .. n : ts[j] = c.tracks[j]
    BY <1>0, <1>2, <1>3, AppendProperties
  <2> HIDE DEF d, ts
  <2>4. d.tracks = ts /\ d.files = c.files /\ FileCount(d) = FileCount(c)
    BY <2>2 DEF FileCount
  <2>5. \A j \in 1 .. n + 1 : j = n + 1 \/ j \in 1 .. n
    BY <1>2
  <2>6. \A j \in DOMAIN d.tracks : d.tracks[j].file <= FileCount(d)
    <3> SUFFICES ASSUME NEW j \in DOMAIN d.tracks PROVE d.tracks[j].file <= FileCount(d)
      OBVIOUS
    <3>1. CASE j = n + 1
      BY <1>2, <1>3, <2>3, <2>4, <3>1
    <3>2. CASE j \in 1 .. n
      BY <1>0, <1>2, <2>3, <2>4, <3>2
    <3> QED
      BY <2>3, <2>4, <2>5, <3>1, <3>2
  <2>7. d \in [ok : BOOLEAN, type : Types(r), files : Seq(Names(r)), tracks : Seq(Tracks(r))]
    BY <1>0, <2>2, <2>3
  <2> QED
    BY <2>6, <2>7 DEF Sheets, d
<1>7. CASE l.word = "INDEX" /\ n = 0
  <2> DEFINE d == ParseLine(c, l)
  <2>1. d = [c EXCEPT !.ok = FALSE]
    BY <1>7 DEF ParseLine
  <2>2. d = [ok |-> FALSE, type |-> c.type, files |-> c.files, tracks |-> c.tracks]
    BY <1>0, <2>1
  <2> HIDE DEF d
  <2>3. d.tracks = c.tracks /\ FileCount(d) = FileCount(c)
    BY <2>2 DEF FileCount
  <2>4. d \in [ok : BOOLEAN, type : Types(r), files : Seq(Names(r)), tracks : Seq(Tracks(r))]
    BY <1>0, <2>2
  <2> QED
    BY <1>0, <2>3, <2>4 DEF Sheets, d
<1>8. ASSUME NEW t \in Tracks(r), n > 0, t.file = c.tracks[n].file,
             ParseLine(c, l) = [c EXCEPT !.tracks = [c.tracks EXCEPT ![n] = t]]
      PROVE  ParseLine(c, l) \in Sheets(r)
  BY <1>4, <1>8
<1>9. ASSUME n > 0 PROVE c.tracks[n] \in Tracks(r)
  BY <1>2, <1>9
<1> HIDE DEF new
<1>10. CASE l.word = "INDEX" /\ n > 0 /\ l.n = 0
  <2> DEFINE t == [c.tracks[n] EXCEPT !.index0 = l.at]
  <2>1. t \in Tracks(r) /\ t.file = c.tracks[n].file
    BY <1>1, <1>9, <1>10 DEF Tracks
  <2>2. ParseLine(c, l) = [c EXCEPT !.tracks = [c.tracks EXCEPT ![n] = t]]
    BY <1>0, <1>10 DEF ParseLine
  <2> QED
    BY <1>8, <1>10, <2>1, <2>2
<1>11. CASE l.word = "INDEX" /\ n > 0 /\ l.n = 1 /\ l.n # 0
  <2> DEFINE t == [c.tracks[n] EXCEPT !.index1 = l.at]
  <2>1. t \in Tracks(r) /\ t.file = c.tracks[n].file
    BY <1>1, <1>9, <1>11 DEF Tracks
  <2>2. ParseLine(c, l) = [c EXCEPT !.tracks = [c.tracks EXCEPT ![n] = t]]
    BY <1>0, <1>11 DEF ParseLine
  <2> QED
    BY <1>8, <1>11, <2>1, <2>2
<1>12. CASE l.word = "PREGAP" /\ n > 0
  <2> DEFINE t == [c.tracks[n] EXCEPT !.pregap = TRUE]
  <2>1. t \in Tracks(r) /\ t.file = c.tracks[n].file
    BY <1>9, <1>12 DEF Tracks
  <2>2. ParseLine(c, l) = [c EXCEPT !.tracks = [c.tracks EXCEPT ![n] = t]]
    BY <1>0, <1>12 DEF ParseLine
  <2> QED
    BY <1>8, <1>12, <2>1, <2>2
<1>13. CASE l.word = "POSTGAP" /\ n > 0
  <2> DEFINE t == [c.tracks[n] EXCEPT !.postgap = TRUE]
  <2>1. t \in Tracks(r) /\ t.file = c.tracks[n].file
    BY <1>9, <1>13 DEF Tracks
  <2>2. ParseLine(c, l) = [c EXCEPT !.tracks = [c.tracks EXCEPT ![n] = t]]
    BY <1>0, <1>13 DEF ParseLine
  <2> QED
    BY <1>8, <1>13, <2>1, <2>2
<1>14. CASE ~ \/ l.word \in {"FILE", "TRACK"}
              \/ l.word = "INDEX" /\ n = 0
              \/ l.word = "INDEX" /\ n > 0 /\ l.n = 0
              \/ l.word = "INDEX" /\ n > 0 /\ l.n = 1
              \/ l.word \in {"PREGAP", "POSTGAP"} /\ n > 0
  <2>1. ParseLine(c, l) = c
    BY <1>14 DEF ParseLine
  <2> QED
    BY <2>1
<1> QED
  BY <1>5, <1>6, <1>7, <1>10, <1>11, <1>12, <1>13, <1>14


LEMMA CueIs == ASSUME NEW r, IsText(r.lines) PROVE ParseCue(r.lines) \in Sheets(r)
<1> DEFINE n == Len(r.lines)
           base == [NoSheet EXCEPT !.ok = TRUE]
           V == Sheets(r)
           G == [i \in 1 .. n |-> [c \in V |-> ParseLine(c, r.lines[i])]]
           Fix(f) == f = [S \in SUBSET (1 .. n) |->
                            IF S = {} THEN base ELSE ParseLine(f[S \ {Max(S)}], r.lines[Max(S)])]
           fl == CHOOSE f : Fix(f)
           sheet == FoldLeft(ParseLine, base, r.lines)
<1>1. n \in Nat /\ DOMAIN r.lines = 1 .. n
  BY LenProperties DEF IsText
<1>2. sheet = fl[1 .. n]
  BY <1>1 DEF FoldLeft, MapThenFoldSet
<1>3. base \in V
  <2> HIDE DEF G, fl, sheet, V
  <2>1. base = [ok |-> TRUE, type |-> "BINARY", files |-> << >>, tracks |-> << >>]
    <3> DEFINE x == TRUE
               b == [NoSheet EXCEPT !.ok = x]
    <3> HIDE DEF x
    <3>1. b = [ok |-> x, type |-> "BINARY", files |-> << >>, tracks |-> << >>]
      BY DEF NoSheet
    <3> QED
      BY <3>1 DEF x
  <2>2. DOMAIN base.tracks = {}
    BY <2>1
  <2>3. base \in [ok : BOOLEAN, type : Types(r), files : Seq(Names(r)), tracks : Seq(Tracks(r))]
    BY <2>1, EmptySeq DEF Types
  <2> HIDE DEF base
  <2> QED
    BY <2>2, <2>3 DEF Sheets, V
<1>4. G \in [1 .. n -> [V -> V]]
  BY <1>1, LineIs
<1> HIDE DEF V, base
<1>5. ASSUME NEW S \in SUBSET (1 .. n), S # {} PROVE Max(S) \in 1 .. n
  BY <1>1, <1>5, MaxIs
<1> HIDE DEF n
<1>6. Fix(fl)
  <2> HIDE DEF G
  <2>0. PICK g : Folded(g, n, V, base, G)
    BY <1>1, <1>3, <1>4, FoldExists
  <2>1. /\ g \in [SUBSET (1 .. n) -> V]
        /\ \A S \in SUBSET (1 .. n) : g[S] = IF S = {} THEN base ELSE G[Max(S)][g[S \ {Max(S)}]]
    BY <2>0 DEF Folded
  <2>2. ASSUME NEW S \in SUBSET (1 .. n), S # {}
        PROVE  g[S] = ParseLine(g[S \ {Max(S)}], r.lines[Max(S)])
    BY <1>5, <2>1, <2>2 DEF G
  <2>3. Fix(g)
    BY <2>1, <2>2
  <2> QED
    BY <2>3
<1> HIDE DEF fl
<1>7. FoldValues(fl, n, V, base, G)
  <2>1. \A S \in SUBSET (1 .. n) :
          /\ S = {} => fl[S] = base
          /\ S # {} /\ fl[S \ {Max(S)}] \in V => fl[S] = G[Max(S)][fl[S \ {Max(S)}]]
    BY <1>5, <1>6
  <2> HIDE DEF G
  <2> QED
    BY <1>1, <1>3, <1>4, <2>1, FoldSteps
<1>8. sheet \in V
  <2>1. PICK a : Folding(a, n, V, base, G) /\ a[n] = fl[1 .. n]
    BY <1>7 DEF FoldValues
  <2>2. n \in 0 .. n
    BY <1>1
  <2> QED
    BY <1>2, <2>1, <2>2 DEF Folding
<1> DEFINE p == ParseCue(r.lines)
           ok == sheet.ok /\ sheet.files # << >> /\ sheet.tracks # << >>
<1>9. p = [sheet EXCEPT !.ok = ok]
  BY DEF ParseCue, base
<1> HIDE DEF sheet
<1>10. /\ sheet \in [ok : BOOLEAN, type : Types(r), files : Seq(Names(r)), tracks : Seq(Tracks(r))]
       /\ \A i \in DOMAIN sheet.tracks : sheet.tracks[i].file <= FileCount(sheet)
  BY <1>8 DEF V, Sheets
<1>11. p = [ok |-> ok, type |-> sheet.type, files |-> sheet.files, tracks |-> sheet.tracks] /\ ok \in BOOLEAN
  BY <1>9, <1>10
<1> HIDE DEF p, ok
<1>12. p \in [ok : BOOLEAN, type : Types(r), files : Seq(Names(r)), tracks : Seq(Tracks(r))]
  BY <1>10, <1>11
<1>13. p.tracks = sheet.tracks /\ FileCount(p) = FileCount(sheet)
  BY <1>11 DEF FileCount
<1> QED
  BY <1>10, <1>12, <1>13 DEF Sheets, p

\* A sheet of any shape: tracks with their timecodes, each in a file of the sheet.
TrackFits(c, t) ==
  /\ t = [number |-> t.number, mode |-> t.mode, file |-> t.file, index0 |-> t.index0,
          index1 |-> t.index1, pregap |-> t.pregap, postgap |-> t.postgap]
  /\ t.file \in 1 .. FileCount(c)
  /\ t.index0 \in Timecodes \cup {Absent} /\ t.index1 \in Timecodes

SheetIs(c) ==
  /\ c = [ok |-> c.ok, type |-> c.type, files |-> c.files, tracks |-> c.tracks]
  /\ Len(c.files) \in Nat /\ DOMAIN c.files = 1 .. Len(c.files)
  /\ Len(c.tracks) \in Nat /\ DOMAIN c.tracks = 1 .. Len(c.tracks)
  /\ c.files = << >> <=> Len(c.files) = 0
  /\ \A i \in DOMAIN c.tracks : TrackFits(c, c.tracks[i])

\* A count of sectors split at 75 a second and 60 seconds a minute.
LEMMA SplitIs ==
  ASSUME NEW n \in Nat
  PROVE  n \div 4500 \in Nat /\ (n % 4500) \div 75 \in 0 .. 59 /\ n % 75 \in 0 .. 74
<1> DEFINE r == n % 4500
<1>1. r \in Nat /\ r < 4500
  OBVIOUS
<1>2. n \div 4500 \in Nat /\ n % 75 \in 0 .. 74
  OBVIOUS
<1> HIDE DEF r
<1>3. r \div 75 \in 0 .. 59
  BY <1>1
<1> QED
  BY <1>2, <1>3 DEF r

LEMMA TimecodeIs ==
  /\ \A n \in Int : MSFFromLBA(n) \in Timecodes
  /\ \A t \in Timecodes : LBA(t) \in Nat
  /\ Zero \in Timecodes
<1>1. ASSUME NEW n \in Int PROVE MSFFromLBA(n) \in Timecodes
  <2> DEFINE lba == IF n < 0 THEN 0 ELSE n
  <2>1. lba \in Nat
    OBVIOUS
  <2> HIDE DEF lba
  <2>2. lba \div 4500 \in Nat /\ (lba % 4500) \div 75 \in 0 .. 59 /\ lba % 75 \in 0 .. 74
    BY <2>1, SplitIs
  <2>3. MSFFromLBA(n) = [m |-> lba \div 4500, s |-> (lba % 4500) \div 75, f |-> lba % 75]
    BY DEF MSFFromLBA, lba
  <2> QED
    BY <2>2, <2>3 DEF Timecodes
<1>2. ASSUME NEW t \in Timecodes PROVE LBA(t) \in Nat
  <2>1. t.m \in Nat /\ t.s \in Nat /\ t.f \in Nat
    BY DEF Timecodes
  <2> QED
    BY <2>1 DEF LBA
<1>3. Zero \in Timecodes
  BY DEF Zero, Timecodes
<1> QED
  BY <1>1, <1>2, <1>3

\* Sectors and timecodes are one another's inverse.
LEMMA SectorsIs == ASSUME NEW n \in Nat PROVE LBA(MSFFromLBA(n)) = n
<1> DEFINE q == n \div 4500
           r == n % 4500
<1>1. q \in Nat /\ r \in 0 .. 4499 /\ n = 4500 * q + r
  OBVIOUS
<1>2. r = 75 * (r \div 75) + (r % 75) /\ r \div 75 \in Nat /\ r % 75 \in 0 .. 74
  <2>1. \A x \in 0 .. 4499 : x = 75 * (x \div 75) + (x % 75) /\ x \div 75 \in Nat /\ x % 75 \in 0 .. 74
    OBVIOUS
  <2> HIDE DEF r
  <2> QED
    BY <1>1, <2>1
<1>3. n % 75 = r % 75
  <2> HIDE DEF q, r
  <2> DEFINE k == r \div 75
             e == r % 75
  <2>1. k \in Nat /\ e \in 0 .. 74 /\ n = 75 * (60 * q + k) + e
    BY <1>1, <1>2
  <2> HIDE DEF k, e
  <2>2. n % 75 = e
    BY <1>1, <2>1
  <2> QED
    BY <2>2 DEF e
<1>4. MSFFromLBA(n) = [m |-> q, s |-> r \div 75, f |-> r % 75]
  BY <1>3 DEF MSFFromLBA
<1> HIDE DEF q, r
<1> DEFINE k == r \div 75
           e == r % 75
<1>5. LBA(MSFFromLBA(n)) = q * 60 * 75 + k * 75 + e
  BY <1>4 DEF LBA
<1>6. k \in Nat /\ e \in Nat /\ r = 75 * k + e
  BY <1>2
<1> HIDE DEF k, e
<1> QED
  BY <1>1, <1>5, <1>6

\* What fits a BCD byte is read as it was.
LEMMA BCDIs == ASSUME NEW v \in 0 .. 159 PROVE UnBCD(bcd(v)) = v
<1> DEFINE q == v \div 10
           r == v % 10
<1>1. q \in 0 .. 15 /\ r \in 0 .. 9 /\ v = 10 * q + r
  OBVIOUS
<1> HIDE DEF q, r
<1>2. q * 16 + r \in 0 .. 255
  BY <1>1
<1>3. bcd(v) = q * 16 + r
  BY <1>2 DEF bcd, q, r
<1>4. (q * 16 + r) \div 16 = q /\ (q * 16 + r) % 16 = r
  BY <1>1
<1> QED
  BY <1>1, <1>3, <1>4 DEF UnBCD

\* Two seconds are the lead-in.
LEMMA TwoSecondsIs ==
  ASSUME NEW t \in Timecodes
  PROVE  plus2Seconds(t) \in Timecodes /\ LBA(plus2Seconds(t)) = LBA(t) + leadInSectors
<1>1. t = [m |-> t.m, s |-> t.s, f |-> t.f] /\ t.m \in Nat /\ t.s \in 0 .. 59 /\ t.f \in 0 .. 74
  BY DEF Timecodes
<1>2. CASE t.s + 2 >= 60
  <2>1. plus2Seconds(t) = [m |-> t.m + 1, s |-> t.s + 2 - 60, f |-> t.f]
    BY <1>1, <1>2 DEF plus2Seconds
  <2> QED
    BY <1>1, <1>2, <2>1 DEF Timecodes, LBA, leadInSectors
<1>3. CASE ~(t.s + 2 >= 60)
  <2>1. plus2Seconds(t) = [m |-> t.m, s |-> t.s + 2, f |-> t.f]
    BY <1>1, <1>3 DEF plus2Seconds
  <2> QED
    BY <1>1, <1>3, <2>1 DEF Timecodes, LBA, leadInSectors
<1> QED
  BY <1>2, <1>3

\* A timecode short of 160 minutes is read as it was.
LEMMA ReadsIs ==
  ASSUME NEW t \in Timecodes, LBA(t) < 160 * 4500
  PROVE  Reads(BCD(t)) = LBA(t)
<1>1. t.m \in Nat /\ t.s \in 0 .. 59 /\ t.f \in 0 .. 74
  BY DEF Timecodes
<1>2. t.m \in 0 .. 159
  <2>1. t.m * 60 * 75 + t.s * 75 + t.f < 160 * 4500
    BY DEF LBA
  <2>2. \A m \in Nat : m * 60 * 75 = 4500 * m /\ (m * 60 * 75 < 160 * 4500 => m \in 0 .. 159)
    BY SMTT(30)
  <2>3. t.m * 60 * 75 < 160 * 4500
    <3> DEFINE x == t.m * 60 * 75
    <3>1. x \in Nat
      BY <1>1, <2>2
    <3>2. x + t.s * 75 + t.f < 160 * 4500
      BY <2>1
    <3> HIDE DEF x
    <3>3. t.s * 75 \in Nat /\ t.f \in Nat
      BY <1>1
    <3>4. x < 160 * 4500
      BY <3>1, <3>2, <3>3, SMTT(30)
    <3> QED
      BY <3>4 DEF x
  <2> QED
    BY <1>1, <2>2, <2>3
<1>3. UnBCD(bcd(t.m)) = t.m /\ UnBCD(bcd(t.s)) = t.s /\ UnBCD(bcd(t.f)) = t.f
  BY <1>1, <1>2, BCDIs
<1>4. Reads(BCD(t)) = LBA([m |-> UnBCD(bcd(t.m)), s |-> UnBCD(bcd(t.s)), f |-> UnBCD(bcd(t.f))])
  BY DEF Reads, BCD
<1> QED
  BY <1>3, <1>4 DEF LBA

\* A function over 1 .. n is a sequence of length n.
LEMMA FunctionIsSeq ==
  ASSUME NEW n \in Nat, NEW S, NEW f \in [1 .. n -> S]
  PROVE  f \in Seq(S) /\ Len(f) = n /\ DOMAIN f = 1 .. n
<1>1. f \in Seq(S)
  BY SeqDef
<1> QED
  BY <1>1, LenProperties

LEMMA SeqIs ==
  ASSUME NEW S, NEW s \in Seq(S)
  PROVE  /\ Len(s) \in Nat /\ DOMAIN s = 1 .. Len(s) /\ (s = << >> <=> Len(s) = 0)
         /\ \A i \in DOMAIN s : s[i] \in S
  BY LenProperties, EmptySeq, ElementOfSeq

LEMMA LoadIs == ASSUME NEW r \in Rips PROVE SheetIs(LoadSheet(r))
<1> DEFINE c == LoadSheet(r)
<1>1. CASE r.shape = "cue"
  <2>1. c = ParseCue(r.lines)
    BY <1>1 DEF LoadSheet
  <2> HIDE DEF c
  <2>2. c \in Sheets(r)
    BY <2>1, CueIs, RipsAssumption
  <2>3. /\ c \in [ok : BOOLEAN, type : Types(r), files : Seq(Names(r)), tracks : Seq(Tracks(r))]
        /\ \A i \in DOMAIN c.tracks : c.tracks[i].file <= FileCount(c)
    BY <2>2 DEF Sheets
  <2>4. /\ c = [ok |-> c.ok, type |-> c.type, files |-> c.files, tracks |-> c.tracks]
        /\ c.files \in Seq(Names(r)) /\ c.tracks \in Seq(Tracks(r))
    BY <2>3
  <2>5. /\ Len(c.files) \in Nat /\ DOMAIN c.files = 1 .. Len(c.files) /\ (c.files = << >> <=> Len(c.files) = 0)
        /\ Len(c.tracks) \in Nat /\ DOMAIN c.tracks = 1 .. Len(c.tracks)
        /\ \A i \in DOMAIN c.tracks : c.tracks[i] \in Tracks(r)
    BY <2>4, SeqIs
  <2>6. FileCount(c) \in Nat
    BY <2>5 DEF FileCount
  <2>7. ASSUME NEW i \in DOMAIN c.tracks PROVE TrackFits(c, c.tracks[i])
    <3> DEFINE t == c.tracks[i]
    <3>1. t \in Tracks(r) /\ t.file <= FileCount(c)
      BY <2>3, <2>5
    <3> HIDE DEF t
    <3>2. /\ t = [number |-> t.number, mode |-> t.mode, file |-> t.file, index0 |-> t.index0,
                  index1 |-> t.index1, pregap |-> t.pregap, postgap |-> t.postgap]
          /\ t.file \in Nat \ {0} /\ t.index0 \in Timecodes \cup {Absent} /\ t.index1 \in Timecodes
      BY <3>1 DEF Tracks
    <3> QED
      BY <2>6, <3>1, <3>2 DEF TrackFits, t
  <2> QED
    BY <2>4, <2>5, <2>7 DEF SheetIs, c
<1>2. CASE r.shape = "ccd"
  <2> DEFINE n == Len(r.sections)
             ts == [i \in DOMAIN r.sections |-> CCDTrack(r.sections[i])]
  <2>1. c = ParseCCDFile(r)
    BY <1>2 DEF LoadSheet
  <2>2. c.tracks = ts /\ c.files = << "img" >>
        /\ c = [ok |-> c.ok, type |-> c.type, files |-> c.files, tracks |-> c.tracks]
    BY <2>1 DEF ParseCCDFile
  <2>3. n \in Nat /\ DOMAIN r.sections = 1 .. n
    BY RipsAssumption, SeqIs
  <2>4. ASSUME NEW i \in DOMAIN r.sections PROVE TrackFits(c, CCDTrack(r.sections[i]))
    <3> DEFINE s == r.sections[i]
               t == CCDTrack(s)
               i0 == IF s.lba0 = Absent THEN Absent ELSE MSFFromLBA(s.lba0)
               i1 == IF s.lba1 # Absent THEN MSFFromLBA(s.lba1) ELSE IF i0 # Absent THEN i0 ELSE Zero
    <3>1. s.lba0 \in Int \cup {Absent} /\ s.lba1 \in Int \cup {Absent}
      BY RipsAssumption
    <3> HIDE DEF s
    <3>2. i0 \in Timecodes \cup {Absent}
      BY <3>1, TimecodeIs
    <3> HIDE DEF i0
    <3>3. i1 \in Timecodes
      BY <3>1, <3>2, TimecodeIs
    <3>4. /\ t = [number |-> t.number, mode |-> t.mode, file |-> t.file, index0 |-> t.index0,
                  index1 |-> t.index1, pregap |-> t.pregap, postgap |-> t.postgap]
          /\ t.file = 1 /\ t.index0 = i0 /\ t.index1 = i1
      BY DEF CCDTrack, i0
    <3> HIDE DEF t, i1, c
    <3>5. FileCount(c) = 1
      BY <2>2 DEF FileCount
    <3>6. TrackFits(c, t)
      BY <3>2, <3>3, <3>4, <3>5 DEF TrackFits
    <3> QED
      BY <3>6 DEF t, s
  <2> HIDE DEF c
  <2>5. ts \in [1 .. n -> {CCDTrack(r.sections[i]) : i \in DOMAIN r.sections}]
    BY <2>3
  <2>6. Len(ts) = n /\ DOMAIN ts = 1 .. n
    <3> HIDE DEF ts, n
    <3> QED
      BY <2>3, <2>5, FunctionIsSeq
  <2>7. \A i \in DOMAIN ts : TrackFits(c, ts[i])
    BY <2>4
  <2>8. Len(<< "img" >>) = 1 /\ DOMAIN << "img" >> = 1 .. 1 /\ << "img" >> # << >>
    OBVIOUS
  <2> HIDE DEF ts, n
  <2> QED
    BY <2>2, <2>3, <2>6, <2>7, <2>8 DEF SheetIs, c
<1>3. CASE r.shape = "nrg"
  <2>1. c = NoSheet
    BY <1>3 DEF LoadSheet
  <2>2. /\ c = [ok |-> c.ok, type |-> c.type, files |-> c.files, tracks |-> c.tracks]
        /\ c.files = << >> /\ c.tracks = << >>
    BY <2>1 DEF NoSheet
  <2>3. Len(<< >>) = 0 /\ DOMAIN << >> = 1 .. 0 /\ DOMAIN << >> = {}
    OBVIOUS
  <2> HIDE DEF c
  <2> QED
    BY <2>2, <2>3 DEF SheetIs, c
<1>4. CASE r.shape \notin {"cue", "ccd", "nrg"}
  <2> DEFINE t == [number |-> 1, mode |-> "MODE2", file |-> 1, index0 |-> Absent,
                   index1 |-> Zero, pregap |-> FALSE, postgap |-> FALSE]
             nm == r.dir[1].name
             o == r.dir[1].size # 0 /\ r.dir[1].size % SectorSize = 0 /\ r.volume
  <2>1. c = sheetForRawImage(r)
    BY <1>4 DEF LoadSheet
  <2>2. /\ c = [ok |-> c.ok, type |-> c.type, files |-> c.files, tracks |-> c.tracks]
        /\ c.files = << nm >> /\ c.tracks = << t >>
    <3>1. sheetForRawImage(r) = [ok |-> o, type |-> "BINARY", files |-> << nm >>, tracks |-> << t >>]
      BY Zenon DEF sheetForRawImage
    <3> HIDE DEF o, nm, t, c
    <3> QED
      BY <2>1, <3>1
  <2> HIDE DEF c, nm
  <2>3. FileCount(c) = 1
    BY <2>2 DEF FileCount
  <2>4. TrackFits(c, t)
    BY <2>3, TimecodeIs DEF TrackFits
  <2> HIDE DEF t
  <2>5. /\ Len(<< nm >>) = 1 /\ DOMAIN << nm >> = 1 .. 1 /\ << nm >> # << >>
        /\ Len(<< t >>) = 1 /\ DOMAIN << t >> = 1 .. 1 /\ \A i \in 1 .. 1 : << t >>[i] = t
    OBVIOUS
  <2> QED
    BY <2>2, <2>4, <2>5 DEF SheetIs, c
<1> QED
  BY <1>1, <1>2, <1>3, <1>4

\* Files that are all there have sizes.
LEMMA SizesAre ==
  ASSUME NEW r \in Rips, LoadSheet(r).ok,
         \A i \in DOMAIN LoadSheet(r).files : Sizes(r, LoadSheet(r))[i] # Absent
  PROVE  /\ Sizes(r, LoadSheet(r)) \in Seq(Nat)
         /\ Len(Sizes(r, LoadSheet(r))) = Len(LoadSheet(r).files)
<1> DEFINE c == LoadSheet(r)
           z == Sizes(r, c)
           n == Len(c.files)
<1>1. n \in Nat /\ DOMAIN c.files = 1 .. n /\ c.ok /\ \A i \in DOMAIN c.files : z[i] # Absent
  BY LoadIs DEF SheetIs
<1>2. z = [i \in DOMAIN c.files |->
             IF r.shape = "cue" THEN fileResolver(r.dir, c.files[i]) ELSE r.dir[1].size]
  BY DEF Sizes
<1>3. /\ Len(r.dir) \in Nat /\ DOMAIN r.dir = 1 .. Len(r.dir) /\ (r.dir = << >> <=> Len(r.dir) = 0)
      /\ \A i \in DOMAIN r.dir : r.dir[i].size \in Nat
  BY RipsAssumption, SeqIs
<1>4. r.shape # "cue" /\ r.dir # << >> => r.dir[1].size \in Nat
  BY <1>3
<1>5. r.shape \notin {"cue"} => r.dir # << >>
  <2>1. r.shape = "ccd" => r.dir # << >>
    BY <1>1 DEF LoadSheet, ParseCCDFile
  <2>2. r.shape \notin {"cue", "ccd"} => r.dir # << >>
    BY RipsAssumption
  <2> QED
    BY <2>1, <2>2
<1>6. ASSUME NEW name, fileResolver(r.dir, name) # Absent
      PROVE  fileResolver(r.dir, name) \in Nat
  <2> DEFINE exact == {i \in DOMAIN r.dir : r.dir[i].name = name}
             alike == {i \in DOMAIN r.dir : r.dir[i].name.lower = name.lower}
             first(S) == CHOOSE i \in S : \A j \in S : i <= j
  <2>1. ASSUME NEW S \in SUBSET DOMAIN r.dir, S # {} PROVE r.dir[first(S)].size \in Nat
    <3>1. S \in SUBSET Nat
      BY <1>3
    <3>2. first(S) \in S
      BY <2>1, <3>1, LeastNumber
    <3> HIDE DEF first
    <3> QED
      BY <1>3, <3>2
  <2>2. fileResolver(r.dir, name) = IF exact # {} THEN r.dir[first(exact)].size
                                    ELSE IF alike # {} THEN r.dir[first(alike)].size ELSE Absent
    BY DEF fileResolver
  <2>3. exact \in SUBSET DOMAIN r.dir /\ alike \in SUBSET DOMAIN r.dir
    OBVIOUS
  <2> HIDE DEF exact, alike, first
  <2> QED
    BY <1>6, <2>1, <2>2, <2>3
<1> HIDE DEF c
<1>7. ASSUME NEW i \in 1 .. n PROVE z[i] \in Nat
  <2>1. z[i] = IF r.shape = "cue" THEN fileResolver(r.dir, c.files[i]) ELSE r.dir[1].size
    BY <1>1, <1>2
  <2>2. z[i] # Absent
    BY <1>1
  <2> HIDE DEF z
  <2> QED
    BY <1>4, <1>5, <1>6, <2>1, <2>2
<1> HIDE DEF z, n
<1>8. z \in [1 .. n -> Nat]
  BY <1>1, <1>2, <1>7
<1>9. z \in Seq(Nat) /\ Len(z) = n
  BY <1>1, <1>8, FunctionIsSeq
<1> QED
  BY <1>9 DEF z, n, c

\* Joining moves the tracks and keeps what they declare.
Base(sizes, t) == SumOf(SubSeq(sizes, 1, t.file - 1)) \div SectorSize

Moved(t, u, b) ==
  /\ u.mode = t.mode /\ LBA(u.index1) = b + LBA(t.index1)
  /\ u.index0 = Absent <=> t.index0 = Absent
  /\ u.index0 # Absent => LBA(u.index0) = b + LBA(t.index0)

LEMMA JoinIs ==
  ASSUME NEW c, SheetIs(c), c.files # << >>, NEW sizes \in Seq(Nat), Len(sizes) = Len(c.files)
  PROVE  /\ DOMAIN Joined(c, sizes).tracks = DOMAIN c.tracks
         /\ \A i \in DOMAIN c.tracks :
              /\ Joined(c, sizes).tracks[i].pregap = c.tracks[i].pregap
              /\ Joined(c, sizes).tracks[i].postgap = c.tracks[i].postgap
              /\ Joined(c, sizes).tracks[i].index0 \in Timecodes \cup {Absent}
              /\ Joined(c, sizes).tracks[i].index1 \in Timecodes
              /\ Moved(c.tracks[i], Joined(c, sizes).tracks[i], Base(sizes, c.tracks[i]))
<1> DEFINE base(t) == SumOf(SubSeq(sizes, 1, t.file - 1)) \div SectorSize
           moved(t) ==
             [t EXCEPT !.index1 = MSFFromLBA(base(t) + LBA(@)),
                       !.index0 = IF @ = Absent THEN Absent ELSE MSFFromLBA(base(t) + LBA(@)),
                       !.file = 1]
           o == c.ok /\ \A i \in DOMAIN sizes : sizes[i] % SectorSize = 0
           ts == [i \in DOMAIN c.tracks |-> moved(c.tracks[i])]
           j == Joined(c, sizes)
<1>1. /\ c = [ok |-> c.ok, type |-> c.type, files |-> c.files, tracks |-> c.tracks]
      /\ \A i \in DOMAIN c.tracks : TrackFits(c, c.tracks[i])
  BY DEF SheetIs
<1>2. FileCount(c) = Len(c.files) /\ Len(c.files) \in Nat
  BY DEF FileCount, SheetIs
<1>3. j.tracks = ts
  <2>1. j = [c EXCEPT !.ok = o, !.tracks = ts]
    BY DEF Joined
  <2> HIDE DEF j, o, ts
  <2> QED
    BY <1>1, <2>1
<1>4. ASSUME NEW i \in DOMAIN c.tracks
      PROVE  /\ ts[i].pregap = c.tracks[i].pregap /\ ts[i].postgap = c.tracks[i].postgap
             /\ ts[i].index0 \in Timecodes \cup {Absent} /\ ts[i].index1 \in Timecodes
             /\ Moved(c.tracks[i], ts[i], Base(sizes, c.tracks[i]))
  <2> DEFINE t == c.tracks[i]
             b == base(t)
             i0 == IF t.index0 = Absent THEN Absent ELSE MSFFromLBA(b + LBA(t.index0))
             i1 == MSFFromLBA(b + LBA(t.index1))
  <2>1. ts[i] = moved(t)
    OBVIOUS
  <2>2. /\ t = [number |-> t.number, mode |-> t.mode, file |-> t.file, index0 |-> t.index0,
                index1 |-> t.index1, pregap |-> t.pregap, postgap |-> t.postgap]
        /\ t.file \in 1 .. Len(c.files)
        /\ t.index0 \in Timecodes \cup {Absent} /\ t.index1 \in Timecodes
    BY <1>1, <1>2 DEF TrackFits
  <2> HIDE DEF t
  <2>3. b \in Nat
    <3> DEFINE s == SubSeq(sizes, 1, t.file - 1)
    <3>1. t.file - 1 \in 0 .. Len(sizes) /\ t.file - 1 \in Int
      BY <1>2, <2>2
    <3>2. s \in Seq(Nat)
      BY <3>1, SubSeqProperties
    <3>3. SumOf(s) \in Nat
      BY <3>2, SumIs
    <3>4. \A x \in Nat, k \in Nat \ {0} : x \div k \in Nat
      OBVIOUS
    <3> HIDE DEF s
    <3>5. SumOf(s) \div SectorSize \in Nat
      BY <3>3, <3>4, VcdAssumption
    <3> QED
      BY <3>5 DEF s
  <2>4. moved(t) = [number |-> t.number, mode |-> t.mode, file |-> 1, index0 |-> i0,
                    index1 |-> i1, pregap |-> t.pregap, postgap |-> t.postgap]
    <3>1. moved(t) = [t EXCEPT !.index1 = i1, !.index0 = i0, !.file = 1]
      <4>1. t.index1 = t.index1 /\ [t EXCEPT !.index1 = i1].index0 = t.index0
        BY <2>2
      <4> QED
        BY <4>1
    <3> HIDE DEF i0, i1, moved
    <3> QED
      BY <2>2, <3>1
  <2> HIDE DEF b, base, moved
  <2>5. i0 \in Timecodes \cup {Absent} /\ i1 \in Timecodes
    <3>1. \A x \in Timecodes : b + LBA(x) \in Int
      BY <2>3, TimecodeIs
    <3>2. \A x \in Timecodes : MSFFromLBA(b + LBA(x)) \in Timecodes
      BY <3>1, TimecodeIs
    <3> QED
      BY <2>2, <3>2, SMTT(30)
  <2>6. LBA(i1) = b + LBA(t.index1) /\ (i0 = Absent <=> t.index0 = Absent)
        /\ (i0 # Absent => LBA(i0) = b + LBA(t.index0))
    <3>1. \A x \in Timecodes : b + LBA(x) \in Nat /\ MSFFromLBA(b + LBA(x)) # Absent
      <4>1. \A x \in Timecodes : b + LBA(x) \in Nat /\ b + LBA(x) \in Int
        <5>1. ASSUME NEW x \in Timecodes PROVE b + LBA(x) \in Nat /\ b + LBA(x) \in Int
          <6>1. LBA(x) \in Nat
            BY TimecodeIs
          <6> QED
            BY <2>3, <6>1
        <5> QED
          BY <5>1
      <4>2. \A x \in Timecodes : MSFFromLBA(b + LBA(x)) \in Timecodes
        BY <4>1, TimecodeIs
      <4> QED
        BY <4>1, <4>2, VcdAssumption
    <3>2. \A x \in Timecodes : LBA(MSFFromLBA(b + LBA(x))) = b + LBA(x)
      BY <3>1, SectorsIs
    <3> QED
      BY <2>2, <3>1, <3>2
  <2> HIDE DEF i0, i1, ts
  <2>7. Moved(t, ts[i], b)
    BY <2>1, <2>4, <2>6 DEF Moved
  <2>8. b = Base(sizes, t)
    BY DEF b, base, Base
  <2> QED
    BY <2>1, <2>4, <2>5, <2>7, <2>8 DEF t
<1>5. DOMAIN ts = DOMAIN c.tracks
  OBVIOUS
<1> HIDE DEF ts, j
<1> QED
  BY <1>3, <1>4, <1>5 DEF j

\* The timecodes of a sheet, and a place in it.
Timed(c) == /\ Len(c.tracks) \in Nat /\ DOMAIN c.tracks \in SUBSET Nat
            /\ \A i \in DOMAIN c.tracks : /\ c.tracks[i].index0 \in Timecodes \cup {Absent}
                                          /\ c.tracks[i].index1 \in Timecodes

LEMMA PlaceIs == ASSUME NEW c, Timed(c), NEW total \in Nat PROVE PadOffset(c, total) \in Nat
<1> DEFINE audio == {i \in DOMAIN c.tracks : c.tracks[i].mode = "AUDIO"}
           k == CHOOSE i \in audio : \A j \in audio : i <= j
           x == IF c.tracks[k].index0 = Absent THEN c.tracks[k].index1 ELSE c.tracks[k].index0
           off == LBA(x) * SectorSize
<1>1. PadOffset(c, total) = IF audio = {} \/ off > total THEN total ELSE off
  BY DEF PadOffset
<1>2. audio # {} => k \in audio
  <2>1. audio \in SUBSET Nat
    BY DEF Timed
  <2> HIDE DEF audio
  <2> QED
    BY <2>1, LeastNumber
<1>3. audio # {} => x \in Timecodes
  <2>1. audio \subseteq DOMAIN c.tracks
    OBVIOUS
  <2> HIDE DEF audio, k
  <2> QED
    BY <1>2, <2>1 DEF Timed
<1>4. audio # {} => off \in Nat
  <2>1. \A a \in Nat, b \in Nat : a * b \in Nat
    OBVIOUS
  <2> HIDE DEF audio, x
  <2> QED
    BY <1>3, <2>1, TimecodeIs, VcdAssumption
<1> HIDE DEF audio, off
<1> QED
  BY <1>1, <1>4

\* What a conversion works with, once it is open: whole sectors, gaps that are the
\* sheet's, and a place for the pregap.
Fit(r) ==
  /\ Total(r) \in Nat \ {0} /\ Total(r) % SectorSize = 0
  /\ PadOffset(Sheet(r), Total(r)) \in Nat
  /\ PregapCount(Sheet(r)) \in Nat /\ PostgapCount(Sheet(r)) \in Nat
  /\ GapSectors(LoadSheet(r)) = GapSectors(Sheet(r))
  /\ LooksLikeCDRWIN(LoadSheet(r)) = LooksLikeCDRWIN(Sheet(r))
  /\ LoadSheet(r).files # << >>

LEMMA FitIs ==
  ASSUME NEW r \in Rips, LoadSheet(r).ok,
         \A i \in DOMAIN LoadSheet(r).files : Sizes(r, LoadSheet(r))[i] # Absent,
         Total(r) > 0, Total(r) % SectorSize = 0
  PROVE  Fit(r)
<1> DEFINE c == LoadSheet(r)
           z == Sizes(r, c)
           s == Sheet(r)
<1>2. z \in Seq(Nat) /\ Len(z) = Len(c.files)
  BY SizesAre
<1>1. SheetIs(c) /\ c.files # << >>
  <2>1. SheetIs(c)
    BY LoadIs
  <2>2. Total(r) = SumOf(z)
    BY DEF Total
  <2> HIDE DEF z, c
  <2>3. Len(c.files) # 0
    <3>1. Len(z) = 0 => z = << >>
      BY <1>2, SeqIs
    <3>2. z = << >> => SumOf(z) = 0
      BY <1>2, SumIs
    <3>3. SumOf(z) # 0
      BY <2>2
    <3> QED
      BY <1>2, <3>1, <3>2, <3>3
  <2>4. c.files # << >>
    BY <2>3, EmptySeq, SMTT(30)
  <2> QED
    BY <2>1, <2>4
<1>3. Total(r) \in Nat \ {0}
  <2>1. Total(r) = SumOf(z)
    BY DEF Total
  <2> HIDE DEF z
  <2> QED
    BY <1>2, <2>1, SumIs
<1>4. s = IF Len(c.files) > 1 THEN Joined(c, z) ELSE c
  BY DEF Sheet
<1> HIDE DEF z, s, c
<1>5. /\ DOMAIN s.tracks = DOMAIN c.tracks
      /\ \A i \in DOMAIN c.tracks :
           /\ s.tracks[i].pregap = c.tracks[i].pregap /\ s.tracks[i].postgap = c.tracks[i].postgap
           /\ s.tracks[i].index0 \in Timecodes \cup {Absent} /\ s.tracks[i].index1 \in Timecodes
  <2>1. CASE Len(c.files) > 1
    BY <1>1, <1>2, <1>4, <2>1, JoinIs
  <2>2. CASE ~(Len(c.files) > 1)
    BY <1>1, <1>4, <2>2 DEF SheetIs, TrackFits
  <2> QED
    BY <2>1, <2>2
<1> DEFINE n == Len(c.tracks)
<1>6. n \in Nat /\ DOMAIN c.tracks = 1 .. n
  BY <1>1 DEF SheetIs
<1>7. Timed(s)
  <2>1. DOMAIN s.tracks \in SUBSET Nat
    BY <1>5, <1>6
  <2> DEFINE ts == s.tracks
  <2>2. DOMAIN ts = 1 .. n
    BY <1>5, <1>6
  <2> HIDE DEF ts, n
  <2>3. Len(ts) \in Nat
    BY <1>6, <2>2
  <2> QED
    BY <1>5, <2>1, <2>3 DEF Timed, ts
<1> HIDE DEF n
<1>8. PadOffset(s, Total(r)) \in Nat
  BY <1>3, <1>7, PlaceIs
<1>9. ASSUME NEW S \in SUBSET (1 .. n) PROVE Cardinality(S) \in Nat
  <2>1. 1 \in Int /\ n \in Int
    BY <1>6
  <2>2. IsFiniteSet(1 .. n)
    BY <2>1, FS_Interval
  <2> QED
    BY <2>2, FS_Subset, FS_CardinalityType
<1>10. PregapCount(s) \in Nat /\ PostgapCount(s) \in Nat
  BY <1>5, <1>6, <1>9 DEF PregapCount, PostgapCount
<1>11. PregapCount(c) = PregapCount(s) /\ PostgapCount(c) = PostgapCount(s)
  <2>1. {i \in DOMAIN c.tracks : c.tracks[i].pregap} = {i \in DOMAIN s.tracks : s.tracks[i].pregap}
    BY <1>5
  <2>2. {i \in DOMAIN c.tracks : c.tracks[i].postgap} = {i \in DOMAIN s.tracks : s.tracks[i].postgap}
    BY <1>5
  <2> QED
    BY <2>1, <2>2 DEF PregapCount, PostgapCount
<1>12. GapSectors(c) = GapSectors(s) /\ LooksLikeCDRWIN(c) = LooksLikeCDRWIN(s)
  BY <1>11 DEF GapSectors, LooksLikeCDRWIN
<1> QED
  BY <1>1, <1>3, <1>8, <1>10, <1>12 DEF Fit, c, s

-----------------------------------------------------------------------------
(* The bytes written. *)

padBytes == leadInSectors * SectorSize

\* The inductive invariant: the pieces written are the bytes copied, and the
\* pregap once it is no longer wanted.
VInv ==
  /\ rip \in Rips /\ done \in Nat
  /\ at \in {"load", "refused", "copy", "killed", "failed", "converted"}
  /\ at \in {"load", "refused"} => header = Absent
  /\ at = "load" => done = 0
  /\ at # "converted" => vcd = Absent
  /\ at \notin {"copy", "killed"} => partial = Absent
  /\ at \notin {"load", "refused"} =>
       Fit(rip) /\ header.sectors = Total(rip) \div SectorSize + GapSectors(Sheet(rip))
  /\ at \in {"copy", "killed"} =>
       /\ done <= Total(rip) /\ Sized(partial)
       /\ needPad \in BOOLEAN /\ (needPad => LooksLikeCDRWIN(Sheet(rip)))
       /\ Written(partial) = done + (IF LooksLikeCDRWIN(Sheet(rip)) /\ ~needPad THEN padBytes ELSE 0)
  /\ at = "converted" =>
       /\ Sized(vcd)
       /\ Written(vcd) = Total(rip) + (IF LooksLikeCDRWIN(Sheet(rip)) THEN padBytes ELSE 0)

LEMMA EmptySized == Sized(<< >>) /\ Written(<< >>) = 0
<1>1. Sized(<< >>)
  BY EmptySeq DEF Sized
<1> QED
  BY <1>1, WrittenIs

LEMMA VcdStarts == VcdInit => VInv
  BY DEF VcdInit, VInv

LEMMA OpenKeeps == ASSUME VInv, Open PROVE VInv'
<1> DEFINE c == Sheet(rip)
           total == Total(rip)
           sizes == Sizes(rip, LoadSheet(rip))
           good == /\ Validate(rip, LoadSheet(rip))
                   /\ \A i \in DOMAIN sizes : sizes[i] # Absent
                   /\ c.ok /\ total > 0 /\ total % SectorSize = 0
                   /\ Len(c.tracks) <= 99
<1>1. at = "load" /\ rip \in Rips /\ done = 0 /\ UNCHANGED <<rip, done, vcd>> /\ vcd = Absent
  BY DEF Open, VInv
<1>2. CASE good
  <2>1. /\ header' = BuildHeader(c, total) /\ needPad' = LooksLikeCDRWIN(c)
        /\ partial' = << >> /\ at' = "copy"
    BY <1>2 DEF Open
  <2>2. Fit(rip)
    <3>1. LoadSheet(rip).ok
      BY <1>2 DEF Validate
    <3>2. DOMAIN sizes = DOMAIN LoadSheet(rip).files
      BY DEF Sizes
    <3> QED
      BY <1>1, <1>2, <3>1, <3>2, FitIs
  <2>3. header'.sectors = total \div SectorSize + GapSectors(c)
    <3>1. header'.sectors = BuildHeader(c, total).sectors
      BY <2>1
    <3>2. BuildHeader(c, total).sectors = total \div SectorSize + GapSectors(c)
      BY DEF BuildHeader
    <3> QED
      BY <3>1, <3>2
  <2>4. needPad' \in BOOLEAN
    BY <2>1 DEF LooksLikeCDRWIN
  <2>5. total \in Nat /\ done' = 0 /\ rip' = rip /\ vcd' = Absent
    BY <1>1, <2>2 DEF Fit
  <2> HIDE DEF good, sizes
  <2>6. Sized(partial') /\ Written(partial') = 0
    BY <2>1, EmptySized
  <2> QED
    BY <1>1, <2>1, <2>2, <2>3, <2>4, <2>5, <2>6 DEF VInv
<1>3. CASE ~good
  <2>1. at' = "refused" /\ UNCHANGED <<header, needPad, partial>>
    BY <1>3 DEF Open
  <2> QED
    BY <1>1, <2>1 DEF VInv
<1> QED
  BY <1>2, <1>3

LEMMA ChunkKeeps == ASSUME VInv, Chunk PROVE VInv'
<1> DEFINE total == Total(rip)
           padAt == PadOffset(Sheet(rip), total)
           left == IF total - done < BufSize THEN total - done ELSE BufSize
           n == IF needPad /\ done < padAt /\ done + left > padAt THEN padAt - done ELSE left
           here == needPad /\ done + n = padAt
           one == partial \o << Piece(done, done + n) >>
           cdrwin == LooksLikeCDRWIN(Sheet(rip))
<1>1. /\ at = "copy" /\ done < total /\ UNCHANGED <<rip, at, header, vcd>>
      /\ done' = done + n /\ needPad' = (needPad /\ ~here)
      /\ partial' = one \o (IF here THEN << Pad >> ELSE << >>)
  BY DEF Chunk
<1>2. /\ Sized(partial) /\ needPad \in BOOLEAN /\ (needPad => cdrwin) /\ Fit(rip)
      /\ Written(partial) = done + (IF cdrwin /\ ~needPad THEN padBytes ELSE 0)
      /\ rip \in Rips /\ done \in Nat /\ done <= total
      /\ header.sectors = total \div SectorSize + GapSectors(Sheet(rip)) /\ vcd = Absent
  BY <1>1 DEF VInv
<1>3. total \in Nat /\ padAt \in Nat /\ BufSize \in Nat \ {0}
  BY <1>2, VcdAssumption DEF Fit
<1> HIDE DEF total, padAt
<1>4. n \in Nat /\ done + n <= total
  BY <1>1, <1>2, <1>3
<1> HIDE DEF n, left
<1>5. /\ Sized(one) /\ Written(one) = Written(partial) + n
  <2>1. Piece(done, done + n) \in Pieces /\ SizeOf(Piece(done, done + n)) = n
    BY <1>2, <1>4, PieceIs
  <2> QED
    BY <1>2, <1>4, <2>1, WrittenIs
<1> HIDE DEF one, here, cdrwin
<1>6. here \in BOOLEAN /\ (here => needPad)
  BY DEF here
<1>7. padBytes \in Nat /\ SizeOf(Pad) = padBytes
  BY PadIs DEF padBytes
<1>8. Written(partial) \in Nat
  BY <1>2, WrittenIs
<1>9. CASE here
  <2>1. partial' = one \o << Pad >> /\ needPad' = FALSE
    BY <1>1, <1>9
  <2>2. Sized(partial') /\ Written(partial') = Written(one) + padBytes
    BY <1>5, <1>7, <2>1, PadIs, WrittenIs
  <2>3. Written(partial') = done' + (IF cdrwin /\ ~needPad' THEN padBytes ELSE 0)
    BY <1>1, <1>2, <1>4, <1>5, <1>6, <1>7, <1>8, <1>9, <2>1, <2>2
  <2>4. done' \in Nat /\ done' <= total /\ needPad' \in BOOLEAN /\ (needPad' => cdrwin)
    BY <1>1, <1>2, <1>4, <2>1
  <2> HIDE DEF padBytes
  <2> QED
    BY <1>1, <1>2, <2>2, <2>3, <2>4 DEF VInv, total, cdrwin
<1>10. CASE ~here
  <2>1. partial' = one /\ needPad' = needPad
    <3>1. one \o << >> = one
      BY <1>5, ConcatEmptySeq DEF Sized
    <3> QED
      BY <1>1, <1>2, <1>6, <1>10, <3>1
  <2>2. Written(partial') = done' + (IF cdrwin /\ ~needPad' THEN padBytes ELSE 0)
    <3> DEFINE pad == IF cdrwin /\ ~needPad THEN padBytes ELSE 0
    <3>1. pad \in Nat /\ Written(partial) = done + pad
      BY <1>2, <1>7
    <3>2. (IF cdrwin /\ ~needPad' THEN padBytes ELSE 0) = pad
      BY <2>1, Zenon
    <3>3. Written(one) = done + pad + n
      BY <1>5, <3>1
    <3> HIDE DEF pad
    <3>4. Written(partial') = done + pad + n
      BY <2>1, <3>3
    <3>5. done + pad + n = done' + pad
      BY <1>1, <1>2, <1>4, <3>1
    <3> QED
      BY <3>2, <3>4, <3>5
  <2>3. done' \in Nat /\ done' <= total
    BY <1>1, <1>2, <1>4
  <2> QED
    BY <1>1, <1>2, <1>5, <2>1, <2>2, <2>3 DEF VInv, total, cdrwin
<1> QED
  BY <1>6, <1>9, <1>10

LEMMA PublishKeeps == ASSUME VInv, Publish PROVE VInv'
<1> DEFINE cdrwin == LooksLikeCDRWIN(Sheet(rip))
           total == Total(rip)
<1>1. /\ at = "copy" /\ done = total /\ UNCHANGED <<rip, header, done>>
      /\ vcd' = partial \o (IF needPad THEN << Pad >> ELSE << >>)
      /\ partial' = Absent /\ at' = "converted"
  BY DEF Publish
<1>2. /\ Sized(partial) /\ needPad \in BOOLEAN /\ (needPad => cdrwin) /\ Fit(rip)
      /\ Written(partial) = done + (IF cdrwin /\ ~needPad THEN padBytes ELSE 0)
      /\ rip \in Rips /\ done \in Nat
      /\ header.sectors = total \div SectorSize + GapSectors(Sheet(rip))
  BY <1>1 DEF VInv
<1>3. padBytes \in Nat /\ SizeOf(Pad) = padBytes
  BY PadIs DEF padBytes
<1> HIDE DEF cdrwin, total
<1>4. Sized(vcd') /\ Written(vcd') = total + (IF cdrwin THEN padBytes ELSE 0)
  <2>1. CASE needPad
    <3>1. vcd' = partial \o << Pad >>
      BY <1>1, <2>1
    <3>2. Sized(vcd') /\ Written(vcd') = Written(partial) + padBytes
      BY <1>2, <1>3, <3>1, PadIs, WrittenIs
    <3> QED
      BY <1>1, <1>2, <1>3, <2>1, <3>2
  <2>2. CASE ~needPad
    <3>1. vcd' = partial
      BY <1>1, <1>2, <2>2, ConcatEmptySeq DEF Sized
    <3> QED
      BY <1>1, <1>2, <2>2, <3>1
  <2> QED
    BY <1>2, <2>1, <2>2
<1> QED
  BY <1>1, <1>2, <1>4 DEF VInv, total, cdrwin

LEMMA AbortKeeps == ASSUME VInv, NEW killed \in BOOLEAN, Abort(killed) PROVE VInv'
  BY DEF VInv, Abort

\* The invariant of a conversion.
THEOREM VcdInductive == VcdSpec => []VInv
<1>1. ASSUME VInv, [Convert]_vcdVars PROVE VInv'
  <2>1. CASE Convert
    BY <1>1, <2>1, OpenKeeps, ChunkKeeps, PublishKeeps, AbortKeeps DEF Convert
  <2>2. CASE UNCHANGED vcdVars
    BY <1>1, <2>2 DEF VInv, vcdVars
  <2> QED
    BY <1>1, <2>1, <2>2
<1> QED
  BY <1>1, VcdStarts, PTL DEF VcdSpec

\* What the invariant says of the space charged.
LEMMA SpaceFollows == VInv => SpaceIsEnough
<1> SUFFICES ASSUME VInv, header # Absent PROVE SpaceIsEnough
  BY DEF SpaceIsEnough
<1> DEFINE c == Sheet(rip)
           total == Total(rip)
           gaps == GapSectors(c)
           cdrwin == LooksLikeCDRWIN(c)
           stream == IF vcd # Absent THEN vcd ELSE IF partial # Absent THEN partial ELSE << >>
           written == Written(stream)
           charged == VCDSize(total, GapSectors(LoadSheet(rip)))
<1>1. Fit(rip) /\ header.sectors = total \div SectorSize + gaps /\ at \notin {"load", "refused"}
  BY DEF VInv
<1>2. /\ total \in Nat \ {0} /\ total % SectorSize = 0
      /\ PregapCount(c) \in Nat /\ PostgapCount(c) \in Nat /\ GapSectors(LoadSheet(rip)) = gaps
  BY <1>1 DEF Fit
<1>3. HeaderSize \in Nat /\ SectorSize \in Nat \ {0}
  BY VcdAssumption
<1>4. gaps \in Nat /\ (cdrwin => gaps = leadInSectors) /\ cdrwin \in BOOLEAN
  BY <1>2 DEF GapSectors, LooksLikeCDRWIN, leadInSectors
<1>5. charged = HeaderSize + total + gaps * SectorSize /\ gaps * SectorSize \in Nat /\ padBytes \in Nat
      /\ (cdrwin => gaps * SectorSize = padBytes) /\ (gaps = 0 => gaps * SectorSize = 0)
  <2>1. charged = HeaderSize + total + gaps * SectorSize
    BY <1>2 DEF VCDSize
  <2>2. \A a \in Nat, b \in Nat : a * b \in Nat
    OBVIOUS
  <2>3. padBytes \in Nat
    BY PadIs DEF padBytes
  <2> HIDE DEF gaps, cdrwin
  <2>4. cdrwin => gaps * SectorSize = padBytes
    BY <1>4 DEF padBytes
  <2>5. gaps = 0 => gaps * SectorSize = 0
    BY <1>3
  <2>6. gaps * SectorSize \in Nat
    BY <1>3, <1>4, <2>2
  <2> QED
    BY <2>1, <2>3, <2>4, <2>5, <2>6
<1> HIDE DEF c, total, gaps, cdrwin, charged
<1>6. written \in Nat /\ written <= total + (IF cdrwin THEN padBytes ELSE 0)
      /\ (vcd # Absent => written = total + (IF cdrwin THEN padBytes ELSE 0))
  <2>1. CASE vcd # Absent
    <3>1. at = "converted" /\ stream = vcd
      BY <2>1 DEF VInv
    <3>2. Written(vcd) = total + (IF cdrwin THEN padBytes ELSE 0)
      BY <3>1 DEF VInv, total, cdrwin, c
    <3> HIDE DEF padBytes, stream
    <3> QED
      BY <1>2, <1>4, <1>5, <3>1, <3>2
  <2>2. CASE vcd = Absent /\ partial # Absent
    <3>1. at \in {"copy", "killed"} /\ stream = partial
      BY <2>2 DEF VInv
    <3>2. /\ Written(partial) = done + (IF cdrwin /\ ~needPad THEN padBytes ELSE 0)
          /\ done \in Nat /\ done <= total /\ needPad \in BOOLEAN
      BY <3>1 DEF VInv, total, cdrwin, c
    <3> HIDE DEF padBytes, stream
    <3> QED
      BY <1>2, <1>4, <1>5, <2>2, <3>1, <3>2
  <2>3. CASE vcd = Absent /\ partial = Absent
    <3>1. written = 0
      BY <2>3, EmptySized
    <3> HIDE DEF padBytes, stream
    <3> QED
      BY <1>2, <1>4, <1>5, <2>3, <3>1
  <2> QED
    BY <2>1, <2>2, <2>3
<1>7. header.sectors * SectorSize = total + gaps * SectorSize
  <2>1. total = (total \div SectorSize) * SectorSize /\ total \div SectorSize \in Nat
    BY <1>2, <1>3, WholeIs
  <2>2. header.sectors = total \div SectorSize + gaps
    BY <1>1 DEF total, gaps
  <2> QED
    BY <1>3, <1>4, <2>1, <2>2, TimesIs
<1>8. HeaderSize + written <= charged
  <2> HIDE DEF written, stream, padBytes
  <2> DEFINE g == gaps * SectorSize
  <2>1. g \in Nat /\ charged = HeaderSize + total + g /\ (cdrwin => g = padBytes) /\ padBytes \in Nat
    BY <1>5
  <2> HIDE DEF g
  <2> QED
    BY <1>2, <1>3, <1>4, <1>6, <2>1
<1>9. ASSUME vcd # Absent, cdrwin \/ gaps = 0
      PROVE  charged = HeaderSize + written /\ header.sectors * SectorSize = written
  <2> HIDE DEF written, stream, padBytes
  <2> DEFINE g == gaps * SectorSize
  <2>1. g \in Nat /\ charged = HeaderSize + total + g /\ (cdrwin => g = padBytes)
        /\ (gaps = 0 => g = 0) /\ padBytes \in Nat /\ header.sectors * SectorSize = total + g
    BY <1>5, <1>7
  <2>2. gaps = leadInSectors => gaps # 0
    BY DEF leadInSectors
  <2>3. cdrwin <=> gaps # 0
    BY <1>4, <1>9, <2>2
  <2> HIDE DEF g
  <2> QED
    BY <1>2, <1>3, <1>4, <1>6, <1>9, <2>1, <2>3
<1>10. written = SumOf([k \in DOMAIN stream |-> SizeOf(stream[k])])
  BY DEF Written
<1> HIDE DEF written, stream
<1> QED
  BY <1>8, <1>9, <1>10 DEF SpaceIsEnough, stream, charged, total, c, gaps, cdrwin

\* The space check never understates, whatever the sheet, the files and the buffer.
THEOREM SpaceHolds == VcdSpec => []SpaceIsEnough
  BY VcdInductive, SpaceFollows, PTL

-----------------------------------------------------------------------------
(* What a header tells. *)

GapAt(t) == IF t.index0 = Absent THEN t.index1 ELSE t.index0

\* The tracks of the sheet a conversion works with are where the rip has them.
LocatedAt(r, t, u) ==
  /\ u.mode = t.mode /\ u.index1 \in Timecodes /\ GapAt(u) \in Timecodes
  /\ InRip(r, t, t.index1) = LBA(u.index1) * SectorSize
  /\ InRip(r, t, GapAt(t)) = LBA(GapAt(u)) * SectorSize

Located(r) ==
  /\ Len(LoadSheet(r).tracks) \in Nat /\ DOMAIN LoadSheet(r).tracks = 1 .. Len(LoadSheet(r).tracks)
  /\ DOMAIN Sheet(r).tracks = DOMAIN LoadSheet(r).tracks
  /\ \A i \in DOMAIN LoadSheet(r).tracks : LocatedAt(r, LoadSheet(r).tracks[i], Sheet(r).tracks[i])
  /\ LoadSheet(r).tracks[1].mode = "MODE2"

\* Bytes before a file, and into it, are sectors before it, and into it.
LEMMA InSectors ==
  ASSUME NEW p \in Nat, p % SectorSize = 0, NEW n \in Nat
  PROVE  p + n * SectorSize = (p \div SectorSize + n) * SectorSize
<1> DEFINE q == p \div SectorSize
<1>1. p = q * SectorSize /\ q \in Nat
  BY WholeIs, VcdAssumption
<1> HIDE DEF q
<1>2. (q + n) * SectorSize = q * SectorSize + n * SectorSize
  BY <1>1, TimesIs, VcdAssumption
<1> QED
  BY <1>1, <1>2 DEF q

\* A track of a split rip.
LEMMA JoinedIsLocated ==
  ASSUME NEW r \in Rips, NEW t, NEW u,
         Sizes(r, LoadSheet(r)) \in Seq(Nat),
         \A i \in DOMAIN Sizes(r, LoadSheet(r)) : Sizes(r, LoadSheet(r))[i] % SectorSize = 0,
         TrackFits(LoadSheet(r), t), FileCount(LoadSheet(r)) = Len(Sizes(r, LoadSheet(r))),
         u.index0 \in Timecodes \cup {Absent}, u.index1 \in Timecodes,
         Moved(t, u, Base(Sizes(r, LoadSheet(r)), t))
  PROVE  LocatedAt(r, t, u)
<1> DEFINE z == Sizes(r, LoadSheet(r))
           p == SubSeq(z, 1, t.file - 1)
           b == Base(z, t)
<1>1. t.file - 1 \in 0 .. Len(z) /\ t.file - 1 \in Int /\ Len(z) \in Nat /\ DOMAIN z = 1 .. Len(z)
  <2>1. Len(z) \in Nat /\ DOMAIN z = 1 .. Len(z)
    BY SeqIs
  <2> HIDE DEF z
  <2>2. t.file \in 1 .. Len(z)
    BY DEF TrackFits, z
  <2> QED
    BY <2>1, <2>2
<1>2. p \in Seq(Nat) /\ Len(p) = t.file - 1 /\ \A i \in 1 .. t.file - 1 : p[i] = z[i]
  <2> HIDE DEF z
  <2>1. z \in Seq(Nat)
    BY DEF z
  <2>2. /\ p \in Seq(Nat)
        /\ Len(p) = IF 1 <= t.file - 1 THEN (t.file - 1) - 1 + 1 ELSE 0
        /\ \A i \in 1 .. (t.file - 1) - 1 + 1 : p[i] = z[1 + i - 1]
    BY <1>1, <2>1, SubSeqProperties
  <2> HIDE DEF p
  <2>3. Len(p) = t.file - 1
    BY <1>1, <2>2
  <2>4. ASSUME NEW i \in 1 .. t.file - 1 PROVE p[i] = z[i]
    <3>1. i \in 1 .. (t.file - 1) - 1 + 1 /\ 1 + i - 1 = i
      BY <1>1
    <3> QED
      BY <2>2, <3>1
  <2> QED
    BY <2>2, <2>3, <2>4
<1>3. \A i \in 1 .. Len(p) : p[i] % SectorSize = 0
  <2>1. \A i \in 1 .. t.file - 1 : i \in DOMAIN z
    BY <1>1
  <2> HIDE DEF p
  <2> QED
    BY <1>2, <2>1
<1> HIDE DEF p
<1>4. SumOf(p) \in Nat /\ SumOf(p) % SectorSize = 0
  BY <1>2, <1>3, WholeSums, VcdAssumption
<1>5. b = SumOf(p) \div SectorSize /\ \A x : InRip(r, t, x) = SumOf(p) + LBA(x) * SectorSize
  BY DEF Base, p, InRip
<1>6. \A x \in Timecodes : InRip(r, t, x) = (b + LBA(x)) * SectorSize
  BY <1>4, <1>5, InSectors, TimecodeIs
<1> HIDE DEF b
<1>7. t.index0 \in Timecodes \cup {Absent} /\ t.index1 \in Timecodes
  BY DEF TrackFits
<1>8. GapAt(t) \in Timecodes /\ GapAt(u) \in Timecodes /\ LBA(GapAt(u)) = b + LBA(GapAt(t))
  BY <1>7 DEF GapAt, Moved, b, z
<1>9. u.mode = t.mode /\ LBA(u.index1) = b + LBA(t.index1)
  BY DEF Moved, b, z
<1> QED
  BY <1>6, <1>7, <1>8, <1>9 DEF LocatedAt

\* A track of the only file.
LEMMA AloneIsLocated ==
  ASSUME NEW r \in Rips, NEW t, TrackFits(LoadSheet(r), t), FileCount(LoadSheet(r)) = 1,
         Sizes(r, LoadSheet(r)) \in Seq(Nat)
  PROVE  LocatedAt(r, t, t)
<1> DEFINE z == Sizes(r, LoadSheet(r))
<1>1. t.file = 1 /\ t.index0 \in Timecodes \cup {Absent} /\ t.index1 \in Timecodes
  BY DEF TrackFits
<1>2. SubSeq(z, 1, t.file - 1) = << >>
  <2>1. t.file - 1 = 0
    BY <1>1
  <2> HIDE DEF z
  <2>2. z \in Seq(Nat)
    BY DEF z
  <2>3. SubSeq(z, 1, 0) = << >>
    BY <2>2
  <2> QED
    BY <2>1, <2>3
<1>3. SumOf(<< >>) = 0
  <2>1. << >> \in Seq(Nat)
    OBVIOUS
  <2> QED
    BY <2>1, SumIs
<1>4. ASSUME NEW x \in Timecodes PROVE InRip(r, t, x) = LBA(x) * SectorSize
  <2>1. LBA(x) \in Nat /\ SectorSize \in Nat
    BY TimecodeIs, VcdAssumption
  <2>2. LBA(x) * SectorSize \in Nat
    BY <2>1, TimesIs
  <2>3. InRip(r, t, x) = 0 + LBA(x) * SectorSize
    BY <1>2, <1>3 DEF InRip
  <2> QED
    BY <2>2, <2>3
<1>5. GapAt(t) \in Timecodes
  BY <1>1 DEF GapAt
<1> QED
  BY <1>1, <1>4, <1>5 DEF LocatedAt

LEMMA LocatedIs ==
  ASSUME NEW r \in Rips, Validate(r, LoadSheet(r)),
         \A i \in DOMAIN LoadSheet(r).files : Sizes(r, LoadSheet(r))[i] # Absent,
         Sheet(r).ok, Fit(r)
  PROVE  Located(r)
<1> DEFINE c == LoadSheet(r)
           z == Sizes(r, c)
           s == Sheet(r)
           o == c.ok /\ \A i \in DOMAIN z : z[i] % SectorSize = 0
<1>1. SheetIs(c) /\ c.files # << >> /\ c.ok /\ c.tracks[1].mode = "MODE2"
  BY LoadIs DEF Validate, SheetFits, Fit
<1>2. z \in Seq(Nat) /\ Len(z) = Len(c.files)
  BY <1>1, SizesAre
<1>3. s = IF Len(c.files) > 1 THEN Joined(c, z) ELSE c
  BY DEF Sheet
<1>4. s.ok
  OBVIOUS
<1> HIDE DEF c, z, s
<1>5. /\ Len(c.tracks) \in Nat /\ DOMAIN c.tracks = 1 .. Len(c.tracks)
      /\ \A i \in DOMAIN c.tracks : TrackFits(c, c.tracks[i])
      /\ Len(c.files) \in Nat \ {0} /\ FileCount(c) = Len(c.files)
      /\ c = [ok |-> c.ok, type |-> c.type, files |-> c.files, tracks |-> c.tracks]
  BY <1>1 DEF SheetIs, FileCount
<1>6. DOMAIN s.tracks = DOMAIN c.tracks
      /\ \A i \in DOMAIN c.tracks : LocatedAt(r, c.tracks[i], s.tracks[i])
  <2>1. CASE Len(c.files) > 1
    <3>1. s = Joined(c, z)
      BY <1>3, <2>1
    <3>2. s.ok = o
      <4> DEFINE ts == Joined(c, z).tracks
      <4>1. PICK x : Joined(c, z) = [c EXCEPT !.ok = o, !.tracks = x]
        BY Zenon DEF Joined
      <4> HIDE DEF o
      <4> QED
        BY <1>5, <3>1, <4>1
    <3>3. \A i \in DOMAIN z : z[i] % SectorSize = 0
      BY <1>4, <3>2
    <3>4. /\ DOMAIN s.tracks = DOMAIN c.tracks
          /\ \A i \in DOMAIN c.tracks :
               /\ s.tracks[i].index0 \in Timecodes \cup {Absent} /\ s.tracks[i].index1 \in Timecodes
               /\ Moved(c.tracks[i], s.tracks[i], Base(z, c.tracks[i]))
      BY <1>1, <1>2, <3>1, JoinIs
    <3>5. ASSUME NEW i \in DOMAIN c.tracks PROVE LocatedAt(r, c.tracks[i], s.tracks[i])
      <4>1. TrackFits(c, c.tracks[i]) /\ FileCount(c) = Len(z)
        BY <1>2, <1>5
      <4> QED
        BY <1>2, <3>3, <3>4, <4>1, JoinedIsLocated DEF c, z
    <3> QED
      BY <3>4, <3>5
  <2>2. CASE ~(Len(c.files) > 1)
    <3> DEFINE n == Len(c.files)
    <3>0. n = 1
      <4>1. n \in Nat \ {0} /\ ~(n > 1)
        BY <1>5, <2>2
      <4> HIDE DEF n
      <4> QED
        BY <4>1
    <3>1. s = c /\ FileCount(c) = 1
      BY <1>3, <1>5, <2>2, <3>0
    <3>2. ASSUME NEW i \in DOMAIN c.tracks PROVE LocatedAt(r, c.tracks[i], c.tracks[i])
      BY <1>2, <1>5, <3>1, AloneIsLocated DEF c, z
    <3> QED
      BY <3>1, <3>2
  <2> QED
    BY <2>1, <2>2
<1> QED
  BY <1>1, <1>5, <1>6 DEF Located, c, s
-----------------------------------------------------------------------------
\* What stands before piece k of a stream, and where a byte of the source goes once the
\* pregap is in its place.
Preceding(s, k) == SumOf([j \in 1 .. k - 1 |-> SizeOf(s[j])])
PadAt(r) == PadOffset(Sheet(r), Total(r))
Shift(r, b) == IF LooksLikeCDRWIN(Sheet(r)) /\ 0 < PadAt(r) /\ PadAt(r) <= b THEN padBytes ELSE 0

\* A piece is where its bytes go, and on one side of the pregap.
PieceLaid(r, s, k, n) ==
  /\ s[k].from \in Nat /\ s[k].to \in Nat /\ s[k].from < s[k].to /\ s[k].to <= n
  /\ Preceding(s, k) = s[k].from + Shift(r, s[k].from)
  /\ LooksLikeCDRWIN(Sheet(r)) /\ s[k].from < PadAt(r) => s[k].to <= PadAt(r)

\* The first n bytes of the source are in the stream.
Laid(r, s, n) ==
  /\ \A k \in DOMAIN s : s[k] = Pad \/ PieceLaid(r, s, k, n)
  /\ \A b \in 0 .. n - 1 : \E k \in DOMAIN s : s[k].from <= b /\ b < s[k].to

\* One piece more leaves the others where they are.
LEMMA PieceMore ==
  ASSUME NEW s, Sized(s), NEW p \in Pieces
  PROVE  /\ Len(s) \in Nat /\ DOMAIN s = 1 .. Len(s)
         /\ DOMAIN (s \o << p >>) = 1 .. Len(s) + 1
         /\ \A k \in 1 .. Len(s) : (s \o << p >>)[k] = s[k]
                                   /\ Preceding(s \o << p >>, k) = Preceding(s, k)
         /\ (s \o << p >>)[Len(s) + 1] = p /\ Preceding(s \o << p >>, Len(s) + 1) = Written(s)
<1> DEFINE n == Len(s)
           t == s \o << p >>
<1>1. s \in Seq(Pieces) /\ n \in Nat /\ DOMAIN s = 1 .. n
  BY DEF Sized
<1>2. /\ DOMAIN t = 1 .. n + 1 /\ t[n + 1] = p
      /\ \A k \in 1 .. n : t[k] = s[k]
  <2>1. t = Append(s, p)
    BY <1>1, AppendIsConcat
  <2> QED
    BY <1>1, <2>1, AppendProperties
<1> HIDE DEF t, n
<1>3. ASSUME NEW k \in 1 .. n PROVE Preceding(t, k) = Preceding(s, k)
  <2>1. \A j \in 1 .. k - 1 : t[j] = s[j]
    BY <1>1, <1>2
  <2>2. [j \in 1 .. k - 1 |-> SizeOf(t[j])] = [j \in 1 .. k - 1 |-> SizeOf(s[j])]
    BY <2>1
  <2> QED
    BY <2>2 DEF Preceding
<1>4. Preceding(t, n + 1) = Written(s)
  <2>1. (n + 1) - 1 = n
    BY <1>1
  <2>2. [j \in 1 .. n |-> SizeOf(t[j])] = [j \in 1 .. n |-> SizeOf(s[j])]
    BY <1>2
  <2> QED
    BY <1>1, <2>1, <2>2 DEF Preceding, Written
<1> QED
  BY <1>1, <1>2, <1>3, <1>4 DEF t, n

\* The next piece of the source, cut at the pregap, is laid behind the others.
LEMMA LaidMore ==
  ASSUME NEW r, NEW s, Sized(s), NEW d \in Nat, Laid(r, s, d), NEW n \in Nat \ {0},
         Written(s) = d + Shift(r, d),
         PadAt(r) \in Nat, LooksLikeCDRWIN(Sheet(r)) /\ d < PadAt(r) => d + n <= PadAt(r)
  PROVE  Laid(r, s \o << Piece(d, d + n) >>, d + n)
<1> DEFINE p == Piece(d, d + n)
           t == s \o << p >>
           m == Len(s)
<1>1. p \in Pieces /\ p.from = d /\ p.to = d + n
  BY PieceIs DEF Piece
<1>2. /\ m \in Nat /\ DOMAIN s = 1 .. m /\ DOMAIN t = 1 .. m + 1
      /\ \A k \in 1 .. m : t[k] = s[k] /\ Preceding(t, k) = Preceding(s, k)
      /\ t[m + 1] = p /\ Preceding(t, m + 1) = Written(s)
  BY <1>1, PieceMore
<1> HIDE DEF p, t, m
<1>3. PieceLaid(r, t, m + 1, d + n)
  BY <1>1, <1>2 DEF PieceLaid
<1>4. ASSUME NEW k \in DOMAIN t PROVE t[k] = Pad \/ PieceLaid(r, t, k, d + n)
  <2>1. CASE k \in 1 .. m
    <3>1. s[k] = Pad \/ PieceLaid(r, s, k, d)
      BY <1>2, <2>1 DEF Laid
    <3>2. t[k] = s[k] /\ Preceding(t, k) = Preceding(s, k)
      BY <1>2, <2>1
    <3>3. PieceLaid(r, s, k, d) => PieceLaid(r, t, k, d + n)
      BY <3>2 DEF PieceLaid
    <3> QED
      BY <3>1, <3>2, <3>3
  <2>2. CASE k = m + 1
    BY <1>3, <2>2
  <2> QED
    BY <1>2, <2>1, <2>2
<1>5. ASSUME NEW b \in 0 .. (d + n) - 1 PROVE \E k \in DOMAIN t : t[k].from <= b /\ b < t[k].to
  <2>1. CASE b < d
    <3>1. PICK k \in 1 .. m : s[k].from <= b /\ b < s[k].to
      <4>1. b \in 0 .. d - 1
        BY <2>1
      <4> QED
        BY <1>2, <4>1 DEF Laid
    <3>2. k \in DOMAIN t /\ t[k] = s[k]
      BY <1>2, <3>1
    <3> QED
      BY <3>1, <3>2
  <2>2. CASE ~(b < d)
    <3>1. m + 1 \in DOMAIN t /\ p.from <= b /\ b < p.to
      BY <1>1, <1>2, <2>2
    <3> QED
      BY <1>2, <3>1
  <2> QED
    BY <2>1, <2>2
<1> QED
  BY <1>4, <1>5 DEF Laid, t, p

\* The pregap does not move what stands before it.
LEMMA LaidPadded ==
  ASSUME NEW r, NEW s, Sized(s), NEW d \in Nat, Laid(r, s, d)
  PROVE  Laid(r, s \o << Pad >>, d)
<1> DEFINE t == s \o << Pad >>
           m == Len(s)
<1>1. /\ m \in Nat /\ DOMAIN s = 1 .. m /\ DOMAIN t = 1 .. m + 1
      /\ \A k \in 1 .. m : t[k] = s[k] /\ Preceding(t, k) = Preceding(s, k)
      /\ t[m + 1] = Pad
  BY PadIs, PieceMore
<1> HIDE DEF t, m
<1>2. ASSUME NEW k \in DOMAIN t PROVE t[k] = Pad \/ PieceLaid(r, t, k, d)
  <2>1. CASE k \in 1 .. m
    <3>1. s[k] = Pad \/ PieceLaid(r, s, k, d)
      BY <1>1, <2>1 DEF Laid
    <3>2. t[k] = s[k] /\ Preceding(t, k) = Preceding(s, k)
      BY <1>1, <2>1
    <3> QED
      BY <3>1, <3>2 DEF PieceLaid
  <2>2. CASE k = m + 1
    BY <1>1, <2>2
  <2> QED
    BY <1>1, <2>1, <2>2
<1>3. ASSUME NEW b \in 0 .. d - 1 PROVE \E k \in DOMAIN t : t[k].from <= b /\ b < t[k].to
  <2>1. PICK k \in 1 .. m : s[k].from <= b /\ b < s[k].to
    BY <1>1 DEF Laid
  <2>2. k \in DOMAIN t /\ t[k] = s[k]
    BY <1>1, <2>1
  <2> QED
    BY <2>1, <2>2
<1> QED
  BY <1>2, <1>3 DEF Laid, t

\* Where a byte stands.
LEMMA LaidPlace ==
  ASSUME NEW r, NEW s, Sized(s), NEW d \in Nat, Laid(r, s, d), NEW b \in 0 .. d - 1,
         PadAt(r) \in Nat
  PROVE  Place(s, b) = b + Shift(r, b)
<1> DEFINE In(k) == s[k].from <= b /\ b < s[k].to
           i == CHOOSE k \in DOMAIN s : In(k)
<1>1. i \in DOMAIN s /\ In(i)
  <2>1. \E k \in DOMAIN s : In(k)
    BY DEF Laid
  <2> QED
    BY <2>1, Zenon
<1>2. Place(s, b) = Preceding(s, i) + b - s[i].from
  BY DEF Place, Preceding
<1> HIDE DEF i
<1>3. s[i] # Pad
  BY <1>1 DEF Pad
<1>4. PieceLaid(r, s, i, d)
  BY <1>1, <1>3 DEF Laid
<1> DEFINE f == s[i].from
<1>5. f \in Nat /\ f <= b /\ b < s[i].to /\ s[i].to \in Nat
      /\ Preceding(s, i) = f + Shift(r, f)
      /\ (LooksLikeCDRWIN(Sheet(r)) /\ f < PadAt(r) => s[i].to <= PadAt(r))
  BY <1>1, <1>4 DEF PieceLaid
<1>6. Place(s, b) = Preceding(s, i) + b - f
  BY <1>2
<1> HIDE DEF f
<1>7. Shift(r, f) = Shift(r, b) /\ Shift(r, b) \in Nat
  <2>1. padBytes \in Nat
    BY PadIs DEF padBytes
  <2>2. LooksLikeCDRWIN(Sheet(r)) => (PadAt(r) <= f <=> PadAt(r) <= b)
    BY <1>5
  <2> HIDE DEF padBytes
  <2> QED
    BY <2>1, <2>2 DEF Shift
<1> QED
  BY <1>5, <1>6, <1>7
-----------------------------------------------------------------------------
\* What the header tells and where the bytes are, while they are copied: on which side of
\* the pregap the copy stands is what needPad says.
HInv ==
  /\ at \notin {"load", "refused"} =>
       /\ Located(rip)
       /\ header.entries = [i \in DOMAIN Sheet(rip).tracks |-> TrackEntry(Sheet(rip), i)]
  /\ at \in {"copy", "killed"} =>
       /\ Laid(rip, partial, done)
       /\ LooksLikeCDRWIN(Sheet(rip)) => (needPad <=> PadAt(rip) = 0 \/ done < PadAt(rip))
  /\ at = "converted" => Laid(rip, vcd, Total(rip))

LEMMA NothingLaid == ASSUME NEW r PROVE Laid(r, << >>, 0)
  BY DEF Laid

LEMMA OpenLays == ASSUME VInv, HInv, Open PROVE HInv'
<1> DEFINE c == Sheet(rip)
           total == Total(rip)
           sizes == Sizes(rip, LoadSheet(rip))
           good == /\ Validate(rip, LoadSheet(rip))
                   /\ \A i \in DOMAIN sizes : sizes[i] # Absent
                   /\ c.ok /\ total > 0 /\ total % SectorSize = 0
                   /\ Len(c.tracks) <= 99
<1>1. at = "load" /\ rip \in Rips /\ done = 0 /\ UNCHANGED <<rip, done, vcd>>
  BY DEF Open, VInv
<1>2. CASE good
  <2>1. /\ header' = BuildHeader(c, total) /\ needPad' = LooksLikeCDRWIN(c)
        /\ partial' = << >> /\ at' = "copy"
    BY <1>2 DEF Open
  <2>2. Fit(rip)
    <3>1. VInv'
      BY OpenKeeps
    <3> QED
      BY <1>1, <2>1, <3>1 DEF VInv
  <2>3. Located(rip)
    <3>1. DOMAIN sizes = DOMAIN LoadSheet(rip).files
      BY DEF Sizes
    <3> QED
      BY <1>1, <1>2, <2>2, <3>1, LocatedIs
  <2>4. header'.entries = [i \in DOMAIN c.tracks |-> TrackEntry(c, i)]
    <3>1. header'.entries = BuildHeader(c, total).entries
      BY <2>1
    <3>2. BuildHeader(c, total).entries = [i \in DOMAIN c.tracks |-> TrackEntry(c, i)]
      BY DEF BuildHeader
    <3> QED
      BY <3>1, <3>2
  <2>5. Laid(rip, partial', 0)
    BY <2>1, NothingLaid
  <2>6. LooksLikeCDRWIN(c) => (needPad' <=> PadAt(rip) = 0 \/ 0 < PadAt(rip))
    <3>1. PadAt(rip) \in Nat
      BY <2>2 DEF Fit, PadAt
    <3> QED
      BY <2>1, <3>1
  <2>7. rip' = rip /\ done' = 0 /\ at' = "copy"
    BY <1>1, <2>1
  <2> HIDE DEF good, sizes
  <2> QED
    BY <2>3, <2>4, <2>5, <2>6, <2>7 DEF HInv
<1>3. CASE ~good
  <2>1. at' = "refused"
    BY <1>3 DEF Open
  <2> QED
    BY <2>1 DEF HInv
<1> QED
  BY <1>2, <1>3

LEMMA ChunkLays == ASSUME VInv, HInv, Chunk PROVE HInv'
<1> DEFINE total == Total(rip)
           padAt == PadAt(rip)
           left == IF total - done < BufSize THEN total - done ELSE BufSize
           n == IF needPad /\ done < padAt /\ done + left > padAt THEN padAt - done ELSE left
           here == needPad /\ done + n = padAt
           one == partial \o << Piece(done, done + n) >>
           cdrwin == LooksLikeCDRWIN(Sheet(rip))
<1>1. /\ at = "copy" /\ done < total /\ UNCHANGED <<rip, at, header, vcd>>
      /\ done' = done + n /\ needPad' = (needPad /\ ~here)
      /\ partial' = one \o (IF here THEN << Pad >> ELSE << >>)
  BY DEF Chunk, PadAt
<1>2. /\ Sized(partial) /\ needPad \in BOOLEAN /\ (needPad => cdrwin) /\ Fit(rip)
      /\ Written(partial) = done + (IF cdrwin /\ ~needPad THEN padBytes ELSE 0)
      /\ done \in Nat /\ done <= total
  BY <1>1 DEF VInv
<1>3. total \in Nat /\ padAt \in Nat /\ BufSize \in Nat \ {0}
  BY <1>2, VcdAssumption DEF Fit, PadAt
<1>4. Laid(rip, partial, done) /\ (cdrwin => (needPad <=> padAt = 0 \/ done < padAt))
  BY <1>1 DEF HInv
<1> HIDE DEF total, padAt
<1>5. n \in Nat \ {0}
  BY <1>1, <1>2, <1>3
<1>6. cdrwin /\ done < padAt => done + n <= padAt
  BY <1>1, <1>2, <1>3, <1>4
<1> HIDE DEF n, left
<1>7. Written(partial) = done + Shift(rip, done)
  <2>1. Shift(rip, done) = IF cdrwin /\ 0 < padAt /\ padAt <= done THEN padBytes ELSE 0
    BY DEF Shift, padAt
  <2>2. cdrwin => (~needPad <=> 0 < padAt /\ padAt <= done)
    BY <1>2, <1>3, <1>4
  <2> HIDE DEF padBytes, cdrwin
  <2> QED
    BY <1>2, <2>1, <2>2
<1>8. Laid(rip, one, done + n)
  <2>1. LooksLikeCDRWIN(Sheet(rip)) /\ done < PadAt(rip) => done + n <= PadAt(rip)
    BY <1>6 DEF padAt
  <2>2. PadAt(rip) \in Nat
    BY <1>3 DEF padAt
  <2> QED
    BY <1>2, <1>4, <1>5, <1>7, <2>1, <2>2, LaidMore
<1>9. Sized(one)
  <2>1. Piece(done, done + n) \in Pieces /\ SizeOf(Piece(done, done + n)) = n
    BY <1>2, <1>5, PieceIs
  <2> QED
    BY <1>2, <1>5, <2>1, WrittenIs
<1> HIDE DEF one, here, cdrwin
<1>10. here \in BOOLEAN /\ (here <=> needPad /\ done + n = padAt)
  BY DEF here
<1>11. Laid(rip, partial', done')
  <2>1. CASE here
    <3>1. partial' = one \o << Pad >>
      BY <1>1, <2>1
    <3>2. done + n \in Nat
      BY <1>2, <1>5
    <3> QED
      BY <1>1, <1>8, <1>9, <3>1, <3>2, LaidPadded
  <2>2. CASE ~here
    <3>1. partial' = one
      <4>1. one \o << >> = one
        BY <1>9, ConcatEmptySeq DEF Sized
      <4> QED
        BY <1>1, <2>2, <4>1
    <3> QED
      BY <1>1, <1>8, <3>1
  <2> QED
    BY <1>10, <2>1, <2>2
<1>12. ASSUME cdrwin PROVE needPad' <=> padAt = 0 \/ done' < padAt
  <2>1. done' = done + n /\ done \in Nat /\ padAt \in Nat /\ n \in Nat \ {0}
    BY <1>1, <1>2, <1>3, <1>5
  <2>2. (needPad <=> padAt = 0 \/ done < padAt) /\ (done < padAt => done + n <= padAt)
    BY <1>4, <1>6, <1>12
  <2>3. needPad' <=> needPad /\ done + n # padAt
    BY <1>1, <1>10
  <2>4. (padAt = 0 \/ done < padAt) /\ done + n # padAt <=> padAt = 0 \/ done' < padAt
    BY <2>1, <2>2
  <2> QED
    BY <2>2, <2>3, <2>4
<1>13. Located(rip) /\ header.entries = [i \in DOMAIN Sheet(rip).tracks |-> TrackEntry(Sheet(rip), i)]
  BY <1>1 DEF HInv
<1>14. UNCHANGED <<rip, at, header>> /\ at = "copy"
  BY <1>1
<1> QED
  BY <1>11, <1>12, <1>13, <1>14 DEF HInv, cdrwin, padAt

LEMMA PublishLays == ASSUME VInv, HInv, Publish PROVE HInv'
<1>1. /\ at = "copy" /\ done = Total(rip) /\ UNCHANGED <<rip, header, done>>
      /\ vcd' = partial \o (IF needPad THEN << Pad >> ELSE << >>) /\ at' = "converted"
  BY DEF Publish
<1>2. Sized(partial) /\ needPad \in BOOLEAN /\ done \in Nat /\ Laid(rip, partial, done)
  BY <1>1 DEF VInv, HInv
<1>3. Laid(rip, vcd', done)
  <2>1. CASE needPad
    <3>1. vcd' = partial \o << Pad >>
      BY <1>1, <2>1
    <3> QED
      BY <1>2, <3>1, LaidPadded
  <2>2. CASE ~needPad
    <3>1. vcd' = partial
      BY <1>1, <1>2, <2>2, ConcatEmptySeq DEF Sized
    <3> QED
      BY <1>2, <3>1
  <2> QED
    BY <1>2, <2>1, <2>2
<1>4. Located(rip) /\ header.entries = [i \in DOMAIN Sheet(rip).tracks |-> TrackEntry(Sheet(rip), i)]
  BY <1>1 DEF HInv
<1> QED
  BY <1>1, <1>3, <1>4 DEF HInv

LEMMA AbortLays == ASSUME VInv, HInv, NEW killed \in BOOLEAN, Abort(killed) PROVE HInv'
  BY DEF HInv, Abort

\* The tracks of a rip are at numbers of bytes.
LEMMA StartsAre ==
  ASSUME NEW r, Located(r), NEW i \in DOMAIN LoadSheet(r).tracks
  PROVE  /\ StartOf(r, i) \in Nat /\ GapOf(r, i) \in Nat
         /\ StartOf(r, i) = LBA(Sheet(r).tracks[i].index1) * SectorSize
         /\ GapOf(r, i) = LBA(GapAt(Sheet(r).tracks[i])) * SectorSize
<1> DEFINE t == LoadSheet(r).tracks[i]
           u == Sheet(r).tracks[i]
<1>1. LocatedAt(r, t, u)
  BY DEF Located
<1>2. StartOf(r, i) = InRip(r, t, t.index1) /\ GapOf(r, i) = InRip(r, t, GapAt(t))
  BY DEF StartOf, GapOf, GapAt
<1> HIDE DEF t, u
<1>3. StartOf(r, i) = LBA(u.index1) * SectorSize /\ GapOf(r, i) = LBA(GapAt(u)) * SectorSize
  BY <1>1, <1>2 DEF LocatedAt
<1>4. LBA(u.index1) \in Nat /\ LBA(GapAt(u)) \in Nat /\ SectorSize \in Nat
  BY <1>1, TimecodeIs, VcdAssumption DEF LocatedAt
<1>5. LBA(u.index1) * SectorSize \in Nat /\ LBA(GapAt(u)) * SectorSize \in Nat
  BY <1>4, TimesIs
<1> QED
  BY <1>3, <1>5 DEF u

\* Tracks in order: the pregap moves every one that is behind the first audio track's
\* gap, and the header moves no other.
LEMMA ShiftIs ==
  ASSUME NEW r \in Rips, Fit(r), Located(r), NEW i \in DOMAIN LoadSheet(r).tracks,
         LooksLikeCDRWIN(LoadSheet(r)), InOrder(r), ~Misplaced(r, i), StartOf(r, i) < Total(r)
  PROVE  Shift(r, StartOf(r, i)) = IF i = 1 THEN 0 ELSE padBytes
<1> DEFINE c == LoadSheet(r)
           s == Sheet(r)
           total == Total(r)
           audio == {j \in DOMAIN s.tracks : s.tracks[j].mode = "AUDIO"}
           a == CHOOSE k \in audio : \A j \in audio : k <= j
           off == LBA(GapAt(s.tracks[a])) * SectorSize
           b == StartOf(r, i)
           P == PadAt(r)
<1>1. P = IF audio = {} \/ off > total THEN total ELSE off
  BY DEF PadAt, PadOffset, GapAt
<1>2. /\ Len(c.tracks) \in Nat /\ DOMAIN c.tracks = 1 .. Len(c.tracks) /\ DOMAIN s.tracks = DOMAIN c.tracks
      /\ \A j \in DOMAIN c.tracks : s.tracks[j].mode = c.tracks[j].mode
      /\ c.tracks[1].mode = "MODE2"
  BY DEF Located, LocatedAt
<1>3. total \in Nat /\ LooksLikeCDRWIN(s)
  BY DEF Fit
<1>4. \A j \in DOMAIN c.tracks : StartOf(r, j) \in Nat /\ GapOf(r, j) \in Nat
  BY StartsAre
<1>5. /\ \A j \in DOMAIN c.tracks : GapOf(r, j) <= StartOf(r, j)
      /\ \A j \in DOMAIN c.tracks : \A k \in 1 .. j - 1 : StartOf(r, k) < GapOf(r, j)
  BY DEF InOrder
<1>6. b < total /\ b \in Nat /\ i \in 1 .. Len(c.tracks) /\ 1 \in DOMAIN c.tracks
  BY <1>2, <1>4
<1>7. i = 1 \/ \E j \in 1 .. i : c.tracks[j].mode = "AUDIO"
  BY DEF Misplaced
<1>8. ASSUME audio # {}
      PROVE  /\ a \in DOMAIN c.tracks /\ a > 1 /\ \A j \in audio : a <= j
             /\ off = GapOf(r, a) /\ off \in Nat /\ 0 < off /\ StartOf(r, 1) < off
  <2>1. audio \in SUBSET Nat
    BY <1>2
  <2>2. a \in audio /\ \A j \in audio : a <= j
    <3> HIDE DEF audio
    <3> QED
      BY <1>8, <2>1, LeastNumber
  <2> HIDE DEF a
  <2>3. a \in DOMAIN c.tracks /\ c.tracks[a].mode = "AUDIO"
    BY <1>2, <2>2
  <2>4. a # 1
    BY <1>2, <2>3
  <2>5. a \in Nat /\ a > 1 /\ 1 \in 1 .. a - 1
    BY <1>2, <2>3, <2>4
  <2>6. off = GapOf(r, a)
    BY <2>3, StartsAre
  <2> HIDE DEF off, audio, c
  <2>7. StartOf(r, 1) < off /\ off \in Nat /\ StartOf(r, 1) \in Nat
    BY <1>4, <1>5, <1>6, <2>3, <2>5, <2>6
  <2>8. 0 < off
    BY <2>7
  <2> QED
    BY <2>2, <2>3, <2>5, <2>6, <2>7, <2>8
<1>9. padBytes \in Nat /\ Shift(r, b) = IF 0 < P /\ P <= b THEN padBytes ELSE 0
  BY <1>3, PadIs DEF Shift, padBytes
<1>10. CASE i = 1
  <2>1. b = StartOf(r, 1)
    BY <1>10
  <2> HIDE DEF audio, a, off, total, b, P, c
  <2>2. ~(P <= b)
    BY <1>1, <1>3, <1>6, <1>8, <2>1
  <2> QED
    BY <1>9, <1>10, <2>2 DEF b
<1>11. CASE i # 1
  <2>1. PICK j \in 1 .. i : c.tracks[j].mode = "AUDIO"
    BY <1>7, <1>11
  <2>2. j \in audio /\ j <= i
    BY <1>2, <1>6, <2>1
  <2>3. audio # {}
    BY <2>2
  <2> HIDE DEF audio, a, off, P, total, b
  <2>4. a \in DOMAIN c.tracks /\ a <= i /\ a \in Nat /\ i \in Nat /\ off = GapOf(r, a)
    BY <1>2, <1>6, <1>8, <2>2, <2>3
  <2>5. off <= b
    <3>1. CASE a = i
      BY <1>5, <2>4, <3>1 DEF b
    <3>2. CASE a # i
      <4>1. a \in 1 .. i - 1
        BY <1>2, <2>4, <3>2
      <4> DEFINE x == StartOf(r, a)
                 y == GapOf(r, i)
                 z == GapOf(r, a)
      <4>2. x < y /\ z <= x /\ y <= b /\ x \in Nat /\ y \in Nat /\ z \in Nat
        BY <1>4, <1>5, <2>4, <4>1 DEF b
      <4>3. off = z
        BY <2>4
      <4> HIDE DEF x, y, z
      <4> QED
        BY <1>6, <4>2, <4>3
    <3> QED
      BY <3>1, <3>2
  <2>6. 0 < P /\ P <= b
    BY <1>1, <1>3, <1>6, <1>8, <2>3, <2>5
  <2> QED
    BY <1>9, <1>11, <2>6 DEF b
<1> QED
  BY <1>10, <1>11

\* Numbers of sectors compare like their bytes.
LEMMA FewerSectors ==
  ASSUME NEW x \in Nat, NEW n \in Nat, NEW k \in Nat \ {0}, x * k < n * k
  PROVE  x < n
<1> SUFFICES ASSUME n <= x PROVE FALSE
  OBVIOUS
<1>1. PICK d \in Nat : x = n + d
  <2>1. x - n \in Nat /\ x = n + (x - n)
    OBVIOUS
  <2> QED
    BY <2>1
<1>2. x * k = n * k + d * k /\ n * k \in Nat /\ d * k \in Nat
  BY <1>1, TimesIs
<1> QED
  BY <1>2

\* What the header's entry of a track reads as.
LEMMA EntryReads ==
  ASSUME NEW c, NEW i, c.tracks[i].index1 \in Timecodes, LBA(c.tracks[i].index1) < 159 * 4500
  PROVE  Reads(TrackEntry(c, i).index1)
           = LBA(c.tracks[i].index1) + leadInSectors
             + (IF LooksLikeCDRWIN(c) /\ i # 1 THEN leadInSectors ELSE 0)
<1> DEFINE x == c.tracks[i].index1
           moved == LooksLikeCDRWIN(c) /\ i # 1
           y == plus2Seconds(x)
           z == IF moved THEN plus2Seconds(y) ELSE y
<1>1. TrackEntry(c, i).index1 = BCD(z)
  BY DEF TrackEntry
<1>2. x \in Timecodes /\ LBA(x) < 159 * 4500 /\ LBA(x) \in Nat
  BY TimecodeIs
<1> HIDE DEF x, moved
<1>3. y \in Timecodes /\ LBA(y) = LBA(x) + leadInSectors
  BY <1>2, TwoSecondsIs
<1> HIDE DEF y
<1>4. z \in Timecodes /\ LBA(z) = LBA(x) + leadInSectors + (IF moved THEN leadInSectors ELSE 0)
  <2>1. CASE moved
    BY <1>3, <2>1, TwoSecondsIs
  <2>2. CASE ~moved
    <3>1. z = y
      BY <2>2
    <3>2. leadInSectors \in Nat
      BY DEF leadInSectors
    <3> QED
      BY <1>2, <1>3, <2>2, <3>1, <3>2
  <2> QED
    BY <2>1, <2>2
<1> HIDE DEF z
<1>5. LBA(z) < 160 * 4500
  BY <1>2, <1>4 DEF leadInSectors
<1>6. Reads(BCD(z)) = LBA(z)
  BY <1>4, <1>5, ReadsIs
<1> QED
  BY <1>1, <1>4, <1>6 DEF x, moved

\* What a header is asked to tell of track i.
Tellable(r, i) ==
  /\ StartOf(r, i) < Total(r) /\ StartOf(r, i) < 159 * 4500 * SectorSize
  /\ (LooksLikeCDRWIN(LoadSheet(r)) => InOrder(r)) /\ ~Misplaced(r, i)

LEMMA TrackIsTold ==
  ASSUME VInv, HInv, at = "converted", NEW i \in DOMAIN LoadSheet(rip).tracks, Tellable(rip, i)
  PROVE  Place(vcd, StartOf(rip, i)) = (Reads(header.entries[i].index1) - leadInSectors) * SectorSize
<1> DEFINE s == Sheet(rip)
           b == StartOf(rip, i)
           x == LBA(s.tracks[i].index1)
           moved == LooksLikeCDRWIN(s) /\ i # 1
           e == IF moved THEN leadInSectors ELSE 0
<1>1. /\ rip \in Rips /\ Fit(rip) /\ Sized(vcd) /\ Laid(rip, vcd, Total(rip)) /\ Located(rip)
      /\ header.entries = [j \in DOMAIN s.tracks |-> TrackEntry(s, j)]
  BY DEF VInv, HInv
<1>2. /\ Total(rip) \in Nat /\ PadAt(rip) \in Nat
      /\ LooksLikeCDRWIN(LoadSheet(rip)) = LooksLikeCDRWIN(s)
  BY <1>1 DEF Fit, PadAt
<1>3. i \in DOMAIN s.tracks /\ s.tracks[i].index1 \in Timecodes
  BY <1>1 DEF Located, LocatedAt
<1>4. x \in Nat /\ b = x * SectorSize /\ b \in Nat
  BY <1>1, <1>3, StartsAre, TimecodeIs
<1>5. b < Total(rip) /\ b < 159 * 4500 * SectorSize
  BY DEF Tellable
<1>6. header.entries[i] = TrackEntry(s, i)
  BY <1>1, <1>3
<1>7. Place(vcd, b) = b + Shift(rip, b)
  <2>1. b \in 0 .. Total(rip) - 1
    BY <1>2, <1>4, <1>5
  <2> HIDE DEF b
  <2> QED
    BY <1>1, <1>2, <2>1, LaidPlace
<1>8. Shift(rip, b) = IF moved THEN padBytes ELSE 0
  <2>1. CASE LooksLikeCDRWIN(s)
    <3>1. LooksLikeCDRWIN(LoadSheet(rip)) /\ InOrder(rip) /\ ~Misplaced(rip, i)
      BY <1>2, <2>1 DEF Tellable
    <3>2. Shift(rip, b) = IF i = 1 THEN 0 ELSE padBytes
      BY <1>1, <1>5, <3>1, ShiftIs
    <3> HIDE DEF padBytes
    <3> QED
      BY <2>1, <3>2
  <2>2. CASE ~LooksLikeCDRWIN(s)
    BY <2>2 DEF Shift
  <2> QED
    BY <2>1, <2>2
<1> HIDE DEF b, x
<1>9. x < 159 * 4500
  <2>1. \A n \in Nat : x * SectorSize < n * SectorSize => x < n
    BY <1>4, FewerSectors, VcdAssumption
  <2>2. 159 * 4500 \in Nat
    OBVIOUS
  <2> QED
    BY <1>4, <1>5, <2>1, <2>2
<1>10. Reads(header.entries[i].index1) = x + leadInSectors + e
  <2>1. Reads(TrackEntry(s, i).index1)
          = x + leadInSectors + (IF LooksLikeCDRWIN(s) /\ i # 1 THEN leadInSectors ELSE 0)
    BY <1>3, <1>9, EntryReads DEF x
  <2> QED
    BY <1>6, <2>1
<1>11. e \in Nat /\ e * SectorSize = (IF moved THEN padBytes ELSE 0) /\ SectorSize \in Nat /\ leadInSectors \in Nat
  <2>1. SectorSize \in Nat /\ leadInSectors \in Nat /\ 0 * SectorSize = 0
    BY VcdAssumption DEF leadInSectors
  <2> QED
    BY <2>1 DEF padBytes
<1> HIDE DEF e, moved
<1>12. (x + leadInSectors + e) - leadInSectors = x + e
  BY <1>4, <1>11
<1>13. (x + e) * SectorSize = x * SectorSize + e * SectorSize
  BY <1>4, <1>11, TimesIs
<1> QED
  BY <1>4, <1>7, <1>8, <1>10, <1>11, <1>12, <1>13 DEF b

LEMMA HeaderFollows == VInv /\ HInv => HeaderTells
<1> SUFFICES ASSUME VInv, HInv, vcd # Absent PROVE HeaderTells
  BY DEF HeaderTells
<1>1. at = "converted"
  BY DEF VInv
<1>2. \A i \in DOMAIN LoadSheet(rip).tracks : Tellable(rip, i) =>
        Place(vcd, StartOf(rip, i)) = (Reads(header.entries[i].index1) - leadInSectors) * SectorSize
  BY <1>1, TrackIsTold
<1>3. SumOf([k \in DOMAIN vcd |-> SizeOf(vcd[k])])
        = Total(rip) + (IF LooksLikeCDRWIN(LoadSheet(rip)) THEN leadInSectors * SectorSize ELSE 0)
  BY <1>1 DEF VInv, Fit, Written, padBytes
<1> QED
  BY <1>2, <1>3 DEF HeaderTells, Tellable

\* Each track starts in the VCD where the header says, whatever the sheet, the number and
\* the sizes of its files, the sector and the buffer.
THEOREM HeaderHolds == VcdSpec => []HeaderTells
<1>1. VcdInit => HInv
  BY DEF VcdInit, HInv
<1>2. ASSUME VInv, HInv, [Convert]_vcdVars PROVE HInv'
  <2>1. CASE Convert
    BY <1>2, <2>1, OpenLays, ChunkLays, PublishLays, AbortLays DEF Convert
  <2>2. CASE UNCHANGED vcdVars
    BY <1>2, <2>2 DEF HInv, vcdVars
  <2> QED
    BY <1>2, <2>1, <2>2
<1> QED
  BY <1>1, <1>2, VcdInductive, HeaderFollows, PTL DEF VcdSpec

-----------------------------------------------------------------------------
(* What an archive tells. *)

\* The descriptors end before the head does, so the head opens the volume the whole opens.
LEMMA VolumeIs ==
  ASSUME NEW v, NEW m \in Nat, NEW n \in Nat, m >= 24, n >= 24
  PROVE  OpenVolume(v, m) = OpenVolume(v, n) /\ OpenVolume(v, m) \in {v, Absent}
<1> DEFINE ends == {i \in 1 .. 8 : i \in DOMAIN v.descriptors /\ v.descriptors[i] \in {"primary", "end"}}
           i == CHOOSE k \in ends : \A j \in ends : k <= j
<1>1. ASSUME NEW r \in Nat
      PROVE  OpenVolume(v, r) = IF v # Absent /\ ends # {} /\ 15 + i < r /\ v.descriptors[i] = "primary"
                                THEN v ELSE Absent
  BY Zenon DEF OpenVolume
<1>2. ASSUME ends # {} PROVE 15 + i < m /\ 15 + i < n
  <2>1. ends \in SUBSET Nat
    OBVIOUS
  <2>2. \E k \in ends : \A j \in ends : k <= j
    BY <1>2, <2>1, LeastNumber
  <2>3. i \in ends
    BY <2>2
  <2>4. i \in 1 .. 8
    BY <2>3
  <2> HIDE DEF i, ends
  <2> QED
    BY <2>4
<1> HIDE DEF i, ends
<1> QED
  BY <1>1, <1>2

\* A head reaches no further than its image, and past the descriptors or to the end.
LEMMA ReachIs ==
  ASSUME NEW d, IsDisc(d)
  PROVE  /\ Reach(d, TRUE) \in Nat /\ Reach(d, FALSE) \in Nat /\ Reach(d, TRUE) <= Reach(d, FALSE)
         /\ Reach(d, TRUE) = Reach(d, FALSE) \/ (Reach(d, TRUE) >= 24 /\ Reach(d, FALSE) >= 24)
<1>1. Reach(d, FALSE) = d.blocks /\ Reach(d, TRUE) = IF d.head < d.blocks THEN d.head ELSE d.blocks
  BY DEF Reach
<1>2. d.blocks \in Nat /\ d.head \in Nat /\ d.head >= 24
  BY DEF IsDisc
<1> DEFINE b == d.blocks
           h == d.head
           x == Reach(d, TRUE)
           y == Reach(d, FALSE)
<1>3. y = b /\ (x = h \/ x = b) /\ (h < b => x = h) /\ (~(h < b) => x = b)
  BY <1>1, Zenon
<1>4. b \in Nat /\ h \in Nat /\ h >= 24
  BY <1>2
<1> HIDE DEF b, h, x, y
<1>5. x \in Nat /\ y \in Nat /\ x <= y /\ (x = y \/ (x >= 24 /\ y >= 24))
  BY <1>3, <1>4
<1> QED
  BY <1>5, Zenon DEF x, y

\* Either stride: what the head opens is what the whole opens, and is in the image.
LEMMA OpenedIs ==
  ASSUME NEW d, IsDisc(d)
  PROVE  /\ openVolume(d, TRUE) = openVolume(d, FALSE)
         /\ openPS1Volume(d, TRUE) = openPS1Volume(d, FALSE)
         /\ openVolume(d, FALSE) = Absent \/ IsVolume(openVolume(d, FALSE))
         /\ openPS1Volume(d, FALSE) = Absent \/ IsVolume(openPS1Volume(d, FALSE))
<1> DEFINE m == Reach(d, TRUE)
           n == Reach(d, FALSE)
<1>1. m \in Nat /\ n \in Nat /\ (m = n \/ (m >= 24 /\ n >= 24))
  BY ReachIs
<1>2. /\ d.plain = Absent \/ IsVolume(d.plain)
      /\ d.raw = Absent \/ IsVolume(d.raw)
  BY DEF IsDisc
<1> HIDE DEF m, n
<1>3. ASSUME NEW v, v = Absent \/ IsVolume(v)
      PROVE  /\ OpenVolume(v, m) = OpenVolume(v, n)
             /\ OpenVolume(v, n) = Absent \/ IsVolume(OpenVolume(v, n))
  <2>1. OpenVolume(v, m) = OpenVolume(v, n)
    BY <1>1, VolumeIs
  <2>2. OpenVolume(v, n) \in {v, Absent}
    BY Zenon DEF OpenVolume
  <2> QED
    BY <1>3, <2>1, <2>2
<1>4. /\ OpenVolume(d.plain, m) = OpenVolume(d.plain, n)
      /\ OpenVolume(d.plain, n) = Absent \/ IsVolume(OpenVolume(d.plain, n))
      /\ OpenVolume(d.raw, m) = OpenVolume(d.raw, n)
      /\ OpenVolume(d.raw, n) = Absent \/ IsVolume(OpenVolume(d.raw, n))
  BY <1>2, <1>3
<1> QED
  BY <1>4, Zenon DEF openVolume, openPS1Volume, m, n

\* What the head of a volume tells, and what the whole of it tells.
Read(id, v, reach, key, part) == id # Nameless /\ id = SerialOf(v, reach, key, part)

\* A serial the head tells, of a disc with its boot file in the root, is the whole's:
\* SYSTEM.CNF is the same one, or the boot file has the one name that looks like a serial.
LEMMA SerialIs ==
  ASSUME NEW v, IsVolume(v), NEW m \in Nat, NEW n \in Nat, m <= n, NEW key,
         SerialOf(v, m, key, TRUE) # Nameless, SerialOf(v, n, key, FALSE) # Nameless,
         HasBootFile(v, SerialOf(v, n, key, FALSE))
  PROVE  SerialOf(v, m, key, TRUE) = SerialOf(v, n, key, FALSE)
<1> DEFINE Cnf(root) == IF root = Absent THEN Absent
                        ELSE FirstIn(root, LAMBDA e : ~e.dir /\ e.name = "SYSTEM.CNF")
           c == Cnf(v.root)
<1>1. /\ v.rootAt \in Nat /\ v.rootBlocks \in Nat
      /\ DOMAIN v.root = 1 .. Len(v.root) /\ Len(v.root) \in Nat
      /\ \A i \in DOMAIN v.root : v.root[i].at \in Nat /\ v.root[i].blocks \in Nat
  BY SeqIs DEF IsVolume
<1>2. \A r : readRoot(v, r) = IF v.rootBlocks \in 1 .. MaxRoot /\ v.rootAt + v.rootBlocks <= r
                              THEN v.root ELSE Absent
  BY DEF readRoot
<1>3. ASSUME NEW r
      PROVE  ReadFile(v, r) = LET f == Cnf(readRoot(v, r))
                              IN  IF f # Absent /\ f.blocks <= MaxFile /\ f.at + f.blocks <= r
                                  THEN f.keys ELSE Absent
  BY Zenon DEF ReadFile
<1>4. c = Absent \/ (c.at \in Nat /\ c.blocks \in Nat)
  <2> DEFINE fit == {i \in DOMAIN v.root : ~v.root[i].dir /\ v.root[i].name = "SYSTEM.CNF"}
             k == CHOOSE i \in fit : \A j \in fit : i <= j
  <2>1. c = Absent \/ c = IF fit = {} THEN Absent ELSE v.root[k]
    BY Zenon DEF FirstIn
  <2>2. ASSUME fit # {} PROVE k \in DOMAIN v.root
    <3>1. fit \in SUBSET Nat
      BY <1>1
    <3>2. \E i \in fit : \A j \in fit : i <= j
      BY <2>2, <3>1, LeastNumber
    <3>3. k \in fit
      BY <3>2
    <3> QED
      BY <3>3
  <2> HIDE DEF fit, k, c
  <2> QED
    BY <1>1, <2>1, <2>2
<1> HIDE DEF Cnf
<1>5. CASE ReadFile(v, m) # Absent
  <2>1. readRoot(v, m) # Absent => readRoot(v, m) = v.root /\ readRoot(v, n) = v.root
    <3> DEFINE x == v.rootAt + v.rootBlocks
    <3>1. x \in Nat
      BY <1>1
    <3> HIDE DEF x
    <3>2. x <= m => x <= n
      BY <3>1
    <3> QED
      BY <1>2, <3>2 DEF x
  <2>2. Cnf(readRoot(v, m)) # Absent
    BY <1>3, <1>5
  <2>3. readRoot(v, m) # Absent
    BY <2>2, Zenon DEF Cnf
  <2>4. /\ ReadFile(v, m) = IF c # Absent /\ c.blocks <= MaxFile /\ c.at + c.blocks <= m THEN c.keys ELSE Absent
        /\ ReadFile(v, n) = IF c # Absent /\ c.blocks <= MaxFile /\ c.at + c.blocks <= n THEN c.keys ELSE Absent
    BY <1>3, <2>1, <2>3
  <2>5. ReadFile(v, m) = ReadFile(v, n)
    <3> HIDE DEF c
    <3>1. c # Absent /\ c.blocks <= MaxFile /\ c.at + c.blocks <= m
      BY <1>5, <2>4
    <3>2. c.at + c.blocks <= n
      BY <1>4, <3>1
    <3> QED
      BY <2>4, <3>1, <3>2
  <2>6. SerialOf(v, m, key, TRUE) = BootSerial(ReadFile(v, m), key)
    BY <1>5, Zenon DEF SerialOf
  <2>7. SerialOf(v, n, key, FALSE) = BootSerial(ReadFile(v, n), key)
    BY <1>5, <2>5, Zenon DEF SerialOf
  <2> QED
    BY <2>5, <2>6, <2>7
<1>6. CASE ReadFile(v, m) = Absent
  <2> DEFINE found == {i \in DOMAIN v.root : v.root[i].serial # Nameless}
             id == SerialOf(v, n, key, FALSE)
  <2>1. SerialOf(v, m, key, TRUE) = serialFromRoot(v, m)
    BY <1>6, Zenon DEF SerialOf
  <2>2. readRoot(v, m) # Absent /\ Cardinality({i \in DOMAIN readRoot(v, m) : readRoot(v, m)[i].serial # Nameless}) = 1
        /\ serialFromRoot(v, m) = readRoot(v, m)[CHOOSE i \in {j \in DOMAIN readRoot(v, m) :
                                      readRoot(v, m)[j].serial # Nameless} : TRUE].serial
    BY <2>1, Zenon DEF serialFromRoot
  <2>3. readRoot(v, m) = v.root
    BY <1>2, <2>2
  <2>4. Cardinality(found) = 1 /\ serialFromRoot(v, m) = v.root[CHOOSE i \in found : TRUE].serial
    BY <2>2, <2>3, Zenon
  <2>5. IsFiniteSet(found)
    <3>1. IsFiniteSet(1 .. Len(v.root))
      BY <1>1, FS_Interval
    <3>2. found \subseteq 1 .. Len(v.root)
      BY <1>1
    <3> QED
      BY <3>1, <3>2, FS_Subset
  <2> HIDE DEF id
  <2>6. PICK i \in DOMAIN v.root : v.root[i].serial = id
    BY Zenon DEF HasBootFile, id
  <2>7. i \in found
    BY <2>6, Zenon DEF id
  <2> HIDE DEF found
  <2>8. \A j \in found : j = i
    BY <2>4, <2>5, <2>7, FS_Singleton
  <2>9. (CHOOSE j \in found : TRUE) = i
    BY <2>7, <2>8
  <2> QED
    BY <2>1, <2>4, <2>6, <2>9 DEF id
<1> QED
  BY <1>5, <1>6

\* The same of what was read.
LEMMA SerialAgrees ==
  ASSUME NEW v, IsVolume(v), NEW m \in Nat, NEW n \in Nat, m <= n, NEW key, NEW x, NEW y,
         Read(x, v, m, key, TRUE), Read(y, v, n, key, FALSE), HasBootFile(v, y)
  PROVE  x = y
<1>1. /\ x = SerialOf(v, m, key, TRUE) /\ y = SerialOf(v, n, key, FALSE)
      /\ SerialOf(v, m, key, TRUE) # Nameless /\ SerialOf(v, n, key, FALSE) # Nameless
      /\ HasBootFile(v, SerialOf(v, n, key, FALSE))
  BY Zenon DEF Read
<1> QED
  BY <1>1, SerialIs, Zenon

\* The members of a kind are members.
LEMMA OfKindIs ==
  ASSUME NEW S, NEW a \in Seq(S), NEW k
  PROVE  OfKind(a, k) \in Seq({m \in S : m.kind = k})
<1> DEFINE n == Len(a)
           T == {m \in S : m.kind = k}
           V == Seq(T)
           G == [i \in 1 .. n |-> [v \in V |-> IF a[i].kind = k THEN Append(v, a[i]) ELSE v]]
           Fix(f) == f = [Q \in SUBSET (1 .. n) |->
                            IF Q = {} THEN << >>
                            ELSE IF a[Max(Q)].kind = k THEN Append(f[Q \ {Max(Q)}], a[Max(Q)])
                            ELSE f[Q \ {Max(Q)}]]
           fl == CHOOSE f : Fix(f)
<1>1. n \in Nat /\ DOMAIN a = 1 .. n /\ \A i \in 1 .. n : a[i] \in S
  BY SeqIs
<1>2. OfKind(a, k) = fl[1 .. n]
  BY <1>1 DEF OfKind, FoldLeft, MapThenFoldSet
<1>3. << >> \in V
  BY EmptySeq
<1>4. G \in [1 .. n -> [V -> V]]
  <2>1. ASSUME NEW i \in 1 .. n, NEW v \in V
        PROVE  (IF a[i].kind = k THEN Append(v, a[i]) ELSE v) \in V
    <3>1. a[i].kind = k => a[i] \in T
      BY <1>1
    <3> HIDE DEF T
    <3>2. a[i].kind = k => Append(v, a[i]) \in V
      BY <3>1, AppendProperties
    <3> QED
      BY <3>2
  <2> HIDE DEF V
  <2> QED
    BY <2>1
<1> HIDE DEF V, T
<1>5. ASSUME NEW Q \in SUBSET (1 .. n), Q # {} PROVE Max(Q) \in 1 .. n
  BY <1>1, <1>5, MaxIs
<1> HIDE DEF n
<1>6. Fix(fl)
  <2> HIDE DEF G
  <2>0. PICK g : Folded(g, n, V, << >>, G)
    BY <1>1, <1>3, <1>4, FoldExists
  <2>1. /\ g \in [SUBSET (1 .. n) -> V]
        /\ \A Q \in SUBSET (1 .. n) : g[Q] = IF Q = {} THEN << >> ELSE G[Max(Q)][g[Q \ {Max(Q)}]]
    BY <2>0 DEF Folded
  <2>2. ASSUME NEW Q \in SUBSET (1 .. n), Q # {}
        PROVE  g[Q] = IF a[Max(Q)].kind = k THEN Append(g[Q \ {Max(Q)}], a[Max(Q)]) ELSE g[Q \ {Max(Q)}]
    BY <1>5, <2>1, <2>2 DEF G
  <2>3. Fix(g)
    BY <2>1, <2>2
  <2> QED
    BY <2>3
<1> HIDE DEF fl
<1>7. FoldValues(fl, n, V, << >>, G)
  <2>1. \A Q \in SUBSET (1 .. n) :
          /\ Q = {} => fl[Q] = << >>
          /\ Q # {} /\ fl[Q \ {Max(Q)}] \in V => fl[Q] = G[Max(Q)][fl[Q \ {Max(Q)}]]
    BY <1>5, <1>6
  <2> HIDE DEF G
  <2> QED
    BY <1>1, <1>3, <1>4, <2>1, FoldSteps
<1>8. PICK b : Folding(b, n, V, << >>, G) /\ b[n] = fl[1 .. n]
  BY <1>7 DEF FoldValues
<1>9. n \in 0 .. n
  BY <1>1
<1>10. OfKind(a, k) \in V
  BY <1>2, <1>8, <1>9 DEF Folding
<1> QED
  BY <1>10 DEF V, T

\* A number taken out of a sum.
LEMMA SumWithout ==
  ASSUME NEW s \in Seq(Nat), NEW k \in DOMAIN s
  PROVE  /\ [s EXCEPT ![k] = 0] \in Seq(Nat)
         /\ SumOf([s EXCEPT ![k] = 0]) + s[k] = SumOf(s)
<1> DEFINE t == [s EXCEPT ![k] = 0]
           n == Len(s)
           x == s[k]
<1>1. n \in Nat /\ DOMAIN s = 1 .. n /\ k \in 1 .. n /\ x \in Nat /\ \A i \in 1 .. n : s[i] \in Nat
  BY SeqIs
<1>2. t \in [1 .. n -> Nat] /\ t[k] = 0 /\ \A i \in 1 .. n : i # k => t[i] = s[i]
  BY <1>1
<1> HIDE DEF t
<1>3. t \in Seq(Nat) /\ Len(t) = n
  BY <1>1, <1>2, FunctionIsSeq
<1>4. PICK a : SumChain(s, a)
  BY SumSteps
<1>5. PICK b : SumChain(t, b)
  BY <1>3, SumSteps
<1>6. /\ a[0] = 0 /\ SumOf(s) = a[n] /\ \A i \in 1 .. n : a[i] = a[i - 1] + s[i]
      /\ b[0] = 0 /\ SumOf(t) = b[n] /\ \A i \in 1 .. n : b[i] = b[i - 1] + t[i]
      /\ \A i \in 0 .. n : a[i] \in Nat /\ b[i] \in Nat
  BY <1>3, <1>4, <1>5 DEF SumChain
<1> DEFINE E == {i \in Nat : i <= n => b[i] + (IF k <= i THEN x ELSE 0) = a[i]}
<1>7. 0 \in E
  BY <1>1, <1>6
<1> HIDE DEF n
<1>8. ASSUME NEW i \in Nat, i \in E PROVE i + 1 \in E
  <2> SUFFICES ASSUME i + 1 <= n PROVE b[i + 1] + (IF k <= i + 1 THEN x ELSE 0) = a[i + 1]
    OBVIOUS
  <2>1. i + 1 \in 1 .. n /\ i \in 0 .. n /\ (i + 1) - 1 = i
    BY <1>1
  <2>2. b[i] + (IF k <= i THEN x ELSE 0) = a[i] /\ a[i] \in Nat /\ b[i] \in Nat
    BY <1>6, <1>8, <2>1
  <2>3. a[i + 1] = a[i] + s[i + 1] /\ b[i + 1] = b[i] + t[i + 1] /\ s[i + 1] \in Nat
    BY <1>1, <1>6, <2>1
  <2> HIDE DEF E
  <2>4. CASE k = i + 1
    <3>1. ~(k <= i) /\ t[i + 1] = 0 /\ s[i + 1] = x
      BY <1>1, <1>2, <2>4
    <3> QED
      BY <1>1, <2>2, <2>3, <2>4, <3>1
  <2>5. CASE k # i + 1
    <3>1. (k <= i + 1 <=> k <= i) /\ t[i + 1] = s[i + 1]
      BY <1>1, <1>2, <2>1, <2>5
    <3> QED
      BY <1>1, <2>2, <2>3, <3>1
  <2> QED
    BY <2>4, <2>5
<1>9. n \in E
  BY <1>1, <1>7, <1>8, SetInduction
<1>10. b[n] + x = a[n]
  BY <1>1, <1>9
<1> QED
  BY <1>3, <1>6, <1>10 DEF t

\* Numbers of a sequence, each taken once, are no more than all of them.
Picks(z, w, p) ==
  \A i \in DOMAIN z : /\ p[i] \in DOMAIN w /\ z[i] = w[p[i]]
                      /\ \A j \in DOMAIN z : p[i] = p[j] => i = j

\* By induction on how many are taken, each set to nothing in w once it is.
LEMMA SumOfSome ==
  ASSUME NEW w \in Seq(Nat), NEW z \in Seq(Nat), NEW p, Picks(z, w, p)
  PROVE  SumOf(z) <= SumOf(w)
<1> DEFINE Sums(n) == \A v, y \in Seq(Nat) : Len(y) = n /\ Picks(y, v, p) => SumOf(y) <= SumOf(v)
           E == {n \in Nat : Sums(n)}
<1>1. 0 \in E
  <2> SUFFICES ASSUME NEW v \in Seq(Nat), NEW y \in Seq(Nat), Len(y) = 0 PROVE SumOf(y) <= SumOf(v)
    OBVIOUS
  <2>1. SumOf(y) = 0 /\ SumOf(v) \in Nat
    BY SeqIs, SumIs
  <2> QED
    BY <2>1
<1>2. ASSUME NEW n \in Nat, n \in E PROVE n + 1 \in E
  <2> SUFFICES ASSUME NEW v \in Seq(Nat), NEW y \in Seq(Nat), Len(y) = n + 1, Picks(y, v, p)
               PROVE  SumOf(y) <= SumOf(v)
    OBVIOUS
  <2> DEFINE k == p[n + 1]
             x == y[n + 1]
             u == [v EXCEPT ![k] = 0]
             f == [i \in 1 .. n |-> y[i]]
  <2>1. DOMAIN y = 1 .. n + 1 /\ \A i \in 1 .. n + 1 : y[i] \in Nat
    BY SeqIs
  <2>2. k \in DOMAIN v /\ x = v[k] /\ x \in Nat
    <3>1. n + 1 \in 1 .. n + 1
      OBVIOUS
    <3>2. n + 1 \in DOMAIN y /\ y[n + 1] \in Nat
      BY <2>1, <3>1
    <3> QED
      BY <3>2, Zenon DEF Picks
  <2>3. u \in Seq(Nat) /\ SumOf(u) + x = SumOf(v)
    <3> HIDE DEF k, x
    <3> QED
      BY <2>2, SumWithout
  <2>4. f \in [1 .. n -> Nat]
    BY <2>1
  <2>5. f \in Seq(Nat) /\ Len(f) = n /\ DOMAIN f = 1 .. n
    <3> HIDE DEF f
    <3> QED
      BY <2>4, FunctionIsSeq
  <2>6. ASSUME NEW i \in 1 .. n
        PROVE  p[i] \in DOMAIN u /\ f[i] = u[p[i]] /\ \A j \in 1 .. n : p[i] = p[j] => i = j
    <3>1. i \in 1 .. n + 1 /\ n + 1 \in 1 .. n + 1 /\ i # n + 1 /\ \A j \in 1 .. n : j \in 1 .. n + 1
      OBVIOUS
    <3>2. p[i] \in DOMAIN v /\ y[i] = v[p[i]] /\ p[i] # k /\ \A j \in 1 .. n : p[i] = p[j] => i = j
      BY <2>1, <3>1 DEF Picks
    <3> HIDE DEF k
    <3> QED
      BY <3>2
  <2>7. Picks(f, u, p)
    <3> HIDE DEF f, u
    <3> QED
      BY <2>5, <2>6 DEF Picks
  <2>8. SumOf(f) <= SumOf(u)
    <3> HIDE DEF f, u
    <3> QED
      BY <1>2, <2>3, <2>5, <2>7
  <2>9. y = Append(f, x)
    <3>1. y \in [1 .. n + 1 -> Nat]
      BY <2>1
    <3> HIDE DEF f, x
    <3>2. Append(f, x) \in Seq(Nat) /\ Len(Append(f, x)) = n + 1 /\ Append(f, x)[n + 1] = x
          /\ \A i \in 1 .. n : Append(f, x)[i] = f[i]
      BY <2>2, <2>5, AppendProperties
    <3> DEFINE t == Append(f, x)
    <3> HIDE DEF t
    <3>3. t \in Seq(Nat) /\ Len(t) = n + 1 /\ t[n + 1] = x /\ \A i \in 1 .. n : t[i] = f[i]
      BY <3>2 DEF t
    <3>4. DOMAIN t = 1 .. n + 1
      BY <3>3, SeqIs
    <3>5. \A i \in 1 .. n + 1 : t[i] = y[i]
      <4>1. \A i \in 1 .. n + 1 : i = n + 1 \/ i \in 1 .. n
        OBVIOUS
      <4>2. \A i \in 1 .. n : f[i] = y[i]
        BY DEF f
      <4> QED
        BY <3>3, <4>1, <4>2 DEF x
    <3>6. t = [i \in 1 .. n + 1 |-> t[i]] /\ y = [i \in 1 .. n + 1 |-> y[i]]
      BY <3>1, <3>3, <3>4
    <3>7. t = y
      BY <3>5, <3>6
    <3> QED
      BY <3>7 DEF t
  <2>10. SumOf(y) = SumOf(f) + x /\ SumOf(f) \in Nat /\ SumOf(u) \in Nat
    <3> HIDE DEF f, x, u
    <3> QED
      BY <2>2, <2>3, <2>5, <2>9, SumIs
  <2> HIDE DEF f, x, u, E
  <2> QED
    BY <2>2, <2>3, <2>8, <2>10
<1>3. Len(z) \in E
  <2>1. Len(z) \in Nat
    BY SeqIs
  <2> HIDE DEF E
  <2> QED
    BY <1>1, <1>2, <2>1, SetInduction
<1> QED
  BY <1>3

\* One file of a sum.
LEMMA OneOfSum ==
  ASSUME NEW s \in Seq(Nat), NEW k \in DOMAIN s
  PROVE  s[k] <= SumOf(s)
<1> DEFINE rest == SumOf([s EXCEPT ![k] = 0])
           x == s[k]
           total == SumOf(s)
<1>1. [s EXCEPT ![k] = 0] \in Seq(Nat) /\ rest + x = total
  BY SumWithout
<1>2. rest \in Nat
  BY <1>1, SumIs
<1>3. x \in Nat
  BY SeqIs
<1> HIDE DEF rest, x, total
<1>4. x <= total
  BY <1>1, <1>2, <1>3
<1> QED
  BY <1>4 DEF x, total

\* A name that is found, of a directory of any number of files.
Resolves(dir, name) == DOMAIN dir \in SUBSET Nat /\ fileResolver(dir, name) # Absent

\* What a name is resolved to is in the directory under it, but for its case.
LEMMA ResolvedIs ==
  ASSUME NEW dir, NEW name, Resolves(dir, name)
  PROVE  \E k \in DOMAIN dir : dir[k].size = fileResolver(dir, name) /\ dir[k].name.lower = name.lower
<1> DEFINE exact == {i \in DOMAIN dir : dir[i].name = name}
           alike == {i \in DOMAIN dir : dir[i].name.lower = name.lower}
           first(S) == CHOOSE i \in S : \A j \in S : i <= j
<1>1. ASSUME NEW S \in SUBSET DOMAIN dir, S # {} PROVE first(S) \in S
  <2>1. S \in SUBSET Nat
    BY DEF Resolves
  <2>2. \E i \in S : \A j \in S : i <= j
    BY <1>1, <2>1, LeastNumber
  <2> QED
    BY <2>2
<1>2. fileResolver(dir, name) = IF exact # {} THEN dir[first(exact)].size
                                ELSE IF alike # {} THEN dir[first(alike)].size ELSE Absent
  BY DEF fileResolver
<1>3. exact \in SUBSET DOMAIN dir /\ alike \in SUBSET DOMAIN dir
  OBVIOUS
<1>0. fileResolver(dir, name) # Absent
  BY DEF Resolves
<1> HIDE DEF first
<1>4. CASE exact # {}
  <2>1. first(exact) \in exact
    BY <1>1, <1>3, <1>4
  <2> QED
    BY <1>2, <1>4, <2>1
<1>5. CASE exact = {}
  <2>1. alike # {} /\ fileResolver(dir, name) = dir[first(alike)].size
    BY <1>0, <1>2, <1>5
  <2>2. first(alike) \in alike
    BY <1>1, <1>3, <2>1
  <2> QED
    BY <2>1, <2>2
<1> QED
  BY <1>4, <1>5

\* Files named once in a sheet are no more than all there are.
LEMMA ResolvedSum ==
  ASSUME NEW dir, NEW w \in Seq(Nat), DOMAIN dir = DOMAIN w, \A k \in DOMAIN w : dir[k].size = w[k],
         NEW S, NEW lists \in Seq(S), NEW z \in Seq(Nat), DOMAIN z = DOMAIN lists,
         \A i \in DOMAIN lists : z[i] = fileResolver(dir, lists[i]) /\ z[i] # Absent,
         \A i, j \in DOMAIN lists : lists[i].lower = lists[j].lower => i = j
  PROVE  SumOf(z) <= SumOf(w)
<1> DEFINE At(i) == CHOOSE k \in DOMAIN dir : dir[k].size = z[i] /\ dir[k].name.lower = lists[i].lower
           p == [i \in DOMAIN lists |-> At(i)]
<1>1. DOMAIN dir \in SUBSET Nat
  BY SeqIs
<1>2. ASSUME NEW i \in DOMAIN lists
      PROVE  p[i] \in DOMAIN w /\ w[p[i]] = z[i] /\ dir[p[i]].name.lower = lists[i].lower
  <2>1. \E k \in DOMAIN dir : dir[k].size = z[i] /\ dir[k].name.lower = lists[i].lower
    <3>1. fileResolver(dir, lists[i]) # Absent /\ z[i] = fileResolver(dir, lists[i])
      OBVIOUS
    <3> DEFINE name == lists[i]
    <3>2. Resolves(dir, name)
      BY <1>1, <3>1 DEF Resolves
    <3> HIDE DEF name, p, At
    <3>3. \E k \in DOMAIN dir : dir[k].size = fileResolver(dir, name) /\ dir[k].name.lower = name.lower
      BY <3>2, ResolvedIs
    <3> QED
      BY <3>1, <3>3 DEF name
  <2>2. At(i) \in DOMAIN dir /\ dir[At(i)].size = z[i] /\ dir[At(i)].name.lower = lists[i].lower
    BY <2>1
  <2>3. p[i] = At(i)
    OBVIOUS
  <2> HIDE DEF p, At
  <2> QED
    BY <2>2, <2>3
<1> HIDE DEF p
<1>3. Picks(z, w, p)
  <2>1. ASSUME NEW i \in DOMAIN lists, NEW j \in DOMAIN lists, p[i] = p[j] PROVE i = j
    <3>1. lists[i].lower = lists[j].lower
      BY <1>2, <2>1
    <3> QED
      BY <3>1
  <2> QED
    BY <1>2, <2>1 DEF Picks
<1> QED
  BY <1>3, SumOfSome

\* The space check charges no less for more bytes.
LEMMA ChargeGrows ==
  ASSUME NEW b \in Nat, NEW c \in Nat, b <= c, NEW gaps \in Nat
  PROVE  VCDSize(b, gaps) <= VCDSize(c, gaps)
<1> DEFINE g == gaps * SectorSize
<1>1. g \in Nat /\ HeaderSize \in Nat
  BY VcdAssumption
<1>2. \A x : VCDSize(x, gaps) = IF x <= 0 THEN 0 ELSE HeaderSize + x + g
  BY DEF VCDSize
<1> HIDE DEF g
<1>3. CASE b = 0
  <2>1. VCDSize(b, gaps) = 0
    BY <1>2, <1>3
  <2>2. VCDSize(c, gaps) \in Nat
    BY <1>1, <1>2
  <2> QED
    BY <2>1, <2>2
<1>4. CASE b # 0
  <2>1. ~(b <= 0) /\ ~(c <= 0)
    BY <1>4
  <2>2. VCDSize(b, gaps) = HeaderSize + b + g /\ VCDSize(c, gaps) = HeaderSize + c + g
    BY <1>2, <2>1
  <2> QED
    BY <1>1, <2>2
<1> QED
  BY <1>3, <1>4

\* An image that is identified.
LEMMA IdentifiedIs ==
  ASSUME NEW d, NEW bytes, NEW gaps, NEW part, identify(d, bytes, gaps, part) # Absent
  PROVE  /\ identify(d, bytes, gaps, part).charge = VCDSize(bytes, gaps)
         /\ openPS1Volume(d, part) # Absent
         /\ identify(d, bytes, gaps, part).id
              = SerialOf(openPS1Volume(d, part), Reach(d, part), "BOOT", part)
         /\ identify(d, bytes, gaps, part).id # Nameless
<1> DEFINE v == openPS1Volume(d, part)
           id == IF v = Absent THEN Nameless ELSE SerialOf(v, Reach(d, part), "BOOT", part)
           tells == identify(d, bytes, gaps, part)
<1>1. tells = IF id = Nameless THEN Absent ELSE [id |-> id, size |-> bytes, charge |-> VCDSize(bytes, gaps)]
  BY Zenon DEF identify
<1>2. id # Nameless /\ tells.charge = VCDSize(bytes, gaps) /\ tells.id = id
  <2> HIDE DEF id
  <2>1. id # Nameless
    BY <1>1
  <2>2. tells = [id |-> id, size |-> bytes, charge |-> VCDSize(bytes, gaps)]
    BY <1>1, <2>1
  <2> HIDE DEF tells
  <2> QED
    BY <2>1, <2>2
<1> HIDE DEF tells
<1>3. v # Absent /\ tells.id = SerialOf(v, Reach(d, part), "BOOT", part)
  BY <1>2
<1> QED
  BY <1>2, <1>3 DEF tells

\* A rip, and an image, told from what it is.
Identified(x, d, bytes, gaps, part) == x # Absent /\ x = identify(d, bytes, gaps, part)

\* The same of what is known to have been identified.
LEMMA IdentifiedAs ==
  ASSUME NEW x, NEW d, NEW bytes, NEW gaps, NEW part, Identified(x, d, bytes, gaps, part)
  PROVE  /\ x.charge = VCDSize(bytes, gaps)
         /\ openPS1Volume(d, part) # Absent
         /\ Read(x.id, openPS1Volume(d, part), Reach(d, part), "BOOT", part)
  BY IdentifiedIs DEF Identified, Read

\* A PS2 image that is identified.
LEMMA ImageIs ==
  ASSUME NEW d, NEW part, InspectAt(d, part) # Absent
  PROVE  /\ openVolume(d, part) # Absent
         /\ InspectAt(d, part).id = SerialOf(openVolume(d, part), Reach(d, part), "BOOT2", part)
         /\ InspectAt(d, part).id # Nameless
         /\ LET v == openVolume(d, part)
                size == IF v.size > 0 /\ v.size < d.size THEN v.size ELSE d.size
            IN  InspectAt(d, part).size = size /\ InspectAt(d, part).media = MediaType(v, size)
<1> DEFINE v == openVolume(d, part)
           size == IF v.size > 0 /\ v.size < d.size THEN v.size ELSE d.size
           id == IF v = Absent THEN Nameless ELSE SerialOf(v, Reach(d, part), "BOOT2", part)
           tells == InspectAt(d, part)
<1>1. tells = IF id = Nameless THEN Absent ELSE [id |-> id, size |-> size, media |-> MediaType(v, size)]
  BY Zenon DEF InspectAt
<1>2. id # Nameless /\ tells.size = size /\ tells.media = MediaType(v, size) /\ tells.id = id
  <2> HIDE DEF id, size
  <2>1. id # Nameless
    BY <1>1
  <2>2. tells = [id |-> id, size |-> size, media |-> MediaType(v, size)]
    BY <1>1, <2>1
  <2> HIDE DEF tells
  <2> QED
    BY <2>1, <2>2
<1> HIDE DEF tells
<1>3. v # Absent /\ tells.id = SerialOf(v, Reach(d, part), "BOOT2", part)
  BY <1>2
<1> QED
  BY <1>2, <1>3 DEF tells

Pictured(x, d, part) == x # Absent /\ x = InspectAt(d, part)

\* The same of what is known to have been identified.
LEMMA ImageAs ==
  ASSUME NEW x, NEW d, NEW part, Pictured(x, d, part), NEW v, v = openVolume(d, part)
  PROVE  /\ v # Absent
         /\ Read(x.id, v, Reach(d, part), "BOOT2", part)
         /\ LET size == IF v.size > 0 /\ v.size < d.size THEN v.size ELSE d.size
            IN  x.size = size /\ x.media = MediaType(v, size)
  BY ImageIs DEF Pictured, Read

\* The members of an archive, and the files they are unpacked to.
DataOf(a) == OfKind(a, "image")
Weights(a) == [i \in DOMAIN DataOf(a) |-> DataOf(a)[i].size]

\* The data files weigh what the members do; a sheet among them is text.
LEMMA MembersAre ==
  ASSUME NEW a \in Archives
  PROVE  LET m == FindPS1Members(a)
             data == DataOf(a)
         IN  /\ m.data = data /\ m.bytes = SumOf(Weights(a))
             /\ m.cue # Absent => IsText(m.cue.lines)
             /\ Len(data) \in Nat /\ DOMAIN data = 1 .. Len(data) /\ (data = << >> <=> Len(data) = 0)
             /\ \A i \in DOMAIN data : data[i].size \in Nat /\ IsDisc(data[i].disc)
             /\ Weights(a) \in Seq(Nat) /\ DOMAIN Weights(a) = DOMAIN data
<1> DEFINE data == DataOf(a)
           cues == OfKind(a, "cue")
           first == IF cues = << >> THEN Absent ELSE cues[1]
           m == FindPS1Members(a)
           S == Range(a)
<1>1. a \in Seq(S) /\ \A x \in S : \E i \in DOMAIN a : x = a[i]
  BY ArchivesAssumption DEF Range
<1>2. /\ \A i \in DOMAIN a : a[i].kind = "image" => a[i].size \in Nat /\ IsDisc(a[i].disc)
      /\ \A i \in DOMAIN a : a[i].kind = "cue" => IsText(a[i].lines)
  BY ArchivesAssumption
<1>3. data \in Seq({x \in S : x.kind = "image"}) /\ cues \in Seq({x \in S : x.kind = "cue"})
  BY <1>1, OfKindIs DEF DataOf
<1>4. m = [cue |-> first, data |-> data, bytes |-> SumOf(Weights(a))]
  BY Zenon DEF FindPS1Members, SheetOf, DataOf, Weights
<1> HIDE DEF S, data, cues
<1>5. /\ Len(data) \in Nat /\ DOMAIN data = 1 .. Len(data) /\ (data = << >> <=> Len(data) = 0)
      /\ \A i \in DOMAIN data : data[i] \in S /\ data[i].kind = "image"
  BY <1>3, SeqIs
<1>6. \A i \in DOMAIN data : data[i].size \in Nat /\ IsDisc(data[i].disc)
  BY <1>1, <1>2, <1>5
<1>7. first # Absent => IsText(first.lines)
  <2>1. ASSUME cues # << >> PROVE cues[1] \in S /\ cues[1].kind = "cue"
    <3>1. 1 \in DOMAIN cues
      BY <1>3, <2>1, SeqIs
    <3> QED
      BY <1>3, <3>1, SeqIs
  <2>2. cues # << >> => IsText(cues[1].lines)
    BY <1>1, <1>2, <2>1
  <2> QED
    BY <2>2
<1> DEFINE w == [i \in DOMAIN data |-> data[i].size]
<1>8. w \in [1 .. Len(data) -> Nat]
  BY <1>5, <1>6
<1>9. Weights(a) = w
  BY Zenon DEF Weights, data
<1> HIDE DEF w
<1>10. w \in Seq(Nat) /\ DOMAIN w = DOMAIN data
  BY <1>5, <1>8, FunctionIsSeq
<1> HIDE DEF first, m
<1>11. m.cue = first /\ m.data = data /\ m.bytes = SumOf(Weights(a))
  BY <1>4
<1> QED
  BY <1>5, <1>6, <1>7, <1>9, <1>10, <1>11, Zenon DEF data, m

\* Unpacked, they are the files of a rip.
LEMMA UnpackedIs ==
  ASSUME NEW a \in Archives
  PROVE  LET m == FindPS1Members(a)
             r == Unpacked(a)
         IN  /\ m.cue = Absent => r.shape = "bin"
             /\ m.cue # Absent => r.shape = "cue" /\ r.lines = m.cue.lines
             /\ DOMAIN r.dir = DOMAIN Weights(a) /\ \A i \in DOMAIN Weights(a) : r.dir[i].size = Weights(a)[i]
<1> DEFINE m == FindPS1Members(a)
           data == DataOf(a)
           sheet == SheetOf(a)
           kind == IF sheet = Absent THEN "bin" ELSE "cue"
           d == [i \in DOMAIN data |-> [name |-> data[i].name, size |-> data[i].size]]
           text == IF sheet = Absent THEN << >> ELSE sheet.lines
           none == << >>
           yes == TRUE
           r == Unpacked(a)
<1>1. r = [shape |-> kind, dir |-> d, lines |-> text, sections |-> none, volume |-> yes]
  BY Zenon DEF Unpacked, DataOf
<1> HIDE DEF r, yes, none
<1>2. r.shape = kind /\ r.dir = d /\ r.lines = text
  <2> HIDE DEF kind, d, text
  <2> QED
    BY <1>1
<1>3. m.cue = sheet
  <2> DEFINE all == OfKind(a, "image")
             bytes == SumOf([i \in DOMAIN all |-> all[i].size])
  <2>1. m = [cue |-> sheet, data |-> all, bytes |-> bytes]
    BY Zenon DEF FindPS1Members
  <2> HIDE DEF m, sheet, all, bytes
  <2> QED
    BY <2>1
<1> HIDE DEF m, sheet
<1>4. DOMAIN d = DOMAIN data /\ \A i \in DOMAIN data : d[i].size = data[i].size
  OBVIOUS
<1>5. DOMAIN Weights(a) = DOMAIN data /\ \A i \in DOMAIN data : Weights(a)[i] = data[i].size
  BY DEF Weights, data
<1> HIDE DEF data, d
<1>6. /\ m.cue = Absent => r.shape = "bin"
      /\ m.cue # Absent => r.shape = "cue" /\ r.lines = m.cue.lines
      /\ DOMAIN r.dir = DOMAIN Weights(a) /\ \A i \in DOMAIN Weights(a) : r.dir[i].size = Weights(a)[i]
  BY <1>2, <1>3, <1>4, <1>5
<1> QED
  BY <1>6, Zenon DEF m, r

\* A sheet that parses has files and gaps.
LEMMA ParsedIs ==
  ASSUME NEW lines, IsText(lines)
  PROVE  LET c == ParseCue(lines)
         IN  /\ GapSectors(c) \in Nat
             /\ \E S : c.files \in Seq(S)
             /\ c.ok => 1 \in DOMAIN c.files
<1> DEFINE r == [lines |-> lines]
           c == ParseCue(lines)
<1>1. r.lines = lines
  OBVIOUS
<1> HIDE DEF r
<1>2. c \in Sheets(r)
  BY <1>1, CueIs
<1>3. c.files \in Seq(Names(r)) /\ c.tracks \in Seq(Tracks(r))
  BY <1>2 DEF Sheets
<1>4. c.ok => c.files # << >>
  <2> DEFINE b == FoldLeft(ParseLine, [NoSheet EXCEPT !.ok = TRUE], lines)
             ok == b.ok /\ b.files # << >> /\ b.tracks # << >>
  <2>1. c = [b EXCEPT !.ok = ok]
    BY DEF ParseCue
  <2> HIDE DEF b
  <2>2. c.files = b.files /\ (c.ok => b.files # << >>)
    BY <1>2, <2>1 DEF Sheets
  <2> QED
    BY <2>2
<1> HIDE DEF c
<1>5. c.ok => 1 \in DOMAIN c.files
  BY <1>3, <1>4, SeqIs
<1>6. Len(c.tracks) \in Nat /\ DOMAIN c.tracks = 1 .. Len(c.tracks)
  BY <1>3, SeqIs
<1>7. ASSUME NEW S \in SUBSET DOMAIN c.tracks PROVE Cardinality(S) \in Nat
  <2>1. IsFiniteSet(DOMAIN c.tracks)
    BY <1>6, FS_Interval
  <2>2. IsFiniteSet(S)
    BY <2>1, FS_Subset
  <2> QED
    BY <2>2, FS_CardinalityType
<1>8. PregapCount(c) \in Nat /\ PostgapCount(c) \in Nat
  BY <1>7 DEF PregapCount, PostgapCount
<1>9. GapSectors(c) \in Nat
  BY <1>8 DEF GapSectors, leadInSectors
<1> QED
  BY <1>3, <1>5, <1>9, Zenon DEF c

\* The bytes an unpacked sheet is charged for, each of its files counted once.
LEMMA SheetBytes ==
  ASSUME NEW a \in Archives, FindPS1Members(a).cue # Absent, EachOnce(a),
         Validate(Unpacked(a), ParseCue(Unpacked(a).lines))
  PROVE  LET sizes == Sizes(Unpacked(a), ParseCue(Unpacked(a).lines))
             bytes == IF \E i \in DOMAIN sizes : sizes[i] = Absent THEN sizes[1] ELSE SumOf(sizes)
         IN  bytes \in Nat /\ bytes <= SumOf(Weights(a))
<1> DEFINE m == FindPS1Members(a)
           r == Unpacked(a)
           c == ParseCue(r.lines)
           z == Sizes(r, c)
           w == Weights(a)
           bytes == IF \E i \in DOMAIN z : z[i] = Absent THEN z[1] ELSE SumOf(z)
<1>1. /\ r.shape = "cue" /\ r.lines = m.cue.lines /\ IsText(m.cue.lines)
      /\ DOMAIN r.dir = DOMAIN w /\ \A i \in DOMAIN w : r.dir[i].size = w[i]
      /\ w \in Seq(Nat)
  BY MembersAre, UnpackedIs, Zenon
<1>2. \A i, j \in DOMAIN c.files : c.files[i].lower = c.files[j].lower => i = j
  BY Zenon DEF EachOnce
<1>3. c.ok /\ z[1] # Absent
  BY Zenon DEF Validate
<1>4. (\E S : c.files \in Seq(S)) /\ 1 \in DOMAIN c.files
  BY <1>1, <1>3, ParsedIs
<1>5. z = [i \in DOMAIN c.files |-> fileResolver(r.dir, c.files[i])]
  BY <1>1 DEF Sizes
<1> HIDE DEF m, r, c, z, w
<1>6. DOMAIN r.dir \in SUBSET Nat /\ \A i \in DOMAIN w : w[i] \in Nat
  BY <1>1, SeqIs
<1>7. DOMAIN z = DOMAIN c.files /\ \A i \in DOMAIN c.files : z[i] = fileResolver(r.dir, c.files[i])
  BY <1>5
<1>8. ASSUME NEW i \in DOMAIN c.files, z[i] # Absent PROVE \E k \in DOMAIN w : z[i] = w[k]
  <2>1. \E k \in DOMAIN r.dir : r.dir[k].size = z[i]
    <3>1. Resolves(r.dir, c.files[i]) /\ z[i] = fileResolver(r.dir, c.files[i])
      BY <1>6, <1>7, <1>8 DEF Resolves
    <3> DEFINE dir == r.dir
               name == c.files[i]
    <3> HIDE DEF dir, name
    <3>2. \E k \in DOMAIN dir : dir[k].size = fileResolver(dir, name)
      BY <3>1, ResolvedIs DEF dir, name
    <3> QED
      BY <3>1, <3>2 DEF dir, name
  <2> QED
    BY <1>1, <2>1
<1>9. CASE \E i \in DOMAIN z : z[i] = Absent
  <2>1. PICK k \in DOMAIN w : z[1] = w[k]
    BY <1>3, <1>4, <1>8
  <2>2. w[k] \in Nat /\ w[k] <= SumOf(w)
    BY <1>1, <1>6, OneOfSum
  <2>3. bytes = z[1]
    BY <1>9
  <2> HIDE DEF bytes
  <2>4. bytes \in Nat /\ bytes <= SumOf(w)
    BY <2>1, <2>2, <2>3
  <2> QED
    BY <2>4, Zenon DEF bytes, z, c, r, w
<1>10. CASE ~\E i \in DOMAIN z : z[i] = Absent
  <2>1. \A i \in DOMAIN c.files : z[i] # Absent /\ z[i] \in Nat
    BY <1>6, <1>7, <1>8, <1>10
  <2>2. PICK S : c.files \in Seq(S)
    BY <1>4
  <2>3. Len(c.files) \in Nat /\ DOMAIN c.files = 1 .. Len(c.files)
    BY <2>2, SeqIs
  <2>4. z \in [1 .. Len(c.files) -> Nat]
    BY <1>5, <1>7, <2>1, <2>3
  <2>5. z \in Seq(Nat)
    BY <2>3, <2>4, FunctionIsSeq
  <2>6. SumOf(z) <= SumOf(w)
    <3>1. \A i \in DOMAIN c.files : z[i] = fileResolver(r.dir, c.files[i]) /\ z[i] # Absent
      BY <1>7, <2>1
    <3>2. \A k \in DOMAIN w : r.dir[k].size = w[k]
      BY <1>1
    <3> QED
      BY <1>1, <1>2, <1>7, <2>2, <2>5, <3>1, <3>2, ResolvedSum, Zenon
  <2>7. SumOf(z) \in Nat
    BY <2>5, SumIs
  <2>8. bytes = SumOf(z)
    BY <1>10
  <2> HIDE DEF bytes
  <2>9. bytes \in Nat /\ bytes <= SumOf(w)
    BY <2>6, <2>7, <2>8
  <2> QED
    BY <2>9, Zenon DEF bytes, z, c, r, w
<1> QED
  BY <1>9, <1>10

\* What the scan makes of an archived rip, and what is made of it unpacked.
LEMMA ScannedIs ==
  ASSUME NEW a \in Archives, InspectArchivedPS1(a) # Absent
  PROVE  LET m == FindPS1Members(a)
         IN  /\ m.data # << >>
             /\ InspectArchivedPS1(a)
                  = identify(m.data[1].disc, m.bytes,
                             IF m.cue = Absent THEN 0 ELSE GapSectors(ParseCue(m.cue.lines)), TRUE)
  BY Zenon DEF InspectArchivedPS1

\* What the unpacked rip is identified by.
LEMMA UnpackedTells ==
  ASSUME NEW a \in Archives, InspectUnpacked(a) # Absent
  PROVE  LET r == Unpacked(a)
             c == ParseCue(r.lines)
             z == Sizes(r, c)
             bytes == IF \E i \in DOMAIN z : z[i] = Absent THEN z[1] ELSE SumOf(z)
         IN  /\ r.shape = "bin" => InspectUnpacked(a) = identify(DataFile(a).disc, r.dir[1].size, 0, FALSE)
             /\ r.shape # "bin" => /\ Validate(r, c)
                                   /\ InspectUnpacked(a) = identify(DataFile(a).disc, bytes, GapSectors(c), FALSE)
<1> DEFINE r == Unpacked(a)
           c == ParseCue(r.lines)
           z == Sizes(r, c)
           bytes == IF \E i \in DOMAIN z : z[i] = Absent THEN z[1] ELSE SumOf(z)
           bin == r.shape = "bin"
<1>1. InspectUnpacked(a) = IF ~bin /\ ~Validate(r, c) THEN Absent
                           ELSE identify(DataFile(a).disc, IF bin THEN r.dir[1].size ELSE bytes,
                                         IF bin THEN 0 ELSE GapSectors(c), FALSE)
  BY Zenon DEF InspectUnpacked
<1> HIDE DEF bin, bytes, c, r
<1>2. bin => InspectUnpacked(a) = identify(DataFile(a).disc, r.dir[1].size, 0, FALSE)
  BY <1>1
<1>3. ~bin => /\ Validate(r, c)
              /\ InspectUnpacked(a) = identify(DataFile(a).disc, bytes, GapSectors(c), FALSE)
  BY <1>1
<1> QED
  BY <1>2, <1>3, Zenon DEF bin, bytes, c, r

\* The charge of a rip that was identified.
LEMMA ChargedIs ==
  ASSUME NEW x, NEW d, NEW bytes, NEW gaps, NEW part, Identified(x, d, bytes, gaps, part)
  PROVE  x.charge = VCDSize(bytes, gaps)
BY IdentifiedAs, Zenon

\* No fewer bytes are charged for the archive than for its files.
LEMMA ArchiveCharges ==
  ASSUME NEW a \in Archives, InspectArchivedPS1(a) # Absent, InspectUnpacked(a) # Absent, EachOnce(a)
  PROVE  InspectUnpacked(a).charge <= InspectArchivedPS1(a).charge
<1> DEFINE m == FindPS1Members(a)
           r == Unpacked(a)
           c == ParseCue(r.lines)
           z == Sizes(r, c)
           bytes == IF \E i \in DOMAIN z : z[i] = Absent THEN z[1] ELSE SumOf(z)
           total == SumOf(Weights(a))
           h == InspectArchivedPS1(a)
           f == InspectUnpacked(a)
<1>1. /\ m.bytes = total /\ Weights(a) \in Seq(Nat) /\ m.data = DataOf(a)
      /\ DOMAIN Weights(a) = DOMAIN DataOf(a) /\ DOMAIN DataOf(a) = 1 .. Len(DataOf(a))
      /\ Len(DataOf(a)) \in Nat /\ (DataOf(a) = << >> <=> Len(DataOf(a)) = 0)
  BY MembersAre, Zenon
<1>2. total \in Nat
  BY <1>1, SumIs
<1>3. 1 \in DOMAIN Weights(a)
  <2>1. DataOf(a) # << >>
    BY <1>1, ScannedIs, Zenon
  <2> DEFINE n == Len(DataOf(a))
  <2>2. n \in Nat /\ n # 0
    BY <1>1, <2>1, Zenon
  <2> HIDE DEF n
  <2>3. 1 \in 1 .. n
    BY <2>2
  <2> QED
    BY <1>1, <2>3, Zenon DEF n
<1>4. CASE m.cue = Absent
  <2>1. r.shape = "bin" /\ r.dir[1].size = Weights(a)[1]
    BY <1>3, <1>4, UnpackedIs, Zenon
  <2>2. h.charge = VCDSize(total, 0)
    <3> DEFINE part == TRUE
    <3>1. Identified(h, m.data[1].disc, total, 0, part)
      BY <1>1, <1>4, ScannedIs, Zenon DEF Identified
    <3> HIDE DEF total, m, h, f, part
    <3> QED
      BY <3>1, ChargedIs
  <2>3. f.charge = VCDSize(Weights(a)[1], 0)
    <3> DEFINE part == FALSE
    <3>1. Identified(f, DataFile(a).disc, Weights(a)[1], 0, part)
      BY <2>1, UnpackedTells, Zenon DEF Identified
    <3> HIDE DEF total, m, h, f, part
    <3> QED
      BY <3>1, ChargedIs
  <2>4. Weights(a)[1] \in Nat /\ Weights(a)[1] <= total
    BY <1>1, <1>3, OneOfSum, SeqIs
  <2>5. 0 \in Nat
    OBVIOUS
  <2> HIDE DEF h, f, total
  <2> QED
    BY <1>2, <2>2, <2>3, <2>4, <2>5, ChargeGrows, Zenon DEF h, f
<1>5. CASE m.cue # Absent
  <2>1. r.shape = "cue" /\ r.lines = m.cue.lines
    BY <1>5, UnpackedIs, Zenon
  <2>2. h.charge = VCDSize(total, GapSectors(c))
    <3>1. InspectArchivedPS1(a) = identify(m.data[1].disc, total, GapSectors(ParseCue(m.cue.lines)), TRUE)
      BY <1>1, <1>5, ScannedIs, Zenon
    <3> DEFINE part == TRUE
    <3>2. Identified(h, m.data[1].disc, total, GapSectors(c), part)
      BY <2>1, <3>1, Zenon DEF Identified
    <3> HIDE DEF total, m, c, h, f, part
    <3> QED
      BY <3>2, ChargedIs
  <2>3. Validate(r, c) /\ f.charge = VCDSize(bytes, GapSectors(c))
    <3>1. r.shape # "bin"
      BY <2>1
    <3> DEFINE part == FALSE
    <3>2. Validate(r, c) /\ Identified(f, DataFile(a).disc, bytes, GapSectors(c), part)
      BY <3>1, UnpackedTells, Zenon DEF Identified
    <3> HIDE DEF bytes, c, r, h, f, part
    <3> QED
      BY <3>2, ChargedIs
  <2>4. bytes \in Nat /\ bytes <= total
    BY <1>5, <2>3, SheetBytes, Zenon
  <2>5. GapSectors(c) \in Nat
    <3>1. IsText(m.cue.lines)
      BY <1>5, MembersAre, Zenon
    <3> QED
      BY <2>1, <3>1, ParsedIs, Zenon
  <2> HIDE DEF h, f, total, bytes, c
  <2> QED
    BY <1>2, <2>2, <2>3, <2>4, <2>5, ChargeGrows, Zenon DEF h, f
<1> QED
  BY <1>4, <1>5

\* ArchiveTellsDisc, for any archive of discs and sheets: the head opens the volume the
\* whole opens, SYSTEM.CNF tells the same wherever the head reaches it, and where it
\* does not the one name that looks like a serial is the boot file's; and files taken
\* once from those of the archive weigh no more than all of them.
THEOREM ArchivesTell == archived \in Archives => ArchiveTellsDisc
<1> SUFFICES ASSUME archived \in Archives PROVE ArchiveTellsDisc
  OBVIOUS
<1> DEFINE a == archived
           image == OfKind(a, "image")
           disc  == image[1].disc
           head1 == InspectArchivedPS1(a)
           full1 == InspectUnpacked(a)
           head2 == InspectArchivedPS2(a)
           full2 == InspectAt(disc, FALSE)
<1>1. /\ image = DataOf(a) /\ FindPS1Members(a).data = image
      /\ Len(image) \in Nat /\ DOMAIN image = 1 .. Len(image) /\ (image = << >> <=> Len(image) = 0)
      /\ \A i \in DOMAIN image : IsDisc(image[i].disc)
  BY MembersAre, Zenon DEF DataOf
<1>2. image # << >> => IsDisc(disc)
  <2> HIDE DEF image
  <2>1. image # << >> => 1 \in DOMAIN image
    BY <1>1
  <2> QED
    BY <1>1, <2>1
<1>3. ASSUME IsDisc(disc)
      PROVE  /\ openVolume(disc, TRUE) = openVolume(disc, FALSE)
             /\ openPS1Volume(disc, TRUE) = openPS1Volume(disc, FALSE)
             /\ openVolume(disc, FALSE) = Absent \/ IsVolume(openVolume(disc, FALSE))
             /\ openPS1Volume(disc, FALSE) = Absent \/ IsVolume(openPS1Volume(disc, FALSE))
             /\ Reach(disc, TRUE) \in Nat /\ Reach(disc, FALSE) \in Nat
             /\ Reach(disc, TRUE) <= Reach(disc, FALSE)
  BY <1>3, OpenedIs, ReachIs, Zenon
<1>4. ASSUME head2 # Absent, full2 # Absent
      PROVE  /\ HasBootFile(openVolume(disc, FALSE), full2.id) => head2.id = full2.id
             /\ head2.media = full2.media /\ head2.size = full2.size
  <2>1. Len(image) = 1 /\ Pictured(head2, disc, TRUE) /\ Pictured(full2, disc, FALSE)
    BY <1>4, Zenon DEF InspectArchivedPS2, Pictured
  <2>2. IsDisc(disc)
    <3> DEFINE n == Len(image)
    <3>1. n = 1
      BY <2>1
    <3> HIDE DEF n
    <3>2. n # 0
      BY <3>1
    <3> QED
      BY <1>1, <1>2, <3>2, Zenon DEF n
  <2> DEFINE v == openVolume(disc, FALSE)
             size == IF v.size > 0 /\ v.size < disc.size THEN v.size ELSE disc.size
  <2>3. openVolume(disc, TRUE) = v
    BY <1>3, <2>2, Zenon
  <2> HIDE DEF head2, full2, disc
  <2>4. /\ Read(full2.id, v, Reach(disc, FALSE), "BOOT2", FALSE) /\ v # Absent
        /\ full2.size = size /\ full2.media = MediaType(v, size)
    BY <2>1, ImageAs, Zenon
  <2>5. /\ Read(head2.id, v, Reach(disc, TRUE), "BOOT2", TRUE)
        /\ head2.size = size /\ head2.media = MediaType(v, size)
    <3> DEFINE u == openVolume(disc, TRUE)
               of(x) == IF x.size > 0 /\ x.size < disc.size THEN x.size ELSE disc.size
    <3>1. /\ Read(head2.id, u, Reach(disc, TRUE), "BOOT2", TRUE)
          /\ head2.size = of(u) /\ head2.media = MediaType(u, of(u))
      BY <2>1, ImageAs, Zenon
    <3>2. u = v
      BY <2>3
    <3> HIDE DEF u, v
    <3> QED
      BY <3>1, <3>2
  <2>6. IsVolume(v)
    BY <1>3, <2>2, <2>4, Zenon
  <2> HIDE DEF v, size
  <2>7. HasBootFile(v, full2.id) => head2.id = full2.id
    BY <1>3, <2>2, <2>4, <2>5, <2>6, SerialAgrees, Zenon DEF disc, v
  <2> QED
    BY <2>4, <2>5, <2>7 DEF v
<1>5. ASSUME head1 # Absent, full1 # Absent, HasBootFile(openPS1Volume(disc, FALSE), full1.id),
             DataFile(a) = image[1]
      PROVE  head1.id = full1.id
  <2>1. image # << >> /\ \E b, g : Identified(head1, disc, b, g, TRUE)
    BY <1>1, <1>5, ScannedIs, Zenon DEF Identified
  <2>2. \E b, g : Identified(full1, disc, b, g, FALSE)
    BY <1>5, UnpackedTells, Zenon DEF Identified
  <2> DEFINE v == openPS1Volume(disc, FALSE)
  <2> HIDE DEF head1, full1, disc
  <2>3. Read(full1.id, v, Reach(disc, FALSE), "BOOT", FALSE) /\ v # Absent
    BY <2>2, IdentifiedAs, Zenon
  <2>4. Read(head1.id, openPS1Volume(disc, TRUE), Reach(disc, TRUE), "BOOT", TRUE)
    BY <2>1, IdentifiedAs, Zenon
  <2>5. IsDisc(disc)
    BY <1>2, <2>1
  <2>6. IsVolume(v) /\ openPS1Volume(disc, TRUE) = v
    BY <1>3, <2>3, <2>5, Zenon
  <2>7. HasBootFile(v, full1.id)
    BY <1>5
  <2> HIDE DEF v
  <2> QED
    BY <1>3, <2>3, <2>4, <2>5, <2>6, <2>7, SerialAgrees, Zenon DEF disc, v
<1>6. ASSUME head1 # Absent, full1 # Absent, EachOnce(a)
      PROVE  full1.charge <= head1.charge
  BY <1>6, ArchiveCharges
<1> QED
  BY <1>4, <1>5, <1>6, Zenon DEF ArchiveTellsDisc, AgreesPS1, AgreesPS2
=============================================================================
