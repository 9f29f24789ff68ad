------------------------------ MODULE ImgMatch ------------------------------
(***************************************************************************)
(* Image matching: the training of server/ImgMatch.cpp (init_DB), which    *)
(* turns the pictures of the database into three files, their loading      *)
(* (init_matchImg) by the server or by a bolt of the Storm cluster, and the*)
(* vote of matchImg, which the bolt has in a copy of its own.              *)
(*                                                                         *)
(* A picture is the number of descriptors OpenCV finds in it; the          *)
(* descriptors of all pictures, one after the other, are the rows of       *)
(* featureCluster, and index_IMG says of which picture each row is.  A     *)
(* frame to match is the sequence of the rows its good descriptors are     *)
(* nearest to.                                                             *)
(***************************************************************************)
EXTENDS Integers, Sequences, SequencesExt, FiniteSets, FiniteSetsExt

CONSTANTS
  Databases,     \* what the training may find: descriptors of pictures 1, 2, ...
  Older,         \* what an earlier training found
  Missing,       \* the entry of a picture that cannot be read
  MaxGood,       \* bound: good descriptors of a frame
  Share,         \* per cent of a picture's descriptors that must be found
  CountsDeployed,\* whether indexDscNo is copied to the cluster as well
  MayKill        \* whether the training may be interrupted

Places == {"server", "bolt"}

ASSUME DatabasesAssumption ==
  /\ Databases \subseteq Seq(Nat \cup {Missing}) /\ Older \subseteq Seq(Nat)
  /\ Missing \notin Nat
ASSUME ShareAssumption == Share \in [Places -> Nat]
ASSUME OptionsAssumption == MaxGood \in Nat /\ CountsDeployed \in BOOLEAN /\ MayKill \in BOOLEAN

VARIABLES
  db,                             \* the pictures
  phase, at,                      \* where the program is; the loop's position
  index_IMG, dscCnt_IMG, lastIndex, featureCluster,  \* the program's variables
  saved,                          \* what was written to indexImgTable
  table, counts, yml,             \* the files indexImgTable, indexDscNo, ImgIndex.yml
  filesOf, mixed,                 \* history: the training the files are of
  place,                          \* who matches
  source, imgFreq, maxFreq, matchedImgIndex

training == <<db, saved, lastIndex>>
files == <<table, counts, yml, filesOf, mixed>>
memory == <<index_IMG, dscCnt_IMG, featureCluster>>
match == <<source, imgFreq, maxFreq, matchedImgIndex>>
vars == <<training, phase, at, files, memory, place, match>>

Copies(n, i) == [j \in 1 .. n |-> i]
\* The picture of each row, when the pictures have the descriptors in d.
TableOf(d) == FlattenSeq([i \in DOMAIN d |-> Copies(d[i], i)])

\* The number the counting gives to row k, and the counts of the numbers: from a
\* row to the next a number grows by one at most, and it never passes the row's
\* picture.  So behind a picture without descriptors the numbers are too small,
\* until rows enough have passed.
Number(t, k) == Min({k} \cup {t[j] + (k - j) : j \in 1 .. k})
RowsNumbered(t, i, n) == {k \in 1 .. n : Number(t, k) = i}
CountsOf(t) ==
  [i \in 1 .. Number(t, Len(t)) |-> Cardinality(RowsNumbered(t, i, Len(t)))]

NoFrame == <<-1>>                 \* a frame that cannot be decoded

Init ==
  /\ db \in Databases /\ saved = <<>> /\ lastIndex = 0
  /\ phase = "extract" /\ at = 1
  /\ filesOf \in Older /\ mixed = FALSE
  /\ table = TableOf(filesOf) /\ counts = CountsOf(table) /\ yml = Len(table)
  /\ index_IMG = <<>> /\ dscCnt_IMG = <<>> /\ featureCluster = 0
  /\ place \in Places
  /\ source = <<>> /\ imgFreq = <<>> /\ maxFreq = 1 /\ matchedImgIndex = 0

-----------------------------------------------------------------------------
(* init_DB *)

\* One turn of the loop over the pictures: its rows, and their picture.
Extract ==
  /\ phase = "extract" /\ at <= Len(db) /\ db[at] # Missing
  /\ featureCluster' = featureCluster + db[at]
  /\ index_IMG' = index_IMG \o Copies(db[at], at)
  /\ at' = at + 1
  /\ UNCHANGED <<training, phase, files, dscCnt_IMG, place, match>>

\* A picture that is not there is passed over.
SkipMissing ==
  /\ phase = "extract" /\ at <= Len(db) /\ db[at] = Missing
  /\ at' = at + 1
  /\ UNCHANGED <<training, phase, files, memory, place, match>>

\* "Can NOT find img in database!": nothing has been written.
ExtractMissing ==
  /\ phase = "extract" /\ at <= Len(db) /\ db[at] = Missing
  /\ phase' = "exited"
  /\ UNCHANGED <<training, at, files, memory, place, match>>

\* The table is opened and written; it is closed after the counting.
SaveTable ==
  /\ phase = "extract" /\ at > Len(db)
  /\ saved' = index_IMG /\ table' = <<>> /\ mixed' = TRUE
  /\ phase' = "count" /\ at' = 1
  /\ UNCHANGED <<db, lastIndex, counts, yml, filesOf, memory, place, match>>

\* A new picture begins where the entry changes: the first row is not counted.
CountFromZero ==
  /\ phase = "count" /\ at <= Len(index_IMG)
  /\ IF index_IMG[at] # lastIndex
     THEN /\ index_IMG' = [index_IMG EXCEPT ![at] = lastIndex + 1]
          /\ dscCnt_IMG' = Append(dscCnt_IMG, 0)
          /\ lastIndex' = lastIndex + 1
     ELSE /\ dscCnt_IMG' = [dscCnt_IMG EXCEPT ![index_IMG[at]] = @ + 1]
          /\ UNCHANGED <<index_IMG, lastIndex>>
  /\ at' = at + 1
  /\ UNCHANGED <<db, saved, phase, files, featureCluster, place, match>>

\* The other branch of "if ((t = lastIndex + 1))": two pictures at once.
CountTwice ==
  /\ phase = "count" /\ at <= Len(index_IMG)
  /\ IF index_IMG[at] # lastIndex
     THEN /\ dscCnt_IMG' = dscCnt_IMG \o <<0, 1>>
          /\ lastIndex' = lastIndex + 2
          /\ UNCHANGED index_IMG
     ELSE /\ dscCnt_IMG' = [dscCnt_IMG EXCEPT ![index_IMG[at]] = @ + 1]
          /\ UNCHANGED <<index_IMG, lastIndex>>
  /\ at' = at + 1
  /\ UNCHANGED <<db, saved, phase, files, featureCluster, place, match>>

\* "if ((t = lastIndex + 1))" writes the entry of the table and is always true.
Count ==
  /\ phase = "count" /\ at <= Len(index_IMG)
  /\ IF index_IMG[at] # lastIndex
     THEN /\ index_IMG' = [index_IMG EXCEPT ![at] = lastIndex + 1]
          /\ dscCnt_IMG' = Append(dscCnt_IMG, 1)
          /\ lastIndex' = lastIndex + 1
     ELSE /\ dscCnt_IMG' = [dscCnt_IMG EXCEPT ![index_IMG[at]] = @ + 1]
          /\ UNCHANGED <<index_IMG, lastIndex>>
  /\ at' = at + 1
  /\ UNCHANGED <<db, saved, phase, files, featureCluster, place, match>>

\* The table is closed, the counts are opened and written.
SaveCounts ==
  /\ phase = "count" /\ at > Len(index_IMG)
  /\ table' = saved /\ counts' = <<>> /\ phase' = "cluster"
  /\ UNCHANGED <<training, at, yml, filesOf, mixed, memory, place, match>>

\* The descriptors are saved; the counts are closed when init_DB returns, and
\* the process ends.
SaveCluster ==
  /\ phase = "cluster"
  /\ yml' = featureCluster /\ counts' = dscCnt_IMG
  /\ filesOf' = db /\ mixed' = FALSE /\ phase' = "exited"
  /\ UNCHANGED <<training, at, table, memory, place, match>>

\* The training is interrupted: of a file that is open some part may be there.
Kill ==
  /\ MayKill /\ phase \in {"extract", "count", "cluster"}
  /\ table' \in IF phase = "count" THEN Prefixes(saved) ELSE {table}
  /\ counts' \in IF phase = "cluster" THEN Prefixes(dscCnt_IMG) ELSE {counts}
  /\ yml' \in IF phase = "cluster" THEN {yml, 0, featureCluster} ELSE {yml}
  /\ phase' = "exited"
  /\ UNCHANGED <<training, at, filesOf, mixed, memory, place, match>>

-----------------------------------------------------------------------------
(* init_matchImg, in a new process; in the cluster on the files copied there. *)

\* The bolt reads /demo/indexDscNo; ifstream gives nothing when it is not there.
CountsRead == IF place = "bolt" /\ ~CountsDeployed THEN <<>> ELSE counts

\* No index can be built of a cluster without rows.
Load ==
  /\ phase = "exited" /\ phase' = IF yml = 0 THEN "crashed" ELSE "ready"
  /\ index_IMG' = table /\ featureCluster' = yml
  /\ dscCnt_IMG' = CountsRead
  /\ UNCHANGED <<training, at, files, place, match>>

-----------------------------------------------------------------------------
(* matchImg *)

\* A frame, with the rows that knnSearch gives for its good descriptors.
Frame ==
  /\ phase \in {"ready", "answer"} /\ phase' = "vote" /\ at' = 1
  /\ \E n \in 0 .. MaxGood : source' \in [1 .. n -> 1 .. featureCluster]
  /\ imgFreq' = <<>> /\ maxFreq' = 1 /\ matchedImgIndex' = 0
  /\ UNCHANGED <<training, files, memory, place>>

\* One that imread or imdecode cannot read: the server answers 0, the bolt makes
\* a string of a null pointer.
FrameUnreadable ==
  /\ phase \in {"ready", "answer"}
  /\ source' = NoFrame /\ imgFreq' = <<>> /\ maxFreq' = 1 /\ matchedImgIndex' = 0
  /\ phase' = IF place = "server" THEN "answer" ELSE "crashed"
  /\ UNCHANGED <<training, at, files, memory, place>>

\* A search that looks at the last entry only.
VoteForLast(img) ==
  IF imgFreq # <<>> /\ Last(imgFreq).ImgIndex = img
  THEN [imgFreq EXCEPT ![Len(imgFreq)].Freq = @ + 1]
  ELSE Append(imgFreq, [ImgIndex |-> img, Freq |-> 1])

VoteFor(img) ==
  IF \E k \in DOMAIN imgFreq : imgFreq[k].ImgIndex = img
  THEN [k \in DOMAIN imgFreq |->
          IF imgFreq[k].ImgIndex = img THEN [imgFreq[k] EXCEPT !.Freq = @ + 1]
                                       ELSE imgFreq[k]]
  ELSE Append(imgFreq, [ImgIndex |-> img, Freq |-> 1])

Vote ==
  /\ phase = "vote" /\ at <= Len(source) /\ source[at] <= Len(index_IMG)
  /\ imgFreq' = VoteFor(index_IMG[source[at]]) /\ at' = at + 1
  /\ UNCHANGED <<training, phase, files, memory, place, source, maxFreq, matchedImgIndex>>

\* index_IMG.at(): the table is shorter than the cluster.
VoteBeyond ==
  /\ phase = "vote" /\ at <= Len(source) /\ source[at] > Len(index_IMG)
  /\ phase' = "crashed"
  /\ UNCHANGED <<training, at, files, memory, place, match>>

Highest == Max({1} \cup {imgFreq[k].Freq : k \in DOMAIN imgFreq})
\* The last of the pictures with that many votes; 0 when there is none.
LastWith(f) ==
  LET K == {k \in DOMAIN imgFreq : imgFreq[k].Freq = f}
  IN IF K = {} THEN 0 ELSE imgFreq[Max(K)].ImgIndex

\* 1.5 per cent of the picture's descriptors in the server, 2 in the bolt.
TooFew(img, f) == f * 100 < Share[place] * dscCnt_IMG[img]

\* maxFreq, the picture with it, and the share of its descriptors;
\* dscCnt_IMG.at() when there is no count for it.
Pick ==
  /\ phase = "vote" /\ at > Len(source)
  /\ maxFreq' = Highest
  /\ LET img == LastWith(Highest) IN
       /\ IF img > Len(dscCnt_IMG) THEN phase' = "crashed" ELSE phase' = "answer"
       /\ matchedImgIndex' =
            IF img \in DOMAIN dscCnt_IMG /\ TooFew(img, Highest) THEN 0 ELSE img
  /\ UNCHANGED <<training, at, files, memory, place, source, imgFreq>>

-----------------------------------------------------------------------------
init_DB == Extract \/ ExtractMissing \/ SaveTable \/ Count \/ SaveCounts \/ SaveCluster
matchImg == Frame \/ FrameUnreadable \/ Vote \/ VoteBeyond \/ Pick
Next == init_DB \/ Kill \/ Load \/ matchImg

Spec == Init /\ [][Next]_vars
-----------------------------------------------------------------------------
(* Properties *)

\* Every variable has its type; the counts never outnumber the pictures.
TypeOK ==
  /\ db \in Databases /\ filesOf \in Databases \cup Older /\ mixed \in BOOLEAN
  /\ phase \in {"extract", "count", "cluster", "exited", "ready", "vote", "answer",
                "crashed"}
  /\ at \in Nat \ {0} /\ lastIndex \in 0 .. Len(db)
  /\ \A s \in {index_IMG, dscCnt_IMG, saved, table, counts} : s \in Seq(Nat)
  /\ featureCluster \in Nat /\ yml \in Nat /\ place \in Places
  /\ source \in Seq(Int) /\ maxFreq \in 1 .. MaxGood \cup {1}
  /\ \A k \in DOMAIN imgFreq : imgFreq[k] \in [ImgIndex : Nat, Freq : 1 .. MaxGood]
  /\ matchedImgIndex \in Nat

\* The files are of some pictures, and all of them have descriptors.
NoneEmpty == filesOf # <<>> /\ \A i \in DOMAIN filesOf : filesOf[i] # 0

\* The numbers the training saves are those of the pictures, each at its place,
\* and the three files are about the same rows, though the counting writes over
\* the table it reads: if no picture is without descriptors.
FilesAgree ==
  ~mixed /\ NoneEmpty => table = TableOf(filesOf) /\ counts = filesOf /\ yml = Len(table)

\* What the training saves for any pictures, also those without descriptors: the
\* right table, as many rows, and a count for each number, of the rows that have
\* it, though it corrects the table it counts in.
ShiftedCounts ==
  ~mixed => table = TableOf(filesOf) /\ counts = CountsOf(table) /\ yml = Len(table)

\* No frame ends the process, but one that cannot be read in a bolt, and after a
\* training that was interrupted, found nothing, or met a picture without descriptors.
MatchInBounds ==
  phase = "crashed" =>
    mixed \/ ~NoneEmpty \/ ~CountsDeployed \/ (place = "bolt" /\ source = NoFrame)

Votes(i) == Cardinality({k \in DOMAIN source : TableOf(filesOf)[source[k]] = i})

\* The picture answered has the most votes of all, counted against the pictures
\* as they were trained, and the share of its own descriptors; no picture is
\* answered only if there are no votes or one with the most has not that share.
BestPictureWins ==
  phase = "answer" /\ source # NoFrame /\ ~mixed /\ NoneEmpty =>
    LET Best == {i \in DOMAIN filesOf : Votes(i) > 0
                   /\ \A j \in DOMAIN filesOf : Votes(j) <= Votes(i)}
        Enough(i) == Votes(i) * 100 >= Share[place] * filesOf[i]
    IN \/ matchedImgIndex \in Best /\ Enough(matchedImgIndex)
       \/ matchedImgIndex = 0 /\ (Best = {} \/ \E i \in Best : ~Enough(i))

-----------------------------------------------------------------------------
(* What a document in the repository says and the code does not do.          *)

\* "Also, put the ImgIndex.yml and indexImgTable into this folder": the cluster
\* can match a frame with these two files.
TwoFilesSuffice == phase = "crashed" => source = NoFrame \/ yml = 0
=============================================================================
