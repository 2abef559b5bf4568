---------------------------- MODULE StorageProofs ----------------------------
(***************************************************************************)
(* Proofs about what is stored outside the database's tables.  UploadsHold, *)
(* for any uploads, parts, storage backends and retention: no blob row     *)
(* loses its bytes where storage never reuses a name, and the last         *)
(* complete bundle of a debug id stays whole.  LogsKeptAsPromised, for any *)
(* projects, organizations, retentions and crashes: no log the retention   *)
(* covers is lost between its two tiers, and none of a deleted project is  *)
(* left.                                                                   *)
(***************************************************************************)
EXTENDS FileBlobs, LogArchive, FiniteSetTheorems, SequenceTheorems, WellFoundedInduction, TLAPS

(***************************************************************************)
(* Numbers                                                                 *)
(***************************************************************************)
\* A set of naturals has a least element,
LEMMA LeastOfNaturals == ASSUME NEW S, S \subseteq Nat, S # {} PROVE \E x \in S : \A y \in S : x <= y
<1>1. \A x, y \in Nat : <<y, x>> \in OpToRel(<, Nat) <=> y < x
  BY DEF OpToRel
<1>2. PICK x \in S : \A y \in S : ~(<<y, x>> \in OpToRel(<, Nat))
  BY NatLessThanWellFounded, WFMin
<1>3. ASSUME NEW y \in S PROVE x <= y
  <2>1. x \in Nat /\ y \in Nat /\ ~(y < x)
    BY <1>1, <1>2
  <2> QED
    BY <2>1
<1> QED
  BY <1>3

\* which Min returns,
LEMMA MinIs == ASSUME NEW S, S \subseteq Nat, S # {} PROVE Min(S) \in S /\ \A y \in S : Min(S) <= y
<1>1. \E x \in S : \A y \in S : x <= y
  BY LeastOfNaturals
<1> QED
  BY <1>1 DEF Min

\* and a bounded one has a greatest.
LEMMA MaxIs == ASSUME NEW n \in Nat, NEW S, S \subseteq 1 .. n, S # {} PROVE Max(S) \in S
<1> DEFINE T == {k \in Nat : \E y \in S : k = n - y}
<1>1. \A y \in S : n - y \in T
  OBVIOUS
<1>2. T \subseteq Nat /\ T # {}
  BY <1>1
<1>3. PICK k \in T : \A i \in T : k <= i
  <2> HIDE DEF T
  <2> QED
    BY <1>2, LeastOfNaturals
<1>4. PICK m \in S : k = n - m
  OBVIOUS
<1>5. ASSUME NEW y \in S PROVE m >= y
  <2>1. k <= n - y
    BY <1>1, <1>3
  <2>2. y \in Int /\ m \in Int
    OBVIOUS
  <2> QED
    BY <1>4, <2>1, <2>2
<1>6. \E x \in S : \A y \in S : x >= y
  BY <1>5
<1> QED
  BY <1>6 DEF Max

(***************************************************************************)
(* Storage                                                                 *)
(***************************************************************************)
\* The blobs the cleanup holds are rows until it deletes them, and none after.
CleanerOK ==
  /\ cleaner = [pc |-> cleaner.pc, pass |-> cleaner.pass, batch |-> cleaner.batch]
  /\ cleaner.pc \in {"idle", "select", "delete", "objects"}
  /\ cleaner.pc = "delete" => cleaner.batch \subseteq blobs
  /\ cleaner.pc = "objects" => cleaner.batch \cap blobs = {}
  /\ cleaner.pc \in {"idle", "select"} => cleaner.batch = {}
\* Every row, and every row the cleanup has deleted and not yet its object, has an
\* object of its own.
OwnObjects(B, objs) ==
  /\ \A b \in B : b.obj \in objs
  /\ \A b, c \in B : b.obj = c.obj => b = c
StoreInv == IsFiniteSet(objects) /\ (store = "disk" => CleanerOK /\ OwnObjects(blobs \cup cleaner.batch, objects))

\* A name that is free is found below the number of objects.
LEMMA FreeNameIsFree ==
  ASSUME IsFiniteSet(objects), store = "disk", NEW sum
  PROVE  FreeName(sum) \notin objects
<1>1. PICK c : c = Cardinality(objects)
  OBVIOUS
<1>2. c \in Nat
  BY <1>1, FS_CardinalityType
<1> DEFINE S == {n \in 0 .. c : <<sum, n>> \notin objects}
           pair == [n \in 0 .. c |-> <<sum, n>>]
<1>3. S # {}
  <2> SUFFICES ASSUME S = {} PROVE FALSE
    OBVIOUS
  <2>1. pair \in [0 .. c -> objects]
    OBVIOUS
  <2>2. IsFiniteSet(0 .. c) /\ Cardinality(0 .. c) = c + 1
    BY <1>2, FS_Interval
  <2>3. Cardinality(objects) < Cardinality(0 .. c) /\ IsFiniteSet(objects)
    BY <1>1, <1>2, <2>2
  <2>4. \E m, n \in 0 .. c : m # n /\ pair[m] = pair[n]
    <3>1. PICK I, T, f : I = 0 .. c /\ T = objects /\ f = pair
      OBVIOUS
    <3>2. IsFiniteSet(I) /\ IsFiniteSet(T) /\ Cardinality(T) < Cardinality(I) /\ f \in [I -> T]
      BY <2>1, <2>2, <2>3, <3>1
    <3>3. \E x, y \in I : x # y /\ f[x] = f[y]
      BY <3>2, FS_PigeonHole
    <3> QED
      BY <3>1, <3>3
  <2> QED
    BY <2>4
<1>4. Min(S) \in S
  <2>1. S \subseteq Nat
    BY <1>2
  <2> HIDE DEF S
  <2> QED
    BY <1>3, <2>1, MinIs
<1>5. FreeName(sum) = <<sum, Min(S)>>
  BY <1>1 DEF FreeName
<1> QED
  BY <1>4, <1>5

\* The steps that leave blobs, objects and the cleanup alone.
storeVars == <<store, objects, blobs, cleaner>>
LEMMA StoreUnchanged == ASSUME StoreInv, UNCHANGED storeVars PROVE StoreInv'
BY DEF StoreInv, CleanerOK, storeVars

\* At first every uploaded chunk has one row and one object.
LEMMA StoreBegins == ASSUME FilesInit PROVE StoreInv
<1>1. IsFiniteSet(objects)
  <2>1. Uploaded \in Seq(ToSet(Uploaded))
    BY FileConstants
  <2>2. DOMAIN Uploaded = 1 .. Len(Uploaded) /\ Len(Uploaded) \in Nat
    BY <2>1, LenProperties
  <2>3. IsFiniteSet(DOMAIN Uploaded)
    BY <2>2, FS_Interval
  <2>4. objects = {<<Uploaded[i], 0>> : i \in DOMAIN Uploaded}
    BY DEF FilesInit, ToSet
  <2> DEFINE object == [i \in DOMAIN Uploaded |-> <<Uploaded[i], 0>>]
  <2>5. object \in Surjection(DOMAIN Uploaded, objects)
    BY <2>4 DEF Surjection
  <2> QED
    BY <2>3, <2>5, FS_Surjection DEF ExistsSurjection
<1>2. CleanerOK /\ cleaner.batch = {}
  BY DEF FilesInit, IdleCleaner, CleanerOK
<1>3. OwnObjects(blobs, objects)
  BY DEF FilesInit, OwnObjects, ToSet
<1> QED
  BY <1>1, <1>2, <1>3 DEF StoreInv

\* A blob is inserted with a new object.
LEMMA InsertKeepsStore == ASSUME StoreInv, NEW j \in DOMAIN work, InsertBlob(j) PROVE StoreInv'
<1>1. PICK o : o = FreeName(work[j].want)
  OBVIOUS
<1>2. objects' = objects \cup {o} /\ store' = store /\ cleaner' = cleaner /\ IsFiniteSet(objects)
  BY <1>1 DEF InsertBlob, StoreInv
<1>3. IsFiniteSet(objects')
  BY <1>2, FS_AddElement
<1>4. blobs' = blobs \/ \E b : b.obj = o /\ blobs' = blobs \cup {b}
  BY <1>1 DEF InsertBlob
<1>5. ASSUME store = "disk" PROVE CleanerOK' /\ OwnObjects(blobs' \cup cleaner.batch, objects')
  <2>1. CleanerOK /\ OwnObjects(blobs \cup cleaner.batch, objects) /\ o \notin objects
    BY <1>1, <1>2, <1>5, FreeNameIsFree DEF StoreInv
  <2>2. CASE blobs' = blobs
    BY <1>2, <2>1, <2>2 DEF CleanerOK, OwnObjects
  <2>3. ASSUME NEW b, b.obj = o, blobs' = blobs \cup {b} PROVE CleanerOK' /\ OwnObjects(blobs' \cup cleaner.batch, objects')
    <3>1. b \notin blobs \cup cleaner.batch
      BY <2>1, <2>3 DEF OwnObjects
    <3> QED
      BY <1>2, <2>1, <2>3, <3>1 DEF CleanerOK, OwnObjects
  <2> QED
    BY <1>4, <2>2, <2>3
<1> QED
  BY <1>2, <1>3, <1>5 DEF StoreInv

\* The cleanup: a batch is selected, its rows are deleted, then its objects.
LEMMA CleanupKeepsStore ==
  ASSUME StoreInv, CleanupOldFiles \/ SelectBlobs \/ DeleteBlobRows \/ DeleteObject \/ NextBatch
  PROVE  StoreInv'
<1>1. \A pass : Selected(pass) \subseteq blobs
  BY DEF Selected, OldBlobs, OrphanBlobs
<1>2. store' = store
  BY DEF CleanupOldFiles, SelectBlobs, DeleteBlobRows, DeleteObject, NextBatch
<1>3. IsFiniteSet(objects')
  <2>1. objects' = objects \/ \E b : objects' = objects \ {b}
    BY DEF CleanupOldFiles, SelectBlobs, DeleteBlobRows, DeleteObject, NextBatch, fileRows
  <2> QED
    BY <2>1, FS_Subset DEF StoreInv
<1> SUFFICES ASSUME store = "disk" PROVE CleanerOK' /\ OwnObjects(blobs' \cup cleaner'.batch, objects')
  BY <1>2, <1>3 DEF StoreInv
<1>4. CleanerOK /\ OwnObjects(blobs \cup cleaner.batch, objects)
  BY DEF StoreInv
<1>5. CASE CleanupOldFiles
  <2>1. cleaner' = [pc |-> "select", pass |-> "old", batch |-> {}] /\ UNCHANGED <<blobs, objects>>
    BY <1>5 DEF CleanupOldFiles, IdleCleaner, fileRows
  <2>2. cleaner'.batch = {} /\ CleanerOK'
    BY <2>1 DEF CleanerOK
  <2> QED
    BY <1>4, <2>1, <2>2 DEF OwnObjects
<1>6. CASE SelectBlobs
  <2>1. cleaner.pc = "select" /\ cleaner.batch = {} /\ blobs' = blobs /\ objects' = objects
    BY <1>4, <1>6 DEF SelectBlobs, CleanerOK, fileRows
  <2>2. CASE cleaner' = [cleaner EXCEPT !.pc = "delete", !.batch = Selected(cleaner.pass)]
    <3>1. PICK batch : batch = Selected(cleaner.pass) /\ batch \subseteq blobs
      BY <1>1
    <3>2. cleaner' = [pc |-> "delete", pass |-> cleaner.pass, batch |-> batch]
      BY <1>4, <2>2, <3>1 DEF CleanerOK
    <3> QED
      BY <1>4, <2>1, <3>1, <3>2 DEF CleanerOK, OwnObjects
  <2>3. CASE cleaner' = [cleaner EXCEPT !.pass = "orphan"] \/ cleaner' = IdleCleaner
    <3>1. /\ cleaner' = [pc |-> cleaner'.pc, pass |-> cleaner'.pass, batch |-> cleaner'.batch]
          /\ cleaner'.pc \in {"idle", "select"} /\ cleaner'.batch = {}
      <4>1. CASE cleaner' = IdleCleaner
        BY <4>1 DEF IdleCleaner
      <4>2. CASE cleaner' = [cleaner EXCEPT !.pass = "orphan"]
        <5>1. cleaner' = [pc |-> cleaner.pc, pass |-> "orphan", batch |-> cleaner.batch]
          BY <1>4, <4>2 DEF CleanerOK
        <5> QED
          BY <2>1, <5>1
      <4> QED
        BY <2>3, <4>1, <4>2
    <3> QED
      BY <1>4, <2>1, <3>1 DEF CleanerOK, OwnObjects
  <2> QED
    BY <1>6, <2>2, <2>3 DEF SelectBlobs
<1>7. CASE DeleteBlobRows
  <2>1. PICK gone : gone = Rechecked(cleaner.batch)
    OBVIOUS
  <2>2. /\ cleaner.pc = "delete" /\ cleaner.batch \subseteq blobs /\ gone \subseteq cleaner.batch
        /\ blobs' = blobs \ gone /\ objects' = objects
        /\ cleaner' = [cleaner EXCEPT !.pc = "objects", !.batch = {b \in cleaner.batch : b \notin blobs'}]
    BY <1>4, <1>7, <2>1 DEF DeleteBlobRows, CleanerOK, Rechecked
  <2>3. cleaner'.batch = gone /\ cleaner'.pc = "objects" /\ cleaner' = [pc |-> cleaner'.pc, pass |-> cleaner'.pass, batch |-> cleaner'.batch]
    BY <1>4, <2>2 DEF CleanerOK
  <2> QED
    BY <1>4, <2>2, <2>3 DEF CleanerOK, OwnObjects
<1>8. CASE DeleteObject
  <2>1. PICK b \in cleaner.batch : objects' \in {objects, objects \ {b.obj}} /\ cleaner' = [cleaner EXCEPT !.batch = cleaner.batch \ {b}]
    BY <1>8 DEF DeleteObject
  <2>2. cleaner.pc = "objects" /\ cleaner.batch \cap blobs = {} /\ blobs' = blobs
    BY <1>4, <1>8 DEF DeleteObject, CleanerOK
  <2>3. cleaner'.batch = cleaner.batch \ {b} /\ cleaner'.pc = "objects" /\ cleaner' = [pc |-> cleaner'.pc, pass |-> cleaner'.pass, batch |-> cleaner'.batch]
    BY <1>4, <2>1, <2>2 DEF CleanerOK
  <2>4. \A c \in blobs \cup cleaner'.batch : c \in blobs \cup cleaner.batch /\ c # b
    BY <2>1, <2>2, <2>3
  <2>5. OwnObjects(blobs \cup cleaner'.batch, objects')
    BY <1>4, <2>1, <2>4 DEF OwnObjects
  <2> QED
    BY <2>2, <2>3, <2>5 DEF CleanerOK
<1>9. CASE NextBatch
  BY <1>4, <1>9 DEF NextBatch, CleanerOK, OwnObjects, fileRows
<1> QED
  BY <1>5, <1>6, <1>7, <1>8, <1>9

\* Every step.
LEMMA StepKeepsStore == ASSUME StoreInv, [FilesNext]_fileVars PROVE StoreInv'
<1>1. ASSUME NEW j \in DOMAIN work, JobStep(j) PROVE StoreInv'
  <2>1. CASE InsertBlob(j)
    BY <2>1, InsertKeepsStore
  <2>2. CASE ~InsertBlob(j)
    <3>1. UNCHANGED storeVars
      BY <1>1, <2>2 DEF JobStep, AssembleRelease, DifsAssembleApi, ChunkUpload, Dsyms, GetBlob, AssembleArtifacts,
           AssembleFile, LinkBundle, CreateArtifact, Putfile, ReadReplaced, UpsertComplete, InsertIncomplete, DeleteReplaced,
           DifsGetFile, DifsReadChunks, DifsCreateFile, DifsExtractMetadata, DifsCreateDif, ProguardBlob, ProguardFile,
           ProguardDif, storeVars, fileRows
    <3> QED
      BY <3>1, StoreUnchanged
  <2> QED
    BY <2>1, <2>2
<1>2. CASE FilesTick \/ CleanupOldDebugSymbolBundles \/ UseBundles \/ UNCHANGED fileVars
  <2>1. UNCHANGED storeVars
    BY <1>2 DEF FilesTick, CleanupOldDebugSymbolBundles, UseBundles, fileVars, fileRows, storeVars
  <2> QED
    BY <2>1, StoreUnchanged
<1> QED
  BY <1>1, <1>2, CleanupKeepsStore DEF FilesNext

(***************************************************************************)
(* Uploads                                                                 *)
(***************************************************************************)
\* The parts of an upload, the steps after which rows may name their files, the steps
\* of an assembly, and those before a job has a File; a get_or_create is part of the
\* step it goes on to.
Parts(j) == Jobs[j].parts
Landed == {"ignore", "drop", "done"}
Finishing == {"upsert", "ignore", "drop"}
Assembling == {"link", "part", "putfile", "upsert", "ignore", "drop"}
Fresh == {"new", "start", "assemble", "dif", "chunks", "newfile", "proguard", "mapping"}
Returns == {"done", "link", "putfile", "newfile", "mapping"}
Phase(w) == IF w.pc \in {"select", "insert"} THEN w.ret ELSE w.pc
\* Debug ids of an upload's complete bundles.
Renewed(j) == {Parts(j)[n].debug : n \in {m \in DOMAIN Parts(j) : Parts(j)[m].map # 0}} \ {"none"}
\* The number of a job's next file.
Counter(w) == Len(w.made) + IF w.bundle = Null THEN 0 ELSE 1

IsWork(w) ==
  w = [pc |-> w.pc, bundle |-> w.bundle, made |-> w.made, old |-> w.old,
       want |-> w.want, blob |-> w.blob, ret |-> w.ret]
\* What a job remembers: the files it made are its own, numbered in order.
Memory(j, w, js) ==
  /\ IsWork(w) /\ w.ret \in Returns /\ w.made \in Seq(js \X Nat) /\ \A n \in 1 .. Len(w.made) : w.made[n] = <<j, n>>
  /\ w.pc = "new" => w.ret = "done"
  /\ Phase(w) \notin Assembling => w.made = <<>>
  /\ Phase(w) \in Fresh => w.bundle = Null
  /\ Phase(w) \in Assembling \cup {"start", "assemble"} => Jobs[j].kind = "artifact"
  /\ Phase(w) \in Assembling => w.bundle = <<j, 0>> /\ Len(w.made) <= Len(Parts(j))
  /\ Phase(w) = "link" => w.made = <<>>
  /\ Phase(w) = "putfile" => Len(w.made) > 0
  /\ Phase(w) \in Finishing => Len(w.made) = Len(Parts(j))
\* Its files in the table: linked up to the one it is at, and none of the next number.
Linked(fs, known, j, last) == \A f \in fs, n \in 1 .. last : f.id = <<j, n>> => f.blob \in known
Own(j, w, fs, known) ==
  /\ Phase(w) \in {"part", "upsert", "ignore", "drop"} => Linked(fs, known, j, Len(w.made))
  /\ Phase(w) = "putfile" => Linked(fs, known, j, Len(w.made) - 1)
  /\ w.pc # "done" => \A f \in fs : f.id[1] = j => f.id[2] < Counter(w)
FileRows(fs) ==
  /\ \A f \in fs : /\ f = [id |-> f.id, sum |-> f.sum, blob |-> f.blob, born |-> f.born]
                   /\ f.id = <<f.id[1], f.id[2]>> /\ f.id[2] \in Nat /\ f.born \in Nat
  /\ \A f, g \in fs : f.id = g.id => f = g

\* A bundle is the row of a part of an upload, its source map deleted perhaps; a debug
\* id has one row.
IsRow(b, k, n) ==
  /\ b = [debug |-> Parts(k)[n].debug, file |-> <<k, n>>, map |-> b.map, used |-> b.used]
  /\ b.used \in Nat
  /\ b.map = Null \/ (Parts(k)[n].map # 0 /\ b.map = <<k, Parts(k)[n].map>>)
RowOf(b, wk) == \E k \in DOMAIN wk : wk[k].pc \in Landed /\ \E n \in DOMAIN Parts(k) : IsRow(b, k, n)
BundleRows(bs, wk) == \A b \in bs : RowOf(b, wk)
OneEach(bs) == \A b, c \in bs : b.debug = c.debug /\ b.debug # "none" => b = c
\* What a job is about to replace was in rows of its debug ids, of other uploads,
OfRenewed(i, j, k, n) ==
  /\ Parts(k)[n].debug \in Renewed(j)
  /\ i = <<k, n>> \/ (Parts(k)[n].map # 0 /\ i = <<k, Parts(k)[n].map>>)
Replaces(j, i, wk) ==
  \E k \in DOMAIN wk : k # j /\ wk[k].pc \in Landed /\ \E n \in DOMAIN Parts(k) : OfRenewed(i, j, k, n)
OldFiles(j, wk) == Phase(wk[j]) \in Finishing => \A i \in wk[j].old : Replaces(j, i, wk)
\* and after its upsert no complete row of its debug ids names any of it.
Replaced(j, w, bs) ==
  w.pc \in {"ignore", "drop"} =>
    \A b \in bs : b.map # Null /\ b.debug \in Renewed(j) => b.file \notin w.old /\ b.map \notin w.old
JobOK(j, wk, fs, known, bs) ==
  Memory(j, wk[j], DOMAIN wk) /\ Own(j, wk[j], fs, known) /\ OldFiles(j, wk) /\ Replaced(j, wk[j], bs)

\* A complete bundle, its files as young and its last use as late as is said of its
\* debug id.
Stands(fs, known, i, since) == \E f \in fs : f.id = i /\ f.blob \in known /\ f.born >= since
Whole(b, fs, known, since) ==
  b.map # Null /\ b.used >= since.used /\ Stands(fs, known, b.file, since.born) /\ Stands(fs, known, b.map, since.born)
Witness(d, bs, fs, known, since) == \E b \in bs : b.debug = d /\ Whole(b, fs, known, since)
\* Whatever complete row a promised debug id has, its files are there.
Filed(d, bs, fs, known, since) ==
  \A b \in bs : b.debug = d /\ b.map # Null => Stands(fs, known, b.file, since.born) /\ Stands(fs, known, b.map, since.born)
Young(since, time) == since.born >= time - Retain /\ since.used >= time - Retain
Promise(bs, fs, known, lt, time) ==
  \A d \in DOMAIN lt :
    /\ d # "none" /\ lt[d].born \in Nat /\ lt[d].used \in Nat /\ Filed(d, bs, fs, known, lt[d])
    /\ Young(lt[d], time) /\ d \notin SharingMap => Witness(d, bs, fs, known, lt[d])
WorkInv == clock \in Nat /\ DOMAIN work \subseteq DOMAIN Jobs /\ work = [j \in DOMAIN work |-> work[j]]
TableInv == FileRows(files) /\ BundleRows(bundles, work) /\ OneEach(bundles)
JobInv == \A j \in DOMAIN work : JobOK(j, work, files, BlobIds, bundles)
PromiseInv == Promise(bundles, files, BlobIds, latest, clock)
FilesInv == WorkInv /\ TableInv /\ JobInv /\ PromiseInv

(***************************************************************************)
(* One job moves, the others stay                                          *)
(***************************************************************************)
\* The parts of an upload are a finite sequence, and a source map has none itself.
LEMMA PartsAre ==
  ASSUME NEW j \in DOMAIN Jobs
  PROVE  /\ Parts(j) \in Seq(ToSet(Parts(j))) /\ Len(Parts(j)) \in Nat /\ DOMAIN Parts(j) = 1 .. Len(Parts(j))
         /\ \A n \in DOMAIN Parts(j) : Parts(j)[n].map = 0
              \/ (Parts(j)[n].map \in DOMAIN Parts(j) /\ Parts(j)[Parts(j)[n].map].map = 0)
<1>1. Parts(j) \in Seq(ToSet(Parts(j)))
  BY FileConstants DEF Parts
<1>2. Len(Parts(j)) \in Nat /\ DOMAIN Parts(j) = 1 .. Len(Parts(j))
  BY <1>1, LenProperties
<1>3. \A n \in DOMAIN Parts(j) : Parts(j)[n] \in ToSet(Parts(j))
  BY DEF ToSet
<1> QED
  BY <1>1, <1>2, <1>3, FileConstants DEF Parts

\* What a step of the jobs in J leaves of the others' files and of complete bundles,
\* and the jobs that have landed.
Moves(J) ==
  /\ DOMAIN work' = DOMAIN work /\ work' = [k \in DOMAIN work' |-> work'[k]]
  /\ \A k \in DOMAIN work \ J : work'[k] = work[k]
  /\ \A k \in DOMAIN work : work[k].pc \in Landed => work'[k].pc \in Landed
FilesFrom(J) ==
  \A f \in files' : f.id[1] \in J \/ \E g \in files : g.id = f.id /\ (g.blob \in BlobIds => f.blob \in BlobIds')
BundlesFrom(J) ==
  \A b \in bundles' : b.map # Null =>
    \/ \E c \in bundles : c.debug = b.debug /\ c.file = b.file /\ c.map = b.map
    \/ \E j \in J : work[j].pc \notin Landed /\ b.file[1] = j /\ b.map[1] = j

\* What a job replaces stays what others have landed.
LEMMA ReplacesStays ==
  ASSUME NEW J, Moves(J), NEW j, NEW i, Replaces(j, i, work)
  PROVE  Replaces(j, i, work')
BY DEF Moves, Replaces

\* The other jobs' part of the invariant.
LEMMA OthersKeep ==
  ASSUME JobInv, NEW J, Moves(J), FilesFrom(J), BundlesFrom(J), NEW k \in DOMAIN work \ J
  PROVE  JobOK(k, work', files', BlobIds', bundles')
<1>1. work'[k] = work[k] /\ JobOK(k, work, files, BlobIds, bundles) /\ DOMAIN work' = DOMAIN work
  BY DEF Moves, JobInv
<1>2. Memory(k, work'[k], DOMAIN work')
  BY <1>1 DEF JobOK
<1>3. Own(k, work'[k], files', BlobIds')
  <2>1. ASSUME NEW last, Linked(files, BlobIds, k, last) PROVE Linked(files', BlobIds', k, last)
    <3> SUFFICES ASSUME NEW f \in files', NEW n \in 1 .. last, f.id = <<k, n>> PROVE f.blob \in BlobIds'
      BY DEF Linked
    <3>1. f.id[1] \notin J
      OBVIOUS
    <3>2. PICK g \in files : g.id = f.id /\ (g.blob \in BlobIds => f.blob \in BlobIds')
      BY <3>1 DEF FilesFrom
    <3> QED
      BY <2>1, <3>2 DEF Linked
  <2>2. ASSUME NEW f \in files', f.id[1] = k PROVE \E g \in files : g.id = f.id
    BY <2>2 DEF FilesFrom
  <2>3. Own(k, work[k], files, BlobIds)
    BY <1>1 DEF JobOK
  <2>4. ASSUME work[k].pc # "done", NEW f \in files', f.id[1] = k PROVE f.id[2] < Counter(work[k])
    BY <2>2, <2>3, <2>4 DEF Own
  <2> QED
    BY <1>1, <2>1, <2>3, <2>4 DEF Own
<1>4. OldFiles(k, work')
  BY <1>1, ReplacesStays DEF JobOK, OldFiles
<1>5. Replaced(k, work'[k], bundles')
  <2> SUFFICES ASSUME work[k].pc \in {"ignore", "drop"}, NEW b \in bundles', b.map # Null, b.debug \in Renewed(k)
               PROVE  b.file \notin work[k].old /\ b.map \notin work[k].old
    BY <1>1 DEF Replaced
  <2>1. CASE \E c \in bundles : c.debug = b.debug /\ c.file = b.file /\ c.map = b.map
    BY <1>1, <2>1 DEF JobOK, Replaced
  <2>2. ASSUME NEW j \in J, work[j].pc \notin Landed, b.file[1] = j, b.map[1] = j
        PROVE  b.file \notin work[k].old /\ b.map \notin work[k].old
    <3>1. ASSUME NEW i \in work[k].old PROVE work[i[1]].pc \in Landed
      <4>1. Replaces(k, i, work)
        BY <1>1 DEF JobOK, OldFiles, Phase, Finishing
      <4> QED
        BY <4>1 DEF Replaces, OfRenewed
    <3> QED
      BY <2>2, <3>1
  <2> QED
    BY <2>1, <2>2 DEF BundlesFrom
<1> QED
  BY <1>2, <1>3, <1>4, <1>5 DEF JobOK

\* The bundles: rows stay rows of uploads that have landed, source maps deleted or not,
\* last uses renewed or not.
LEMMA RowsStay ==
  ASSUME TableInv, NEW J, Moves(J),
         \A b \in bundles' : \/ RowOf(b, work')
                             \/ \E c \in bundles : b = c \/ b = [c EXCEPT !.map = Null] \/ \E u \in Nat : b = [c EXCEPT !.used = u]
  PROVE  BundleRows(bundles', work')
<1> SUFFICES ASSUME NEW b, NEW c \in bundles, b = c \/ b = [c EXCEPT !.map = Null] \/ \E u \in Nat : b = [c EXCEPT !.used = u]
             PROVE  RowOf(b, work')
  BY DEF BundleRows
<1>1. PICK k \in DOMAIN work : work[k].pc \in Landed /\ \E n \in DOMAIN Parts(k) : IsRow(c, k, n)
  BY DEF TableInv, BundleRows, RowOf
<1>2. PICK n \in DOMAIN Parts(k) : IsRow(c, k, n)
  BY <1>1
<1>3. IsRow(b, k, n)
  <2>1. CASE b = [c EXCEPT !.map = Null]
    <3>1. PICK debug, map, used : debug = Parts(k)[n].debug /\ map = c.map /\ used = c.used
      OBVIOUS
    <3>2. c = [debug |-> debug, file |-> <<k, n>>, map |-> map, used |-> used] /\ used \in Nat
      BY <1>2, <3>1 DEF IsRow
    <3>3. b = [debug |-> debug, file |-> <<k, n>>, map |-> Null, used |-> used]
      BY <2>1, <3>2
    <3> QED
      BY <3>1, <3>2, <3>3 DEF IsRow
  <2>2. ASSUME NEW u \in Nat, b = [c EXCEPT !.used = u] PROVE IsRow(b, k, n)
    <3>1. PICK debug, map, used : debug = Parts(k)[n].debug /\ map = c.map /\ used = c.used
      OBVIOUS
    <3>2. c = [debug |-> debug, file |-> <<k, n>>, map |-> map, used |-> used]
      BY <1>2, <3>1 DEF IsRow
    <3>3. b = [debug |-> debug, file |-> <<k, n>>, map |-> map, used |-> u]
      BY <2>2, <3>2
    <3>4. map = Null \/ (Parts(k)[n].map # 0 /\ map = <<k, Parts(k)[n].map>>)
      BY <1>2, <3>1 DEF IsRow
    <3> QED
      BY <3>1, <3>3, <3>4 DEF IsRow
  <2> QED
    BY <1>2, <2>1, <2>2
<1> QED
  BY <1>1, <1>3 DEF RowOf, Moves

\* Promises: the clock moves on, complete rows are old ones and keep their files, and
\* every witness of a young enough bundle has one after the step.
FileStays(i) ==
  \A f \in files : f.id = i /\ f.blob \in BlobIds => \E g \in files' : g.id = i /\ g.blob \in BlobIds' /\ g.born = f.born
CompleteStay ==
  \A b \in bundles' : b.map # Null =>
    /\ FileStays(b.file) /\ FileStays(b.map)
    /\ \E c \in bundles : c.debug = b.debug /\ c.file = b.file /\ c.map = b.map
LEMMA FiledStays ==
  ASSUME CompleteStay, NEW d, NEW since, Filed(d, bundles, files, BlobIds, since)
  PROVE  Filed(d, bundles', files', BlobIds', since)
<1> SUFFICES ASSUME NEW b \in bundles', b.debug = d, b.map # Null
             PROVE  Stands(files', BlobIds', b.file, since.born) /\ Stands(files', BlobIds', b.map, since.born)
  BY DEF Filed
<1>1. FileStays(b.file) /\ FileStays(b.map)
  BY DEF CompleteStay
<1>2. Stands(files, BlobIds, b.file, since.born) /\ Stands(files, BlobIds, b.map, since.born)
  BY DEF CompleteStay, Filed
<1> QED
  BY <1>1, <1>2 DEF Stands, FileStays
LEMMA PromiseKept ==
  ASSUME PromiseInv, CompleteStay, WorkInv, latest' = latest, clock' \in Nat, clock' >= clock, DOMAIN work' = DOMAIN work,
         \A d \in DOMAIN latest :
           Young(latest[d], clock') /\ d \notin SharingMap /\ Witness(d, bundles, files, BlobIds, latest[d])
             => Witness(d, bundles', files', BlobIds', latest[d])
  PROVE  PromiseInv'
<1>1. SharingMap' = SharingMap
  BY DEF SharingMap
<1>2. clock \in Nat /\ Retain \in Nat
  BY FileConstants DEF WorkInv
<1>3. \A d \in DOMAIN latest : Young(latest[d], clock') => Young(latest[d], clock)
  BY <1>2 DEF PromiseInv, Promise, Young
<1>4. \A d \in DOMAIN latest : Filed(d, bundles', files', BlobIds', latest[d])
  BY FiledStays DEF PromiseInv, Promise
<1> QED
  BY <1>1, <1>3, <1>4 DEF PromiseInv, Promise

\* Files and complete bundles that stay keep every witness.
FilesStay == \A f \in files : f.blob \in BlobIds => \E g \in files' : g.id = f.id /\ g.blob \in BlobIds' /\ g.born = f.born
LEMMA CompleteStays == ASSUME FilesStay, bundles' = bundles PROVE CompleteStay
BY DEF FilesStay, CompleteStay, FileStays
LEMMA WitnessesStay ==
  ASSUME FilesStay, \A b \in bundles : b.map # Null => b \in bundles'
  PROVE  \A d, since : Witness(d, bundles, files, BlobIds, since) => Witness(d, bundles', files', BlobIds', since)
<1>1. \A i, since : Stands(files, BlobIds, i, since) => Stands(files', BlobIds', i, since)
  BY DEF Stands, FilesStay
<1>2. \A b, since : Whole(b, files, BlobIds, since) => Whole(b, files', BlobIds', since)
  BY <1>1 DEF Whole
<1> QED
  BY <1>2 DEF Witness, Whole

\* A step of one job.
LEMMA JobMoves ==
  ASSUME FilesInv, NEW j \in DOMAIN work, Moves({j}), clock' = clock, FilesFrom({j}), BundlesFrom({j}),
         TableInv', PromiseInv', JobOK(j, work', files', BlobIds', bundles')
  PROVE  FilesInv'
<1>1. WorkInv'
  BY DEF FilesInv, WorkInv, Moves
<1>2. \A k \in DOMAIN work' : JobOK(k, work', files', BlobIds', bundles')
  <2> SUFFICES ASSUME NEW k \in DOMAIN work, k # j PROVE JobOK(k, work', files', BlobIds', bundles')
    BY DEF Moves
  <2>1. PICK J : J = {j}
    OBVIOUS
  <2>2. k \in DOMAIN work \ J
    BY <2>1
  <2> QED
    BY <2>1, <2>2, OthersKeep DEF FilesInv
<1> QED
  BY <1>1, <1>2 DEF FilesInv, JobInv

\* Rows that a step leaves alone are found as they were.
LEMMA TablesSame ==
  ASSUME TableInv, NEW j, Moves({j}), files' = files, bundles' = bundles
  PROVE  TableInv'
<1>1. BundleRows(bundles', work')
  <2>1. PICK J : J = {j}
    OBVIOUS
  <2> QED
    BY <2>1, RowsStay
<1> QED
  BY <1>1 DEF TableInv

\* A step of a job that changes no file and no bundle; blobs may be added.
LEMMA QuietMove ==
  ASSUME FilesInv, NEW j \in DOMAIN work, Moves({j}), clock' = clock, latest' = latest, files' = files, bundles' = bundles,
         BlobIds \subseteq BlobIds', JobOK(j, work', files', BlobIds', bundles')
  PROVE  FilesInv'
<1>1. FilesFrom({j}) /\ BundlesFrom({j})
  BY DEF FilesFrom, BundlesFrom
<1>2. PromiseInv'
  <2>1. FilesStay
    BY DEF FilesStay
  <2>2. \A d \in DOMAIN latest : Witness(d, bundles, files, BlobIds, latest[d]) => Witness(d, bundles', files', BlobIds', latest[d])
    BY <2>1, WitnessesStay
  <2>3. clock' \in Nat /\ clock' >= clock /\ DOMAIN work' = DOMAIN work
    BY DEF FilesInv, WorkInv, Moves
  <2> QED
    BY <2>1, <2>2, <2>3, PromiseKept, CompleteStays DEF FilesInv
<1>3. TableInv'
  BY TablesSame DEF FilesInv
<1> QED
  BY <1>1, <1>2, <1>3, JobMoves

\* A job outside an assembly of a bundle.
LEMMA PlainJob ==
  ASSUME NEW wk, NEW j, NEW fs, NEW known, NEW bs, IsWork(wk[j]), wk[j].ret \in Returns, Phase(wk[j]) \notin Assembling,
         wk[j].made = <<>>, wk[j].pc = "new" => wk[j].ret = "done", Phase(wk[j]) \in Fresh => wk[j].bundle = Null,
         Phase(wk[j]) \in {"start", "assemble"} => Jobs[j].kind = "artifact",
         wk[j].pc # "done" => \A f \in fs : f.id[1] = j => f.id[2] < Counter(wk[j])
  PROVE  JobOK(j, wk, fs, known, bs)
<1>1. <<>> \in Seq((DOMAIN wk) \X Nat) /\ Len(<<>>) = 0
  OBVIOUS
<1>2. Memory(j, wk[j], DOMAIN wk)
  BY <1>1 DEF Memory, Assembling, Finishing
<1>3. Own(j, wk[j], fs, known)
  BY DEF Own, Assembling
<1>4. OldFiles(j, wk) /\ Replaced(j, wk[j], bs)
  BY DEF OldFiles, Replaced, Phase, Finishing, Assembling
<1> QED
  BY <1>2, <1>3, <1>4 DEF JobOK

\* What is known of a job; its next file has a new number.
LEMMA JobIs ==
  ASSUME FilesInv, NEW j \in DOMAIN work
  PROVE  /\ j \in DOMAIN Jobs /\ JobOK(j, work, files, BlobIds, bundles) /\ Memory(j, work[j], DOMAIN work)
         /\ Own(j, work[j], files, BlobIds) /\ IsWork(work[j]) /\ Len(work[j].made) \in Nat /\ Counter(work[j]) \in Nat
         /\ NewId(j) = <<j, Counter(work[j])>>
         /\ work[j].pc # "done" => \A f \in files : f.id # NewId(j)
<1>1. j \in DOMAIN Jobs /\ JobOK(j, work, files, BlobIds, bundles)
  BY DEF FilesInv, WorkInv, JobInv
<1>2. Memory(j, work[j], DOMAIN work) /\ Own(j, work[j], files, BlobIds) /\ IsWork(work[j])
  BY <1>1 DEF JobOK, Memory
<1>3. Len(work[j].made) \in Nat
  BY <1>2, LenProperties DEF Memory
<1>4. Counter(work[j]) \in Nat /\ NewId(j) = <<j, Counter(work[j])>>
  <2>1. PICK n \in Nat : n = Len(work[j].made)
    BY <1>3
  <2>2. PICK new : new = work[j].bundle
    OBVIOUS
  <2>3. Counter(work[j]) = n + IF new = Null THEN 0 ELSE 1
    BY <2>1, <2>2 DEF Counter
  <2>4. NewId(j) = <<j, n + IF new = Null THEN 0 ELSE 1>>
    BY <2>1, <2>2 DEF NewId
  <2> QED
    BY <2>3, <2>4
<1>5. ASSUME work[j].pc # "done", NEW f \in files PROVE f.id # NewId(j)
  <2>1. f.id[1] = j => f.id[2] < Counter(work[j])
    BY <1>2, <1>5 DEF Own
  <2>2. \A c \in Nat : f.id = <<j, c>> => c < Counter(work[j])
    BY <2>1
  <2> QED
    BY <1>4, <2>2
<1> QED
  BY <1>1, <1>2, <1>3, <1>4, <1>5

\* The record a step writes for one job.
LEMMA Writes ==
  ASSUME WorkInv, NEW j \in DOMAIN work, NEW w, work' = [work EXCEPT ![j] = w], work[j].pc \in Landed => w.pc \in Landed
  PROVE  Moves({j}) /\ work'[j] = w /\ DOMAIN work' = DOMAIN work
BY DEF WorkInv, Moves

\* A job that ends, or stops.
LEMMA DoneIsOK ==
  ASSUME NEW wk, NEW j, NEW fs, NEW known, NEW bs, wk[j] = [NewWork(j) EXCEPT !.pc = "done"]
  PROVE  JobOK(j, wk, fs, known, bs)
<1>1. PICK sum : sum = Jobs[j].sum
  OBVIOUS
<1>2. wk[j] = [pc |-> "done", bundle |-> Null, made |-> <<>>, old |-> {}, want |-> sum, blob |-> Null, ret |-> "done"]
  BY <1>1 DEF NewWork
<1>3. PICK w : w = wk[j]
  OBVIOUS
<1>4. IsWork(w) /\ w.pc = "done" /\ w.ret = "done" /\ w.made = <<>> /\ Phase(w) = "done"
  BY <1>2, <1>3 DEF IsWork, Phase
<1> QED
  BY <1>3, <1>4, PlainJob DEF Returns, Assembling, Fresh
LEMMA Ends ==
  ASSUME FilesInv, NEW j \in DOMAIN work, End(j)
  PROVE  Moves({j}) /\ \A fs, known, bs : JobOK(j, work', fs, known, bs)
<1>1. PICK w : w = [NewWork(j) EXCEPT !.pc = "done"]
  OBVIOUS
<1>2. w.pc \in Landed
  BY <1>1 DEF NewWork, Landed
<1>3. work' = [work EXCEPT ![j] = w]
  BY <1>1 DEF End
<1>4. Moves({j}) /\ work'[j] = w
  BY <1>2, <1>3, Writes DEF FilesInv
<1> QED
  BY <1>1, <1>4, DoneIsOK

(***************************************************************************)
(* Steps that change no file and no bundle                                 *)
(***************************************************************************)
Quiet == clock' = clock /\ latest' = latest /\ files' = files /\ bundles' = bundles /\ BlobIds \subseteq BlobIds'

\* Outside an assembly, while the number of the next file grows or the job is done.
LEMMA PlainMove ==
  ASSUME FilesInv, NEW j \in DOMAIN work, Moves({j}), Quiet, work[j].pc # "done",
         IsWork(work'[j]), work'[j].ret \in Returns, Phase(work'[j]) \notin Assembling, work'[j].made = <<>>, work'[j].pc # "new",
         Phase(work'[j]) \in Fresh => work'[j].bundle = Null,
         Phase(work'[j]) \in {"start", "assemble"} => Jobs[j].kind = "artifact",
         work[j].made = <<>>, work'[j].bundle = work[j].bundle \/ work[j].bundle = Null
  PROVE  FilesInv'
<1>1. \A f \in files' : f.id[1] = j => f.id[2] < Counter(work'[j])
  <2> SUFFICES ASSUME NEW f \in files, f.id[1] = j PROVE f.id[2] < Counter(work'[j])
    BY DEF Quiet
  <2>1. f.id[2] < Counter(work[j]) /\ f.id[2] \in Nat
    BY JobIs DEF Own, FilesInv, TableInv, FileRows
  <2>2. Len(<<>>) = 0
    OBVIOUS
  <2>3. PICK b, c : b = work[j].bundle /\ c = work'[j].bundle /\ (c = b \/ b = Null)
    OBVIOUS
  <2>4. Counter(work[j]) = 0 + IF b = Null THEN 0 ELSE 1
    BY <2>2, <2>3 DEF Counter
  <2>5. Counter(work'[j]) = 0 + IF c = Null THEN 0 ELSE 1
    BY <2>2, <2>3 DEF Counter
  <2> QED
    BY <2>1, <2>3, <2>4, <2>5
<1>2. JobOK(j, work', files', BlobIds', bundles')
  <2>1. PICK wk, fs, known, bs : wk = work' /\ fs = files' /\ known = BlobIds' /\ bs = bundles'
    OBVIOUS
  <2>2. JobOK(j, wk, fs, known, bs)
    BY <1>1, <2>1, PlainJob
  <2> QED
    BY <2>1, <2>2
<1> QED
  BY <1>2, QuietMove DEF Quiet

\* A get_or_create is part of the step it goes on to.
LEMMA SamePhase ==
  ASSUME FilesInv, NEW j \in DOMAIN work, Moves({j}), Quiet, work[j].pc \in {"select", "insert"},
         IsWork(work'[j]), Phase(work'[j]) = Phase(work[j]), work'[j].pc \in {"insert", work[j].ret},
         work'[j].bundle = work[j].bundle, work'[j].made = work[j].made, work'[j].old = work[j].old, work'[j].ret = work[j].ret
  PROVE  FilesInv'
<1>1. Memory(j, work[j], DOMAIN work) /\ Own(j, work[j], files, BlobIds)
  BY JobIs
<1>2. work'[j].pc \notin {"new", "ignore", "drop"}
  BY <1>1 DEF Memory, Returns
<1>3. Memory(j, work'[j], DOMAIN work')
  BY <1>1, <1>2 DEF Memory, Moves
<1>4. Own(j, work'[j], files', BlobIds')
  <2>1. \A last : Linked(files, BlobIds, j, last) => Linked(files', BlobIds', j, last)
    BY DEF Quiet, Linked
  <2>2. Counter(work'[j]) = Counter(work[j])
    BY DEF Counter
  <2> QED
    BY <1>1, <2>1, <2>2 DEF Own, Quiet
<1>5. OldFiles(j, work') /\ Replaced(j, work'[j], bundles')
  BY <1>1, <1>2 DEF OldFiles, Replaced, Phase, Memory, Returns, Finishing
<1> QED
  BY <1>3, <1>4, <1>5, QuietMove DEF Quiet, JobOK

\* What Goto writes.
LEMMA Goes ==
  ASSUME WorkInv, NEW j \in DOMAIN work, NEW pc, IsWork(work[j]), Goto(j, pc), work[j].pc \notin Landed
  PROVE  /\ Moves({j}) /\ IsWork(work'[j]) /\ work'[j].pc = pc /\ work'[j].ret = work[j].ret
         /\ work'[j].bundle = work[j].bundle /\ work'[j].made = work[j].made /\ work'[j].old = work[j].old
<1>1. work'[j] = [work[j] EXCEPT !.pc = pc] /\ DOMAIN work' = DOMAIN work
  BY DEF Goto
<1>2. \A k \in DOMAIN work \ {j} : work'[k] = work[k]
  BY DEF Goto
<1>3. Moves({j})
  BY <1>2 DEF Goto, Moves
<1>4. PICK v, w : v = work[j] /\ w = work'[j]
  OBVIOUS
<1>5. w = [v EXCEPT !.pc = pc] /\ IsWork(v)
  BY <1>1, <1>4
<1>6. w = [pc |-> pc, bundle |-> v.bundle, made |-> v.made, old |-> v.old, want |-> v.want, blob |-> v.blob, ret |-> v.ret]
  BY <1>5 DEF IsWork
<1>7. IsWork(w) /\ w.pc = pc /\ w.ret = v.ret /\ w.bundle = v.bundle /\ w.made = v.made /\ w.old = v.old
  BY <1>6 DEF IsWork
<1> QED
  BY <1>3, <1>4, <1>7

\* Or End.
LEMMA EndKeeps ==
  ASSUME FilesInv, NEW j \in DOMAIN work, End(j), Quiet
  PROVE  FilesInv'
<1>1. Moves({j}) /\ \A fs, known, bs : JobOK(j, work', fs, known, bs)
  BY Ends
<1>2. PICK fs, known, bs : fs = files' /\ known = BlobIds' /\ bs = bundles'
  OBVIOUS
<1>3. JobOK(j, work', files', BlobIds', bundles')
  BY <1>1, <1>2
<1> QED
  BY <1>1, <1>3, QuietMove DEF Quiet

\* The requests, and the tasks that only look.
LEMMA RequestsKeep ==
  ASSUME FilesInv, NEW j \in DOMAIN work, AssembleRelease(j) \/ DifsAssembleApi(j) \/ ChunkUpload(j) \/ Dsyms(j)
  PROVE  FilesInv'
<1>1. PICK pc : Goto(j, pc) /\ pc \in {"start", "dif", "done", "select", "proguard"} /\ (pc = "start" => Jobs[j].kind = "artifact")
  BY DEF AssembleRelease, DifsAssembleApi, ChunkUpload, Dsyms
<1>2. work[j].pc = "new" /\ Quiet
  BY DEF AssembleRelease, DifsAssembleApi, ChunkUpload, Dsyms, Quiet, fileRows, BlobIds
<1>3. Memory(j, work[j], DOMAIN work) /\ IsWork(work[j]) /\ WorkInv
  BY JobIs DEF FilesInv
<1>4. work[j].ret = "done" /\ Phase(work[j]) = "new" /\ work[j].made = <<>> /\ work[j].bundle = Null
  BY <1>2, <1>3 DEF Memory, Phase, Assembling, Fresh
<1>5. /\ Moves({j}) /\ IsWork(work'[j]) /\ work'[j].pc = pc /\ work'[j].ret = "done"
      /\ work'[j].bundle = Null /\ work'[j].made = <<>>
  BY <1>1, <1>2, <1>3, <1>4, Goes DEF Landed
<1>6. /\ Phase(work'[j]) \in {"start", "dif", "done", "proguard"} /\ "done" \in Returns
      /\ (Phase(work'[j]) = "start" => Jobs[j].kind = "artifact")
  BY <1>1, <1>5 DEF Phase, Returns
<1> QED
  BY <1>1, <1>2, <1>4, <1>5, <1>6, PlainMove DEF Assembling, Landed, Fresh

\* get_or_create of a blob; a refused insert ends a proguard upload.
LEMMA TakesBlob ==
  ASSUME WorkInv, NEW j \in DOMAIN work, NEW b, IsWork(work[j]), work[j].pc \notin Landed,
         work' = [work EXCEPT ![j].blob = b, ![j].pc = work[j].ret]
  PROVE  /\ Moves({j}) /\ IsWork(work'[j]) /\ work'[j].pc = work[j].ret /\ work'[j].ret = work[j].ret
         /\ work'[j].bundle = work[j].bundle /\ work'[j].made = work[j].made /\ work'[j].old = work[j].old
<1>1. Moves({j})
  BY DEF Moves
<1>2. PICK v, w : v = work[j] /\ w = work'[j]
  OBVIOUS
<1>3. w = [v EXCEPT !.blob = b, !.pc = v.ret]
  BY <1>2
<1>4. w = [pc |-> v.ret, bundle |-> v.bundle, made |-> v.made, old |-> v.old, want |-> v.want, blob |-> b, ret |-> v.ret]
  BY <1>2, <1>3 DEF IsWork
<1>5. IsWork(w) /\ w.pc = v.ret /\ w.ret = v.ret /\ w.bundle = v.bundle /\ w.made = v.made /\ w.old = v.old
  BY <1>4 DEF IsWork
<1> QED
  BY <1>1, <1>2, <1>5

LEMMA GetOrCreateKeeps ==
  ASSUME FilesInv, NEW j \in DOMAIN work, GetBlob(j) \/ InsertBlob(j)
  PROVE  FilesInv'
<1>1. work[j].pc \in {"select", "insert"} /\ Quiet
  BY DEF GetBlob, InsertBlob, Quiet, fileRows, BlobIds
<1>2. Memory(j, work[j], DOMAIN work) /\ IsWork(work[j]) /\ WorkInv /\ work[j].pc \notin Landed /\ work[j].ret \in Returns
  BY <1>1, JobIs DEF FilesInv, Memory, Landed
<1>3. ASSUME NEW b, work' = [work EXCEPT ![j].blob = b, ![j].pc = work[j].ret] PROVE FilesInv'
  <2>1. /\ Moves({j}) /\ IsWork(work'[j]) /\ work'[j].pc = work[j].ret /\ work'[j].ret = work[j].ret
        /\ work'[j].bundle = work[j].bundle /\ work'[j].made = work[j].made /\ work'[j].old = work[j].old
    BY <1>2, <1>3, TakesBlob
  <2>2. Phase(work'[j]) = Phase(work[j])
    BY <1>1, <1>2, <2>1 DEF Phase, Returns
  <2> QED
    BY <1>1, <2>1, <2>2, SamePhase
<1>4. CASE Goto(j, "insert")
  <2>1. /\ Moves({j}) /\ IsWork(work'[j]) /\ work'[j].pc = "insert" /\ work'[j].ret = work[j].ret
        /\ work'[j].bundle = work[j].bundle /\ work'[j].made = work[j].made /\ work'[j].old = work[j].old
    BY <1>2, <1>4, Goes
  <2> QED
    BY <1>1, <2>1, SamePhase DEF Phase
<1>5. ASSUME Jobs[j].kind = "proguard", Goto(j, "done") PROVE FilesInv'
  <2>1. /\ Moves({j}) /\ IsWork(work'[j]) /\ work'[j].pc = "done" /\ work'[j].ret = work[j].ret
        /\ work'[j].bundle = work[j].bundle /\ work'[j].made = work[j].made
    BY <1>2, <1>5, Goes
  <2>2. work[j].made = <<>>
    BY <1>2, <1>5 DEF Memory
  <2>3. Phase(work'[j]) = "done"
    BY <2>1 DEF Phase
  <2> QED
    BY <1>1, <1>2, <2>1, <2>2, <2>3, PlainMove DEF Assembling, Fresh
<1>6. \/ \E b : work' = [work EXCEPT ![j].blob = b, ![j].pc = work[j].ret]
      \/ Goto(j, "insert") \/ (Jobs[j].kind = "proguard" /\ Goto(j, "done"))
  BY DEF GetBlob, InsertBlob, Goto
<1> QED
  BY <1>3, <1>4, <1>5, <1>6

\* A task that gives up, or reads a File or chunk and goes on.
LEMMA TasksLook ==
  ASSUME FilesInv, NEW j \in DOMAIN work,
         AssembleArtifacts(j) \/ DifsReadChunks(j) \/ DifsExtractMetadata(j) \/ DifsCreateDif(j) \/ ProguardDif(j)
  PROVE  FilesInv'
<1>1. Quiet /\ work[j].pc \in {"start", "chunks", "metadata", "savedif", "savemap"}
  BY DEF AssembleArtifacts, DifsReadChunks, DifsExtractMetadata, DifsCreateDif, ProguardDif, Quiet, fileRows, BlobIds
<1>2. Memory(j, work[j], DOMAIN work) /\ IsWork(work[j]) /\ WorkInv /\ work[j].pc \notin Landed /\ work[j].ret \in Returns
  BY <1>1, JobIs DEF FilesInv, Memory, Landed
<1>3. work[j].made = <<>> /\ (work[j].pc \in {"start", "chunks"} => work[j].bundle = Null)
  BY <1>1, <1>2 DEF Memory, Phase, Assembling, Fresh
<1>4. CASE End(j)
  BY <1>1, <1>4, EndKeeps
<1>5. ASSUME NEW pc, Goto(j, pc), (work[j].pc = "start" /\ pc = "assemble") \/ pc = "savedif" PROVE FilesInv'
  <2>1. /\ Moves({j}) /\ IsWork(work'[j]) /\ work'[j].pc = pc /\ work'[j].ret = work[j].ret
        /\ work'[j].bundle = work[j].bundle /\ work'[j].made = work[j].made
    BY <1>2, <1>5, Goes
  <2>2. Phase(work'[j]) = pc /\ (pc = "assemble" => Jobs[j].kind = "artifact")
    BY <1>2, <1>5, <2>1 DEF Phase, Memory
  <2> QED
    BY <1>1, <1>2, <1>3, <1>5, <2>1, <2>2, PlainMove DEF Assembling, Fresh
<1>6. CASE AssembleArtifacts(j)
  BY <1>4, <1>5, <1>6 DEF AssembleArtifacts
<1>7. CASE DifsReadChunks(j)
  <2>1. PICK pc, want, blob : /\ pc = IF Cardinality(ToSet(Jobs[j].chunks)) = 1 THEN "newfile" ELSE "select"
                              /\ want = Jobs[j].joined
                              /\ blob = IF Cardinality(ToSet(Jobs[j].chunks)) = 1 THEN BlobOf(Head(Jobs[j].chunks)).id ELSE Null
    OBVIOUS
  <2>2. CASE End(j)
    BY <1>4, <2>2
  <2>3. CASE work' = [work EXCEPT ![j].pc = pc, ![j].ret = "newfile", ![j].want = want, ![j].blob = blob]
    <3>1. Moves({j})
      BY <1>2, <2>3 DEF Moves, WorkInv
    <3>2. PICK v, w : v = work[j] /\ w = work'[j]
      OBVIOUS
    <3>3. w = [v EXCEPT !.pc = pc, !.ret = "newfile", !.want = want, !.blob = blob]
      BY <2>3, <3>2
    <3>4. w = [pc |-> pc, bundle |-> v.bundle, made |-> v.made, old |-> v.old, want |-> want, blob |-> blob, ret |-> "newfile"]
      BY <1>2, <3>2, <3>3 DEF IsWork
    <3>5. pc \in {"newfile", "select"} /\ work[j].pc = "chunks"
      BY <1>7, <2>1 DEF DifsReadChunks
    <3>6. IsWork(w) /\ w.pc = pc /\ w.ret = "newfile" /\ w.bundle = Null /\ w.made = <<>> /\ Phase(w) = "newfile"
      BY <1>3, <3>2, <3>4, <3>5 DEF IsWork, Phase
    <3> QED
      BY <1>1, <1>3, <3>1, <3>2, <3>5, <3>6, PlainMove DEF Assembling, Fresh, Returns
  <2> QED
    BY <1>7, <2>1, <2>2, <2>3 DEF DifsReadChunks
<1>8. CASE DifsExtractMetadata(j)
  BY <1>4, <1>5, <1>8 DEF DifsExtractMetadata
<1>9. CASE DifsCreateDif(j) \/ ProguardDif(j)
  BY <1>4, <1>9 DEF DifsCreateDif, ProguardDif
<1> QED
  BY <1>6, <1>7, <1>8, <1>9

\* A File that exists is taken, or the blob of a proguard mapping.
LEMMA TasksTake ==
  ASSUME FilesInv, NEW j \in DOMAIN work,
         DifsGetFile(j) \/ ProguardBlob(j) \/ (ProguardFile(j) /\ files' = files /\ ~End(j))
  PROVE  FilesInv'
<1>1. Quiet /\ work[j].pc \in {"dif", "proguard", "mapping"}
  BY DEF DifsGetFile, ProguardBlob, ProguardFile, Quiet, fileRows, BlobIds
<1>2. Memory(j, work[j], DOMAIN work) /\ IsWork(work[j]) /\ WorkInv /\ work[j].pc \notin Landed /\ work[j].ret \in Returns
  BY <1>1, JobIs DEF FilesInv, Memory, Landed
<1>3. work[j].made = <<>> /\ work[j].bundle = Null
  BY <1>1, <1>2 DEF Memory, Phase, Assembling, Fresh
<1>4. CASE Goto(j, "chunks")
  <2>1. /\ Moves({j}) /\ IsWork(work'[j]) /\ work'[j].pc = "chunks" /\ work'[j].ret = work[j].ret
        /\ work'[j].bundle = work[j].bundle /\ work'[j].made = work[j].made
    BY <1>2, <1>4, Goes
  <2> QED
    BY <1>1, <1>2, <1>3, <2>1, PlainMove DEF Assembling, Fresh, Phase
<1>5. ASSUME NEW i, NEW pc, pc \in {"metadata", "savemap"}, work' = [work EXCEPT ![j].bundle = i, ![j].pc = pc] PROVE FilesInv'
  <2>1. Moves({j})
    BY <1>2, <1>5 DEF Moves, WorkInv
  <2>2. PICK v, w : v = work[j] /\ w = work'[j]
    OBVIOUS
  <2>3. w = [v EXCEPT !.bundle = i, !.pc = pc]
    BY <1>5, <2>2
  <2>4. w = [pc |-> pc, bundle |-> i, made |-> v.made, old |-> v.old, want |-> v.want, blob |-> v.blob, ret |-> v.ret]
    BY <1>2, <2>2, <2>3 DEF IsWork
  <2>5. IsWork(w) /\ w.pc = pc /\ w.ret = v.ret /\ w.made = <<>> /\ Phase(w) = pc
    BY <1>3, <1>5, <2>2, <2>4 DEF IsWork, Phase
  <2> QED
    BY <1>1, <1>2, <1>3, <1>5, <2>1, <2>2, <2>5, PlainMove DEF Assembling, Fresh
<1>6. ASSUME NEW b, work' = [work EXCEPT ![j].blob = b, ![j].pc = "mapping"] PROVE FilesInv'
  <2>1. Moves({j})
    BY <1>2, <1>6 DEF Moves, WorkInv
  <2>2. PICK v, w : v = work[j] /\ w = work'[j]
    OBVIOUS
  <2>3. w = [v EXCEPT !.blob = b, !.pc = "mapping"]
    BY <1>6, <2>2
  <2>4. w = [pc |-> "mapping", bundle |-> v.bundle, made |-> v.made, old |-> v.old, want |-> v.want, blob |-> b, ret |-> v.ret]
    BY <1>2, <2>2, <2>3 DEF IsWork
  <2>5. IsWork(w) /\ w.pc = "mapping" /\ w.ret = v.ret /\ w.made = <<>> /\ w.bundle = Null /\ Phase(w) = "mapping"
    BY <1>3, <2>2, <2>4 DEF IsWork, Phase
  <2> QED
    BY <1>1, <1>2, <1>3, <2>1, <2>2, <2>5, PlainMove DEF Assembling, Fresh
<1>7. CASE work' = [work EXCEPT ![j].pc = "insert", ![j].ret = "mapping"]
  <2>1. Moves({j})
    BY <1>2, <1>7 DEF Moves, WorkInv
  <2>2. PICK v, w : v = work[j] /\ w = work'[j]
    OBVIOUS
  <2>3. w = [v EXCEPT !.pc = "insert", !.ret = "mapping"]
    BY <1>7, <2>2
  <2>4. w = [pc |-> "insert", bundle |-> v.bundle, made |-> v.made, old |-> v.old, want |-> v.want, blob |-> v.blob, ret |-> "mapping"]
    BY <1>2, <2>2, <2>3 DEF IsWork
  <2>5. IsWork(w) /\ w.pc = "insert" /\ w.ret = "mapping" /\ w.made = <<>> /\ w.bundle = Null /\ Phase(w) = "mapping"
    BY <1>3, <2>2, <2>4 DEF IsWork, Phase
  <2> QED
    BY <1>1, <1>3, <2>1, <2>2, <2>5, PlainMove DEF Assembling, Fresh, Returns
<1>8. CASE DifsGetFile(j)
  <2>1. Goto(j, "chunks") \/ \E i : work' = [work EXCEPT ![j].bundle = i, ![j].pc = "metadata"]
    BY <1>8 DEF DifsGetFile
  <2> QED
    BY <1>4, <1>5, <2>1
<1>9. CASE ProguardBlob(j)
  <2>1. \/ \E b : work' = [work EXCEPT ![j].blob = b, ![j].pc = "mapping"]
        \/ work' = [work EXCEPT ![j].pc = "insert", ![j].ret = "mapping"]
    BY <1>9 DEF ProguardBlob
  <2> QED
    BY <1>6, <1>7, <2>1
<1>10. CASE ProguardFile(j) /\ files' = files /\ ~End(j)
  <2>1. NewFile(j, Jobs[j].sum, work[j].blob) \notin files
    <3>1. \A f \in files : f.id # NewId(j)
      BY <1>2, JobIs DEF Landed
    <3> QED
      BY <3>1 DEF NewFile
  <2>2. ~SaveFile(j, "savemap")
    BY <1>10, <2>1 DEF SaveFile
  <2>3. \E i : work' = [work EXCEPT ![j].bundle = i, ![j].pc = "savemap"]
    BY <1>10, <2>2 DEF ProguardFile
  <2> QED
    BY <1>5, <2>3
<1> QED
  BY <1>8, <1>9, <1>10

(***************************************************************************)
(* Steps that add a File                                                   *)
(***************************************************************************)
\* The new file has a new id; nobody else's files and no bundle change.
LEMMA FileAdded ==
  ASSUME FilesInv, NEW j \in DOMAIN work, NEW sum, NEW blob, Moves({j}), work[j].pc # "done",
         files' = files \cup {NewFile(j, sum, blob)}, bundles' = bundles, blobs' = blobs, clock' = clock, latest' = latest,
         JobOK(j, work', files', BlobIds', bundles')
  PROVE  FilesInv'
<1>1. PICK c \in Nat : c = Counter(work[j]) /\ NewId(j) = <<j, c>> /\ \A f \in files : f.id # <<j, c>>
  BY JobIs
<1>2. PICK new : new = NewFile(j, sum, blob)
  OBVIOUS
<1>3. new = [id |-> <<j, c>>, sum |-> sum, blob |-> blob, born |-> clock]
  BY <1>1, <1>2 DEF NewFile
<1>4. BlobIds' = BlobIds
  BY DEF BlobIds
<1>5. FileRows(files')
  <2>1. FileRows(files) /\ clock \in Nat
    BY DEF FilesInv, TableInv, WorkInv
  <2> QED
    BY <1>1, <1>2, <1>3, <2>1 DEF FileRows
<1>6. FilesFrom({j}) /\ BundlesFrom({j})
  BY <1>2, <1>3, <1>4 DEF FilesFrom, BundlesFrom
<1>7. PromiseInv'
  <2>1. FilesStay
    BY <1>4 DEF FilesStay
  <2>2. \A d \in DOMAIN latest : Witness(d, bundles, files, BlobIds, latest[d]) => Witness(d, bundles', files', BlobIds', latest[d])
    BY <2>1, WitnessesStay
  <2>3. clock' \in Nat /\ clock' >= clock /\ DOMAIN work' = DOMAIN work
    BY DEF FilesInv, WorkInv, Moves
  <2> QED
    BY <2>1, <2>2, <2>3, PromiseKept, CompleteStays DEF FilesInv
<1>8. BundleRows(bundles', work')
  <2>1. PICK J : J = {j}
    OBVIOUS
  <2> QED
    BY <2>1, RowsStay DEF FilesInv
<1> QED
  BY <1>5, <1>6, <1>7, <1>8, JobMoves DEF TableInv, FilesInv

\* A debug information file's File, and a proguard mapping's.
LEMMA DifFileKeeps ==
  ASSUME FilesInv, NEW j \in DOMAIN work, DifsCreateFile(j) \/ ProguardFile(j)
  PROVE  FilesInv'
<1>1. work[j].pc \in {"newfile", "mapping"} /\ clock' = clock /\ latest' = latest /\ bundles' = bundles /\ blobs' = blobs
  BY DEF DifsCreateFile, ProguardFile
<1>2. Memory(j, work[j], DOMAIN work) /\ IsWork(work[j]) /\ WorkInv /\ work[j].pc \notin Landed /\ work[j].ret \in Returns
  BY <1>1, JobIs DEF FilesInv, Memory, Landed
<1>3. work[j].made = <<>> /\ work[j].bundle = Null
  BY <1>1, <1>2 DEF Memory, Phase, Assembling, Fresh
<1>4. CASE files' = files /\ End(j)
  BY <1>1, <1>4, EndKeeps DEF Quiet, BlobIds
<1>5. ASSUME NEW pc, pc \in {"metadata", "savemap"}, files' = files \cup {NewFile(j, Jobs[j].sum, work[j].blob)},
             work' = [work EXCEPT ![j].bundle = NewId(j), ![j].pc = pc]
      PROVE  FilesInv'
  <2>1. Moves({j})
    BY <1>2, <1>5 DEF Moves, WorkInv
  <2>2. PICK v, w, i : v = work[j] /\ w = work'[j] /\ i = NewId(j)
    OBVIOUS
  <2>3. w = [v EXCEPT !.bundle = i, !.pc = pc]
    BY <1>5, <2>2
  <2>4. w = [pc |-> pc, bundle |-> i, made |-> v.made, old |-> v.old, want |-> v.want, blob |-> v.blob, ret |-> v.ret]
    BY <1>2, <2>2, <2>3 DEF IsWork
  <2>5. IsWork(w) /\ w.pc = pc /\ w.ret = v.ret /\ w.made = <<>> /\ w.bundle = i /\ Phase(w) = pc
    BY <1>3, <1>5, <2>2, <2>4 DEF IsWork, Phase
  <2>6. Counter(work[j]) = 0 /\ i = <<j, 0>> /\ Counter(w) = 1
    <3>1. Len(<<>>) = 0 /\ i = <<j, Counter(work[j])>>
      BY <2>2, JobIs
    <3>2. Counter(work[j]) = 0
      BY <1>3, <3>1 DEF Counter
    <3>3. i = <<j, 0>>
      BY <3>1, <3>2
    <3>4. i # Null
      BY <3>3 DEF Null
    <3>5. Counter(w) = Len(w.made) + IF w.bundle = Null THEN 0 ELSE 1
      BY DEF Counter
    <3>6. Len(w.made) = 0 /\ w.bundle # Null
      BY <2>5, <3>1, <3>4
    <3> QED
      BY <3>2, <3>3, <3>5, <3>6
  <2>7. \A f \in files' : f.id[1] = j => f.id[2] < Counter(w)
    <3>1. \A f \in files : f.id[1] = j => f.id[2] < 0
      BY <1>2, <2>6, JobIs DEF Own, Landed
    <3>2. NewFile(j, Jobs[j].sum, work[j].blob).id = <<j, 0>>
      BY <2>2, <2>6 DEF NewFile
    <3>3. \A f \in files : f.id[2] \in Nat
      BY DEF FilesInv, TableInv, FileRows
    <3> QED
      BY <1>5, <2>6, <3>1, <3>2, <3>3
  <2>8. JobOK(j, work', files', BlobIds', bundles')
    <3>1. PICK wk, fs, known, bs : wk = work' /\ fs = files' /\ known = BlobIds' /\ bs = bundles'
      OBVIOUS
    <3>2. JobOK(j, wk, fs, known, bs)
      BY <1>2, <1>5, <2>2, <2>5, <2>7, <3>1, PlainJob DEF Assembling, Fresh
    <3> QED
      BY <3>1, <3>2
  <2>9. PICK sum, blob : sum = Jobs[j].sum /\ blob = work[j].blob
    OBVIOUS
  <2> QED
    BY <1>1, <1>2, <1>5, <2>1, <2>8, <2>9, FileAdded DEF Landed
<1>6. ASSUME NEW pc, pc \in {"metadata", "savemap"}, SaveFile(j, pc) PROVE FilesInv'
  <2>1. CASE End(j) /\ UNCHANGED files
    BY <1>4, <2>1
  <2>2. CASE /\ files' = files \cup {NewFile(j, Jobs[j].sum, work[j].blob)}
             /\ work' = [work EXCEPT ![j].bundle = NewId(j), ![j].pc = pc]
    BY <1>5, <1>6, <2>2
  <2> QED
    BY <1>6, <2>1, <2>2 DEF SaveFile
<1>7. CASE DifsCreateFile(j)
  BY <1>6, <1>7 DEF DifsCreateFile
<1>8. CASE ProguardFile(j)
  <2>1. SaveFile(j, "savemap") \/ files' = files
    BY <1>8 DEF ProguardFile
  <2> QED
    BY <1>4, <1>6, <1>8, <2>1, TasksTake
<1> QED
  BY <1>7, <1>8

\* The Files of its parts, in order.
LEMMA MemoryMade ==
  ASSUME NEW j, NEW w, NEW js, Memory(j, w, js)
  PROVE  /\ w.made \in Seq(js \X Nat) /\ Len(w.made) \in Nat
         /\ DOMAIN w.made = 1 .. Len(w.made) /\ \A n \in 1 .. Len(w.made) : w.made[n] = <<j, n>>
<1>1. w.made \in Seq(js \X Nat)
  BY DEF Memory
<1>2. \A n \in 1 .. Len(w.made) : w.made[n] = <<j, n>>
  BY Zenon DEF Memory
<1>3. Len(w.made) \in Nat /\ DOMAIN w.made = 1 .. Len(w.made)
  BY <1>1, LenProperties
<1> QED
  BY <1>1, <1>2, <1>3
LEMMA MadeIs ==
  ASSUME FilesInv, NEW j \in DOMAIN work
  PROVE  /\ work[j].made \in Seq((DOMAIN work) \X Nat) /\ Len(work[j].made) \in Nat
         /\ DOMAIN work[j].made = 1 .. Len(work[j].made) /\ \A n \in 1 .. Len(work[j].made) : work[j].made[n] = <<j, n>>
<1>1. Memory(j, work[j], DOMAIN work)
  BY JobIs
<1> QED
  BY <1>1, MemoryMade

\* The File of the upload: the task ends, with the File left over or not, or has it.
LEMMA AssembleFileKeeps ==
  ASSUME FilesInv, NEW j \in DOMAIN work, AssembleFile(j)
  PROVE  FilesInv'
<1>1. work[j].pc = "assemble" /\ clock' = clock /\ latest' = latest /\ bundles' = bundles /\ blobs' = blobs
  BY DEF AssembleFile
<1>2. Memory(j, work[j], DOMAIN work) /\ IsWork(work[j]) /\ WorkInv /\ work[j].pc \notin Landed
  BY <1>1, JobIs DEF FilesInv, Memory, Landed
<1>3. work[j].made = <<>> /\ work[j].bundle = Null /\ Jobs[j].kind = "artifact"
  BY <1>1, <1>2 DEF Memory, Phase, Assembling, Fresh
<1>4. files' = files \/ files' = files \cup {NewFile(j, Jobs[j].sum, Null)}
  BY DEF AssembleFile
<1>5. CASE End(j)
  <2>1. CASE files' = files
    BY <1>1, <1>5, <2>1, EndKeeps DEF Quiet, BlobIds
  <2>2. CASE files' = files \cup {NewFile(j, Jobs[j].sum, Null)}
    <3>1. Moves({j}) /\ \A fs, known, bs : JobOK(j, work', fs, known, bs)
      BY <1>5, Ends
    <3>2. PICK fs, known, bs, sum, blob : fs = files' /\ known = BlobIds' /\ bs = bundles' /\ sum = Jobs[j].sum /\ blob = Null
      OBVIOUS
    <3>3. JobOK(j, work', files', BlobIds', bundles')
      BY <3>1, <3>2
    <3> QED
      BY <1>1, <1>2, <2>2, <3>1, <3>2, <3>3, FileAdded DEF Landed
  <2> QED
    BY <1>4, <2>1, <2>2
<1>6. CASE ~End(j)
  <2>1. PICK one : one = (Cardinality(ToSet(Jobs[j].chunks)) = 1)
    OBVIOUS
  <2>2. PICK pc, want, blob : /\ pc = IF one THEN "link" ELSE "select"
                              /\ want = Jobs[j].joined
                              /\ blob = IF one THEN BlobOf(Head(Jobs[j].chunks)).id ELSE Null
    OBVIOUS
  <2>3. PICK i : i = NewId(j)
    OBVIOUS
  <2>4. /\ files' = files \cup {NewFile(j, Jobs[j].sum, Null)}
        /\ work' = [work EXCEPT ![j].pc = pc, ![j].ret = "link", ![j].bundle = i, ![j].want = want, ![j].blob = blob]
    BY <1>6, <2>1, <2>2, <2>3 DEF AssembleFile
  <2>5. Moves({j})
    BY <1>2, <2>4 DEF Moves, WorkInv
  <2>6. PICK v, w : v = work[j] /\ w = work'[j]
    OBVIOUS
  <2>7. w = [v EXCEPT !.pc = pc, !.ret = "link", !.bundle = i, !.want = want, !.blob = blob]
    BY <2>4, <2>6
  <2>8. w = [pc |-> pc, bundle |-> i, made |-> v.made, old |-> v.old, want |-> want, blob |-> blob, ret |-> "link"]
    BY <1>2, <2>6, <2>7 DEF IsWork
  <2>9. IsWork(w) /\ w.pc = pc /\ w.ret = "link" /\ w.made = <<>> /\ w.bundle = i /\ Phase(w) = "link"
    BY <1>3, <2>2, <2>6, <2>8 DEF IsWork, Phase
  <2>10. Len(<<>>) = 0 /\ <<>> \in Seq((DOMAIN work) \X Nat)
    OBVIOUS
  <2>11. Counter(work[j]) = 0
    BY <1>3, <2>10 DEF Counter
  <2>12. i = <<j, 0>> /\ i # Null
    BY <2>3, <2>11, JobIs DEF Null
  <2>13. Counter(w) = 1
    <3>1. Counter(w) = Len(w.made) + IF w.bundle = Null THEN 0 ELSE 1
      BY DEF Counter
    <3>2. Len(w.made) = 0 /\ w.bundle # Null
      BY <2>9, <2>10, <2>12
    <3> QED
      BY <3>1, <3>2
  <2>14. Memory(j, w, DOMAIN work)
    <3>1. Len(Parts(j)) \in Nat
      BY <1>2, PartsAre DEF WorkInv
    <3>2. PICK made : made = w.made /\ made = <<>> /\ Len(made) = 0 /\ made \in Seq((DOMAIN work) \X Nat)
      BY <2>9, <2>10
    <3>3. w.pc # "new"
      BY <2>2, <2>9
    <3>4. Len(w.made) = 0 /\ w.made \in Seq((DOMAIN work) \X Nat) /\ 0 <= Len(Parts(j))
      BY <3>1, <3>2
    <3> QED
      BY <1>3, <2>9, <2>12, <3>3, <3>4 DEF Memory, Assembling, Fresh, Returns, Finishing
  <2>15. Own(j, w, files', BlobIds')
    <3>1. \A f \in files : f.id[1] = j => f.id[2] < 0
      BY <1>2, <2>11, JobIs DEF Own, Landed
    <3>2. NewFile(j, Jobs[j].sum, Null).id = <<j, 0>>
      BY <2>3, <2>12 DEF NewFile
    <3>3. \A f \in files : f.id[2] \in Nat
      BY DEF FilesInv, TableInv, FileRows
    <3>4. \A f \in files' : f.id[1] = j => f.id[2] < Counter(w)
      BY <2>4, <2>13, <3>1, <3>2, <3>3
    <3> QED
      BY <2>9, <3>4 DEF Own
  <2>16. OldFiles(j, work') /\ Replaced(j, w, bundles')
    BY <2>2, <2>6, <2>9 DEF OldFiles, Replaced, Finishing
  <2>17. JobOK(j, work', files', BlobIds', bundles')
    BY <2>5, <2>6, <2>14, <2>15, <2>16 DEF JobOK, Moves
  <2>18. PICK sum, null : sum = Jobs[j].sum /\ null = Null
    OBVIOUS
  <2> QED
    BY <1>1, <1>2, <2>4, <2>5, <2>17, <2>18, FileAdded DEF Landed
<1> QED
  BY <1>5, <1>6

\* What a delete of Files leaves: rows, complete bundles it does not touch.
LEMMA DeleteIs ==
  ASSUME TableInv, NEW gone, DeleteFiles(gone)
  PROVE  /\ files' = {f \in files : f.id \notin gone} /\ FileRows(files')
         /\ \A b \in bundles' : \E c \in bundles : b = c \/ b = [c EXCEPT !.map = Null]
         /\ \A b \in bundles' : b.map # Null => b \in bundles /\ b.file \notin gone /\ b.map \notin gone
         /\ \A b \in bundles : b.file \notin gone /\ b.map \notin gone => b \in bundles'
         /\ OneEach(bundles')
<1>1. files' = {f \in files : f.id \notin gone} /\ FileRows(files')
  BY DEF DeleteFiles, TableInv, FileRows
<1>2. \A b \in bundles : \E debug, file, map, used : b = [debug |-> debug, file |-> file, map |-> map, used |-> used]
  BY DEF TableInv, BundleRows, RowOf, IsRow
<1>3. ASSUME NEW b \in bundles' PROVE \E c \in bundles : c.file \notin gone /\ ((b = c /\ c.map \notin gone) \/ b = [c EXCEPT !.map = Null])
  <2>1. PICK c \in bundles : c.file \notin gone /\ b = [c EXCEPT !.map = IF c.map \in gone THEN Null ELSE c.map]
    BY DEF DeleteFiles
  <2>2. PICK debug, file, map, used : c = [debug |-> debug, file |-> file, map |-> map, used |-> used]
    BY <1>2
  <2>3. map \notin gone => b = [debug |-> debug, file |-> file, map |-> map, used |-> used]
    BY <2>1, <2>2
  <2>4. map \in gone => b = [c EXCEPT !.map = Null]
    BY <2>1, <2>2
  <2> QED
    BY <2>1, <2>2, <2>3, <2>4
<1>4. ASSUME NEW b \in bundles, b.file \notin gone, b.map \notin gone PROVE b \in bundles'
  <2>1. PICK debug, file, map, used : b = [debug |-> debug, file |-> file, map |-> map, used |-> used]
    BY <1>2
  <2>2. b = [b EXCEPT !.map = IF b.map \in gone THEN Null ELSE b.map]
    BY <1>4, <2>1
  <2> QED
    BY <1>4, <2>2 DEF DeleteFiles
<1>5. ASSUME NEW b \in bundles', b.map # Null PROVE b \in bundles /\ b.file \notin gone /\ b.map \notin gone
  <2>1. PICK c \in bundles : c.file \notin gone /\ ((b = c /\ c.map \notin gone) \/ b = [c EXCEPT !.map = Null])
    BY <1>3
  <2>2. PICK debug, file, map, used : c = [debug |-> debug, file |-> file, map |-> map, used |-> used]
    BY <1>2
  <2> QED
    BY <1>5, <2>1, <2>2
<1>6. ASSUME NEW b \in bundles', NEW c \in bundles', b.debug = c.debug, b.debug # "none" PROVE b = c
  <2>1. \A p : p \in bundles' => \E q \in bundles : p = [q EXCEPT !.map = IF q.map \in gone THEN Null ELSE q.map] /\ p.debug = q.debug
    <3> SUFFICES ASSUME NEW p \in bundles'
                 PROVE  \E q \in bundles : p = [q EXCEPT !.map = IF q.map \in gone THEN Null ELSE q.map] /\ p.debug = q.debug
      OBVIOUS
    <3>1. PICK q \in bundles : p = [q EXCEPT !.map = IF q.map \in gone THEN Null ELSE q.map]
      BY DEF DeleteFiles
    <3>2. PICK debug, file, map, used : q = [debug |-> debug, file |-> file, map |-> map, used |-> used]
      BY <1>2
    <3> QED
      BY <3>1, <3>2
  <2>2. PICK q \in bundles : b = [q EXCEPT !.map = IF q.map \in gone THEN Null ELSE q.map] /\ b.debug = q.debug
    BY <2>1
  <2>3. PICK o \in bundles : c = [o EXCEPT !.map = IF o.map \in gone THEN Null ELSE o.map] /\ c.debug = o.debug
    BY <2>1
  <2>4. q = o
    BY <1>6, <2>2, <2>3 DEF TableInv, OneEach
  <2> QED
    BY <2>2, <2>3, <2>4
<1> QED
  BY <1>1, <1>3, <1>4, <1>5, <1>6 DEF OneEach

\* Who a bundle belongs to.
LEMMA RowIs ==
  ASSUME TableInv, NEW b \in bundles
  PROVE  \E k \in DOMAIN work : work[k].pc \in Landed /\ \E n \in DOMAIN Parts(k) : IsRow(b, k, n)
BY DEF TableInv, BundleRows, RowOf

\* A job deletes Files that no complete bundle with a promise names.
LEMMA FilesDeleted ==
  ASSUME FilesInv, NEW j \in DOMAIN work, NEW gone, Moves({j}), DeleteFiles(gone), blobs' = blobs, clock' = clock,
         latest' = latest, JobOK(j, work', files', BlobIds', bundles'),
         \A d \in DOMAIN latest :
           Young(latest[d], clock) /\ d \notin SharingMap /\ Witness(d, bundles, files, BlobIds, latest[d])
             => Witness(d, bundles', files', BlobIds', latest[d])
  PROVE  FilesInv'
<1>1. BlobIds' = BlobIds /\ TableInv
  BY DEF BlobIds, FilesInv
<1>2. /\ files' = {f \in files : f.id \notin gone} /\ FileRows(files')
      /\ \A b \in bundles' : \E c \in bundles : b = c \/ b = [c EXCEPT !.map = Null]
      /\ \A b \in bundles' : b.map # Null => b \in bundles /\ b.file \notin gone /\ b.map \notin gone
      /\ OneEach(bundles')
  BY <1>1, DeleteIs
<1>3. FilesFrom({j}) /\ BundlesFrom({j})
  BY <1>1, <1>2 DEF FilesFrom, BundlesFrom
<1>4. BundleRows(bundles', work')
  <2>1. PICK J : J = {j}
    OBVIOUS
  <2> QED
    BY <1>1, <1>2, <2>1, RowsStay
<1>5. PromiseInv'
  <2>1. clock' \in Nat /\ clock' >= clock /\ DOMAIN work' = DOMAIN work
    BY DEF FilesInv, WorkInv, Moves
  <2>2. CompleteStay
    BY <1>1, <1>2 DEF CompleteStay, FileStays
  <2> QED
    BY <2>1, <2>2, PromiseKept DEF FilesInv
<1> QED
  BY <1>2, <1>3, <1>4, <1>5, JobMoves DEF TableInv

\* A refused upload deletes what it made: it has not landed.
LEMMA FailKeeps ==
  ASSUME FilesInv, NEW j \in DOMAIN work, work[j].pc \in {"link", "part"}, FailAndCleanup(j),
         blobs' = blobs, clock' = clock, latest' = latest
  PROVE  FilesInv'
<1>1. PICK gone : gone = {work[j].bundle} \cup ToSet(work[j].made)
  OBVIOUS
<1>2. DeleteFiles(gone) /\ End(j)
  BY <1>1 DEF FailAndCleanup
<1>3. \A i \in gone : i[1] = j
  <2>1. work[j].bundle = <<j, 0>> /\ \A n \in 1 .. Len(work[j].made) : work[j].made[n] = <<j, n>>
    BY JobIs DEF Memory, Phase, Assembling
  <2>2. \A i \in ToSet(work[j].made) : \E n \in 1 .. Len(work[j].made) : i = work[j].made[n]
    BY MadeIs DEF ToSet
  <2> QED
    BY <1>1, <2>1, <2>2
<1>4. ASSUME NEW b \in bundles, b.map # Null PROVE b.file \notin gone /\ b.map \notin gone
  <2>1. PICK k \in DOMAIN work : work[k].pc \in Landed /\ \E n \in DOMAIN Parts(k) : IsRow(b, k, n)
    BY RowIs DEF FilesInv
  <2>2. k # j
    BY <2>1 DEF Landed
  <2>3. b.file[1] = k /\ b.map[1] = k
    BY <1>4, <2>1 DEF IsRow
  <2> QED
    BY <1>3, <2>2, <2>3
<1>5. ASSUME NEW d, NEW since, Witness(d, bundles, files, BlobIds, since) PROVE Witness(d, bundles', files', BlobIds', since)
  <2>1. PICK b \in bundles : b.debug = d /\ Whole(b, files, BlobIds, since)
    BY <1>5 DEF Witness
  <2>2. b.file \notin gone /\ b.map \notin gone
    BY <1>4, <2>1 DEF Whole
  <2>3. /\ b \in bundles' /\ files' = {f \in files : f.id \notin gone}
    BY <1>2, <2>2, DeleteIs DEF FilesInv
  <2>4. BlobIds' = BlobIds
    BY DEF BlobIds
  <2>5. \A i, age : i \notin gone /\ Stands(files, BlobIds, i, age) => Stands(files', BlobIds', i, age)
    BY <2>3, <2>4 DEF Stands
  <2>6. Whole(b, files', BlobIds', since)
    BY <2>1, <2>2, <2>5 DEF Whole
  <2> QED
    BY <2>1, <2>3, <2>6 DEF Witness
<1>6. Moves({j}) /\ \A fs, known, bs : JobOK(j, work', fs, known, bs)
  BY <1>2, Ends
<1>7. JobOK(j, work', files', BlobIds', bundles')
  <2>1. PICK fs, known, bs : fs = files' /\ known = BlobIds' /\ bs = bundles'
    OBVIOUS
  <2> QED
    BY <1>6, <2>1
<1> QED
  BY <1>2, <1>5, <1>6, <1>7, FilesDeleted

\* What a link leaves of the rows: ids and births.
LEMMA LinkIs ==
  ASSUME TableInv, NEW i, NEW b, Link(i, b)
  PROVE  /\ \A f \in files' : \E g \in files : f.id = g.id /\ f.born = g.born /\ (f = g \/ (g.id = i /\ f.blob = b))
         /\ \A g \in files : \E f \in files' : f.id = g.id /\ f.born = g.born /\ (f = g \/ (g.id = i /\ f.blob = b))
         /\ \A f \in files' : f.id = i => f.blob = b
         /\ FileRows(files')
<1> DEFINE As(g) == IF g.id = i THEN [g EXCEPT !.blob = b] ELSE g
<1>1. files' = {As(g) : g \in files} /\ FileRows(files)
  BY DEF Link, TableInv
<1>2. ASSUME NEW g \in files
      PROVE  /\ As(g).id = g.id /\ As(g).born = g.born /\ (As(g) = g \/ (g.id = i /\ As(g).blob = b)) /\ (g.id = i => As(g).blob = b)
             /\ As(g) = [id |-> g.id, sum |-> g.sum, blob |-> As(g).blob, born |-> g.born]
  <2>1. g = [id |-> g.id, sum |-> g.sum, blob |-> g.blob, born |-> g.born]
    BY <1>1 DEF FileRows
  <2>2. CASE g.id = i
    <3>1. As(g) = [id |-> g.id, sum |-> g.sum, blob |-> b, born |-> g.born]
      BY <2>1, <2>2
    <3> HIDE DEF As
    <3> QED
      BY <2>2, <3>1
  <2>3. CASE g.id # i
    BY <2>1, <2>3
  <2> QED
    BY <2>2, <2>3
<1> HIDE DEF As
<1>3. FileRows(files')
  <2>1. ASSUME NEW f \in files'
        PROVE  /\ f = [id |-> f.id, sum |-> f.sum, blob |-> f.blob, born |-> f.born]
               /\ f.id = <<f.id[1], f.id[2]>> /\ f.id[2] \in Nat /\ f.born \in Nat
    <3>1. PICK g \in files : f = As(g)
      BY <1>1
    <3>2. f = [id |-> g.id, sum |-> g.sum, blob |-> f.blob, born |-> g.born]
      BY <1>2, <3>1
    <3>3. g.id = <<g.id[1], g.id[2]>> /\ g.id[2] \in Nat /\ g.born \in Nat
      BY <1>1 DEF FileRows
    <3>4. f.id = g.id /\ f.sum = g.sum /\ f.born = g.born
      BY <3>2
    <3> QED
      BY <3>2, <3>3, <3>4
  <2>2. ASSUME NEW f \in files', NEW g \in files', f.id = g.id PROVE f = g
    <3>1. PICK x, y \in files : f = As(x) /\ g = As(y)
      BY <1>1
    <3>2. x.id = y.id
      BY <1>2, <2>2, <3>1
    <3> QED
      BY <1>1, <3>1, <3>2 DEF FileRows
  <2> QED
    BY <2>1, <2>2 DEF FileRows
<1> QED
  BY <1>1, <1>2, <1>3

\* A job links a File to a blob that exists.
LEMMA FileLinked ==
  ASSUME FilesInv, NEW j \in DOMAIN work, NEW i, NEW b, b \in BlobIds, Moves({j}), Link(i, b),
         bundles' = bundles, blobs' = blobs, clock' = clock, latest' = latest,
         JobOK(j, work', files', BlobIds', bundles')
  PROVE  FilesInv'
<1>1. /\ \A f \in files' : \E g \in files : f.id = g.id /\ f.born = g.born /\ (f = g \/ (g.id = i /\ f.blob = b))
      /\ \A g \in files : \E f \in files' : f.id = g.id /\ f.born = g.born /\ (f = g \/ (g.id = i /\ f.blob = b))
      /\ FileRows(files')
  BY LinkIs DEF FilesInv
<1>2. BlobIds' = BlobIds
  BY DEF BlobIds
<1>3. FilesFrom({j}) /\ BundlesFrom({j}) /\ FilesStay
  BY <1>1, <1>2 DEF FilesFrom, BundlesFrom, FilesStay
<1>4. PromiseInv'
  <2>1. \A d \in DOMAIN latest : Witness(d, bundles, files, BlobIds, latest[d]) => Witness(d, bundles', files', BlobIds', latest[d])
    BY <1>3, WitnessesStay
  <2>2. clock' \in Nat /\ clock' >= clock /\ DOMAIN work' = DOMAIN work
    BY DEF FilesInv, WorkInv, Moves
  <2> QED
    BY <1>3, <2>1, <2>2, PromiseKept, CompleteStays DEF FilesInv
<1>5. BundleRows(bundles', work')
  <2>1. PICK J : J = {j}
    OBVIOUS
  <2> QED
    BY <2>1, RowsStay DEF FilesInv
<1> QED
  BY <1>1, <1>3, <1>4, <1>5, JobMoves DEF TableInv, FilesInv

\* The upload's File, and that of a part, get their content.
LEMMA LinkBundleKeeps ==
  ASSUME FilesInv, NEW j \in DOMAIN work, LinkBundle(j)
  PROVE  FilesInv'
<1>1. work[j].pc = "link" /\ blobs' = blobs /\ clock' = clock /\ latest' = latest
  BY DEF LinkBundle
<1>2. Memory(j, work[j], DOMAIN work) /\ IsWork(work[j]) /\ WorkInv /\ work[j].pc \notin Landed /\ Phase(work[j]) = "link"
  BY <1>1, JobIs DEF FilesInv, Landed, Phase
<1>3. CASE End(j) /\ UNCHANGED <<files, bundles, difs>>
  BY <1>1, <1>3, EndKeeps DEF Quiet, BlobIds
<1>4. CASE FailAndCleanup(j)
  BY <1>1, <1>4, FailKeeps
<1>5. CASE work[j].blob \in BlobIds /\ Link(work[j].bundle, work[j].blob) /\ Goto(j, "part") /\ bundles' = bundles
  <2>1. PICK i, b : i = work[j].bundle /\ b = work[j].blob
    OBVIOUS
  <2>2. /\ Moves({j}) /\ IsWork(work'[j]) /\ work'[j].pc = "part" /\ work'[j].ret = work[j].ret
        /\ work'[j].bundle = work[j].bundle /\ work'[j].made = work[j].made /\ work'[j].old = work[j].old
    BY <1>2, <1>5, Goes
  <2>3. Phase(work'[j]) = "part"
    BY <2>2 DEF Phase
  <2>4. Memory(j, work'[j], DOMAIN work')
    BY <1>2, <2>2, <2>3 DEF Memory, Assembling, Fresh, Finishing, Moves
  <2>5. work[j].made = <<>> /\ Len(<<>>) = 0
    BY <1>2 DEF Memory
  <2>6. Own(j, work'[j], files', BlobIds')
    <3>1. \A last : last = 0 => Linked(files', BlobIds', j, last)
      BY DEF Linked
    <3>2. Counter(work'[j]) = Counter(work[j])
      BY <2>2 DEF Counter
    <3>3. \A f \in files : f.id[1] = j => f.id[2] < Counter(work[j])
      BY <1>2, JobIs DEF Own, Landed
    <3>4. \A f \in files' : \E g \in files : f.id = g.id
      BY <1>5, <2>1, LinkIs DEF FilesInv
    <3> QED
      BY <2>2, <2>3, <2>5, <3>1, <3>2, <3>3, <3>4 DEF Own
  <2>7. OldFiles(j, work') /\ Replaced(j, work'[j], bundles')
    BY <2>2, <2>3 DEF OldFiles, Replaced, Finishing
  <2>8. JobOK(j, work', files', BlobIds', bundles')
    BY <2>4, <2>6, <2>7 DEF JobOK
  <2> QED
    BY <1>1, <1>5, <2>1, <2>2, <2>8, FileLinked
<1> QED
  BY <1>3, <1>4, <1>5 DEF LinkBundle

LEMMA PutfileKeeps ==
  ASSUME FilesInv, NEW j \in DOMAIN work, Putfile(j)
  PROVE  FilesInv'
<1>1. work[j].pc = "putfile" /\ blobs' = blobs /\ clock' = clock /\ latest' = latest /\ bundles' = bundles
  BY DEF Putfile
<1>2. Memory(j, work[j], DOMAIN work) /\ IsWork(work[j]) /\ WorkInv /\ work[j].pc \notin Landed /\ Phase(work[j]) = "putfile"
  BY <1>1, JobIs DEF FilesInv, Landed, Phase
<1>3. CASE End(j) /\ UNCHANGED files
  BY <1>1, <1>3, EndKeeps DEF Quiet, BlobIds
<1>4. CASE work[j].blob \in BlobIds /\ Link(Last(work[j].made), work[j].blob) /\ Goto(j, "part")
  <2>1. PICK i, b, len : i = Last(work[j].made) /\ b = work[j].blob /\ len = Len(work[j].made)
    OBVIOUS
  <2>2. len \in Nat /\ len > 0 /\ i = <<j, len>>
    <3>1. len \in Nat /\ len > 0
      BY <1>2, <2>1, MadeIs DEF Memory
    <3>2. \A n \in 1 .. len : work[j].made[n] = <<j, n>>
      BY <2>1, MadeIs
    <3> QED
      BY <2>1, <3>1, <3>2 DEF Last
  <2>3. /\ Moves({j}) /\ IsWork(work'[j]) /\ work'[j].pc = "part" /\ work'[j].ret = work[j].ret
        /\ work'[j].bundle = work[j].bundle /\ work'[j].made = work[j].made /\ work'[j].old = work[j].old
    BY <1>2, <1>4, Goes
  <2>4. Phase(work'[j]) = "part"
    BY <2>3 DEF Phase
  <2>5. Memory(j, work'[j], DOMAIN work')
    BY <1>2, <2>3, <2>4 DEF Memory, Assembling, Fresh, Finishing, Moves
  <2>6. BlobIds' = BlobIds
    BY <1>1 DEF BlobIds
  <2>7. /\ \A f \in files' : \E g \in files : f.id = g.id /\ (f = g \/ (g.id = i /\ f.blob = b))
        /\ \A f \in files' : f.id = i => f.blob = b
    BY <1>4, <2>1, LinkIs DEF FilesInv
  <2>8. Own(j, work'[j], files', BlobIds')
    <3>1. Linked(files, BlobIds, j, len - 1)
      BY <1>2, <2>1, JobIs DEF Own
    <3>2. Linked(files', BlobIds', j, len)
      <4> SUFFICES ASSUME NEW f \in files', NEW n \in 1 .. len, f.id = <<j, n>> PROVE f.blob \in BlobIds
        BY <2>6 DEF Linked
      <4>1. CASE n = len
        BY <1>4, <2>1, <2>2, <2>7, <4>1
      <4>2. CASE n # len
        <5>1. n \in 1 .. (len - 1) /\ f.id # i
          BY <2>2, <4>2
        <5>2. f \in files
          BY <2>7, <5>1
        <5> QED
          BY <3>1, <5>1, <5>2 DEF Linked
      <4> QED
        BY <4>1, <4>2
    <3>3. Counter(work'[j]) = Counter(work[j])
      BY <2>3 DEF Counter
    <3>4. \A f \in files : f.id[1] = j => f.id[2] < Counter(work[j])
      BY <1>2, JobIs DEF Own, Landed
    <3> QED
      BY <2>1, <2>3, <2>4, <2>7, <3>2, <3>3, <3>4 DEF Own
  <2>9. OldFiles(j, work') /\ Replaced(j, work'[j], bundles')
    BY <2>3, <2>4 DEF OldFiles, Replaced, Finishing
  <2>10. JobOK(j, work', files', BlobIds', bundles')
    BY <2>5, <2>8, <2>9 DEF JobOK
  <2> QED
    BY <1>1, <1>4, <2>1, <2>3, <2>10, FileLinked
<1> QED
  BY <1>3, <1>4 DEF Putfile

\* The File of a part, not linked yet.
LEMMA CreateArtifactKeeps ==
  ASSUME FilesInv, NEW j \in DOMAIN work, CreateArtifact(j)
  PROVE  FilesInv'
<1>1. work[j].pc = "part" /\ blobs' = blobs /\ clock' = clock /\ latest' = latest /\ Len(work[j].made) < Len(Parts(j))
  BY DEF CreateArtifact, Parts
<1>2. Memory(j, work[j], DOMAIN work) /\ IsWork(work[j]) /\ WorkInv /\ work[j].pc \notin Landed /\ Phase(work[j]) = "part"
  BY <1>1, JobIs DEF FilesInv, Landed, Phase
<1>3. CASE FailAndCleanup(j)
  BY <1>1, <1>3, FailKeeps
<1>4. CASE ~FailAndCleanup(j)
  <2>1. PICK sum, i, len : sum = PartAt(j).sum /\ i = NewId(j) /\ len = Len(work[j].made)
    OBVIOUS
  <2>2. /\ files' = files \cup {NewFile(j, sum, Null)} /\ bundles' = bundles
        /\ work' = [work EXCEPT ![j].pc = "select", ![j].ret = "putfile", ![j].want = sum, ![j].made = Append(work[j].made, i)]
    BY <1>4, <2>1 DEF CreateArtifact
  <2>3. Moves({j})
    BY <1>2, <2>2 DEF Moves, WorkInv
  <2>4. PICK v, w : v = work[j] /\ w = work'[j]
    OBVIOUS
  <2>5. w = [v EXCEPT !.pc = "select", !.ret = "putfile", !.want = sum, !.made = Append(v.made, i)]
    BY <2>2, <2>4
  <2>6. w = [pc |-> "select", bundle |-> v.bundle, made |-> Append(v.made, i), old |-> v.old, want |-> sum, blob |-> v.blob,
             ret |-> "putfile"]
    BY <1>2, <2>4, <2>5 DEF IsWork
  <2>7. /\ IsWork(w) /\ w.pc = "select" /\ w.ret = "putfile" /\ w.made = Append(v.made, i) /\ w.bundle = v.bundle
        /\ Phase(w) = "putfile"
    BY <2>6 DEF IsWork, Phase
  <2>8. len \in Nat /\ v.bundle = <<j, 0>> /\ v.bundle # Null /\ len < Len(Parts(j)) /\ Len(Parts(j)) \in Nat
    <3>1. v.bundle = <<j, 0>>
      BY <1>2, <2>4 DEF Memory, Assembling
    <3>2. Len(Parts(j)) \in Nat
      BY <1>2, PartsAre DEF WorkInv
    <3> QED
      BY <1>1, <2>1, <3>1, <3>2, MadeIs DEF Null
  <2>9. Counter(work[j]) = len + 1 /\ i = <<j, len + 1>>
    <3>1. Counter(work[j]) = Len(work[j].made) + IF work[j].bundle = Null THEN 0 ELSE 1
      BY DEF Counter
    <3>2. Counter(work[j]) = len + 1
      BY <2>1, <2>4, <2>8, <3>1
    <3> QED
      BY <2>1, <3>2, JobIs
  <2>10. /\ w.made \in Seq((DOMAIN work) \X Nat) /\ Len(w.made) = len + 1
         /\ \A n \in 1 .. (len + 1) : w.made[n] = <<j, n>>
    <3>1. PICK made, S : made = work[j].made /\ S = (DOMAIN work) \X Nat
      OBVIOUS
    <3>2. made \in Seq(S) /\ i \in S /\ len = Len(made) /\ \A n \in 1 .. len : made[n] = <<j, n>>
      <4>1. made \in Seq(S) /\ len = Len(made)
        BY <2>1, <3>1, MadeIs
      <4>2. \A n \in 1 .. len : made[n] = <<j, n>>
        BY <2>1, <3>1, MadeIs
      <4>3. i \in S
        BY <2>8, <2>9, <3>1
      <4> QED
        BY <4>1, <4>2, <4>3
    <3>3. /\ Append(made, i) \in Seq(S) /\ Len(Append(made, i)) = len + 1
          /\ \A n \in 1 .. len : Append(made, i)[n] = made[n]
          /\ Append(made, i)[len + 1] = i
      BY <2>8, <3>2, AppendProperties
    <3>4. \A n \in 1 .. (len + 1) : n \in 1 .. len \/ n = len + 1
      BY <2>8
    <3>5. w.made = Append(made, i)
      BY <2>4, <2>7, <3>1
    <3> QED
      BY <2>9, <3>1, <3>2, <3>3, <3>4, <3>5
  <2>11. Memory(j, w, DOMAIN work)
    <3>1. Jobs[j].kind = "artifact"
      BY <1>2 DEF Memory, Assembling
    <3>2. \A n \in 1 .. Len(w.made) : w.made[n] = <<j, n>>
      BY <2>10
    <3>3. Len(w.made) <= Len(Parts(j)) /\ Len(w.made) > 0
      BY <2>8, <2>10
    <3> QED
      BY <2>7, <2>8, <2>10, <3>1, <3>2, <3>3 DEF Memory, Assembling, Fresh, Returns, Finishing
  <2>12. NewFile(j, sum, Null).id = <<j, len + 1>> /\ BlobIds' = BlobIds
    BY <1>1, <2>1, <2>9 DEF NewFile, BlobIds
  <2>13. Own(j, w, files', BlobIds')
    <3>1. Linked(files, BlobIds, j, len)
      BY <1>2, <2>1, JobIs DEF Own
    <3>2. Linked(files', BlobIds', j, Len(w.made) - 1)
      <4>1. Len(w.made) - 1 = len
        BY <2>8, <2>10
      <4> SUFFICES ASSUME NEW f \in files', NEW n \in 1 .. len, f.id = <<j, n>> PROVE f.blob \in BlobIds
        BY <2>12, <4>1 DEF Linked
      <4>2. n # len + 1
        BY <2>8
      <4>3. f \in files
        BY <2>2, <2>12, <4>2
      <4> QED
        BY <3>1, <4>3 DEF Linked
    <3>3. Counter(w) = len + 2
      <4>1. Counter(w) = Len(w.made) + IF w.bundle = Null THEN 0 ELSE 1
        BY DEF Counter
      <4> QED
        BY <2>7, <2>8, <2>10, <4>1
    <3>4. \A f \in files : f.id[1] = j => f.id[2] < len + 1
      BY <1>2, <2>9, JobIs DEF Own, Landed
    <3>5. \A f \in files : f.id[2] \in Nat
      BY DEF FilesInv, TableInv, FileRows
    <3>6. \A f \in files' : f.id[1] = j => f.id[2] < len + 2
      BY <2>2, <2>8, <2>12, <3>4, <3>5
    <3> QED
      BY <2>7, <3>2, <3>3, <3>6 DEF Own
  <2>14. OldFiles(j, work') /\ Replaced(j, w, bundles')
    BY <2>4, <2>7 DEF OldFiles, Replaced, Finishing
  <2>15. JobOK(j, work', files', BlobIds', bundles')
    BY <2>3, <2>4, <2>11, <2>13, <2>14 DEF JobOK, Moves
  <2>16. PICK null : null = Null
    OBVIOUS
  <2> QED
    BY <1>1, <1>2, <2>2, <2>3, <2>15, <2>16, FileAdded DEF Landed
<1> QED
  BY <1>3, <1>4

(***************************************************************************)
(* Bundles are replaced                                                    *)
(***************************************************************************)
\* The row of a part, and the part a debug id's row is made of.
RowAt(j, n) == [debug |-> Parts(j)[n].debug, file |-> <<j, n>>,
                map |-> IF Parts(j)[n].map = 0 THEN Null ELSE <<j, Parts(j)[n].map>>, used |-> clock]
Mine(j, d) == {n \in DOMAIN Parts(j) : Parts(j)[n].debug = d}
Full(j, d) == {n \in Mine(j, d) : Parts(j)[n].map # 0}
BestAt(j, d) == IF Full(j, d) # {} THEN Max(Full(j, d)) ELSE Min(Mine(j, d))

\* The best part is one, with a source map where there is one.
LEMMA BestIs ==
  ASSUME NEW j \in DOMAIN Jobs, NEW d, Mine(j, d) # {}
  PROVE  BestAt(j, d) \in Mine(j, d) /\ (Full(j, d) # {} => BestAt(j, d) \in Full(j, d))
<1>1. PICK len \in Nat : DOMAIN Parts(j) = 1 .. len
  BY PartsAre
<1>2. CASE Full(j, d) # {}
  <2>1. PICK S : S = Full(j, d) /\ S \subseteq 1 .. len /\ S # {}
    BY <1>1, <1>2 DEF Full, Mine
  <2>2. Max(S) \in S
    BY <2>1, MaxIs
  <2> QED
    BY <1>2, <2>1, <2>2 DEF BestAt, Full
<1>3. CASE Full(j, d) = {}
  <2>1. PICK S : S = Mine(j, d) /\ S \subseteq Nat /\ S # {}
    <3>1. Mine(j, d) \subseteq 1 .. len
      BY <1>1 DEF Mine
    <3>2. Mine(j, d) \subseteq Nat
      BY <3>1
    <3> QED
      BY <3>2
  <2>2. Min(S) \in S
    BY <2>1, MinIs
  <2> QED
    BY <1>3, <2>1, <2>2 DEF BestAt
<1> QED
  BY <1>2, <1>3

\* Once every part has its File, the bundles are rows of parts, and the complete ones
\* have the debug ids of the parts with a source map.
LEMMA BundlesAre ==
  ASSUME FilesInv, NEW j \in DOMAIN work, Phase(work[j]) \in Finishing \cup {"part"}, Len(work[j].made) = Len(Parts(j))
  PROVE  /\ \A b \in BundlesOf(j) : \E n \in DOMAIN Parts(j) : b = RowAt(j, n)
         /\ Debugs(Complete(j)) = Renewed(j) /\ OneEach(BundlesOf(j))
<1>1. j \in DOMAIN Jobs
  BY JobIs
<1>2. \A n \in DOMAIN Parts(j) : work[j].made[n] = <<j, n>>
  BY <1>1, PartsAre, MadeIs
<1>3. \A n \in DOMAIN Parts(j) : Parts(j)[n].map # 0 => Parts(j)[n].map \in DOMAIN Parts(j)
  BY <1>1, PartsAre
<1> DEFINE Row(i) == [debug |-> Parts(j)[i].debug, file |-> work[j].made[i],
                      map |-> IF Parts(j)[i].map = 0 THEN Null ELSE work[j].made[Parts(j)[i].map], used |-> clock]
           rows == {Row(i) : i \in DOMAIN Parts(j)}
<1>4. BundlesOf(j) = {r \in rows : r.debug = "none"} \cup {Row(BestAt(j, d)) : d \in {r.debug : r \in rows} \ {"none"}}
  BY DEF BundlesOf, BestAt, Full, Mine, Parts
<1>5. \A n \in DOMAIN Parts(j) : Row(n) = RowAt(j, n)
  BY <1>2, <1>3 DEF RowAt
<1> HIDE DEF Row
<1>6. \A d \in {r.debug : r \in rows} : Mine(j, d) # {} /\ BestAt(j, d) \in Mine(j, d) /\ (Full(j, d) # {} => BestAt(j, d) \in Full(j, d))
  <2> SUFFICES ASSUME NEW d \in {r.debug : r \in rows}
               PROVE  Mine(j, d) # {} /\ BestAt(j, d) \in Mine(j, d) /\ (Full(j, d) # {} => BestAt(j, d) \in Full(j, d))
    OBVIOUS
  <2>1. PICK n \in DOMAIN Parts(j) : d = RowAt(j, n).debug
    BY <1>5
  <2>2. Mine(j, d) # {}
    BY <2>1 DEF Mine, RowAt
  <2> QED
    BY <1>1, <2>2, BestIs
<1>7. ASSUME NEW b \in BundlesOf(j) PROVE \E n \in DOMAIN Parts(j) : b = RowAt(j, n)
  <2>1. CASE b \in rows
    BY <1>5, <2>1
  <2>2. ASSUME NEW d \in {r.debug : r \in rows}, b = Row(BestAt(j, d)) PROVE \E n \in DOMAIN Parts(j) : b = RowAt(j, n)
    BY <1>5, <1>6, <2>2 DEF Mine
  <2> HIDE DEF rows
  <2> QED
    BY <1>4, <2>1, <2>2
<1>8. ASSUME NEW b \in Complete(j), b.debug # "none" PROVE b.debug \in Renewed(j)
  <2>1. PICK n \in DOMAIN Parts(j) : b = RowAt(j, n)
    BY <1>7 DEF Complete
  <2>2. Parts(j)[n].map # 0 /\ b.debug = Parts(j)[n].debug
    BY <2>1 DEF Complete, RowAt
  <2> QED
    BY <1>8, <2>2 DEF Renewed
<1>9. ASSUME NEW d \in Renewed(j) PROVE \E b \in Complete(j) : b.debug = d
  <2>1. PICK n \in DOMAIN Parts(j) : Parts(j)[n].map # 0 /\ Parts(j)[n].debug = d /\ d # "none"
    BY DEF Renewed
  <2>2. Full(j, d) # {}
    BY <2>1 DEF Full, Mine
  <2>3. d \in {r.debug : r \in rows}
    <3>1. RowAt(j, n) \in rows /\ RowAt(j, n).debug = d
      BY <1>5, <2>1 DEF RowAt
    <3> HIDE DEF rows
    <3> QED
      BY <3>1
  <2>4. PICK m : m = BestAt(j, d) /\ m \in DOMAIN Parts(j) /\ Parts(j)[m].debug = d /\ Parts(j)[m].map # 0
    BY <1>6, <2>2, <2>3 DEF Full, Mine
  <2>5. RowAt(j, m) = Row(BestAt(j, d)) /\ RowAt(j, m) \in BundlesOf(j)
    <3> HIDE DEF rows
    <3> QED
      BY <1>4, <1>5, <2>1, <2>3, <2>4
  <2>6. RowAt(j, m).debug = d /\ RowAt(j, m).map # Null
    BY <2>4 DEF RowAt, Null
  <2> QED
    BY <2>5, <2>6 DEF Complete
<1>10. "none" \notin Renewed(j)
  BY DEF Renewed
<1>11. OneEach(BundlesOf(j))
  <2>1. ASSUME NEW b \in BundlesOf(j), b.debug # "none" PROVE b = Row(BestAt(j, b.debug))
    <3>1. PICK d \in {r.debug : r \in rows} : b = Row(BestAt(j, d))
      <4> HIDE DEF rows
      <4> QED
        BY <1>4, <2>1
    <3>2. BestAt(j, d) \in DOMAIN Parts(j) /\ Parts(j)[BestAt(j, d)].debug = d
      BY <1>6 DEF Mine
    <3>3. b.debug = d
      BY <1>5, <3>1, <3>2 DEF RowAt
    <3> QED
      BY <3>1, <3>3
  <2> QED
    BY <2>1 DEF OneEach
<1> QED
  BY <1>7, <1>8, <1>9, <1>10, <1>11 DEF Debugs

\* What is to be replaced is read.
LEMMA ReadReplacedKeeps ==
  ASSUME FilesInv, NEW j \in DOMAIN work, ReadReplaced(j)
  PROVE  FilesInv'
<1>1. work[j].pc = "part" /\ Len(work[j].made) = Len(Parts(j)) /\ Quiet
  BY DEF ReadReplaced, Parts, Quiet, fileRows, BlobIds
<1>2. Memory(j, work[j], DOMAIN work) /\ IsWork(work[j]) /\ WorkInv /\ work[j].pc \notin Landed /\ Phase(work[j]) = "part"
  BY <1>1, JobIs DEF FilesInv, Landed, Phase
<1>3. PICK replaced : replaced = {b \in bundles : b.debug \in Debugs(Complete(j))}
  OBVIOUS
<1>4. PICK old : old = ({b.file : b \in replaced} \cup {b.map : b \in replaced}) \ {Null}
  OBVIOUS
<1>5. work' = [work EXCEPT ![j].pc = "upsert", ![j].old = old]
  BY <1>3, <1>4 DEF ReadReplaced
<1>6. Moves({j})
  BY <1>2, <1>5 DEF Moves, WorkInv
<1>7. PICK v, w : v = work[j] /\ w = work'[j]
  OBVIOUS
<1>8. w = [v EXCEPT !.pc = "upsert", !.old = old]
  BY <1>5, <1>7
<1>9. w = [pc |-> "upsert", bundle |-> v.bundle, made |-> v.made, old |-> old, want |-> v.want, blob |-> v.blob, ret |-> v.ret]
  BY <1>2, <1>7, <1>8 DEF IsWork
<1>10. /\ IsWork(w) /\ w.pc = "upsert" /\ w.ret = v.ret /\ w.made = v.made /\ w.bundle = v.bundle /\ w.old = old
       /\ Phase(w) = "upsert"
  BY <1>9 DEF IsWork, Phase
<1>11. Memory(j, w, DOMAIN work)
  <2>1. \A n \in 1 .. Len(w.made) : w.made[n] = <<j, n>>
    BY <1>7, <1>10, MadeIs
  <2> QED
    BY <1>1, <1>2, <1>7, <1>10, <2>1 DEF Memory, Assembling, Fresh
<1>12. Own(j, w, files', BlobIds')
  <2>1. Counter(w) = Counter(v) /\ Own(j, v, files, BlobIds)
    BY <1>7, <1>10, JobIs DEF Counter
  <2>2. \A last : Linked(files, BlobIds, j, last) => Linked(files', BlobIds', j, last)
    BY <1>1 DEF Quiet, Linked
  <2> QED
    BY <1>1, <1>2, <1>7, <1>10, <2>1, <2>2 DEF Own, Landed, Quiet
<1>13. ASSUME NEW i \in old PROVE Replaces(j, i, work)
  <2>1. PICK b \in bundles : b.debug \in Debugs(Complete(j)) /\ (i = b.file \/ i = b.map) /\ i # Null
    BY <1>3, <1>4
  <2>2. PICK k \in DOMAIN work : work[k].pc \in Landed /\ \E n \in DOMAIN Parts(k) : IsRow(b, k, n)
    BY RowIs DEF FilesInv
  <2>3. PICK n \in DOMAIN Parts(k) : IsRow(b, k, n)
    BY <2>2
  <2>4. b.debug = Parts(k)[n].debug /\ b.file = <<k, n>> /\ (b.map = Null \/ (Parts(k)[n].map # 0 /\ b.map = <<k, Parts(k)[n].map>>))
    BY <2>3 DEF IsRow
  <2>5. b.debug \in Renewed(j)
    BY <1>1, <1>2, <2>1, BundlesAre
  <2>6. OfRenewed(i, j, k, n)
    BY <2>1, <2>4, <2>5 DEF OfRenewed
  <2>7. k # j
    BY <1>2, <2>2
  <2> QED
    BY <2>2, <2>6, <2>7 DEF Replaces
<1>14. OldFiles(j, work') /\ Replaced(j, w, bundles')
  <2>1. \A i \in w.old : Replaces(j, i, work')
    <3>1. PICK J : J = {j}
      OBVIOUS
    <3> QED
      BY <1>6, <1>10, <1>13, <3>1, ReplacesStays
  <2> QED
    BY <1>7, <1>10, <2>1 DEF OldFiles, Replaced
<1>15. JobOK(j, work', files', BlobIds', bundles')
  BY <1>6, <1>7, <1>11, <1>12, <1>14 DEF JobOK, Moves
<1> QED
  BY <1>1, <1>6, <1>15, QuietMove DEF Quiet

\* The steps that write bundles go on.
LEMMA GoesOn ==
  ASSUME FilesInv, NEW j \in DOMAIN work, NEW pc, pc \in {"ignore", "drop"}, work[j].pc \in {"upsert", "ignore"},
         Goto(j, pc), files' = files, BlobIds' = BlobIds
  PROVE  /\ Moves({j}) /\ work'[j].pc = pc /\ work'[j].old = work[j].old
         /\ Memory(j, work'[j], DOMAIN work') /\ Own(j, work'[j], files', BlobIds') /\ OldFiles(j, work')
<1>1. Memory(j, work[j], DOMAIN work) /\ Own(j, work[j], files, BlobIds) /\ IsWork(work[j]) /\ OldFiles(j, work)
  BY JobIs DEF JobOK
<1>2. Moves({j})
  <2>1. DOMAIN work' = DOMAIN work /\ work' = [k \in DOMAIN work' |-> work'[k]]
    BY DEF FilesInv, WorkInv, Goto
  <2>2. \A k \in (DOMAIN work) \ {j} : work'[k] = work[k]
    BY DEF FilesInv, WorkInv, Goto
  <2>3. work'[j] = [work[j] EXCEPT !.pc = pc]
    BY DEF FilesInv, WorkInv, Goto
  <2>4. work'[j].pc = pc
    <3>1. PICK v, w : v = work[j] /\ w = work'[j]
      OBVIOUS
    <3>2. w = [v EXCEPT !.pc = pc] /\ IsWork(v)
      BY <1>1, <2>3, <3>1
    <3>3. w.pc = pc
      BY <3>2 DEF IsWork
    <3> QED
      BY <3>1, <3>3
  <2>5. work'[j].pc \in Landed
    BY <2>4 DEF Landed
  <2> QED
    BY <2>1, <2>2, <2>5 DEF Moves
<1>3. PICK v, w : v = work[j] /\ w = work'[j]
  OBVIOUS
<1>4. w = [v EXCEPT !.pc = pc]
  BY <1>3 DEF Goto
<1>5. w = [pc |-> pc, bundle |-> v.bundle, made |-> v.made, old |-> v.old, want |-> v.want, blob |-> v.blob, ret |-> v.ret]
  BY <1>1, <1>3, <1>4 DEF IsWork
<1>6. /\ IsWork(w) /\ w.pc = pc /\ w.ret = v.ret /\ w.bundle = v.bundle /\ w.made = v.made /\ w.old = v.old
      /\ Phase(w) = pc /\ Phase(v) \in {"upsert", "ignore"} /\ v.pc # "done"
  BY <1>3, <1>5 DEF IsWork, Phase
<1>7. Memory(j, w, DOMAIN work')
  <2>1. \A n \in 1 .. Len(w.made) : w.made[n] = <<j, n>>
    BY <1>3, <1>6, MadeIs
  <2>2. w.made \in Seq((DOMAIN work) \X Nat) /\ DOMAIN work' = DOMAIN work
    BY <1>2, <1>3, <1>6, MadeIs DEF Moves
  <2> QED
    BY <1>1, <1>3, <1>6, <2>1, <2>2 DEF Memory, Assembling, Finishing, Fresh
<1>8. Own(j, w, files', BlobIds')
  <2>1. Counter(w) = Counter(v)
    BY <1>6 DEF Counter
  <2> QED
    BY <1>1, <1>3, <1>6, <2>1 DEF Own
<1>9. OldFiles(j, work')
  <2>1. \A i \in v.old : Replaces(j, i, work)
    BY <1>1, <1>3, <1>6 DEF OldFiles, Finishing
  <2>2. \A i \in v.old : Replaces(j, i, work')
    <3>1. PICK J : J = {j}
      OBVIOUS
    <3> QED
      BY <1>2, <2>1, <3>1, ReplacesStays
  <2> QED
    BY <1>3, <1>6, <2>2 DEF OldFiles
<1> QED
  BY <1>2, <1>3, <1>6, <1>7, <1>8, <1>9

\* The row of a part is one of the upload.
LEMMA RowAtIs ==
  ASSUME clock \in Nat, NEW j \in DOMAIN Jobs, NEW n \in DOMAIN Parts(j), NEW b, b = RowAt(j, n)
  PROVE  /\ IsRow(b, j, n) /\ b.debug = Parts(j)[n].debug /\ b.file = <<j, n>>
         /\ (Parts(j)[n].map = 0 => b.map = Null)
         /\ (Parts(j)[n].map # 0 => b.map = <<j, Parts(j)[n].map>> /\ b.map # Null)
<1>1. CASE Parts(j)[n].map = 0
  BY <1>1 DEF RowAt, IsRow
<1>2. CASE Parts(j)[n].map # 0
  <2>1. <<j, Parts(j)[n].map>> # Null
    BY DEF Null
  <2>2. b = [debug |-> Parts(j)[n].debug, file |-> <<j, n>>, map |-> <<j, Parts(j)[n].map>>, used |-> clock]
    BY <1>2 DEF RowAt
  <2> QED
    BY <1>2, <2>1, <2>2 DEF IsRow
<1> QED
  BY <1>1, <1>2

\* A bundle's last use is one of a row, or now.
LEMMA LastUsedIs == ASSUME TableInv, clock \in Nat, NEW d PROVE LastUsed(d) \in Nat
<1>1. \A b \in bundles : b.used \in Nat
  BY DEF TableInv, BundleRows, RowOf, IsRow
<1>2. ASSUME d \in Debugs(bundles) PROVE \E b \in bundles : b.debug = d
  BY <1>2 DEF Debugs
<1> QED
  BY <1>1, <1>2 DEF LastUsed

\* The complete bundles replace those of their debug ids.
LEMMA UpsertKeeps ==
  ASSUME FilesInv, NEW j \in DOMAIN work, UpsertComplete(j)
  PROVE  FilesInv'
<1>1. work[j].pc = "upsert" /\ clock' = clock /\ files' = files /\ blobs' = blobs /\ BlobIds' = BlobIds
  BY DEF UpsertComplete, BlobIds
<1>2. Phase(work[j]) = "upsert" /\ work[j].pc \notin Landed /\ j \in DOMAIN Jobs
  BY <1>1, JobIs DEF Phase, Landed
<1>0. TableInv /\ clock \in Nat
  BY DEF FilesInv, WorkInv
<1>3. CASE End(j) /\ UNCHANGED <<bundles, latest>>
  BY <1>1, <1>3, EndKeeps DEF Quiet
<1>4. CASE ~(End(j) /\ UNCHANGED <<bundles, latest>>)
  <2>1. PICK debugs, new, given : /\ debugs = Debugs(Complete(j)) /\ given = Complete(j)
                                  /\ new = {[b EXCEPT !.used = LastUsed(b.debug)] : b \in given}
    OBVIOUS
  <2>2. PICK since : since = Min({FileRow(i).born : i \in ToSet(work[j].made)})
    OBVIOUS
  <2>3. /\ ToSet(work[j].made) \subseteq FileIds /\ Goto(j, "ignore")
        /\ bundles' = {b \in bundles : b.debug \notin debugs} \cup new
        /\ latest' = [d \in DOMAIN latest \cup debugs |-> IF d \in debugs THEN [born |-> since, used |-> LastUsed(d)] ELSE latest[d]]
    BY <1>4, <2>1, <2>2 DEF UpsertComplete
  <2>4. /\ Moves({j}) /\ work'[j].pc = "ignore" /\ work'[j].old = work[j].old
        /\ Memory(j, work'[j], DOMAIN work') /\ Own(j, work'[j], files', BlobIds') /\ OldFiles(j, work')
    BY <1>1, <2>3, GoesOn
  <2>5. Len(work[j].made) = Len(Parts(j))
    BY <1>2, JobIs DEF Memory, Finishing
  <2>6. (\A c \in given : \E n \in DOMAIN Parts(j) : c = RowAt(j, n)) /\ debugs = Renewed(j) /\ OneEach(given)
    BY <1>2, <2>1, <2>5, BundlesAre DEF Complete, Finishing, OneEach
  <2>7. ASSUME NEW b \in new
        PROVE  /\ \E n \in DOMAIN Parts(j) :
                    /\ IsRow(b, j, n) /\ b.debug = Parts(j)[n].debug /\ b.file = <<j, n>> /\ b.map = <<j, Parts(j)[n].map>>
                    /\ b.map # Null /\ Parts(j)[n].map \in DOMAIN Parts(j)
               /\ b.used = LastUsed(b.debug) /\ b.used \in Nat
               /\ \E c \in given : c.debug = b.debug /\ b = [c EXCEPT !.used = LastUsed(c.debug)]
    <3>1. PICK c \in given : b = [c EXCEPT !.used = LastUsed(c.debug)]
      BY <2>1
    <3>2. PICK n \in DOMAIN Parts(j) : c = RowAt(j, n)
      BY <2>6
    <3>3. PICK debug, map, used : debug = Parts(j)[n].debug /\ used = LastUsed(debug) /\ map = <<j, Parts(j)[n].map>>
      OBVIOUS
    <3>4. Parts(j)[n].map # 0 /\ map # Null
      <4>1. c.map # Null
        BY <2>1 DEF Complete
      <4> QED
        BY <3>2, <3>3, <4>1 DEF RowAt, Null
    <3>5. c = [debug |-> debug, file |-> <<j, n>>, map |-> map, used |-> clock]
      BY <3>2, <3>3, <3>4 DEF RowAt
    <3>6. b = [debug |-> debug, file |-> <<j, n>>, map |-> map, used |-> used]
      BY <3>1, <3>3, <3>5
    <3>7. used \in Nat
      BY <1>0, <3>3, LastUsedIs
    <3>8. IsRow(b, j, n)
      BY <3>3, <3>4, <3>6, <3>7 DEF IsRow
    <3>9. Parts(j)[n].map \in DOMAIN Parts(j)
      BY <1>2, <3>4, PartsAre
    <3> QED
      BY <3>1, <3>3, <3>4, <3>5, <3>6, <3>7, <3>8, <3>9
  <2>8. FilesFrom({j}) /\ BundlesFrom({j})
    <3>1. \A b \in new : b.file[1] = j /\ b.map[1] = j
      BY <2>7
    <3> QED
      BY <1>1, <1>2, <2>3, <3>1 DEF FilesFrom, BundlesFrom
  <2>9. TableInv'
    <3>1. ASSUME NEW b \in new PROVE RowOf(b, work')
      <4>1. \E n \in DOMAIN Parts(j) : IsRow(b, j, n)
        BY <2>7
      <4>2. work'[j].pc \in Landed /\ j \in DOMAIN work'
        BY <2>4 DEF Landed, Moves
      <4> QED
        BY <4>1, <4>2 DEF RowOf
    <3>2. BundleRows(bundles', work')
      <4>1. PICK J : J = {j}
        OBVIOUS
      <4>2. \A b \in bundles' : RowOf(b, work') \/ \E c \in bundles : b = c \/ b = [c EXCEPT !.map = Null]
        BY <2>3, <3>1
      <4> QED
        BY <2>4, <4>1, <4>2, RowsStay DEF FilesInv
    <3>3. ASSUME NEW b \in bundles', NEW c \in bundles', b.debug = c.debug, b.debug # "none" PROVE b = c
      <4>1. ASSUME NEW x \in new, x.debug # "none" PROVE x.debug \in debugs
        BY <2>1, <2>7, <4>1 DEF Debugs
      <4>2. CASE b \in new /\ c \in new
        BY <2>6, <2>7, <3>3, <4>2 DEF OneEach
      <4>3. CASE b \in bundles /\ c \in bundles
        BY <1>0, <3>3, <4>3 DEF TableInv, OneEach
      <4> QED
        BY <2>3, <3>3, <4>1, <4>2, <4>3
    <3> QED
      BY <1>0, <1>1, <3>2, <3>3 DEF TableInv, OneEach
  <2>10. Replaced(j, work'[j], bundles')
    <3> SUFFICES ASSUME NEW b \in bundles', b.map # Null, b.debug \in Renewed(j)
                 PROVE  b.file \notin work[j].old /\ b.map \notin work[j].old
      BY <2>4 DEF Replaced
    <3>1. b \in new
      BY <2>3, <2>6
    <3>2. b.file[1] = j /\ b.map[1] = j
      BY <2>7, <3>1
    <3>3. ASSUME NEW i \in work[j].old PROVE i[1] # j
      <4>1. Replaces(j, i, work)
        BY <1>2, JobIs DEF JobOK, OldFiles, Finishing
      <4> QED
        BY <4>1 DEF Replaces, OfRenewed
    <3> QED
      BY <3>2, <3>3
  <2>11. JobOK(j, work', files', BlobIds', bundles')
    BY <2>4, <2>10 DEF JobOK
  <2>12. ASSUME NEW b \in new
         PROVE  Whole(b, files, BlobIds, [born |-> since, used |-> LastUsed(b.debug)]) /\ since \in Nat
    <3>1. PICK n \in DOMAIN Parts(j) : /\ b.file = <<j, n>> /\ b.map = <<j, Parts(j)[n].map>>
                                       /\ b.map # Null /\ Parts(j)[n].map \in DOMAIN Parts(j)
      BY <2>7
    <3>2. PICK births : births = {FileRow(i).born : i \in ToSet(work[j].made)}
      OBVIOUS
    <3>3. FileRows(files)
      BY DEF FilesInv, TableInv
    <3>4. ASSUME NEW i \in ToSet(work[j].made) PROVE FileRow(i) \in files /\ FileRow(i).id = i /\ FileRow(i).born \in Nat
      <4>1. \E f \in files : f.id = i
        BY <2>3 DEF FileIds
      <4> QED
        BY <3>3, <4>1 DEF FileRow, FileRows
    <3>5. \A m \in DOMAIN Parts(j) : <<j, m>> \in ToSet(work[j].made) /\ m \in 1 .. Len(work[j].made)
      BY <1>2, <2>5, PartsAre, MadeIs DEF ToSet
    <3>6. births \subseteq Nat /\ births # {}
      BY <3>1, <3>2, <3>4, <3>5
    <3>7. since \in Nat /\ \A y \in births : since <= y
      BY <2>2, <3>2, <3>6, MinIs
    <3>8. ASSUME NEW m \in DOMAIN Parts(j) PROVE Stands(files, BlobIds, <<j, m>>, since)
      <4>1. PICK f \in files : f = FileRow(<<j, m>>) /\ f.id = <<j, m>> /\ f.born \in Nat /\ f.born \in births
        BY <3>2, <3>4, <3>5
      <4>2. Linked(files, BlobIds, j, Len(work[j].made))
        BY <1>2, JobIs DEF Own
      <4>3. f.blob \in BlobIds
        BY <3>5, <4>1, <4>2 DEF Linked
      <4>4. f.born >= since
        BY <3>7, <4>1
      <4> QED
        BY <4>1, <4>3, <4>4 DEF Stands
    <3>9. b.used >= LastUsed(b.debug)
      BY <2>7
    <3> QED
      BY <3>1, <3>7, <3>8, <3>9 DEF Whole
  <2>13. PromiseInv'
    <3>1. SharingMap' = SharingMap
      BY <2>4 DEF SharingMap, Moves
    <3>2. ASSUME NEW d \in debugs
          PROVE  /\ since \in Nat /\ LastUsed(d) \in Nat /\ d # "none"
                 /\ Witness(d, bundles', files, BlobIds, [born |-> since, used |-> LastUsed(d)])
                 /\ Filed(d, bundles', files, BlobIds, [born |-> since, used |-> LastUsed(d)])
      <4>1. PICK c \in given : c.debug = d /\ d # "none"
        BY <2>1 DEF Debugs
      <4>2. PICK b \in new : b = [c EXCEPT !.used = LastUsed(c.debug)]
        BY <2>1
      <4>3. PICK n \in DOMAIN Parts(j) : c = RowAt(j, n)
        BY <2>6
      <4>4. b.debug = d
        BY <4>1, <4>2, <4>3 DEF RowAt
      <4>5. Filed(d, bundles', files, BlobIds, [born |-> since, used |-> LastUsed(d)])
        BY <2>3, <2>12 DEF Filed, Whole
      <4> QED
        BY <1>0, <2>3, <2>12, <4>1, <4>4, <4>5, LastUsedIs DEF Witness
    <3>3. ASSUME NEW d \in DOMAIN latest, d \notin debugs, Witness(d, bundles, files, BlobIds, latest[d])
          PROVE  Witness(d, bundles', files, BlobIds, latest[d])
      BY <2>3, <3>3 DEF Witness
    <3>6. ASSUME NEW d \in DOMAIN latest, d \notin debugs, d # "none", Filed(d, bundles, files, BlobIds, latest[d])
          PROVE  Filed(d, bundles', files, BlobIds, latest[d])
      <4>1. \A x \in new : x.map # Null /\ (x.debug # "none" => x.debug \in debugs)
        BY <2>1, <2>7 DEF Debugs
      <4> QED
        BY <2>3, <3>6, <4>1 DEF Filed
    <3>4. \A d \in DOMAIN latest' : d \in debugs => latest'[d] = [born |-> since, used |-> LastUsed(d)]
      BY <2>3
    <3>5. \A d \in DOMAIN latest' : d \notin debugs => d \in DOMAIN latest /\ latest'[d] = latest[d]
      BY <2>3
    <3> QED
      BY <1>1, <3>1, <3>2, <3>3, <3>4, <3>5, <3>6 DEF PromiseInv, Promise, FilesInv
  <2> QED
    BY <1>1, <2>4, <2>8, <2>9, <2>11, <2>13, JobMoves
<1> QED
  BY <1>3, <1>4

\* The incomplete bundles go in where nothing is.
LEMMA InsertKeeps ==
  ASSUME FilesInv, NEW j \in DOMAIN work, InsertIncomplete(j)
  PROVE  FilesInv'
<1>1. /\ work[j].pc = "ignore" /\ clock' = clock /\ files' = files /\ blobs' = blobs /\ BlobIds' = BlobIds
      /\ latest' = latest
  BY DEF InsertIncomplete, BlobIds
<1>2. Phase(work[j]) = "ignore" /\ j \in DOMAIN Jobs
  BY <1>1, JobIs DEF Phase
<1>3. CASE End(j) /\ UNCHANGED bundles
  BY <1>1, <1>3, EndKeeps DEF Quiet
<1>4. CASE ~(End(j) /\ UNCHANGED bundles)
  <2>1. PICK new : new = {b \in Incomplete(j) : b.debug = "none" \/ b.debug \notin Debugs(bundles)}
    OBVIOUS
  <2>2. Goto(j, "drop") /\ bundles' = bundles \cup new
    BY <1>4, <2>1 DEF InsertIncomplete, InsertMissing
  <2>3. /\ Moves({j}) /\ work'[j].pc = "drop" /\ work'[j].old = work[j].old
        /\ Memory(j, work'[j], DOMAIN work') /\ Own(j, work'[j], files', BlobIds') /\ OldFiles(j, work')
    BY <1>1, <2>2, GoesOn
  <2>4. Len(work[j].made) = Len(Parts(j))
    BY <1>2, JobIs DEF Memory, Finishing
  <2>5. \A b \in new : b.map = Null /\ \E n \in DOMAIN Parts(j) : b = RowAt(j, n)
    BY <1>2, <2>1, <2>4, BundlesAre DEF Incomplete, Finishing
  <2>6. ASSUME NEW b \in new PROVE RowOf(b, work')
    <3>1. PICK n \in DOMAIN Parts(j) : b = RowAt(j, n)
      BY <2>5
    <3>2. IsRow(b, j, n)
      BY <1>2, <3>1, RowAtIs DEF FilesInv, WorkInv
    <3>3. work'[j].pc \in Landed /\ j \in DOMAIN work'
      BY <2>3 DEF Landed, Moves
    <3> QED
      BY <3>2, <3>3 DEF RowOf
  <2>7. TableInv'
    <3>1. PICK J : J = {j}
      OBVIOUS
    <3>2. \A b \in bundles' : RowOf(b, work') \/ \E c \in bundles : b = c \/ b = [c EXCEPT !.map = Null]
      BY <2>2, <2>6
    <3>3. BundleRows(bundles', work')
      BY <2>3, <3>1, <3>2, RowsStay DEF FilesInv
    <3>4. OneEach(bundles')
      <4>1. \A b \in bundles, c \in new : b.debug = c.debug => b.debug = "none"
        BY <2>1 DEF Debugs
      <4>2. OneEach(new)
        BY <1>2, <2>1, <2>4, BundlesAre DEF Incomplete, Finishing, OneEach
      <4>3. OneEach(bundles)
        BY DEF FilesInv, TableInv
      <4> QED
        BY <2>2, <4>1, <4>2, <4>3 DEF OneEach
    <3> QED
      BY <1>1, <3>3, <3>4 DEF TableInv, FilesInv
  <2>8. FilesFrom({j}) /\ BundlesFrom({j})
    BY <1>1, <2>2, <2>5 DEF FilesFrom, BundlesFrom
  <2>9. Replaced(j, work'[j], bundles')
    <3>1. \A b \in bundles : b.map # Null /\ b.debug \in Renewed(j) => b.file \notin work[j].old /\ b.map \notin work[j].old
      BY <1>1, JobIs DEF JobOK, Replaced
    <3> QED
      BY <2>2, <2>3, <2>5, <3>1 DEF Replaced
  <2>10. PromiseInv'
    <3>1. \A d, since : Witness(d, bundles, files, BlobIds, since) => Witness(d, bundles', files', BlobIds', since)
      BY <1>1, <2>2 DEF Witness
    <3>2. clock' \in Nat /\ clock' >= clock /\ DOMAIN work' = DOMAIN work
      BY <1>1, <2>3 DEF FilesInv, WorkInv, Moves
    <3>3. CompleteStay
      BY <1>1, <2>2, <2>5 DEF CompleteStay, FileStays
    <3> QED
      BY <1>1, <3>1, <3>2, <3>3, PromiseKept DEF FilesInv
  <2>11. JobOK(j, work', files', BlobIds', bundles')
    BY <2>3, <2>9 DEF JobOK
  <2> QED
    BY <1>1, <2>3, <2>7, <2>8, <2>10, <2>11, JobMoves
<1> QED
  BY <1>3, <1>4

\* A complete bundle none of whose files is deleted stays.
LEMMA WholeStays ==
  ASSUME TableInv, NEW gone, DeleteFiles(gone), BlobIds' = BlobIds, NEW since,
         NEW b \in bundles, Whole(b, files, BlobIds, since), b.file \notin gone, b.map \notin gone
  PROVE  b \in bundles' /\ Whole(b, files', BlobIds', since)
<1>1. b \in bundles' /\ files' = {f \in files : f.id \notin gone}
  BY DeleteIs
<1>2. \A i, age : i \notin gone /\ Stands(files, BlobIds, i, age) => Stands(files', BlobIds', i, age)
  BY <1>1 DEF Stands
<1> QED
  BY <1>1, <1>2 DEF Whole

\* What an upload replaces is of no complete bundle, but of those that share a map.
LEMMA ReplacedApart ==
  ASSUME FilesInv, NEW j \in DOMAIN work, work[j].pc = "drop", NEW b \in bundles, b.map # Null, b.debug \notin SharingMap
  PROVE  b.file \notin work[j].old \cup {work[j].bundle} /\ b.map \notin work[j].old \cup {work[j].bundle}
<1>1. /\ work[j].bundle = <<j, 0>> /\ \A i \in work[j].old : Replaces(j, i, work)
      /\ b.debug \in Renewed(j) => b.file \notin work[j].old /\ b.map \notin work[j].old
  BY JobIs DEF JobOK, Memory, OldFiles, Replaced, Phase, Assembling, Finishing
<1>2. PICK k \in DOMAIN work : \E n \in DOMAIN Parts(k) : IsRow(b, k, n)
  BY RowIs DEF FilesInv
<1>3. PICK n \in DOMAIN Parts(k) : IsRow(b, k, n)
  BY <1>2
<1>4. PICK m : m = Parts(k)[n].map
  OBVIOUS
<1>5. b.debug = Parts(k)[n].debug /\ b.file = <<k, n>> /\ m # 0 /\ b.map = <<k, m>>
  BY <1>3, <1>4 DEF IsRow
<1>6. k \in DOMAIN Jobs
  BY JobIs
<1>7. m \in DOMAIN Parts(k) /\ Parts(k)[m].map = 0 /\ DOMAIN Parts(k) = 1 .. Len(Parts(k)) /\ Len(Parts(k)) \in Nat
  BY <1>4, <1>5, <1>6, PartsAre
<1>8. b.file # work[j].bundle /\ b.map # work[j].bundle
  BY <1>1, <1>5, <1>7
<1>9. ~Shared(Parts(k), n)
  <2>1. PICK shared : shared = {Parts(k)[i].debug : i \in {o \in DOMAIN Parts(k) : Parts(k)[o].map # 0 /\ Shared(Parts(k), o)}}
    OBVIOUS
  <2>2. shared \subseteq SharingMap
    BY <2>1 DEF SharingMap, Parts
  <2>3. Shared(Parts(k), n) => b.debug \in shared
    BY <1>4, <1>5, <2>1
  <2> QED
    BY <2>2, <2>3
<1>10. ASSUME NEW i \in work[j].old, i = b.file \/ i = b.map PROVE FALSE
  <2>1. b.debug \notin Renewed(j)
    BY <1>1, <1>10
  <2>2. PICK l \in DOMAIN work : \E o \in DOMAIN Parts(l) : OfRenewed(i, j, l, o)
    BY <1>1 DEF Replaces
  <2>3. PICK o \in DOMAIN Parts(l) : OfRenewed(i, j, l, o)
    BY <2>2
  <2>4. /\ Parts(l)[o].debug \in Renewed(j)
        /\ i = <<l, o>> \/ (Parts(l)[o].map # 0 /\ i = <<l, Parts(l)[o].map>>)
    BY <2>3 DEF OfRenewed
  <2>5. l = k
    BY <1>5, <1>10, <2>4
  <2>6. Parts(k)[o].debug # Parts(k)[n].debug /\ o # n
    BY <1>5, <2>1, <2>4, <2>5
  <2>7. CASE i = <<l, o>>
    <3>1. o = m
      BY <1>5, <1>10, <2>5, <2>6, <2>7
    <3>2. Parts(k)[m].debug \notin {"none", Parts(k)[n].debug}
      BY <2>4, <2>5, <2>6, <3>1 DEF Renewed
    <3> QED
      BY <1>4, <1>9, <3>2 DEF Shared
  <2>8. CASE Parts(l)[o].map # 0 /\ i = <<l, Parts(l)[o].map>>
    <3>1. Parts(k)[Parts(k)[o].map].map = 0
      BY <1>6, <2>3, <2>5, <2>8, PartsAre
    <3>2. Parts(k)[o].map # n
      BY <1>4, <1>5, <3>1
    <3>3. Parts(k)[o].map = m
      BY <1>5, <1>10, <2>5, <2>8, <3>2
    <3> QED
      BY <1>4, <1>9, <2>3, <2>5, <2>6, <3>3 DEF Shared
  <2> QED
    BY <2>4, <2>7, <2>8
<1> QED
  BY <1>8, <1>10

\* The replaced files and the bundle's own go.
LEMMA DropKeeps ==
  ASSUME FilesInv, NEW j \in DOMAIN work, DeleteReplaced(j)
  PROVE  FilesInv'
<1>1. PICK kept : kept = {b.file : b \in BundlesOf(j)} \cup {b.map : b \in BundlesOf(j)}
  OBVIOUS
<1>2. PICK gone : gone = (work[j].old \ kept) \cup {work[j].bundle}
  OBVIOUS
<1>3. /\ work[j].pc = "drop" /\ DeleteFiles(gone) /\ End(j) /\ blobs' = blobs /\ clock' = clock /\ latest' = latest
      /\ BlobIds' = BlobIds
  BY <1>1, <1>2 DEF DeleteReplaced, BlobIds
<1>4. ASSUME NEW d \in DOMAIN latest, d \notin SharingMap, Witness(d, bundles, files, BlobIds, latest[d])
      PROVE  Witness(d, bundles', files', BlobIds', latest[d])
  <2>1. PICK since : since = latest[d]
    OBVIOUS
  <2>2. PICK b \in bundles : b.debug = d /\ Whole(b, files, BlobIds, since)
    BY <1>4, <2>1 DEF Witness
  <2>3. b.file \notin gone /\ b.map \notin gone
    BY <1>2, <1>3, <1>4, <2>2, ReplacedApart DEF Whole
  <2>4. b \in bundles' /\ Whole(b, files', BlobIds', since)
    BY <1>3, <2>2, <2>3, WholeStays DEF FilesInv
  <2> QED
    BY <2>1, <2>2, <2>4 DEF Witness
<1>5. Moves({j}) /\ \A fs, known, bs : JobOK(j, work', fs, known, bs)
  BY <1>3, Ends
<1>6. JobOK(j, work', files', BlobIds', bundles')
  <2>1. PICK fs, known, bs : fs = files' /\ known = BlobIds' /\ bs = bundles'
    OBVIOUS
  <2> QED
    BY <1>5, <2>1
<1> QED
  BY <1>3, <1>4, <1>5, <1>6, FilesDeleted

(***************************************************************************)
(* Every step                                                              *)
(***************************************************************************)
\* No job moves.
LEMMA NobodyMoves ==
  ASSUME FilesInv, work' = work, clock' \in Nat, FilesFrom({}), BundlesFrom({}), TableInv', PromiseInv'
  PROVE  FilesInv'
<1>1. PICK J : J = {}
  OBVIOUS
<1>2. Moves(J)
  BY DEF FilesInv, WorkInv, Moves
<1>3. FilesFrom(J) /\ BundlesFrom(J)
  BY <1>1
<1>4. \A k \in DOMAIN work : JobOK(k, work', files', BlobIds', bundles')
  BY <1>1, <1>2, <1>3, OthersKeep DEF FilesInv
<1>5. JobInv' /\ WorkInv'
  BY <1>4 DEF JobInv, FilesInv, WorkInv
<1> QED
  BY <1>5 DEF FilesInv

\* Nobody writes: a tick of the clock, the steps of the cleanup between deletions.
LEMMA NothingWritten ==
  ASSUME FilesInv, UNCHANGED <<work, files, bundles, blobs, latest>>, clock' \in {clock, clock + 1}
  PROVE  FilesInv'
<1>1. BlobIds' = BlobIds /\ clock' \in Nat /\ clock' >= clock
  BY DEF BlobIds, FilesInv, WorkInv
<1>2. FilesFrom({}) /\ BundlesFrom({})
  BY <1>1 DEF FilesFrom, BundlesFrom
<1>3. TableInv'
  BY DEF FilesInv, TableInv
<1>4. PromiseInv'
  BY <1>1, PromiseKept DEF FilesInv, CompleteStay, FileStays
<1> QED
  BY <1>1, <1>2, <1>3, <1>4, NobodyMoves

\* The cleanup deletes rows of blobs no young file has, and the files they have.
LEMMA CleanupKeeps ==
  ASSUME FilesInv, DeleteBlobRows
  PROVE  FilesInv'
<1>1. PICK gone : gone = Rechecked(cleaner.batch)
  OBVIOUS
<1>2. PICK out : out = {f.id : f \in {g \in files : g.blob \in {b.id : b \in gone}}}
  OBVIOUS
<1>3. /\ blobs' = blobs \ gone /\ DeleteFiles(out) /\ clock' = clock /\ work' = work /\ latest' = latest
      /\ TableInv /\ FileRows(files)
  BY <1>1, <1>2 DEF DeleteBlobRows, FilesInv, TableInv
<1>4. /\ files' = {f \in files : f.id \notin out} /\ FileRows(files')
      /\ \A b \in bundles' : \E c \in bundles : b = c \/ b = [c EXCEPT !.map = Null]
      /\ \A b \in bundles' : b.map # Null => b \in bundles /\ b.file \notin out /\ b.map \notin out
      /\ OneEach(bundles')
      /\ \A b \in bundles : b.file \notin out /\ b.map \notin out => b \in bundles'
  BY <1>3, DeleteIs
<1>5. \A f \in files' : f \in files /\ f.blob \notin {b.id : b \in gone}
  BY <1>2, <1>4
<1>6. \A f \in files' : f.blob \in BlobIds => f.blob \in BlobIds'
  BY <1>3, <1>5 DEF BlobIds
<1>7. FilesFrom({}) /\ BundlesFrom({})
  BY <1>4, <1>6 DEF FilesFrom, BundlesFrom
<1>8. TableInv'
  <2>1. PICK J : J = {}
    OBVIOUS
  <2>2. Moves(J)
    BY <1>3 DEF FilesInv, WorkInv, Moves
  <2>3. BundleRows(bundles', work')
    BY <1>3, <1>4, <2>2, RowsStay
  <2> QED
    BY <1>4, <2>3 DEF TableInv
<1>9. \A b \in gone : ~\E f \in files : f.blob = b.id /\ f.born >= clock - Retain
  BY <1>1 DEF Rechecked, Selected, OldBlobs, OrphanBlobs
<1>10. ASSUME NEW since \in Nat, since >= clock - Retain, NEW i, Stands(files, BlobIds, i, since)
       PROVE  i \notin out /\ Stands(files', BlobIds', i, since)
  <2>1. PICK f \in files : f.id = i /\ f.blob \in BlobIds /\ f.born >= since
    BY <1>10 DEF Stands
  <2>2. f.born >= clock - Retain
    <3>1. f.born \in Nat /\ clock \in Nat /\ Retain \in Nat
      BY <1>3, FileConstants DEF FileRows, FilesInv, WorkInv
    <3> QED
      BY <1>10, <2>1, <3>1
  <2>3. f.blob \notin {b.id : b \in gone}
    BY <1>9, <2>2
  <2>4. i \notin out
    <3>1. \A g \in files : g.id = i => g = f
      BY <1>3, <2>1 DEF FileRows
    <3> QED
      BY <1>2, <2>3, <3>1
  <2> QED
    BY <1>4, <1>6, <2>1, <2>4 DEF Stands
<1>11. PromiseInv'
  <2>1. ASSUME NEW d \in DOMAIN latest, Young(latest[d], clock), Witness(d, bundles, files, BlobIds, latest[d])
        PROVE  Witness(d, bundles', files', BlobIds', latest[d])
    <3>1. PICK since : since = latest[d]
      OBVIOUS
    <3>2. since.born \in Nat /\ since.born >= clock - Retain
      BY <2>1, <3>1 DEF FilesInv, PromiseInv, Promise, Young
    <3>3. PICK b \in bundles : b.debug = d /\ Whole(b, files, BlobIds, since)
      BY <2>1, <3>1 DEF Witness
    <3>4. b.file \notin out /\ b.map \notin out /\ Whole(b, files', BlobIds', since)
      BY <1>10, <3>2, <3>3 DEF Whole
    <3>5. b \in bundles'
      BY <1>4, <3>4
    <3> QED
      BY <3>1, <3>3, <3>4, <3>5 DEF Witness
  <2>2. clock' \in Nat /\ clock' >= clock
    BY <1>3 DEF FilesInv, WorkInv
  <2>3. CompleteStay
    BY <1>4, <1>6 DEF CompleteStay, FileStays
  <2> QED
    BY <1>3, <2>1, <2>2, <2>3, PromiseKept DEF FilesInv
<1>12. clock' \in Nat
  BY <1>3 DEF FilesInv, WorkInv
<1> QED
  BY <1>3, <1>7, <1>8, <1>11, <1>12, NobodyMoves

\* Bundles go that no event has used for long: none with a promise.
LEMMA BundlesCleaned ==
  ASSUME FilesInv, CleanupOldDebugSymbolBundles
  PROVE  FilesInv'
<1>1. /\ bundles' = {b \in bundles : b.used >= clock - Retain} /\ clock' = clock /\ work' = work /\ latest' = latest
      /\ files' = files /\ BlobIds' = BlobIds /\ clock \in Nat /\ Retain \in Nat /\ TableInv
  BY FileConstants DEF CleanupOldDebugSymbolBundles, BlobIds, FilesInv, WorkInv
<1>2. FilesFrom({}) /\ BundlesFrom({})
  BY <1>1 DEF FilesFrom, BundlesFrom
<1>3. TableInv'
  BY <1>1 DEF TableInv, BundleRows, OneEach
<1>4. PromiseInv'
  <2>1. ASSUME NEW d \in DOMAIN latest, Young(latest[d], clock), Witness(d, bundles, files, BlobIds, latest[d])
        PROVE  Witness(d, bundles', files', BlobIds', latest[d])
    <3>1. PICK since : since = latest[d] /\ since.used \in Nat /\ since.used >= clock - Retain
      BY <2>1 DEF FilesInv, PromiseInv, Promise, Young
    <3>2. PICK b \in bundles : b.debug = d /\ Whole(b, files, BlobIds, since)
      BY <2>1, <3>1 DEF Witness
    <3>3. b.used \in Nat /\ b.used >= since.used
      BY <1>1, <3>2 DEF TableInv, BundleRows, RowOf, IsRow, Whole
    <3>4. b \in bundles'
      BY <1>1, <3>1, <3>3
    <3> QED
      BY <1>1, <3>1, <3>2, <3>4 DEF Witness
  <2>2. CompleteStay
    BY <1>1 DEF CompleteStay, FileStays
  <2> QED
    BY <1>1, <2>1, <2>2, PromiseKept DEF FilesInv
<1> QED
  BY <1>1, <1>2, <1>3, <1>4, NobodyMoves

\* Bundles are used: rows and promises of a debug id are renewed together.
LEMMA BundlesUsed ==
  ASSUME FilesInv, UseBundles
  PROVE  FilesInv'
<1>1. PICK hit \in SUBSET {b \in bundles : b.used < clock - Grace} :
        /\ bundles' = (bundles \ hit) \cup {[b EXCEPT !.used = clock] : b \in hit}
        /\ latest' = [d \in DOMAIN latest |-> IF \E b \in hit : b.debug = d /\ b.map # Null
                                              THEN [latest[d] EXCEPT !.used = clock] ELSE latest[d]]
        /\ UNCHANGED <<store, clock, blobs, objects, files, difs, work, cleaner, ids>>
  BY DEF UseBundles
<1>2. /\ clock' = clock /\ work' = work /\ files' = files /\ BlobIds' = BlobIds
      /\ clock \in Nat /\ Retain \in Nat /\ TableInv /\ hit \subseteq bundles
  BY <1>1, FileConstants DEF BlobIds, FilesInv, WorkInv
<1>3. \A b \in bundles : \E debug, file, map, used : b = [debug |-> debug, file |-> file, map |-> map, used |-> used]
  BY <1>2 DEF TableInv, BundleRows, RowOf, IsRow
<1>4. ASSUME NEW b \in bundles
      PROVE  /\ [b EXCEPT !.used = clock].debug = b.debug /\ [b EXCEPT !.used = clock].file = b.file
             /\ [b EXCEPT !.used = clock].map = b.map /\ [b EXCEPT !.used = clock].used = clock
  BY <1>3
<1>5. FilesFrom({}) /\ BundlesFrom({}) /\ CompleteStay
  <2>1. ASSUME NEW b \in bundles' PROVE \E c \in bundles : c.debug = b.debug /\ c.file = b.file /\ c.map = b.map
    <3>1. CASE b \in bundles
      BY <3>1
    <3>2. ASSUME NEW c \in hit, b = [c EXCEPT !.used = clock] PROVE c \in bundles /\ c.debug = b.debug /\ c.file = b.file /\ c.map = b.map
      BY <1>2, <1>4, <3>2
    <3> QED
      BY <1>1, <3>1, <3>2
  <2>2. \A i : FileStays(i)
    BY <1>2 DEF FileStays
  <2> QED
    BY <1>2, <2>1, <2>2 DEF FilesFrom, BundlesFrom, CompleteStay
<1>6. TableInv'
  <2>1. PICK J : J = {}
    OBVIOUS
  <2>2. Moves(J)
    BY <1>2 DEF FilesInv, WorkInv, Moves
  <2>3. \A b \in bundles' : \E c \in bundles : b = c \/ \E u \in Nat : b = [c EXCEPT !.used = u]
    BY <1>1, <1>2
  <2>4. BundleRows(bundles', work')
    BY <1>2, <2>2, <2>3, RowsStay
  <2>5. ASSUME NEW b \in bundles', NEW c \in bundles', b.debug = c.debug, b.debug # "none" PROVE b = c
    <3>1. PICK p \in bundles : p.debug = b.debug /\ ((b = p /\ p \notin hit) \/ (b = [p EXCEPT !.used = clock] /\ p \in hit))
      BY <1>1, <1>2, <1>4
    <3>2. PICK o \in bundles : o.debug = c.debug /\ ((c = o /\ o \notin hit) \/ (c = [o EXCEPT !.used = clock] /\ o \in hit))
      BY <1>1, <1>2, <1>4
    <3>3. p = o
      BY <1>2, <2>5, <3>1, <3>2 DEF TableInv, OneEach
    <3> QED
      BY <3>1, <3>2, <3>3
  <2> QED
    BY <1>2, <2>4, <2>5 DEF TableInv, OneEach
<1>7. PromiseInv'
  <2>1. CompleteStay
    BY <1>5
  <2>2. ASSUME NEW d \in DOMAIN latest
        PROVE  /\ d # "none" /\ latest'[d].born \in Nat /\ latest'[d].used \in Nat /\ Filed(d, bundles', files', BlobIds', latest'[d])
               /\ Young(latest'[d], clock) /\ d \notin SharingMap => Witness(d, bundles', files', BlobIds', latest'[d])
    <3>1. PICK since : since = latest[d]
      OBVIOUS
    <3>2. /\ d # "none" /\ since.born \in Nat /\ since.used \in Nat /\ Filed(d, bundles, files, BlobIds, since)
          /\ Young(since, clock) /\ d \notin SharingMap => Witness(d, bundles, files, BlobIds, since)
      BY <3>1 DEF FilesInv, PromiseInv, Promise
    <3>3. CASE ~\E b \in hit : b.debug = d /\ b.map # Null
      <4>1. latest'[d] = since
        BY <1>1, <3>1, <3>3
      <4>2. ASSUME NEW b \in bundles, b.debug = d, Whole(b, files, BlobIds, since) PROVE b \in bundles'
        BY <1>1, <3>3, <4>2 DEF Whole
      <4> QED
        BY <1>2, <2>1, <3>2, <4>1, <4>2, FiledStays DEF Witness
    <3>4. ASSUME NEW b \in hit, b.debug = d, b.map # Null
          PROVE  /\ latest'[d].born \in Nat /\ latest'[d].used \in Nat /\ Filed(d, bundles', files', BlobIds', latest'[d])
                 /\ Witness(d, bundles', files', BlobIds', latest'[d])
      <4>1. PICK next : next = latest'[d]
        OBVIOUS
      <4>2. next.born = since.born /\ next.used = clock
        BY <1>1, <3>1, <3>4, <4>1
      <4>3. Filed(d, bundles, files, BlobIds, next)
        BY <3>2, <4>2 DEF Filed
      <4>4. PICK c \in bundles' : c = [b EXCEPT !.used = clock]
        BY <1>1
      <4>5. c.debug = d /\ c.file = b.file /\ c.map = b.map /\ c.used = clock
        BY <1>2, <1>4, <3>4, <4>4
      <4>6. Whole(c, files, BlobIds, next)
        BY <1>2, <3>4, <4>2, <4>3, <4>5 DEF Filed, Whole
      <4> QED
        BY <1>2, <2>1, <3>2, <4>1, <4>2, <4>3, <4>5, <4>6, FiledStays DEF Witness
    <3> QED
      BY <3>1, <3>2, <3>3, <3>4
  <2>3. DOMAIN latest' = DOMAIN latest /\ SharingMap' = SharingMap
    BY <1>1, <1>2 DEF SharingMap
  <2> QED
    BY <1>2, <2>2, <2>3 DEF PromiseInv, Promise
<1> QED
  BY <1>2, <1>5, <1>6, <1>7, NobodyMoves

\* At first there are uploads to come and no files.
LEMMA FilesBegin == ASSUME FilesInit PROVE FilesInv
<1>1. PICK plan \in Plans : work = [j \in plan |-> NewWork(j)]
  BY DEF FilesInit
<1>2. plan \subseteq DOMAIN Jobs
  BY FileConstants
<1>3. clock = 0 /\ files = {} /\ bundles = {} /\ latest = [d \in {} |-> [born |-> 0, used |-> 0]]
  BY DEF FilesInit
<1>4. WorkInv
  BY <1>1, <1>2, <1>3 DEF WorkInv
<1>5. TableInv /\ PromiseInv
  BY <1>3 DEF TableInv, FileRows, BundleRows, OneEach, PromiseInv, Promise
<1>6. ASSUME NEW j \in DOMAIN work PROVE JobOK(j, work, files, BlobIds, bundles)
  <2>1. PICK w : w = work[j]
    OBVIOUS
  <2>2. w = NewWork(j)
    BY <1>1, <2>1
  <2>3. IsWork(w) /\ w.pc = "new" /\ w.ret = "done" /\ w.made = <<>> /\ w.bundle = Null
    BY <2>2 DEF IsWork, NewWork
  <2>4. Phase(w) = "new"
    BY <2>3 DEF Phase
  <2>5. PICK fs, known, bs : fs = files /\ known = BlobIds /\ bs = bundles
    OBVIOUS
  <2>6. \A f \in fs : f.id[1] = j => f.id[2] < Counter(w)
    BY <1>3, <2>5
  <2>7. PICK wk : wk = work
    OBVIOUS
  <2>8. JobOK(j, wk, fs, known, bs)
    BY <2>1, <2>3, <2>4, <2>6, <2>7, PlainJob DEF Returns, Assembling
  <2> QED
    BY <2>5, <2>7, <2>8
<1>7. JobInv
  BY <1>6 DEF JobInv
<1> QED
  BY <1>4, <1>5, <1>7 DEF FilesInv

\* A step of a job, by its handlers.
LEMMA JobStepKeeps == ASSUME FilesInv, NEW j \in DOMAIN work, JobStep(j) PROVE FilesInv'
<1>1. CASE AssembleRelease(j) \/ DifsAssembleApi(j) \/ ChunkUpload(j) \/ Dsyms(j)
  BY <1>1, RequestsKeep
<1>2. CASE GetBlob(j) \/ InsertBlob(j)
  BY <1>2, GetOrCreateKeeps
<1>3. CASE AssembleArtifacts(j) \/ DifsReadChunks(j) \/ DifsExtractMetadata(j) \/ DifsCreateDif(j) \/ ProguardDif(j)
  BY <1>3, TasksLook
<1>4. CASE AssembleFile(j)
  BY <1>4, AssembleFileKeeps
<1>5. CASE LinkBundle(j)
  BY <1>5, LinkBundleKeeps
<1>6. CASE CreateArtifact(j)
  BY <1>6, CreateArtifactKeeps
<1>7. CASE Putfile(j)
  BY <1>7, PutfileKeeps
<1>8. CASE ReadReplaced(j)
  BY <1>8, ReadReplacedKeeps
<1>9. CASE UpsertComplete(j)
  BY <1>9, UpsertKeeps
<1>10. CASE InsertIncomplete(j)
  BY <1>10, InsertKeeps
<1>11. CASE DeleteReplaced(j)
  BY <1>11, DropKeeps
<1>12. CASE DifsGetFile(j) \/ ProguardBlob(j)
  BY <1>12, TasksTake
<1>13. CASE DifsCreateFile(j) \/ ProguardFile(j)
  BY <1>13, DifFileKeeps
<1> QED
  BY <1>1, <1>2, <1>3, <1>4, <1>5, <1>6, <1>7, <1>8, <1>9, <1>10, <1>11, <1>12, <1>13 DEF JobStep

\* Every step.
LEMMA StepKeepsFiles == ASSUME FilesInv, [FilesNext]_fileVars PROVE FilesInv'
<1>1. CASE \E j \in DOMAIN work : JobStep(j)
  BY <1>1, JobStepKeeps
<1>2. CASE DeleteBlobRows
  BY <1>2, CleanupKeeps
<1>3. CASE CleanupOldDebugSymbolBundles
  BY <1>3, BundlesCleaned
<1>4. CASE UseBundles
  BY <1>4, BundlesUsed
<1>5. CASE CleanupOldFiles \/ SelectBlobs \/ DeleteObject \/ NextBatch \/ FilesTick \/ UNCHANGED fileVars
  <2>1. UNCHANGED <<work, files, bundles, blobs, latest>> /\ clock' \in {clock, clock + 1}
    BY <1>5 DEF CleanupOldFiles, SelectBlobs, DeleteObject, NextBatch, FilesTick, fileVars, fileRows
  <2> QED
    BY <2>1, NothingWritten
<1> QED
  BY <1>1, <1>2, <1>3, <1>4, <1>5 DEF FilesNext

\* No blob row loses its bytes where storage never reuses a name, whatever uploads,
\* assemblies and cleanups overlap: delete_file_blobs deletes rows first.
THEOREM FilesKeepBytes == FilesSpec => []BlobBytesKept
<1>1. FilesInit => StoreInv
  BY StoreBegins
<1>2. StoreInv /\ [FilesNext]_fileVars => StoreInv'
  BY StepKeepsStore
<1>3. StoreInv => BlobBytesKept
  BY DEF StoreInv, OwnObjects, BlobBytesKept
<1> QED
  BY <1>1, <1>2, <1>3, PTL DEF FilesSpec

\* The files of a job are numbered and linked up to its step, a bundle row is one of an
\* upload that landed, what an upload is to replace was another's, and the files of
\* each promised debug id stand: assemblies, uploads and the cleanup in any order
\* (files/assemble.py 90-259, files/maintenance.py 12-61, sourcecode/maintenance.py 10-14).
THEOREM FilesInvariant == FilesSpec => [](StoreInv /\ FilesInv)
<1>1. FilesInit => StoreInv /\ FilesInv
  BY StoreBegins, FilesBegin
<1>2. StoreInv /\ FilesInv /\ [FilesNext]_fileVars => (StoreInv /\ FilesInv)'
  BY StepKeepsStore, StepKeepsFiles
<1> QED
  BY <1>1, <1>2, PTL DEF FilesSpec

\* What was uploaded stays, for any uploads in any overlap with each other, with the
\* events that use them and with the cleanup: the bytes of every blob row, and for a
\* debug id whose source map is its own a complete bundle with readable files until
\* their retention ends or that of the row's last use, which an upload over an existing
\* row does not renew (files/assemble.py 213-259, files/maintenance.py 12-61,
\* sourcecode/maintenance.py 10-14).
THEOREM UploadsStay == FilesSpec => []UploadsHold
<1>1. ASSUME StoreInv, FilesInv, store = "disk", NEW d \in DOMAIN latest,
             latest[d].born >= clock - Retain, latest[d].used >= clock - Retain, d \notin SharingMap
      PROVE  \E b \in bundles : b.debug = d /\ b.map # Null /\ Backed(b.file) /\ Backed(b.map)
  <2>1. Witness(d, bundles, files, BlobIds, latest[d])
    BY <1>1 DEF FilesInv, PromiseInv, Promise, Young
  <2>2. PICK b \in bundles : b.debug = d /\ Whole(b, files, BlobIds, latest[d])
    BY <2>1 DEF Witness
  <2>3. \A c \in blobs : c.obj \in objects
    BY <1>1 DEF StoreInv, OwnObjects
  <2>4. ASSUME NEW i, NEW age, Stands(files, BlobIds, i, age) PROVE Backed(i)
    BY <2>3, <2>4 DEF Stands, Backed, BlobIds
  <2> QED
    BY <2>2, <2>4 DEF Whole
<1>2. StoreInv /\ FilesInv => UploadsHold
  <2>1. StoreInv => BlobBytesKept
    BY DEF StoreInv, OwnObjects, BlobBytesKept
  <2>2. StoreInv /\ FilesInv => CompleteBundleStays
    BY <1>1 DEF CompleteBundleStays
  <2> QED
    BY <2>1, <2>2 DEF UploadsHold
<1> QED
  BY <1>2, FilesInvariant, PTL

(***************************************************************************)
(* Logs in two tiers.                                                      *)
(***************************************************************************)

\* What a log, a Parquet file and the files of a day are, whatever was stored.
LogRows == [id : Nat, at : 0 .. MaxNow + Drift, proj : Projects]
ParquetFiles == [st : {"none", "torn", "ok"}, rows : SUBSET LogRows]
DayFiles == [flat : ParquetFiles, chunks : UNION {[N -> ParquetFiles] : N \in SUBSET Nat}]
ArchStates ==
  [pc : {"idle", "next", "org", "copy", "write", "detach", "drop", "clean"},
   todo : SUBSET Days, day : Days, orgs : SUBSET Orgs, buf : SUBSET LogRows,
   chunk : Nat, rows : SUBSET LogRows, to : {"flat", "chunk"}]
Working == arch.pc \in {"org", "copy", "write", "detach", "drop"}

LogShape ==
  /\ now \in 1 .. MaxNow /\ backend \in Backends
  /\ parts \in [Days -> {"absent", "attached", "detached", "dropped"}]
  /\ hot \subseteq stored /\ stored \subseteq LogRows /\ IsFiniteSet(stored)
  /\ liveProjects \subseteq Projects /\ fouled \subseteq Projects
  /\ ingest \in [pc : {"idle", "copy"}, batch : SUBSET LogRows, since : Nat]
  /\ del \in [pc : {"idle", "files", "force"}, gone : SUBSET Projects,
              files : SUBSET [day : Days, n : Int]]
ColdShape == cold \in [Orgs -> [Days -> DayFiles]]
ArchShape == arch \in ArchStates

\* A batch is stored before its rows are as old as a partition that is exported.
BatchesFresh ==
  /\ IsFiniteSet(ingest.batch)
  /\ ingest.pc = "copy" =>
       /\ ingest.since <= now /\ now <= ingest.since + BatchTime
       /\ \A r \in ingest.batch : r.at + Drift >= ingest.since

\* Where the rows of an organization's day are; a day has a flat file or chunks.
FileSound(f, o, d) ==
  /\ f.st # "ok" => f.rows = {}
  /\ \A r \in f.rows : Org(r) = o /\ Day(r.at) = d
  /\ backend = "s3" => f.st # "torn"
FilesSound ==
  \A o \in Orgs : \A d \in Days :
    /\ FileSound(cold[o][d].flat, o, d)
    /\ \A n \in DOMAIN cold[o][d].chunks : FileSound(cold[o][d].chunks[n], o, d)
    /\ cold[o][d].flat.st # "none" =>
         /\ DOMAIN cold[o][d].chunks = {}
         /\ 2 * d < now - 2 * HotDays

\* The partitions the archival may still come to, and the one it is at.
DueDay(d) ==
  /\ parts[d] \in {"attached", "detached"}
  /\ 2 * d < now - 2 * (IF backend = "none" THEN ColdDays ELSE HotDays)
ArchDue ==
  /\ \A d \in arch.todo : DueDay(d)
  /\ Working => DueDay(arch.day) /\ arch.day \notin arch.todo

\* The organization being exported and the files it has so far.
ExportSound ==
  /\ arch.pc \in {"org", "copy", "write"} => arch.orgs # {}
  /\ arch.pc \in {"detach", "drop"} => arch.orgs = {}
  /\ arch.pc \notin {"copy", "write"} => arch.buf = {}
  /\ arch.pc # "write" => arch.rows = {}
  /\ arch.rows \subseteq arch.buf
  /\ \A r \in arch.buf : Day(r.at) = arch.day /\ Org(r) = Min(arch.orgs)
  /\ arch.pc \in {"copy", "write"} =>
       LET F == cold[Min(arch.orgs)][arch.day]
       IN /\ \A n \in DOMAIN F.chunks :
               n < arch.chunk \/ (n = arch.chunk /\ arch.pc = "write" /\ arch.to = "chunk")
          /\ arch.pc = "copy" \/ arch.to = "chunk" => F.flat.st = "none"
          /\ arch.pc = "write" /\ arch.to = "flat" =>
               arch.chunk = 0 /\ arch.rows = arch.buf /\ F.flat.st # "ok"

\* A deletion under way.
DeletionSound ==
  /\ del.pc = "idle" <=> del.gone = {}
  /\ del.pc # "files" => del.files = {}
  /\ del.gone \subseteq liveProjects
  /\ \A p, q \in del.gone : OrgOf[p] = OrgOf[q]

\* A promised row is in its partition until that is dropped, and by then in cold
\* storage: in the day's flat file if there is one, and while a partition is
\* exported in the files of every organization that is done, or, of the one at
\* hand, still to be written or in an earlier chunk.
InCold(r) == r \in RowsOf(cold[Org(r)][Day(r.at)])
Safe(r) ==
  /\ parts[Day(r.at)] # "dropped" => r \in hot
  /\ backend = "none" => parts[Day(r.at)] # "dropped"
  /\ backend = "s3" =>
       LET F == cold[Org(r)][Day(r.at)]
       IN /\ parts[Day(r.at)] = "dropped" => InCold(r)
          /\ F.flat.st # "none" => r \in F.flat.rows
          /\ Working /\ Day(r.at) = arch.day /\ Org(r) \notin arch.orgs => InCold(r)
          /\ arch.pc \in {"copy", "write"} /\ Day(r.at) = arch.day /\ Org(r) = Min(arch.orgs) =>
               r \in arch.buf \/ \E n \in DOMAIN F.chunks : n < arch.chunk /\ r \in F.chunks[n].rows
PromisedSafe == \A r \in Promised : Safe(r)

\* Of a deleted project nothing is left; of one being deleted, only what the files
\* still to be rewritten hold.
NoRowOf(p, S) == \A r \in S : r.proj # p
NoneLeft(p) ==
  /\ NoRowOf(p, hot) /\ NoRowOf(p, arch.buf)
  /\ \A o \in Orgs : \A d \in Days :
       /\ NoRowOf(p, cold[o][d].flat.rows)
       /\ \A n \in DOMAIN cold[o][d].chunks : NoRowOf(p, cold[o][d].chunks[n].rows)
OnlyListed(p) ==
  \A d \in Days :
    LET F == cold[OrgOf[p]][d]
    IN /\ NoRowOf(p, F.flat.rows) \/ [day |-> d, n |-> -1] \in del.files
       /\ \A n \in DOMAIN F.chunks :
            NoRowOf(p, F.chunks[n].rows) \/ [day |-> d, n |-> n] \in del.files
Purged ==
  /\ \A p \in Projects \ (liveProjects \cup fouled) : NoneLeft(p)
  /\ \A p \in del.gone \ fouled : arch.pc = "idle" /\ OnlyListed(p)

LogInv ==
  /\ LogShape /\ ColdShape /\ ArchShape
  /\ BatchesFresh /\ FilesSound /\ ArchDue /\ ExportSound /\ DeletionSound
  /\ PromisedSafe /\ Purged

\* The least of the organizations still to be exported, and days, are numbers.
LEMMA OrgsAreNumbers == Orgs \subseteq Nat
BY ArchiveConstants DEF Orgs

LEMMA OrgAtHand == ASSUME ArchShape, arch.orgs # {} PROVE Min(arch.orgs) \in arch.orgs /\ Min(arch.orgs) \in Orgs
<1>1. arch.orgs \subseteq Orgs
  BY DEF ArchShape, ArchStates
<1>2. arch.orgs \subseteq Nat
  BY <1>1, OrgsAreNumbers
<1> QED
  BY <1>1, <1>2, MinIs

LEMMA DaysAre == Days \subseteq Nat /\ 0 \in Days
BY ArchiveConstants DEF Days, Day

\* A log has its day and organization among the ones there are.
LEMMA LogIs == ASSUME NEW r \in LogRows PROVE Org(r) \in Orgs /\ Day(r.at) \in Days
<1>1. r.proj \in Projects /\ r.at \in 0 .. MaxNow + Drift
  BY DEF LogRows
<1>2. MaxNow \in Nat /\ Drift \in Nat
  BY ArchiveConstants
<1>3. r.at \div 2 \in 0 .. (MaxNow + Drift) \div 2
  BY <1>1, <1>2
<1> QED
  BY <1>1, <1>3 DEF Org, Orgs, Day, Days

\* A Parquet file holds nothing unless it is whole.
LEMMA FilesAre ==
  /\ NoFile \in ParquetFiles /\ Torn \in ParquetFiles
  /\ \A S : S \subseteq LogRows => File(S) \in ParquetFiles
  /\ NoFiles \in DayFiles
  /\ \A f \in ParquetFiles : f.st = "none" /\ f.rows = {} => f = NoFile
  /\ \A f \in ParquetFiles : f.st \in {"none", "torn", "ok"} /\ f.rows \subseteq LogRows
<1>1. NoFile \in ParquetFiles /\ Torn \in ParquetFiles /\ \A S : S \subseteq LogRows => File(S) \in ParquetFiles
  BY DEF ParquetFiles, NoFile, Torn, File
<1>2. [n \in {} |-> NoFile] \in [{} -> ParquetFiles]
  OBVIOUS
<1>3. [{} -> ParquetFiles] \in {[N -> ParquetFiles] : N \in SUBSET Nat}
  OBVIOUS
<1>4. NoFiles \in DayFiles
  BY <1>1, <1>2, <1>3 DEF NoFiles, DayFiles
<1> QED
  BY <1>1, <1>4 DEF ParquetFiles, NoFile

LEMMA DayFilesAre ==
  ASSUME NEW F \in DayFiles
  PROVE  /\ F = [flat |-> F.flat, chunks |-> F.chunks]
         /\ F.flat \in ParquetFiles
         /\ F.chunks = [n \in DOMAIN F.chunks |-> F.chunks[n]] /\ DOMAIN F.chunks \subseteq Nat
         /\ \A n \in DOMAIN F.chunks : F.chunks[n] \in ParquetFiles
         /\ \A f \in ParquetFiles : [F EXCEPT !.flat = f] \in DayFiles
                                    /\ [F EXCEPT !.flat = f] = [flat |-> f, chunks |-> F.chunks]
         /\ \A c : [F EXCEPT !.chunks = c] = [flat |-> F.flat, chunks |-> c]
<1>1. F.flat \in ParquetFiles /\ F.chunks \in UNION {[N -> ParquetFiles] : N \in SUBSET Nat}
      /\ F = [flat |-> F.flat, chunks |-> F.chunks]
  BY DEF DayFiles
<1>2. PICK N \in SUBSET Nat : F.chunks \in [N -> ParquetFiles]
  BY <1>1
<1>3. ASSUME NEW f \in ParquetFiles PROVE [F EXCEPT !.flat = f] \in DayFiles
  BY <1>3, <1>1 DEF DayFiles
<1> QED
  BY <1>1, <1>2, <1>3

LEMMA ChunksAre ==
  ASSUME NEW c, c = [n \in DOMAIN c |-> c[n]], DOMAIN c \subseteq Nat, \A n \in DOMAIN c : c[n] \in ParquetFiles,
         NEW f \in ParquetFiles
  PROVE  [flat |-> f, chunks |-> c] \in DayFiles
<1>1. c \in [DOMAIN c -> ParquetFiles]
  OBVIOUS
<1>2. c \in UNION {[N -> ParquetFiles] : N \in SUBSET Nat}
  BY <1>1
<1> QED
  BY <1>2 DEF DayFiles

\* A step that changes the files of one organization's day.
OneDay(o, d, F) == cold' = [cold EXCEPT ![o][d] = F]
LEMMA OneDayIs ==
  ASSUME ColdShape, NEW o \in Orgs, NEW d \in Days, NEW F \in DayFiles, OneDay(o, d, F)
  PROVE  /\ ColdShape' /\ cold'[o][d] = F
         /\ \A p \in Orgs : \A e \in Days : (p = o /\ e = d) \/ cold'[p][e] = cold[p][e]
BY DEF ColdShape, OneDay

LEMMA LogsBegin == ASSUME ArchiveInit PROVE LogInv
<1> USE DEF ArchiveInit
<1>1. MaxNow \in Nat \ {0} /\ Backends \subseteq {"s3", "disk", "none"}
  BY ArchiveConstants
<1>2. LogShape /\ BatchesFresh /\ DeletionSound
  BY <1>1, FS_EmptySet DEF LogShape, BatchesFresh, DeletionSound, IdleIngest, IdleDel
<1>3. ColdShape
  BY FilesAre DEF ColdShape
<1>4. ArchShape /\ ArchDue /\ ExportSound
  BY DaysAre DEF ArchShape, ArchStates, IdleArch, ArchDue, ExportSound, Working
<1>5. \A o \in Orgs : \A d \in Days : cold[o][d] = NoFiles
  OBVIOUS
<1>6. NoFiles.flat = NoFile /\ DOMAIN NoFiles.chunks = {} /\ NoFile.st = "none" /\ NoFile.rows = {}
  BY DEF NoFiles, NoFile
<1>7. FilesSound
  BY <1>5, <1>6 DEF FilesSound, FileSound
<1>8. PromisedSafe /\ Purged
  BY DEF PromisedSafe, Promised, Purged, IdleDel
<1> QED
  BY <1>2, <1>3, <1>4, <1>7, <1>8 DEF LogInv

\* What a step leaves alone stays sound.
LEMMA ColdStay ==
  ASSUME ColdShape, FilesSound, UNCHANGED <<cold, backend>>, now' >= now, now \in Nat, now' \in Nat PROVE FilesSound'
<1>1. \A d \in Days : 2 * d < now - 2 * HotDays => 2 * d < now' - 2 * HotDays
  BY ArchiveConstants, DaysAre
<1> QED
  BY <1>1 DEF FilesSound, FileSound, Org, Day
LEMMA ExportStays == ASSUME ExportSound, UNCHANGED <<arch, cold>> PROVE ExportSound'
BY DEF ExportSound, Org, Day
LEMMA LaterToo == \A d, c, a, b \in Nat : b >= a => /\ 2 * d >= b - 2 * c => 2 * d >= a - 2 * c
                                                    /\ 2 * d < a - 2 * c => 2 * d < b - 2 * c
OBVIOUS
LEMMA PromisedShrink ==
  ASSUME LogShape, UNCHANGED stored, liveProjects' \ del'.gone \subseteq liveProjects \ del.gone,
         now' >= now, now' \in Nat
  PROVE  Promised' \subseteq Promised
<1>1. now \in Nat /\ ColdDays \in Nat
  BY ArchiveConstants DEF LogShape
<1>2. ASSUME NEW r \in stored, 2 * Day(r.at) >= now' - 2 * ColdDays PROVE 2 * Day(r.at) >= now - 2 * ColdDays
  <2>1. r \in LogRows
    BY DEF LogShape
  <2>2. PICK d : d = Day(r.at)
    OBVIOUS
  <2>3. d \in Nat /\ 2 * d >= now' - 2 * ColdDays
    BY <2>1, <2>2, <1>2, LogIs, DaysAre
  <2>4. 2 * d >= now - 2 * ColdDays
    BY <2>3, <1>1, LaterToo
  <2> QED
    BY <2>2, <2>4
<1> QED
  BY <1>2 DEF Promised, Org, Day
LEMMA SafeSame ==
  ASSUME NEW r, Safe(r), UNCHANGED <<parts, backend, cold, arch>>, r \in hot => r \in hot' PROVE Safe(r)'
<1>1. InCold(r)' <=> InCold(r)
  BY DEF InCold, RowsOf, Org, Day
<1>2. PICK F : F = cold[Org(r)][Day(r.at)]
  OBVIOUS
<1>3. (cold[Org(r)][Day(r.at)])' = F
  BY <1>2 DEF Org, Day
<1>4. /\ parts[Day(r.at)] # "dropped" => r \in hot'
      /\ backend = "none" => parts[Day(r.at)] # "dropped"
  BY DEF Safe
<1>5. ASSUME backend = "s3"
      PROVE  /\ parts[Day(r.at)] = "dropped" => InCold(r)
             /\ F.flat.st # "none" => r \in F.flat.rows
             /\ Working /\ Day(r.at) = arch.day /\ Org(r) \notin arch.orgs => InCold(r)
             /\ arch.pc \in {"copy", "write"} /\ Day(r.at) = arch.day /\ Org(r) = Min(arch.orgs) =>
                  r \in arch.buf \/ \E n \in DOMAIN F.chunks : n < arch.chunk /\ r \in F.chunks[n].rows
  BY <1>2, <1>5 DEF Safe
<1>6. Working' <=> Working
  BY DEF Working
<1> HIDE DEF InCold, Working
<1>7. backend' = "s3" =>
        LET G == (cold[Org(r)][Day(r.at)])'
        IN /\ parts'[Day(r.at)] = "dropped" => InCold(r)'
           /\ G.flat.st # "none" => r \in G.flat.rows
           /\ Working' /\ Day(r.at) = arch'.day /\ Org(r) \notin arch'.orgs => InCold(r)'
           /\ arch'.pc \in {"copy", "write"} /\ Day(r.at) = arch'.day /\ Org(r) = Min(arch'.orgs) =>
                r \in arch'.buf \/ \E n \in DOMAIN G.chunks : n < arch'.chunk /\ r \in G.chunks[n].rows
  BY <1>1, <1>3, <1>5, <1>6
<1> QED
  BY <1>4, <1>7 DEF Safe, Org, Day
LEMMA SafeStays ==
  ASSUME PromisedSafe, Promised' \subseteq Promised, UNCHANGED <<parts, hot, backend, cold, arch>> PROVE PromisedSafe'
<1>1. ASSUME NEW r \in Promised PROVE Safe(r)'
  BY <1>1, SafeSame DEF PromisedSafe
<1> QED
  BY <1>1 DEF PromisedSafe
LEMMA PurgedStays ==
  ASSUME Purged, UNCHANGED <<liveProjects, hot, arch, cold, del>>, fouled \subseteq fouled' PROVE Purged'
BY DEF Purged, NoneLeft, NoRowOf, OnlyListed

LEMMA PartitionsAdded == ASSUME LogInv, MaintainPartitions PROVE LogInv'
<1> USE DEF LogInv
<1>1. UNCHANGED <<now, backend, hot, cold, liveProjects, ingest, arch, del, stored, fouled>>
  BY DEF MaintainPartitions
<1>2. PICK ahead : parts' = [d \in Days |-> IF d \in ahead THEN ExecutePartitionCreation(d) ELSE parts[d]]
  BY DEF MaintainPartitions
<1>3. \A d \in Days : parts'[d] = parts[d] \/ (parts[d] = "absent" /\ parts'[d] = "attached")
  BY <1>2 DEF ExecutePartitionCreation
<1>4. LogShape'
  <2>1. parts' \in [Days -> {"absent", "attached", "detached", "dropped"}]
    BY <1>2, <1>3 DEF LogShape
  <2> QED
    BY <1>1, <2>1 DEF LogShape
<1>5. now \in Nat
  BY DEF LogShape
<1>6. ColdShape' /\ ArchShape' /\ FilesSound' /\ ExportSound'
  BY <1>1, <1>5, ColdStay, ExportStays DEF ColdShape, ArchShape
<1>7. BatchesFresh' /\ DeletionSound' /\ Purged'
  BY <1>1, PurgedStays DEF BatchesFresh, DeletionSound
<1>8. ArchDue'
  <2>1. arch.todo \subseteq Days /\ arch.day \in Days
    BY DEF ArchShape, ArchStates
  <2> QED
    BY <1>1, <1>3, <2>1 DEF ArchDue, DueDay, Working
<1>9. PromisedSafe'
  <2>1. Promised' \subseteq Promised
    BY <1>1, <1>5, PromisedShrink
  <2>2. ASSUME NEW r \in Promised' PROVE Safe(r)'
    <3>1. r \in Promised /\ r \in LogRows /\ Safe(r)
      BY <2>1, <2>2 DEF Promised, LogShape, PromisedSafe
    <3>2. Day(r.at) \in Days
      BY <3>1, LogIs
    <3>3. parts'[Day(r.at)] = "dropped" <=> parts[Day(r.at)] = "dropped"
      BY <3>2, <1>3
    <3> QED
      BY <3>1, <3>3, <1>1 DEF Safe, InCold, RowsOf, Working, Org, Day
  <2> QED
    BY <2>2 DEF PromisedSafe
<1> QED
  BY <1>4, <1>6, <1>7, <1>8, <1>9

\* Steps of the ingest worker.
LEMMA BatchBegins == ASSUME LogInv, ProcessLogEvents PROVE LogInv'
<1> USE DEF LogInv
<1>1. UNCHANGED <<now, backend, parts, hot, cold, liveProjects, arch, del, stored, fouled>>
  BY DEF ProcessLogEvents, hotVars
<1>2. PICK n \in 1 .. 2 : \E ts \in [1 .. n -> {now + k : k \in {-Drift, Drift, Drift + 1}}], p \in liveProjects :
        LET first == Cardinality(stored)
            rows == {[id |-> first + i, at |-> ts[i], proj |-> p] :
                       i \in {j \in 1 .. n : ts[j] >= 0 /\ ValidateTimestamp(ts[j])}}
        IN ingest' = [pc |-> "copy", batch |-> rows, since |-> now]
  BY DEF ProcessLogEvents
<1>3. PICK ts \in [1 .. n -> {now + k : k \in {-Drift, Drift, Drift + 1}}], p \in liveProjects :
        LET first == Cardinality(stored)
            rows == {[id |-> first + i, at |-> ts[i], proj |-> p] :
                       i \in {j \in 1 .. n : ts[j] >= 0 /\ ValidateTimestamp(ts[j])}}
        IN ingest' = [pc |-> "copy", batch |-> rows, since |-> now]
  BY <1>2
<1> DEFINE first == Cardinality(stored)
           kept == {j \in 1 .. n : ts[j] >= 0 /\ ValidateTimestamp(ts[j])}
           rows == {[id |-> first + i, at |-> ts[i], proj |-> p] : i \in kept}
<1>4. ingest' = [pc |-> "copy", batch |-> rows, since |-> now]
  BY <1>3
<1>5. first \in Nat
  BY FS_CardinalityType DEF LogShape
<1>6. now \in 1 .. MaxNow /\ MaxNow \in Nat /\ Drift \in Nat /\ BatchTime \in Nat
  BY ArchiveConstants DEF LogShape
<1>7. ASSUME NEW i \in kept PROVE ts[i] \in 0 .. MaxNow + Drift /\ ts[i] + Drift >= now
  BY <1>6 DEF ValidateTimestamp
<1>8. rows \subseteq LogRows /\ \A r \in rows : r.at + Drift >= now
  <2>1. p \in Projects
    BY DEF LogShape
  <2> HIDE DEF first, kept
  <2>2. ASSUME NEW i \in kept PROVE [id |-> first + i, at |-> ts[i], proj |-> p] \in LogRows
    <3>1. i \in Nat
      BY <1>2 DEF kept
    <3> QED
      BY <3>1, <2>1, <1>5, <1>7 DEF LogRows
  <2> QED
    BY <2>2, <1>7
<1>9. IsFiniteSet(rows)
  <2> DEFINE R(i) == [id |-> first + i, at |-> ts[i], proj |-> p]
  <2>1. rows \subseteq {R(1), R(2)}
    BY <1>2
  <2>2. IsFiniteSet({R(1), R(2)})
    <3> HIDE DEF R
    <3>1. IsFiniteSet({} \cup {R(1)}) /\ IsFiniteSet(({} \cup {R(1)}) \cup {R(2)})
      BY FS_EmptySet, FS_AddElement
    <3>2. ({} \cup {R(1)}) \cup {R(2)} = {R(1), R(2)}
      OBVIOUS
    <3> QED
      BY <3>1, <3>2
  <2> QED
    BY <2>1, <2>2, FS_Subset
<1> HIDE DEF rows
<1>10. LogShape' /\ BatchesFresh'
  BY <1>1, <1>4, <1>6, <1>8, <1>9 DEF LogShape, BatchesFresh
<1>11. ColdShape' /\ ArchShape' /\ FilesSound' /\ ExportSound' /\ DeletionSound' /\ ArchDue' /\ Purged'
  BY <1>1, <1>6, ColdStay, ExportStays, PurgedStays
  DEF ColdShape, ArchShape, DeletionSound, ArchDue, DueDay, Working
<1>12. PromisedSafe'
  BY <1>1, <1>6, PromisedShrink, SafeStays
<1> QED
  BY <1>10, <1>11, <1>12

LEMMA BatchStored == ASSUME LogInv, CopyRows PROVE LogInv'
<1> USE DEF LogInv
<1>1. UNCHANGED <<now, backend, parts, cold, liveProjects, arch, del, fouled>> /\ ingest' = IdleIngest
  BY DEF CopyRows
<1>2. PICK rows : /\ rows \subseteq ingest.batch
                  /\ hot' = hot \cup rows /\ stored' = stored \cup rows
                  /\ \A r \in rows : parts[Day(r.at)] = "attached" /\ r.proj \in liveProjects
                  /\ ingest.pc = "copy"
  <2> DEFINE ok == \A r \in ingest.batch : parts[Day(r.at)] = "attached" /\ r.proj \in liveProjects
             rows == IF ok THEN ingest.batch ELSE {}
  <2>1. hot' = hot \cup rows /\ stored' = stored \cup rows /\ ingest.pc = "copy"
    BY DEF CopyRows
  <2>2. rows \subseteq ingest.batch /\ \A r \in rows : parts[Day(r.at)] = "attached" /\ r.proj \in liveProjects
    OBVIOUS
  <2> HIDE DEF rows
  <2> QED
    BY <2>1, <2>2
<1>3. now \in Nat /\ {HotDays, Drift, BatchTime} \subseteq Nat /\ Drift + BatchTime + 1 <= 2 * HotDays
  BY ArchiveConstants DEF LogShape
<1>4. rows \subseteq LogRows /\ IsFiniteSet(rows)
  BY <1>2, FS_Subset DEF LogShape, BatchesFresh
\* A row that arrives is younger than any day that is exported.
<1>5. ASSUME NEW r \in rows PROVE ~(2 * Day(r.at) < now - 2 * HotDays)
  <2>1. r.at \in Nat /\ r.at + Drift >= ingest.since /\ now <= ingest.since + BatchTime /\ ingest.since \in Nat
    BY <1>2, <1>4, ArchiveConstants DEF BatchesFresh, LogShape, LogRows
  <2>2. 2 * (r.at \div 2) >= r.at - 1
    BY <2>1
  <2> QED
    BY <2>1, <2>2, <1>3 DEF Day
<1>6. LogShape' /\ BatchesFresh'
  BY <1>1, <1>2, <1>4, FS_Union, FS_EmptySet DEF LogShape, BatchesFresh, IdleIngest
<1>7. ColdShape' /\ ArchShape' /\ FilesSound' /\ ExportSound' /\ DeletionSound' /\ ArchDue'
  BY <1>1, <1>3, ColdStay, ExportStays DEF ColdShape, ArchShape, DeletionSound, ArchDue, DueDay, Working
<1>8. Purged'
  <2>1. ASSUME NEW p \in Projects \ (liveProjects \cup fouled) PROVE NoRowOf(p, hot')
    BY <1>2, <2>1 DEF Purged, NoneLeft, NoRowOf
  <2> QED
    BY <1>1, <2>1 DEF Purged, NoneLeft, NoRowOf, OnlyListed
<1>9. ASSUME NEW r \in Promised' PROVE Safe(r)'
  <2>1. CASE r \in stored
    <3>1. r \in Promised
      BY <1>1, <2>1, <1>9 DEF Promised, Org, Day
    <3>2. Safe(r)
      BY <3>1 DEF PromisedSafe
    <3> QED
      BY <3>2, <1>1, <1>2, SafeSame
  <2>2. CASE r \in rows
    <3>1. parts[Day(r.at)] = "attached" /\ r \in hot' /\ Org(r) \in Orgs /\ Day(r.at) \in Days
      BY <1>2, <1>4, <2>2, LogIs
    <3>2. cold[Org(r)][Day(r.at)].flat.st = "none"
      BY <3>1, <1>5, <2>2 , FilesAre, DayFilesAre DEF FilesSound, ColdShape
    <3>3. Working => Day(r.at) # arch.day
      <4>1. ASSUME Working, Day(r.at) = arch.day PROVE FALSE
        <5>1. DueDay(arch.day) /\ arch.day \in Nat
          BY <4>1, DaysAre DEF ArchDue, ArchShape, ArchStates
        <5>2. 2 * arch.day < now - 2 * HotDays
          BY <5>1, <1>3, ArchiveConstants DEF DueDay
        <5> QED
          BY <5>2, <4>1, <1>5, <2>2
      <4> QED
        BY <4>1
    <3>4. arch.pc \in {"copy", "write"} => Working
      BY DEF Working
    <3> QED
      BY <3>1, <3>2, <3>3, <3>4, <1>1 DEF Safe, InCold, RowsOf, Working, Org, Day
  <2> QED
    BY <2>1, <2>2, <1>2, <1>9 DEF Promised
<1>10. PromisedSafe'
  BY <1>9 DEF PromisedSafe
<1> QED
  BY <1>6, <1>7, <1>8, <1>10

\* With no export under way only the partition and the finished files matter.
LEMMA SafeAtRest ==
  ASSUME PromisedSafe, Promised' \subseteq Promised, UNCHANGED <<parts, hot, backend, cold>>,
         arch'.pc \in {"idle", "next", "clean"}
  PROVE  PromisedSafe'
<1>1. ~Working' /\ arch'.pc \notin {"copy", "write"}
  BY DEF Working
<1>2. ASSUME NEW r \in Promised' PROVE Safe(r)'
  <2>1. Safe(r)
    BY <1>2 DEF PromisedSafe
  <2> QED
    BY <1>1, <2>1 DEF Safe, InCold, RowsOf, Org, Day
<1> QED
  BY <1>2 DEF PromisedSafe
LEMMA RestingArch ==
  ASSUME NEW pc \in {"idle", "next"}, NEW S, S \subseteq Days,
         arch' = [pc |-> pc, todo |-> S, day |-> 0, orgs |-> {}, buf |-> {}, chunk |-> 0, rows |-> {}, to |-> "flat"]
  PROVE  ArchShape' /\ ExportSound' /\ ~Working'
<1>1. ArchShape'
  BY DaysAre DEF ArchShape, ArchStates
<1>2. arch'.pc = pc /\ arch'.orgs = {} /\ arch'.buf = {} /\ arch'.rows = {}
  OBVIOUS
<1> QED
  BY <1>1, <1>2 DEF ExportSound, Working

\* Steps of the archival that leave the files alone.
LEMMA ArchiveBegins == ASSUME LogInv, CleanupOldLogs PROVE LogInv'
<1> USE DEF LogInv
<1>1. UNCHANGED <<now, backend, parts, hot, cold, liveProjects, ingest, del, stored>> /\ arch.pc = "idle"
      /\ arch' = [IdleArch EXCEPT !.pc = "next", !.todo = Expired] /\ fouled' = fouled \cup del.gone
  BY DEF CleanupOldLogs, hotVars
<1>2. now \in Nat
  BY DEF LogShape
<1>3. \A d \in Expired : d \in Days /\ DueDay(d)
  BY DEF Expired, OlderThan, DueDay
<1>4. LogShape' /\ ColdShape' /\ BatchesFresh' /\ DeletionSound' /\ FilesSound'
  BY <1>1, <1>2, ColdStay DEF LogShape, ColdShape, BatchesFresh, DeletionSound
<1>5. arch' = [pc |-> "next", todo |-> Expired, day |-> 0, orgs |-> {}, buf |-> {},
               chunk |-> 0, rows |-> {}, to |-> "flat"]
  BY <1>1 DEF IdleArch
<1>6. ArchShape' /\ ArchDue' /\ ExportSound'
  <2>1. Expired \subseteq Days
    BY <1>3
  <2>2. ArchShape' /\ ExportSound' /\ ~Working'
    BY <1>5, <2>1, RestingArch
  <2>3. \A d \in Expired : DueDay(d)'
    BY <1>1, <1>3 DEF DueDay
  <2> QED
    BY <1>5, <2>2, <2>3 DEF ArchDue
<1>7. PromisedSafe'
  <2>1. Promised' = Promised
    BY <1>1 DEF Promised, Org, Day
  <2> QED
    BY <2>1, <1>1, <1>5, SafeAtRest
<1>8. Purged'
  <2>1. fouled' = fouled \cup del.gone
    BY <1>1
  <2>2. arch'.buf = {}
    BY <1>5
  <2>3. UNCHANGED <<liveProjects, hot, cold, del>>
    BY <1>1
  <2> QED
    BY <2>1, <2>2, <2>3 DEF Purged, NoneLeft, NoRowOf
<1> QED
  BY <1>4, <1>6, <1>7, <1>8

LEMMA PartitionChosen == ASSUME LogInv, ArchivePartition PROVE LogInv'
<1> USE DEF LogInv
<1>1. UNCHANGED <<now, backend, parts, hot, cold, liveProjects, ingest, del, stored, fouled>> /\ arch.pc = "next"
  BY DEF ArchivePartition, hotVars
<1>2. now \in Nat
  BY DEF LogShape
<1>3. LogShape' /\ ColdShape' /\ BatchesFresh' /\ DeletionSound' /\ FilesSound'
  BY <1>1, <1>2, ColdStay DEF LogShape, ColdShape, BatchesFresh, DeletionSound
<1>4. Promised' = Promised
  BY <1>1 DEF Promised, Org, Day
<1>5. arch.todo \subseteq Days /\ arch.buf = {} /\ arch.rows = {}
  BY <1>1 DEF ArchShape, ArchStates, ExportSound
<1>6. arch'.buf = {}
  BY <1>5 DEF ArchivePartition, ArchShape, ArchStates
<1>7. Purged'
  <2>1. \A p \in del.gone \ fouled : FALSE
    BY <1>1 DEF Purged
  <2> QED
    BY <1>1, <2>1, <1>5, <1>6 DEF Purged, NoneLeft, NoRowOf
<1>8. CASE arch.todo = {}
  <2>1. arch' = [arch EXCEPT !.pc = "clean"]
    BY <1>8 DEF ArchivePartition
  <2>2. ArchShape' /\ ArchDue' /\ ExportSound'
    BY <1>1, <1>5, <1>8, <2>1 DEF ArchShape, ArchStates, ArchDue, Working, ExportSound
  <2>3. PromisedSafe'
    <3>1. arch'.pc = "clean"
      BY <2>1 DEF ArchShape, ArchStates
    <3> QED
      BY <1>1, <1>4, <3>1, SafeAtRest
  <2> QED
    BY <1>3, <1>7, <2>2, <2>3
<1>9. CASE arch.todo # {}
  <2>1. PICK d : d = Min(arch.todo)
    OBVIOUS
  <2>2. d \in arch.todo /\ d \in Days
    BY <1>5, <1>9, <2>1, DaysAre, MinIs
  <2>3. DueDay(d)
    BY <2>2 DEF ArchDue
  <2>4. arch' = [arch EXCEPT !.todo = arch.todo \ {d}, !.day = d, !.orgs = OrgsToArchive(d),
                                  !.pc = IF OrgsToArchive(d) = {} THEN "detach" ELSE "org"]
    BY <1>9, <2>1 DEF ArchivePartition
  <2>5. OrgsToArchive(d) \subseteq Orgs
    <3>1. \A r \in hot : Org(r) \in Orgs
      BY LogIs DEF LogShape
    <3> QED
      BY <3>1 DEF OrgsToArchive
  <2>6. /\ arch'.todo = arch.todo \ {d} /\ arch'.day = d /\ arch'.orgs = OrgsToArchive(d)
        /\ arch'.pc = IF OrgsToArchive(d) = {} THEN "detach" ELSE "org"
        /\ arch'.buf = {} /\ arch'.rows = {} /\ ArchShape'
    BY <1>5, <2>2, <2>4, <2>5 DEF ArchShape, ArchStates
  <2>7. ArchDue'
    <3>1. \A e \in Days : DueDay(e) => DueDay(e)'
      BY <1>1 DEF DueDay
    <3> QED
      BY <1>5, <2>2, <2>3, <2>6, <3>1 DEF ArchDue
  <2>8. ExportSound'
    BY <2>6 DEF ExportSound
\* Every promised row of the partition is there, so its organization is exported.
  <2>9. ASSUME NEW r \in Promised PROVE Safe(r)'
    <3>1. Safe(r) /\ r \in stored /\ Org(r) \in PaidOrgs
      BY <2>9 DEF PromisedSafe, Promised
    <3>2. ASSUME Day(r.at) = d, backend = "s3" PROVE Org(r) \in OrgsToArchive(d)
      <4>1. r \in hot
        BY <3>1, <3>2, <2>3 DEF Safe, DueDay
      <4> QED
        BY <3>1, <3>2, <4>1 DEF OrgsToArchive
    <3> QED
      BY <1>1, <2>6, <3>1, <3>2 DEF Safe, InCold, RowsOf, Org, Day
  <2> QED
    BY <1>3, <1>4, <1>7, <2>6, <2>7, <2>8, <2>9 DEF PromisedSafe
<1> QED
  BY <1>8, <1>9

LEMMA PartitionDetached == ASSUME LogInv, DetachPartition PROVE LogInv'
<1> USE DEF LogInv
<1>1. UNCHANGED <<now, backend, hot, cold, liveProjects, ingest, del, stored, fouled>> /\ arch.pc = "detach"
      /\ parts' = [parts EXCEPT ![arch.day] = "detached"] /\ arch' = [arch EXCEPT !.pc = "drop"]
  BY DEF DetachPartition
<1>2. now \in Nat /\ arch.day \in Days /\ arch.todo \subseteq Days
  BY DEF LogShape, ArchShape, ArchStates
<1>3. DueDay(arch.day)
  BY <1>1 DEF ArchDue, Working
<1>4. /\ parts' \in [Days -> {"absent", "attached", "detached", "dropped"}]
      /\ parts'[arch.day] = "detached" /\ parts[arch.day] # "dropped"
      /\ \A d \in Days : d = arch.day \/ parts'[d] = parts[d]
  BY <1>1, <1>2, <1>3 DEF LogShape, DueDay
<1>5. LogShape' /\ ColdShape' /\ BatchesFresh' /\ DeletionSound' /\ FilesSound'
  BY <1>1, <1>2, <1>4, ColdStay DEF LogShape, ColdShape, BatchesFresh, DeletionSound
<1>6. /\ arch'.todo = arch.todo /\ arch'.day = arch.day /\ arch'.orgs = arch.orgs /\ arch'.pc = "drop"
      /\ arch'.buf = arch.buf /\ arch'.rows = arch.rows /\ ArchShape'
  BY <1>1 DEF ArchShape, ArchStates
<1>7. ArchDue'
  <2>1. \A d \in Days : DueDay(d) => DueDay(d)'
    BY <1>1, <1>4 DEF DueDay
  <2> QED
    BY <1>1, <1>2, <1>6, <2>1 DEF ArchDue, Working
<1>8. ExportSound'
  BY <1>1, <1>6 DEF ExportSound, Org, Day
<1>9. Purged'
  BY <1>1, <1>6 DEF Purged, NoneLeft, NoRowOf
<1>10. ASSUME NEW r \in Promised' PROVE Safe(r)'
  <2>1. r \in Promised /\ r \in LogRows
    BY <1>1, <1>10 DEF Promised, Org, Day, LogShape
  <2>2. Safe(r) /\ Day(r.at) \in Days
    BY <2>1, LogIs DEF PromisedSafe
  <2>3. parts'[Day(r.at)] = "dropped" <=> parts[Day(r.at)] = "dropped"
    BY <2>2, <1>4
  <2> QED
    BY <1>1, <1>6, <2>2, <2>3 DEF Safe, InCold, RowsOf, Working, Org, Day
<1> QED
  BY <1>5, <1>6, <1>7, <1>8, <1>9, <1>10 DEF PromisedSafe

LEMMA PartitionDropped == ASSUME LogInv, DropPartition PROVE LogInv'
<1> USE DEF LogInv
<1>1. UNCHANGED <<now, backend, cold, liveProjects, ingest, del, stored, fouled>> /\ arch.pc = "drop"
      /\ parts' = [parts EXCEPT ![arch.day] = "dropped"] /\ arch' = [arch EXCEPT !.pc = "next"]
      /\ hot' = {r \in hot : Day(r.at) # arch.day}
  BY DEF DropPartition
<1>2. now \in Nat /\ arch.day \in Days /\ arch.todo \subseteq Days
  BY DEF LogShape, ArchShape, ArchStates
<1>3. DueDay(arch.day) /\ arch.day \notin arch.todo
  BY <1>1 DEF ArchDue, Working
<1>4. /\ parts' \in [Days -> {"absent", "attached", "detached", "dropped"}]
      /\ parts'[arch.day] = "dropped" /\ \A d \in Days : d = arch.day \/ parts'[d] = parts[d]
  BY <1>1, <1>2 DEF LogShape
<1>5. LogShape' /\ ColdShape' /\ BatchesFresh' /\ DeletionSound' /\ FilesSound'
  BY <1>1, <1>2, <1>4, ColdStay DEF LogShape, ColdShape, BatchesFresh, DeletionSound
<1>6. /\ arch'.todo = arch.todo /\ arch'.day = arch.day /\ arch'.orgs = arch.orgs /\ arch'.pc = "next"
      /\ arch'.buf = arch.buf /\ arch'.rows = arch.rows /\ ArchShape'
  BY <1>1 DEF ArchShape, ArchStates
<1>7. ArchDue'
  BY <1>1, <1>2, <1>3, <1>4, <1>6 DEF ArchDue, Working, DueDay
<1>8. ExportSound'
  BY <1>1, <1>6 DEF ExportSound, Org, Day
<1>9. Purged'
  BY <1>1, <1>6 DEF Purged, NoneLeft, NoRowOf
<1>10. ASSUME NEW r \in Promised' PROVE Safe(r)'
  <2>1. r \in Promised /\ r \in LogRows
    BY <1>1, <1>10 DEF Promised, Org, Day, LogShape
  <2>2. Safe(r) /\ Day(r.at) \in Days
    BY <2>1, LogIs DEF PromisedSafe
  <2>3. CASE Day(r.at) = arch.day
    <3>1. backend = "s3" => InCold(r)
      BY <1>1, <2>2, <2>3 DEF Safe, ExportSound, Working
    <3>2. backend # "none"
      <4>1. 2 * Day(r.at) >= now - 2 * ColdDays
        BY <2>1 DEF Promised
      <4>2. ASSUME backend = "none" PROVE 2 * Day(r.at) < now - 2 * ColdDays
        BY <1>3, <2>3, <4>2 DEF DueDay
      <4>3. Day(r.at) \in Nat /\ ColdDays \in Nat
        BY <2>2, DaysAre, ArchiveConstants
      <4>4. PICK d : d = Day(r.at)
        OBVIOUS
      <4> QED
        BY <4>1, <4>2, <4>3, <4>4, <1>2
    <3>3. ~Working' /\ arch'.pc = "next" /\ parts'[Day(r.at)] = "dropped"
      BY <1>4, <1>6, <2>3 DEF Working
    <3>4. InCold(r) => InCold(r)'
      BY <1>1 DEF InCold, RowsOf, Org, Day
    <3>5. backend = "s3" /\ cold[Org(r)][Day(r.at)].flat.st # "none" => r \in cold[Org(r)][Day(r.at)].flat.rows
      BY <2>2 DEF Safe
    <3> QED
      BY <1>1, <3>1, <3>2, <3>3, <3>4, <3>5 DEF Safe, Org, Day
  <2>4. CASE Day(r.at) # arch.day
    <3>1. parts'[Day(r.at)] = parts[Day(r.at)] /\ (r \in hot => r \in hot')
      BY <2>2, <2>4, <1>1, <1>4
    <3> QED
      BY <1>1, <1>6, <2>2, <3>1 DEF Safe, InCold, RowsOf, Working, Org, Day
  <2> QED
    BY <2>3, <2>4
<1> QED
  BY <1>5, <1>6, <1>7, <1>8, <1>9, <1>10 DEF PromisedSafe

\* An error, or the death of the worker, between any two of them.
LEMMA ArchiveStops ==
  ASSUME LogInv, UNCHANGED <<now, backend, parts, hot, cold, liveProjects, ingest, del, stored, fouled>>,
         arch.pc # "idle",
         \/ arch' = [IdleArch EXCEPT !.pc = "next", !.todo = arch.todo]
         \/ arch' = IdleArch
  PROVE  LogInv'
<1> USE DEF LogInv
<1>1. now \in Nat /\ arch.todo \subseteq Days
  BY DEF LogShape, ArchShape, ArchStates
<1>2. LogShape' /\ ColdShape' /\ BatchesFresh' /\ DeletionSound' /\ FilesSound'
  BY <1>1, ColdStay DEF LogShape, ColdShape, BatchesFresh, DeletionSound
<1>3. PICK pc \in {"idle", "next"}, S \in SUBSET arch.todo :
        arch' = [pc |-> pc, todo |-> S, day |-> 0, orgs |-> {}, buf |-> {}, chunk |-> 0, rows |-> {}, to |-> "flat"]
  <2>1. CASE arch' = IdleArch
    BY <2>1 DEF IdleArch
  <2>2. CASE arch' = [IdleArch EXCEPT !.pc = "next", !.todo = arch.todo]
    <3>1. arch' = [pc |-> "next", todo |-> arch.todo, day |-> 0, orgs |-> {}, buf |-> {}, chunk |-> 0, rows |-> {}, to |-> "flat"]
      BY <2>2 DEF IdleArch
    <3> QED
      BY <3>1
  <2> QED
    BY <2>1, <2>2
<1>4. ArchDue' /\ ExportSound' /\ ArchShape'
  <2>1. S \subseteq Days
    BY <1>1, <1>3
  <2>2. ArchShape' /\ ExportSound' /\ ~Working'
    BY <1>3, <2>1, RestingArch
  <2>3. \A d \in S : DueDay(d)'
    BY DEF DueDay, ArchDue
  <2> QED
    BY <1>3, <2>2, <2>3 DEF ArchDue
<1>5. Promised' = Promised
  BY DEF Promised, Org, Day
<1>6. PromisedSafe'
  BY <1>3, <1>5, SafeAtRest
<1>7. Purged'
  BY <1>3 DEF Purged, NoneLeft, NoRowOf
<1> QED
  BY <1>2, <1>4, <1>6, <1>7

\* A step of the export at the organization's day at hand.
LEMMA AfterOrgIs ==
  ASSUME ArchShape, NEW o \in arch.orgs, arch' = AfterOrg(o)
  PROVE  /\ ArchShape' /\ arch'.todo = arch.todo /\ arch'.day = arch.day /\ arch'.orgs = arch.orgs \ {o}
         /\ arch'.buf = {} /\ arch'.rows = {}
         /\ arch'.pc = IF arch.orgs = {o} THEN "detach" ELSE "org"
BY DEF ArchShape, ArchStates, AfterOrg
DaySound(F, o, d) ==
  /\ FileSound(F.flat, o, d) /\ \A n \in DOMAIN F.chunks : FileSound(F.chunks[n], o, d)
  /\ F.flat.st # "none" => DOMAIN F.chunks = {}
OrgDone(o) == arch'.orgs = arch.orgs \ {o} /\ arch'.pc = IF arch.orgs = {o} THEN "detach" ELSE "org"
OrgGoesOn == arch'.orgs = arch.orgs /\ arch'.pc \in {"copy", "write"}
SafeIn(r, F) ==
  backend = "s3" =>
    /\ F.flat.st # "none" => r \in F.flat.rows
    /\ OrgGoesOn => r \in arch'.buf \/ \E n \in DOMAIN F.chunks : n < arch'.chunk /\ r \in F.chunks[n].rows
    /\ ~OrgGoesOn => r \in RowsOf(F)
LEMMA ExportStep ==
  ASSUME LogInv, arch.pc \in {"org", "copy", "write"},
         UNCHANGED <<now, backend, parts, hot, liveProjects, ingest, del, stored, fouled>>,
         NEW o, o = Min(arch.orgs), NEW d, d = arch.day, NEW F \in DayFiles, OneDay(o, d, F),
         ArchShape', arch'.todo = arch.todo, arch'.day = arch.day, OrgDone(o) \/ OrgGoesOn, ExportSound',
         DaySound(F, o, d),
         \A p \in Projects : NoneLeft(p) =>
           /\ NoRowOf(p, arch'.buf) /\ NoRowOf(p, F.flat.rows)
           /\ \A n \in DOMAIN F.chunks : NoRowOf(p, F.chunks[n].rows),
         \A r \in Promised : Org(r) = o /\ Day(r.at) = d => SafeIn(r, F)
  PROVE  LogInv'
<1> USE DEF LogInv
<1>1. o \in arch.orgs /\ o \in Orgs
  BY OrgAtHand DEF ExportSound
<1>2. d \in Days /\ now \in Nat /\ arch.todo \subseteq Days
  BY DEF ArchShape, ArchStates, LogShape
<1>3. /\ ColdShape' /\ cold'[o][d] = F
      /\ \A p \in Orgs : \A e \in Days : (p = o /\ e = d) \/ cold'[p][e] = cold[p][e]
  BY <1>1, <1>2, OneDayIs
<1>4. LogShape' /\ BatchesFresh' /\ DeletionSound'
  BY DEF LogShape, BatchesFresh, DeletionSound
<1>5. DueDay(d)
  BY DEF ArchDue, Working
<1>6. 2 * d < now - 2 * HotDays
  <2>1. {HotDays, ColdDays} \subseteq Nat /\ HotDays < ColdDays /\ d \in Nat
    BY ArchiveConstants, <1>2, DaysAre
  <2> QED
    BY <1>2, <1>5, <2>1 DEF DueDay
<1>7. FilesSound'
  <2>1. ASSUME NEW p \in Orgs, NEW e \in Days
        PROVE  DaySound(cold[p][e], p, e)' /\ (cold'[p][e].flat.st # "none" => 2 * e < now' - 2 * HotDays)
    <3>1. CASE p = o /\ e = d
      <4>1. cold'[p][e] = F /\ DaySound(F, p, e)
        BY <1>3, <3>1
      <4> QED
        BY <1>6, <3>1, <4>1 DEF DaySound, FileSound, Org, Day
    <3>2. CASE ~(p = o /\ e = d)
      BY <1>3, <3>2 DEF FilesSound, DaySound, FileSound, Org, Day
    <3> QED
      BY <3>1, <3>2
  <2> QED
    BY <2>1 DEF FilesSound, DaySound, FileSound, Org, Day
<1>8. ArchDue'
  BY <1>5, <1>2 DEF ArchDue, DueDay, Working
<1>9. Purged'
  <2>1. del.gone \subseteq fouled
    BY DEF Purged
  <2>2. ASSUME NEW p \in Projects \ (liveProjects \cup fouled) PROVE NoneLeft(p)'
    <3>1. NoneLeft(p)
      BY <2>2 DEF Purged
    <3> QED
      BY <1>3, <3>1 DEF NoneLeft, NoRowOf
  <2> QED
    BY <2>1, <2>2 DEF Purged
<1>10. Promised' = Promised
  BY DEF Promised, Org, Day
<1>11. ASSUME NEW r \in Promised PROVE Safe(r)'
  <2>1. Safe(r) /\ r \in LogRows
    BY <1>11 DEF PromisedSafe, Promised, LogShape
  <2>2. Org(r) \in Orgs /\ Day(r.at) \in Days
    BY <2>1, LogIs
  <2>3. CASE Org(r) = o /\ Day(r.at) = d
    <3>1. parts[Day(r.at)] # "dropped"
      BY <1>5, <2>3 DEF DueDay
    <3>2. cold'[Org(r)][Day(r.at)] = F /\ SafeIn(r, F)
      BY <1>3, <2>3, <1>11
    <3>3. OrgGoesOn => Min(arch'.orgs) = o
      BY DEF OrgGoesOn
    <3>4. Org(r) \notin arch'.orgs => ~OrgGoesOn
      BY <1>1, <2>3 DEF OrgGoesOn
    <3>5. arch'.pc \in {"copy", "write"} => OrgGoesOn
      BY DEF OrgDone, OrgGoesOn
    <3> QED
      BY <2>1, <3>1, <3>2, <3>3, <3>4, <3>5 DEF Safe, SafeIn, InCold, RowsOf, Org, Day
  <2>4. CASE ~(Org(r) = o /\ Day(r.at) = d)
    <3>1. cold'[Org(r)][Day(r.at)] = cold[Org(r)][Day(r.at)]
      BY <1>3, <2>2, <2>4
    <3>2. Day(r.at) = d => (Org(r) \notin arch'.orgs => Org(r) \notin arch.orgs)
      BY <2>4 DEF OrgDone, OrgGoesOn
    <3>3. arch'.pc \in {"copy", "write"} /\ Day(r.at) = d => Org(r) # Min(arch'.orgs)
      BY <2>4 DEF OrgDone, OrgGoesOn
    <3> QED
      BY <2>1, <3>1, <3>2, <3>3 DEF Safe, InCold, RowsOf, Working, Org, Day
  <2> QED
    BY <2>3, <2>4
<1> QED
  BY <1>3, <1>4, <1>7, <1>8, <1>9, <1>10, <1>11 DEF PromisedSafe

LEMMA RowsOfIs ==
  ASSUME NEW F \in DayFiles, F.flat.st # "ok" => F.flat.rows = {}
  PROVE  RowsOf(F) = IF F.flat.st # "none" THEN F.flat.rows ELSE UNION {F.chunks[n].rows : n \in DOMAIN F.chunks}
<1>1. F.flat \in ParquetFiles
  BY DayFilesAre
<1>2. F.flat # NoFile <=> F.flat.st # "none"
  BY <1>1, FilesAre DEF NoFile
<1> QED
  BY <1>2 DEF RowsOf

LEMMA OrgStarted == ASSUME LogInv, ArchiveOrg PROVE LogInv'
<1> USE DEF LogInv
<1>1. UNCHANGED <<now, backend, parts, hot, liveProjects, ingest, del, stored, fouled>> /\ arch.pc = "org"
  BY DEF ArchiveOrg, hotVars
<1>2. PICK o : o = Min(arch.orgs)
  OBVIOUS
<1>3. PICK d : d = arch.day
  OBVIOUS
<1>4. o \in arch.orgs /\ o \in Orgs
  BY <1>1, <1>2, OrgAtHand DEF ExportSound
<1>5. d \in Days
  BY <1>3 DEF ArchShape, ArchStates
<1>6. cold[o][d] \in DayFiles
  BY <1>4, <1>5 DEF ColdShape
<1>7. DaySound(cold[o][d], o, d)
  BY <1>4, <1>5 DEF FilesSound, DaySound
<1>8. NoFiles.flat = NoFile /\ DOMAIN NoFiles.chunks = {} /\ NoFile.st = "none" /\ NoFile.rows = {}
  BY DEF NoFiles, NoFile
<1>9. ASSUME arch' = AfterOrg(o)
      PROVE  ArchShape' /\ arch'.todo = arch.todo /\ arch'.day = arch.day /\ OrgDone(o) /\ ~OrgGoesOn
             /\ arch'.buf = {} /\ arch'.rows = {}
  BY <1>4, <1>9, AfterOrgIs DEF OrgDone, OrgGoesOn
<1>10. ASSUME arch' = AfterOrg(o) PROVE ExportSound'
  <2>1. arch'.pc \in {"org", "detach"} /\ (arch'.pc = "org" => arch'.orgs # {}) /\ (arch'.pc = "detach" => arch'.orgs = {})
    BY <1>4, <1>9, <1>10 DEF OrgDone
  <2> QED
    BY <1>9, <1>10, <2>1 DEF ExportSound
\* The flat file of the day was complete,
<1>11. CASE AlreadyArchived(cold[o][d])
  <2>1. arch' = AfterOrg(o) /\ UNCHANGED cold
    BY <1>2, <1>3, <1>11 DEF ArchiveOrg
  <2>2. OneDay(o, d, cold[o][d])
    BY <2>1, <1>4, <1>5 DEF OneDay, ColdShape
  <2>3. cold[o][d].flat.st # "none"
    <3>1. cold[o][d].flat \in ParquetFiles
      BY <1>6, DayFilesAre
    <3> QED
      BY <1>7, <1>11, <3>1, FilesAre DEF AlreadyArchived, DaySound, FileSound
  <2>4. ASSUME NEW r \in Promised, Org(r) = o, Day(r.at) = d PROVE SafeIn(r, cold[o][d])
    <3>1. Safe(r)
      BY <2>4 DEF PromisedSafe
    <3>2. backend = "s3" => r \in cold[o][d].flat.rows
      BY <2>3, <2>4, <3>1 DEF Safe
    <3>3. RowsOf(cold[o][d]) = cold[o][d].flat.rows
      BY <1>6, <1>7, <2>3, RowsOfIs DEF DaySound, FileSound
    <3> QED
      BY <1>9, <2>1, <3>2, <3>3 DEF SafeIn
  <2>5. ASSUME NEW p \in Projects, NoneLeft(p)
        PROVE  /\ NoRowOf(p, arch'.buf) /\ NoRowOf(p, cold[o][d].flat.rows)
               /\ \A n \in DOMAIN cold[o][d].chunks : NoRowOf(p, cold[o][d].chunks[n].rows)
    BY <1>4, <1>5, <1>9, <2>1, <2>5 DEF NoneLeft, NoRowOf
  <2> QED
    BY <1>1, <1>2, <1>3, <1>6, <1>7, <1>9, <1>10, <2>1, <2>2, <2>4, <2>5, ExportStep
\* or there is none, and all rows of the day are still in the partition.
<1>12. CASE ~AlreadyArchived(cold[o][d])
  <2> DEFINE rows == {r \in hot : Day(r.at) = d /\ Org(r) = o}
  <2>1. OneDay(o, d, NoFiles)
    BY <1>2, <1>3, <1>12 DEF ArchiveOrg, OneDay
  <2>2. arch' = IF rows = {} THEN AfterOrg(o) ELSE [arch EXCEPT !.pc = "copy", !.chunk = 0, !.buf = rows]
    BY <1>2, <1>3, <1>12 DEF ArchiveOrg
  <2>3. ASSUME NEW r \in Promised, Org(r) = o, Day(r.at) = d PROVE r \in rows
    <3>1. Safe(r) /\ DueDay(d)
      BY <1>1, <1>3, <2>3 DEF PromisedSafe, ArchDue, Working
    <3> QED
      BY <2>3, <3>1 DEF Safe, DueDay
  <2>4. DaySound(NoFiles, o, d)
    BY <1>8 DEF DaySound, FileSound
  <2>5. rows \subseteq LogRows /\ \A p \in Projects : NoneLeft(p) => NoRowOf(p, rows)
    BY DEF NoneLeft, NoRowOf, LogShape
  <2>6. rows \subseteq hot /\ \A r \in rows : Day(r.at) = d /\ Org(r) = o
    OBVIOUS
  <2> HIDE DEF rows
  <2>7. CASE rows = {}
    <3>1. arch' = AfterOrg(o)
      BY <2>2, <2>7
    <3>2. \A r \in Promised : Org(r) = o /\ Day(r.at) = d => SafeIn(r, NoFiles)
      BY <2>3, <2>7
    <3>3. \A p \in Projects : NoneLeft(p) =>
           /\ NoRowOf(p, arch'.buf) /\ NoRowOf(p, NoFiles.flat.rows)
           /\ \A n \in DOMAIN NoFiles.chunks : NoRowOf(p, NoFiles.chunks[n].rows)
      BY <3>1, <1>8, <1>9 DEF NoRowOf
    <3> QED
      BY <1>1, <1>2, <1>3, <1>9, <1>10, <2>1, <2>4, <3>1, <3>2, <3>3, FilesAre, ExportStep
  <2>8. CASE rows # {}
    <3>1. arch' = [arch EXCEPT !.pc = "copy", !.chunk = 0, !.buf = rows]
      BY <2>2, <2>8
    <3>2. /\ arch'.pc = "copy" /\ arch'.chunk = 0 /\ arch'.buf = rows /\ arch'.todo = arch.todo
          /\ arch'.day = arch.day /\ arch'.orgs = arch.orgs /\ arch'.rows = arch.rows /\ ArchShape'
      BY <3>1, <2>5 DEF ArchShape, ArchStates
    <3>3. OrgGoesOn /\ ~OrgDone(o) /\ Min(arch'.orgs) = o
      BY <1>2, <3>2 DEF OrgGoesOn, OrgDone
    <3>4. ExportSound'
      <4>1. cold'[o][d] = NoFiles
        BY <1>4, <1>5, <2>1, FilesAre, OneDayIs
      <4>2. cold'[Min(arch'.orgs)][arch'.day] = NoFiles
        BY <4>1, <3>2, <3>3, <1>3
      <4>3. arch'.rows = {} /\ arch'.orgs # {}
        BY <1>1, <1>4, <3>2 DEF ExportSound
      <4>4. \A r \in arch'.buf : Day(r.at) = arch'.day /\ Org(r) = Min(arch'.orgs)
        BY <1>3, <2>6, <3>2, <3>3
      <4> QED
        BY <1>8, <3>2, <4>2, <4>3, <4>4 DEF ExportSound, Org, Day
    <3>5. \A r \in Promised : Org(r) = o /\ Day(r.at) = d => SafeIn(r, NoFiles)
      BY <2>3, <3>2, <3>3, <1>8 DEF SafeIn
    <3>6. \A p \in Projects : NoneLeft(p) =>
           /\ NoRowOf(p, arch'.buf) /\ NoRowOf(p, NoFiles.flat.rows)
           /\ \A n \in DOMAIN NoFiles.chunks : NoRowOf(p, NoFiles.chunks[n].rows)
      BY <3>2, <2>5, <1>8 DEF NoRowOf
    <3> QED
      BY <1>1, <1>2, <1>3, <2>1, <2>4, <3>2, <3>3, <3>4, <3>5, <3>6, FilesAre, ExportStep
  <2> QED
    BY <2>7, <2>8
<1> QED
  BY <1>11, <1>12

\* Chunk k of a day is written or replaced.
WithChunk(F, k, f) == [flat |-> F.flat, chunks |-> [n \in DOMAIN F.chunks \cup {k} |-> IF n = k THEN f ELSE F.chunks[n]]]
LEMMA WithChunkIs ==
  ASSUME NEW F \in DayFiles, NEW k \in Nat, NEW f \in ParquetFiles
  PROVE  /\ WithChunk(F, k, f) \in DayFiles /\ WithChunk(F, k, f).flat = F.flat
         /\ DOMAIN WithChunk(F, k, f).chunks = DOMAIN F.chunks \cup {k}
         /\ WithChunk(F, k, f).chunks[k] = f
         /\ \A n \in DOMAIN F.chunks : n # k => WithChunk(F, k, f).chunks[n] = F.chunks[n]
<1> DEFINE c == [n \in DOMAIN F.chunks \cup {k} |-> IF n = k THEN f ELSE F.chunks[n]]
<1>1. /\ F.flat \in ParquetFiles /\ DOMAIN F.chunks \subseteq Nat
      /\ \A n \in DOMAIN F.chunks : F.chunks[n] \in ParquetFiles
  BY DayFilesAre
<1>2. DOMAIN c = DOMAIN F.chunks \cup {k} /\ c[k] = f /\ \A n \in DOMAIN F.chunks : n # k => c[n] = F.chunks[n]
  OBVIOUS
<1>3. c = [n \in DOMAIN c |-> c[n]] /\ DOMAIN c \subseteq Nat /\ \A n \in DOMAIN c : c[n] \in ParquetFiles
  <2>1. DOMAIN c \subseteq Nat /\ \A n \in DOMAIN c : c[n] \in ParquetFiles
    BY <1>1, <1>2
  <2> QED
    BY <2>1
<1> HIDE DEF c
<1>4. [flat |-> F.flat, chunks |-> c] \in DayFiles
  BY <1>1, <1>3, ChunksAre
<1>5. WithChunk(F, k, f) = [flat |-> F.flat, chunks |-> c]
  BY DEF WithChunk, c
<1> QED
  BY <1>1, <1>2, <1>4, <1>5 DEF c

LEMMA ChunkWritten ==
  ASSUME NEW F \in DayFiles, NEW k, NEW f
  PROVE  [F EXCEPT !.chunks = [n \in DOMAIN F.chunks \cup {k} |-> IF n = k THEN f ELSE F.chunks[n]]] = WithChunk(F, k, f)
<1> DEFINE c == [n \in DOMAIN F.chunks \cup {k} |-> IF n = k THEN f ELSE F.chunks[n]]
<1> HIDE DEF c
<1>1. [F EXCEPT !.chunks = c] = [flat |-> F.flat, chunks |-> c]
  BY DayFilesAre
<1> QED
  BY <1>1 DEF c, WithChunk

LEMMA PartStarted == ASSUME LogInv, FlushCsv PROVE LogInv'
<1> USE DEF LogInv
<1>1. UNCHANGED <<now, backend, parts, hot, liveProjects, ingest, del, stored, fouled>> /\ arch.pc = "copy"
  BY DEF FlushCsv, hotVars
<1>2. PICK o : o = Min(arch.orgs)
  OBVIOUS
<1>3. PICK d : d = arch.day
  OBVIOUS
<1>4. o \in arch.orgs /\ o \in Orgs
  BY <1>1, <1>2, OrgAtHand DEF ExportSound
<1>5. d \in Days /\ arch.chunk \in Nat /\ arch.buf \subseteq LogRows
  BY <1>3 DEF ArchShape, ArchStates
<1>6. PICK G : G = cold[o][d]
  OBVIOUS
<1>7. G \in DayFiles /\ DaySound(G, o, d)
  BY <1>4, <1>5, <1>6 DEF ColdShape, FilesSound, DaySound
<1>8. G.flat.st = "none" /\ \A n \in DOMAIN G.chunks : n < arch.chunk
  BY <1>1, <1>2, <1>3, <1>6 DEF ExportSound
<1>9. PICK S \in SUBSET arch.buf, final \in BOOLEAN :
        LET to == IF final /\ arch.chunk = 0 THEN "flat" ELSE "chunk"
        IN /\ final => S = arch.buf
           /\ arch' = [arch EXCEPT !.pc = "write", !.rows = S, !.to = to]
           /\ cold' = IF backend = "s3" THEN cold
                      ELSE IF to = "flat" THEN [cold EXCEPT ![o][d].flat = Torn]
                      ELSE [cold EXCEPT ![o][d].chunks =
                              [n \in DOMAIN @ \cup {arch.chunk} |-> IF n = arch.chunk THEN Torn ELSE @[n]]]
  BY <1>2, <1>3 DEF FlushCsv
<1>10. PICK to : to = IF final /\ arch.chunk = 0 THEN "flat" ELSE "chunk"
  OBVIOUS
<1>11. /\ to \in {"flat", "chunk"}
       /\ to = "flat" => arch.chunk = 0 /\ S = arch.buf
       /\ arch' = [arch EXCEPT !.pc = "write", !.rows = S, !.to = to]
       /\ cold' = IF backend = "s3" THEN cold
                  ELSE IF to = "flat" THEN [cold EXCEPT ![o][d].flat = Torn]
                  ELSE [cold EXCEPT ![o][d].chunks =
                          [n \in DOMAIN @ \cup {arch.chunk} |-> IF n = arch.chunk THEN Torn ELSE @[n]]]
  BY <1>9, <1>10
<1>12. /\ arch'.pc = "write" /\ arch'.rows = S /\ arch'.to = to /\ arch'.todo = arch.todo /\ arch'.day = arch.day
       /\ arch'.orgs = arch.orgs /\ arch'.buf = arch.buf /\ arch'.chunk = arch.chunk /\ ArchShape'
  <2>1. arch' = [arch EXCEPT !.pc = "write", !.rows = S, !.to = to] /\ to \in {"flat", "chunk"} /\ S \subseteq LogRows
    BY <1>5, <1>11
  <2> QED
    BY <2>1 DEF ArchShape, ArchStates
<1>13. OrgGoesOn /\ Min(arch'.orgs) = o
  BY <1>2, <1>12 DEF OrgGoesOn
<1>14. Torn.st = "torn" /\ Torn.rows = {}
  BY DEF Torn
\* What the files of the day become.
<1> DEFINE Becomes(F) ==
      /\ F \in DayFiles /\ OneDay(o, d, F) /\ DaySound(F, o, d)
      /\ backend = "s3" => F = G
      /\ \A r \in F.flat.rows : r \in G.flat.rows
      /\ \A n \in DOMAIN F.chunks : F.chunks[n].rows = {} \/ (n \in DOMAIN G.chunks /\ F.chunks[n] = G.chunks[n])
      /\ \A n \in DOMAIN F.chunks : n < arch.chunk \/ (n = arch.chunk /\ to = "chunk")
      /\ F.flat.st # "ok" /\ (to = "chunk" => F.flat.st = "none")
<1>15. \E F : Becomes(F)
  <2>1. CASE backend = "s3"
    <3>1. OneDay(o, d, G)
      BY <2>1, <1>4, <1>5, <1>6, <1>11 DEF OneDay, ColdShape
    <3> QED
      BY <3>1, <1>7, <1>8
  <2>2. CASE backend # "s3" /\ to = "flat"
    <3>1. PICK F : F = [G EXCEPT !.flat = Torn]
      OBVIOUS
    <3>2. F \in DayFiles /\ F = [flat |-> Torn, chunks |-> G.chunks]
      BY <1>7, <3>1, FilesAre, DayFilesAre
    <3>3. F.flat = Torn /\ F.chunks = G.chunks
      BY <3>2
    <3>4. OneDay(o, d, F)
      BY <2>2, <1>6, <1>11, <3>1 DEF OneDay
    <3>5. DOMAIN G.chunks = {}
      <4>1. DOMAIN G.chunks \subseteq Nat
        BY <1>7, DayFilesAre
      <4> QED
        BY <4>1, <1>8, <1>11, <2>2
    <3>6. DaySound(F, o, d)
      BY <3>3, <3>5, <1>14, <2>2 DEF DaySound, FileSound
    <3> QED
      BY <3>2, <3>3, <3>4, <3>5, <3>6, <1>14, <2>2
  <2>3. CASE backend # "s3" /\ to = "chunk"
    <3>1. PICK F : F = WithChunk(G, arch.chunk, Torn)
      OBVIOUS
    <3>2. /\ F \in DayFiles /\ F.flat = G.flat /\ DOMAIN F.chunks = DOMAIN G.chunks \cup {arch.chunk}
          /\ F.chunks[arch.chunk] = Torn /\ \A n \in DOMAIN G.chunks : n # arch.chunk => F.chunks[n] = G.chunks[n]
      BY <1>5, <1>7, <3>1, FilesAre, WithChunkIs
    <3>3. OneDay(o, d, F)
      <4>1. PICK X : X = [G EXCEPT !.chunks =
                            [n \in DOMAIN G.chunks \cup {arch.chunk} |-> IF n = arch.chunk THEN Torn ELSE G.chunks[n]]]
        OBVIOUS
      <4>2. cold' = [cold EXCEPT ![o][d] = X]
        BY <2>3, <1>6, <1>11, <4>1
      <4>3. X = F
        BY <4>1, <1>7, <3>1, ChunkWritten
      <4> QED
        BY <4>2, <4>3 DEF OneDay
    <3>4. DaySound(F, o, d)
      BY <3>2, <1>7, <1>8, <1>14, <2>3 DEF DaySound, FileSound
    <3> QED
      BY <3>2, <3>3, <3>4, <1>8, <1>14, <2>3
  <2> QED
    BY <2>1, <2>2, <2>3, <1>11
<1>16. PICK F : Becomes(F)
  BY <1>15
<1>17. ExportSound'
  <2>1. cold'[Min(arch'.orgs)][arch'.day] = F
    BY <1>3, <1>4, <1>5, <1>12, <1>13, <1>16, OneDayIs
  <2>2. \A r \in arch'.buf : Day(r.at) = arch'.day /\ Org(r) = Min(arch'.orgs)
    BY <1>12 DEF ExportSound
  <2> QED
    BY <1>4, <1>9, <1>11, <1>12, <1>16, <2>1, <2>2 DEF ExportSound, Org, Day
<1>18. ASSUME NEW r \in Promised, Org(r) = o, Day(r.at) = d PROVE SafeIn(r, F)
  <2>1. Safe(r)
    BY <1>18 DEF PromisedSafe
  <2> QED
    BY <2>1, <1>1, <1>2, <1>3, <1>6, <1>8, <1>12, <1>13, <1>16, <1>18 DEF Safe, SafeIn
<1>19. ASSUME NEW p \in Projects, NoneLeft(p)
       PROVE  /\ NoRowOf(p, arch'.buf) /\ NoRowOf(p, F.flat.rows)
              /\ \A n \in DOMAIN F.chunks : NoRowOf(p, F.chunks[n].rows)
  BY <1>4, <1>5, <1>6, <1>12, <1>16, <1>19 DEF NoneLeft, NoRowOf
<1> QED
  BY <1>1, <1>2, <1>3, <1>12, <1>13, <1>16, <1>17, <1>18, <1>19, ExportStep

LEMMA PartWritten == ASSUME LogInv, WriteEnds PROVE LogInv'
<1> USE DEF LogInv
<1>1. UNCHANGED <<now, backend, parts, hot, liveProjects, ingest, del, stored, fouled>> /\ arch.pc = "write"
  BY DEF WriteEnds, hotVars
<1>2. PICK o : o = Min(arch.orgs)
  OBVIOUS
<1>3. PICK d : d = arch.day
  OBVIOUS
<1>4. o \in arch.orgs /\ o \in Orgs
  BY <1>1, <1>2, OrgAtHand DEF ExportSound
<1>5. d \in Days /\ arch.chunk \in Nat /\ arch.buf \subseteq LogRows /\ arch.rows \subseteq LogRows /\ arch.to \in {"flat", "chunk"}
  BY <1>3 DEF ArchShape, ArchStates
<1>6. PICK G : G = cold[o][d]
  OBVIOUS
<1>7. G \in DayFiles /\ DaySound(G, o, d)
  BY <1>4, <1>5, <1>6 DEF ColdShape, FilesSound, DaySound
<1>8. /\ \A n \in DOMAIN G.chunks : n < arch.chunk \/ (n = arch.chunk /\ arch.to = "chunk")
      /\ arch.to = "chunk" => G.flat.st = "none"
      /\ arch.to = "flat" => arch.chunk = 0 /\ arch.rows = arch.buf /\ G.flat.st # "ok"
      /\ arch.rows \subseteq arch.buf /\ \A r \in arch.buf : Day(r.at) = d /\ Org(r) = o
  BY <1>1, <1>2, <1>3, <1>6 DEF ExportSound
<1>9. PICK new : new = File(arch.rows)
  OBVIOUS
<1>10. new \in ParquetFiles /\ new.st = "ok" /\ new.rows = arch.rows /\ FileSound(new, o, d)
  BY <1>5, <1>8, <1>9, FilesAre DEF File, FileSound
<1>11. DOMAIN G.chunks \subseteq Nat /\ G.flat \in ParquetFiles
  BY <1>7, DayFilesAre
\* What the files of the day become.
<1> DEFINE Becomes(F) ==
      /\ F \in DayFiles /\ OneDay(o, d, F) /\ DaySound(F, o, d)
      /\ F.flat = G.flat \/ (arch.to = "flat" /\ F.flat = new)
      /\ \A n \in DOMAIN F.chunks : F.chunks[n] = new \/ (n \in DOMAIN G.chunks /\ F.chunks[n] = G.chunks[n])
      /\ \A n \in DOMAIN F.chunks : n \in Nat /\ n <= arch.chunk
      /\ arch.to = "chunk" => F.flat.st = "none"
      /\ backend = "s3" /\ arch.to = "flat" => F.flat = new
      /\ backend = "s3" /\ arch.to = "chunk" =>
           /\ arch.chunk \in DOMAIN F.chunks /\ F.chunks[arch.chunk] = new
           /\ \A n \in DOMAIN G.chunks : n < arch.chunk => n \in DOMAIN F.chunks /\ F.chunks[n] = G.chunks[n]
<1>12. \E F : Becomes(F)
  <2>1. CASE arch.to = "flat"
    <3>1. PICK f : f = Completed(G.flat, G.flat = Torn)
      OBVIOUS
    <3>2. PICK F : F = [G EXCEPT !.flat = f]
      OBVIOUS
    <3>3. (f = new \/ f = G.flat) /\ (backend = "s3" => f = new) /\ f \in ParquetFiles /\ FileSound(f, o, d)
      BY <3>1, <1>7, <1>9, <1>10, <1>11 DEF Completed, DaySound
    <3>4. F \in DayFiles /\ F = [flat |-> f, chunks |-> G.chunks]
      BY <1>7, <3>2, <3>3, DayFilesAre
    <3>5. F.flat = f /\ F.chunks = G.chunks
      BY <3>4
    <3>6. OneDay(o, d, F)
      <4>1. cold' = [cold EXCEPT ![o][d].flat = Completed(@, @ = Torn)]
        BY <2>1, <1>2, <1>3 DEF WriteEnds
      <4> QED
        BY <4>1, <1>6, <3>1, <3>2 DEF OneDay
    <3>7. DOMAIN G.chunks = {}
      BY <1>8, <1>11, <2>1
    <3>8. DaySound(F, o, d)
      BY <3>3, <3>5, <3>7 DEF DaySound
    <3> QED
      BY <2>1, <3>3, <3>4, <3>5, <3>6, <3>7, <3>8
  <2>2. CASE arch.to = "chunk" /\ (backend = "s3" \/ arch.chunk \in DOMAIN G.chunks)
    <3>1. PICK F : F = WithChunk(G, arch.chunk, new)
      OBVIOUS
    <3>2. /\ F \in DayFiles /\ F.flat = G.flat /\ DOMAIN F.chunks = DOMAIN G.chunks \cup {arch.chunk}
          /\ F.chunks[arch.chunk] = new /\ \A n \in DOMAIN G.chunks : n # arch.chunk => F.chunks[n] = G.chunks[n]
      BY <1>5, <1>7, <1>10, <3>1, WithChunkIs
    <3>3. OneDay(o, d, F)
      <4>1. PICK X : X = [G EXCEPT !.chunks =
                            [n \in DOMAIN G.chunks \cup {arch.chunk} |-> IF n = arch.chunk THEN new ELSE G.chunks[n]]]
        OBVIOUS
      <4>2. cold' = [cold EXCEPT ![o][d].chunks =
                       [n \in DOMAIN G.chunks \cup {arch.chunk} |-> IF n = arch.chunk THEN new ELSE G.chunks[n]]]
        BY <2>2, <1>2, <1>3, <1>6, <1>9 DEF WriteEnds
      <4>3. cold' = [cold EXCEPT ![o][d] = X]
        BY <4>1, <4>2, <1>6
      <4>4. X = F
        BY <4>1, <1>7, <3>1, ChunkWritten
      <4> QED
        BY <4>3, <4>4 DEF OneDay
    <3>4. DaySound(F, o, d)
      BY <3>2, <1>7, <1>8, <1>10, <2>2 DEF DaySound
    <3>5. \A n \in DOMAIN F.chunks : n \in Nat /\ n <= arch.chunk
      BY <3>2, <1>5, <1>8, <1>11
    <3>6. \A n \in DOMAIN G.chunks : n < arch.chunk => n \in DOMAIN F.chunks /\ F.chunks[n] = G.chunks[n]
      BY <3>2, <1>5, <1>11
    <3>7. \A n \in DOMAIN F.chunks : F.chunks[n] = new \/ (n \in DOMAIN G.chunks /\ F.chunks[n] = G.chunks[n])
      BY <3>2
    <3> QED
      BY <3>2, <3>3, <3>4, <3>5, <3>6, <3>7, <1>8, <2>2
  <2>3. CASE arch.to = "chunk" /\ ~(backend = "s3" \/ arch.chunk \in DOMAIN G.chunks)
    <3>1. UNCHANGED cold
      BY <2>3, <1>2, <1>3, <1>6 DEF WriteEnds
    <3>2. OneDay(o, d, G)
      BY <3>1, <1>4, <1>5, <1>6 DEF OneDay, ColdShape
    <3>3. \A n \in DOMAIN G.chunks : n \in Nat /\ n <= arch.chunk
      BY <1>5, <1>8, <1>11
    <3> QED
      BY <3>2, <3>3, <1>7, <1>8, <2>3
  <2> QED
    BY <2>1, <2>2, <2>3, <1>5
<1>13. PICK F : Becomes(F)
  BY <1>12
<1>14. cold'[o][d] = F
  BY <1>4, <1>5, <1>13, OneDayIs
<1>15. ASSUME NEW p \in Projects, NoneLeft(p)
       PROVE  /\ NoRowOf(p, arch.buf) /\ NoRowOf(p, F.flat.rows)
              /\ \A n \in DOMAIN F.chunks : NoRowOf(p, F.chunks[n].rows)
  <2>1. NoRowOf(p, new.rows) /\ NoRowOf(p, arch.buf) /\ NoRowOf(p, G.flat.rows)
        /\ \A n \in DOMAIN G.chunks : NoRowOf(p, G.chunks[n].rows)
    BY <1>4, <1>5, <1>6, <1>8, <1>10, <1>15 DEF NoneLeft, NoRowOf
  <2> QED
    BY <2>1, <1>13
\* Promised rows of the day were in the buffer or in an earlier chunk.
<1>16. ASSUME NEW r \in Promised, Org(r) = o, Day(r.at) = d, backend = "s3"
       PROVE  r \in arch.buf \/ \E n \in DOMAIN G.chunks : n < arch.chunk /\ r \in G.chunks[n].rows
  <2>1. Safe(r)
    BY <1>16 DEF PromisedSafe
  <2> QED
    BY <2>1, <1>1, <1>2, <1>3, <1>6, <1>16 DEF Safe
<1>17. arch.to = "flat" => \A n \in DOMAIN G.chunks : ~(n < arch.chunk)
  BY <1>8, <1>11
<1>18. ASSUME NEW r \in Promised, Org(r) = o, Day(r.at) = d, backend = "s3", F.flat.st # "none"
       PROVE  r \in F.flat.rows
  <2>1. arch.to = "flat"
    BY <1>5, <1>13, <1>18
  <2>2. F.flat = new /\ arch.rows = arch.buf
    BY <2>1, <1>8, <1>13, <1>18
  <2> QED
    BY <2>1, <2>2, <1>10, <1>16, <1>17, <1>18
<1>19. CASE arch.buf \ arch.rows = {}
  <2>1. arch' = AfterOrg(o)
    BY <1>2, <1>19 DEF WriteEnds
  <2>2. /\ ArchShape' /\ arch'.todo = arch.todo /\ arch'.day = arch.day /\ OrgDone(o) /\ ~OrgGoesOn
        /\ arch'.buf = {} /\ arch'.rows = {}
    BY <1>4, <2>1, AfterOrgIs DEF OrgDone, OrgGoesOn
  <2>3. ExportSound'
    <3>1. arch'.pc \in {"org", "detach"} /\ (arch'.pc = "org" => arch'.orgs # {}) /\ (arch'.pc = "detach" => arch'.orgs = {})
      BY <1>4, <2>2 DEF OrgDone
    <3> QED
      BY <2>2, <3>1 DEF ExportSound
  <2>4. ASSUME NEW r \in Promised, Org(r) = o, Day(r.at) = d PROVE SafeIn(r, F)
    <3>1. ASSUME backend = "s3" PROVE r \in RowsOf(F)
      <4>1. RowsOf(F) = IF F.flat.st # "none" THEN F.flat.rows ELSE UNION {F.chunks[n].rows : n \in DOMAIN F.chunks}
        BY <1>13, RowsOfIs DEF DaySound, FileSound
      <4>2. CASE F.flat.st # "none"
        BY <4>1, <4>2, <1>18, <2>4, <3>1
      <4>3. CASE F.flat.st = "none"
        <5>1. arch.to = "chunk"
          BY <4>3, <1>5, <1>10, <1>13, <3>1
        <5>2. \E n \in DOMAIN F.chunks : r \in F.chunks[n].rows
          BY <5>1, <1>10, <1>13, <1>16, <1>19, <2>4, <3>1
        <5> QED
          BY <4>1, <4>3, <5>2
      <4> QED
        BY <4>2, <4>3
    <3> QED
      BY <2>2, <2>4, <3>1, <1>18 DEF SafeIn
  <2>5. \A p \in Projects : NoneLeft(p) =>
          /\ NoRowOf(p, arch'.buf) /\ NoRowOf(p, F.flat.rows)
          /\ \A n \in DOMAIN F.chunks : NoRowOf(p, F.chunks[n].rows)
    BY <1>15, <2>2 DEF NoRowOf
  <2> QED
    BY <1>1, <1>2, <1>3, <1>13, <2>2, <2>3, <2>4, <2>5, ExportStep
<1>20. CASE arch.buf \ arch.rows # {}
  <2>1. arch' = [arch EXCEPT !.pc = "copy", !.buf = arch.buf \ arch.rows, !.rows = {}, !.to = "flat",
                             !.chunk = arch.chunk + 1]
    BY <1>20 DEF WriteEnds
  <2>2. /\ arch'.pc = "copy" /\ arch'.buf = arch.buf \ arch.rows /\ arch'.rows = {} /\ arch'.chunk = arch.chunk + 1
        /\ arch'.todo = arch.todo /\ arch'.day = arch.day /\ arch'.orgs = arch.orgs /\ ArchShape'
    <3>1. PICK rest : rest = arch.buf \ arch.rows
      OBVIOUS
    <3>2. PICK k : k = arch.chunk + 1
      OBVIOUS
    <3>3. rest \in SUBSET LogRows /\ k \in Nat
      BY <1>5, <3>1, <3>2
    <3>4. arch' = [arch EXCEPT !.pc = "copy", !.buf = rest, !.rows = {}, !.to = "flat", !.chunk = k]
      BY <2>1, <3>1, <3>2
    <3>5. /\ arch'.pc = "copy" /\ arch'.buf = rest /\ arch'.rows = {} /\ arch'.chunk = k
          /\ arch'.todo = arch.todo /\ arch'.day = arch.day /\ arch'.orgs = arch.orgs /\ ArchShape'
      BY <3>3, <3>4 DEF ArchShape, ArchStates
    <3> QED
      BY <3>1, <3>2, <3>5
  <2>3. arch.to = "chunk"
    BY <1>5, <1>8, <1>20
  <2>4. OrgGoesOn /\ Min(arch'.orgs) = o /\ arch'.orgs # {}
    BY <1>2, <1>4, <2>2 DEF OrgGoesOn
  <2>5. ExportSound'
    <3>1. cold'[Min(arch'.orgs)][arch'.day] = F
      BY <1>3, <1>14, <2>2, <2>4
    <3>2. \A n \in DOMAIN F.chunks : n < arch.chunk + 1
      BY <1>5, <1>13
    <3>3. \A r \in arch'.buf : Day(r.at) = arch'.day /\ Org(r) = Min(arch'.orgs)
      BY <1>3, <1>8, <2>2, <2>4
    <3> QED
      BY <1>13, <2>2, <2>3, <2>4, <3>1, <3>2, <3>3 DEF ExportSound, Org, Day
  <2>6. ASSUME NEW r \in Promised, Org(r) = o, Day(r.at) = d PROVE SafeIn(r, F)
    <3>1. ASSUME backend = "s3"
          PROVE  r \in arch'.buf \/ \E n \in DOMAIN F.chunks : n < arch'.chunk /\ r \in F.chunks[n].rows
      <4>1. CASE r \in arch.rows
        BY <4>1, <1>5, <1>10, <1>13, <2>2, <2>3, <3>1
      <4>2. CASE r \in arch.buf \ arch.rows
        BY <4>2, <2>2
      <4>3. CASE r \notin arch.buf
        <5>1. PICK n \in DOMAIN G.chunks : n < arch.chunk /\ r \in G.chunks[n].rows
          BY <4>3, <1>16, <2>6, <3>1
        <5>2. n \in DOMAIN F.chunks /\ F.chunks[n] = G.chunks[n] /\ n < arch'.chunk
          BY <5>1, <1>5, <1>11, <1>13, <2>2, <2>3, <3>1
        <5> QED
          BY <5>1, <5>2
      <4> QED
        BY <4>1, <4>2, <4>3
    <3> QED
      BY <2>4, <2>6, <3>1, <1>18 DEF SafeIn
  <2>7. \A p \in Projects : NoneLeft(p) =>
          /\ NoRowOf(p, arch'.buf) /\ NoRowOf(p, F.flat.rows)
          /\ \A n \in DOMAIN F.chunks : NoRowOf(p, F.chunks[n].rows)
    BY <1>15, <2>2 DEF NoRowOf
  <2> QED
    BY <1>1, <1>2, <1>3, <1>13, <2>2, <2>4, <2>5, <2>6, <2>7, ExportStep
<1> QED
  BY <1>19, <1>20

\* Steps that take rows or files away: what is left of a file, and of a day's files.
FileLess(g, f) == g.rows \subseteq f.rows /\ (g.st # "ok" => g.rows = {}) /\ (g.st = f.st \/ g.st = "none")
DayLess(H, F) ==
  /\ FileLess(H.flat, F.flat) /\ DOMAIN H.chunks \subseteq DOMAIN F.chunks
  /\ \A n \in DOMAIN H.chunks : FileLess(H.chunks[n], F.chunks[n])
HasStill(r, H, F) ==
  /\ r \in F.flat.rows => r \in H.flat.rows
  /\ \A n \in DOMAIN F.chunks : r \in F.chunks[n].rows => n \in DOMAIN H.chunks /\ r \in H.chunks[n].rows
LEMMA RowsTakenAway ==
  ASSUME LogInv, ColdShape', UNCHANGED <<now, backend, parts, hot, liveProjects, ingest, stored>>,
         UNCHANGED arch \/ arch' = IdleArch, fouled \subseteq fouled', Promised' \subseteq Promised,
         \A o \in Orgs : \A d \in Days : DayLess(cold'[o][d], cold[o][d]),
         \A r \in Promised' : HasStill(r, cold'[Org(r)][Day(r.at)], cold[Org(r)][Day(r.at)])
  PROVE  /\ ArchShape' /\ BatchesFresh' /\ FilesSound' /\ ArchDue' /\ ExportSound' /\ PromisedSafe'
         /\ \A p \in Projects \ (liveProjects' \cup fouled') : NoneLeft(p)'
<1> USE DEF LogInv
<1>1. ArchShape' /\ ExportSound' /\ ArchDue'
  <2>1. CASE arch' = IdleArch
    <3>1. arch' = [pc |-> "idle", todo |-> {}, day |-> 0, orgs |-> {}, buf |-> {}, chunk |-> 0, rows |-> {}, to |-> "flat"]
      BY <2>1 DEF IdleArch
    <3>2. ArchShape' /\ ExportSound' /\ ~Working' /\ arch'.todo = {}
      BY <3>1, RestingArch
    <3> QED
      BY <3>2 DEF ArchDue
  <2>2. CASE UNCHANGED arch
    <3>1. ArchShape' /\ ArchDue'
      BY <2>2 DEF ArchShape, ArchDue, DueDay, Working
    <3>2. ASSUME arch.pc \in {"copy", "write"}
          PROVE  DayLess(cold'[Min(arch.orgs)][arch.day], cold[Min(arch.orgs)][arch.day])
      <4>1. Min(arch.orgs) \in Orgs /\ arch.day \in Days
        BY <3>2, OrgAtHand DEF ExportSound, ArchShape, ArchStates
      <4> QED
        BY <4>1
    <3> QED
      <4>1. PICK F : F = cold[Min(arch.orgs)][arch.day]
        OBVIOUS
      <4>2. PICK H : H = cold'[Min(arch.orgs)][arch.day]
        OBVIOUS
      <4>3. ASSUME arch.pc \in {"copy", "write"}
            PROVE  /\ DOMAIN H.chunks \subseteq DOMAIN F.chunks
                   /\ H.flat.st = F.flat.st \/ H.flat.st = "none"
        BY <3>2, <4>1, <4>2, <4>3 DEF DayLess, FileLess
      <4>4. ExportSound'
        BY SMTT(30), <2>2, <4>1, <4>2, <4>3 DEF ExportSound, Org, Day
      <4> QED
        BY <3>1, <4>4
  <2> QED
    BY <2>1, <2>2
<1>2. BatchesFresh'
  BY DEF BatchesFresh
<1>3. FilesSound'
  <2>1. ASSUME NEW o \in Orgs, NEW d \in Days PROVE DaySound(cold[o][d], o, d)'
    BY <2>1 DEF FilesSound, DaySound, FileSound, DayLess, FileLess, Org, Day
  <2>2. ASSUME NEW o \in Orgs, NEW d \in Days, cold'[o][d].flat.st # "none" PROVE 2 * d < now' - 2 * HotDays
    BY <2>2 DEF FilesSound, DayLess, FileLess
  <2> QED
    BY <2>1, <2>2 DEF FilesSound, DaySound, FileSound, Org, Day
<1>4. ASSUME NEW r \in Promised' PROVE Safe(r)'
  <2>1. Safe(r) /\ r \in LogRows
    BY <1>4 DEF PromisedSafe, Promised, LogShape
  <2>2. Org(r) \in Orgs /\ Day(r.at) \in Days
    BY <2>1, LogIs
  <2>3. PICK F : F = cold[Org(r)][Day(r.at)]
    OBVIOUS
  <2>4. PICK H : H = cold'[Org(r)][Day(r.at)]
    OBVIOUS
  <2>5. /\ F \in DayFiles /\ H \in DayFiles /\ DayLess(H, F) /\ HasStill(r, H, F)
        /\ F.flat.st # "ok" => F.flat.rows = {}
    BY <1>4, <2>2, <2>3, <2>4 DEF ColdShape, FilesSound, FileSound
  <2>6. H.flat.st # "ok" => H.flat.rows = {}
    BY <2>5 DEF DayLess, FileLess
  <2>7. r \in RowsOf(F) => r \in RowsOf(H)
    <3>1. H.flat.st # "none" => F.flat.st # "none"
      BY <2>5 DEF DayLess, FileLess
    <3>2. RowsOf(F) = IF F.flat.st # "none" THEN F.flat.rows ELSE UNION {F.chunks[n].rows : n \in DOMAIN F.chunks}
      BY <2>5, RowsOfIs
    <3>3. RowsOf(H) = IF H.flat.st # "none" THEN H.flat.rows ELSE UNION {H.chunks[n].rows : n \in DOMAIN H.chunks}
      BY <2>5, <2>6, RowsOfIs
    <3>4. F.flat.st # "none" /\ r \in F.flat.rows => H.flat.st # "none" /\ r \in H.flat.rows
      BY <2>5, <2>6 DEF HasStill
    <3>5. F.flat.st = "none" => H.flat.st = "none"
      BY <3>1
    <3> QED
      BY <3>2, <3>3, <3>4, <3>5, <2>5 DEF HasStill
  <2>8. InCold(r) => InCold(r)'
    BY <2>3, <2>4, <2>7 DEF InCold, RowsOf, Org, Day
  <2>9. H.flat.st # "none" => F.flat.st # "none"
    BY <2>5 DEF DayLess, FileLess
  <2>10. CASE arch' = IdleArch
    <3>1. ~Working' /\ arch'.pc \notin {"copy", "write"}
      BY <2>10 DEF IdleArch, Working
    <3> QED
      BY <2>1, <2>3, <2>4, <2>5, <2>8, <2>9, <3>1 DEF Safe, HasStill, Org, Day
  <2>11. CASE UNCHANGED arch
    <3>1. (\E n \in DOMAIN F.chunks : n < arch.chunk /\ r \in F.chunks[n].rows) =>
            \E n \in DOMAIN H.chunks : n < arch.chunk /\ r \in H.chunks[n].rows
      BY <2>5 DEF HasStill
    <3> QED
      BY <2>1, <2>3, <2>4, <2>5, <2>8, <2>9, <2>11, <3>1 DEF Safe, HasStill, Working, Org, Day
  <2> QED
    BY <2>10, <2>11
<1>5. ASSUME NEW p \in Projects \ (liveProjects' \cup fouled') PROVE NoneLeft(p)'
  <2>1. NoneLeft(p)
    BY <1>5 DEF Purged
  <2>2. NoRowOf(p, arch'.buf)
    BY <2>1 DEF NoneLeft, NoRowOf, IdleArch
  <2>3. ASSUME NEW o \in Orgs, NEW d \in Days
        PROVE  /\ NoRowOf(p, cold'[o][d].flat.rows)
               /\ \A n \in DOMAIN cold'[o][d].chunks : NoRowOf(p, cold'[o][d].chunks[n].rows)
    BY <2>1, <2>3 DEF NoneLeft, NoRowOf, DayLess, FileLess
  <2> QED
    BY <2>1, <2>2, <2>3 DEF NoneLeft, NoRowOf
<1> QED
  BY <1>1, <1>2, <1>3, <1>4, <1>5 DEF PromisedSafe

\* What remains: the same files, none, or all but one of them.
LEMMA DayLessSame == ASSUME LogInv, NEW o \in Orgs, NEW d \in Days
                     PROVE  DayLess(cold[o][d], cold[o][d]) /\ \A r : HasStill(r, cold[o][d], cold[o][d])
BY DEF LogInv, FilesSound, FileSound, DayLess, FileLess, HasStill
LEMMA NoFilesIs == /\ NoFiles.flat = NoFile /\ DOMAIN NoFiles.chunks = {} /\ NoFile.st = "none" /\ NoFile.rows = {}
                   /\ \A F : DayLess(NoFiles, F)
BY DEF NoFiles, NoFile, DayLess, FileLess

LEMMA OldFilesDeleted == ASSUME LogInv, CleanupColdStorage PROVE LogInv'
<1> USE DEF LogInv
<1>1. UNCHANGED <<now, backend, parts, hot, liveProjects, ingest, del, stored, fouled>> /\ arch.pc = "clean"
      /\ arch' = IdleArch
  BY DEF CleanupColdStorage, hotVars
<1>2. cold' = [o \in Orgs |-> [d \in Days |-> IF d \in FilesOlderThan(ColdDays) THEN NoFiles ELSE cold[o][d]]]
  BY DEF CleanupColdStorage
<1>3. ColdShape'
  BY <1>2, FilesAre DEF ColdShape
<1>4. \A o \in Orgs : \A d \in Days : DayLess(cold'[o][d], cold[o][d])
  BY <1>2, DayLessSame, NoFilesIs
<1>5. Promised' = Promised
  BY <1>1 DEF Promised, Org, Day
<1>6. ASSUME NEW r \in Promised PROVE HasStill(r, cold'[Org(r)][Day(r.at)], cold[Org(r)][Day(r.at)])
  <2>1. Org(r) \in Orgs /\ Day(r.at) \in Days /\ 2 * Day(r.at) >= now - 2 * ColdDays
    BY LogIs DEF Promised, LogShape
  <2>2. PICK d : d = Day(r.at)
    OBVIOUS
  <2>3. d \in Nat /\ now \in Nat /\ ColdDays \in Nat /\ 2 * d >= now - 2 * ColdDays
    <3>1. 2 * d >= now - 2 * ColdDays
      BY <2>1, <2>2
    <3>2. d \in Nat
      BY <2>1, <2>2, DaysAre
    <3>3. now \in Nat /\ ColdDays \in Nat
      BY ArchiveConstants DEF LogShape
    <3> QED
      BY <3>1, <3>2, <3>3
  <2>4. d \notin FilesOlderThan(ColdDays)
    BY <2>3 DEF FilesOlderThan
  <2> QED
    BY <1>2, <2>1, <2>2, <2>4, DayLessSame
<1>7. LogShape' /\ DeletionSound'
  BY <1>1 DEF LogShape, DeletionSound
<1>8. /\ ArchShape' /\ BatchesFresh' /\ FilesSound' /\ ArchDue' /\ ExportSound' /\ PromisedSafe'
      /\ \A p \in Projects \ (liveProjects' \cup fouled') : NoneLeft(p)'
  BY <1>1, <1>3, <1>4, <1>5, <1>6, RowsTakenAway
<1>9. Purged'
  <2>1. \A p \in del.gone \ fouled : FALSE
    BY <1>1 DEF Purged
  <2> QED
    BY <1>1, <1>8, <2>1 DEF Purged
<1> QED
  BY <1>3, <1>7, <1>8, <1>9

\* The file of a day that f names, flat or a chunk, and the day with g in its place.
FileOf(F, f) == IF f.n = -1 THEN F.flat ELSE IF f.n \in DOMAIN F.chunks THEN F.chunks[f.n] ELSE NoFile
With(F, f, g) ==
  IF f.n = -1 THEN [flat |-> g, chunks |-> F.chunks]
  ELSE [flat |-> F.flat,
        chunks |-> [n \in {m \in DOMAIN F.chunks : m # f.n \/ g # NoFile} |-> IF n = f.n THEN g ELSE F.chunks[n]]]
\* A file of a day is replaced by what is left of it.
LEMMA FileReplaced ==
  ASSUME NEW F \in DayFiles, NEW f, NEW g \in ParquetFiles, NEW o, NEW d, DaySound(F, o, d),
         FileLess(g, FileOf(F, f))
  PROVE  /\ With(F, f, g) \in DayFiles /\ DayLess(With(F, f, g), F)
         /\ \A r : (r \in FileOf(F, f).rows => r \in g.rows) => HasStill(r, With(F, f, g), F)
         /\ f.n = -1 => With(F, f, g).flat = g /\ With(F, f, g).chunks = F.chunks
         /\ f.n # -1 => /\ With(F, f, g).flat = F.flat
                        /\ \A n \in DOMAIN With(F, f, g).chunks :
                             With(F, f, g).chunks[n] = IF n = f.n THEN g ELSE F.chunks[n]
<1> DEFINE H == With(F, f, g)
<1>1. /\ F.flat \in ParquetFiles /\ DOMAIN F.chunks \subseteq Nat
      /\ F.chunks = [n \in DOMAIN F.chunks |-> F.chunks[n]]
      /\ \A n \in DOMAIN F.chunks : F.chunks[n] \in ParquetFiles
  BY DayFilesAre
<1>2. /\ FileLess(F.flat, F.flat) /\ \A n \in DOMAIN F.chunks : FileLess(F.chunks[n], F.chunks[n])
  BY DEF DaySound, FileSound, FileLess
<1>3. CASE f.n = -1
  <2>1. H = [flat |-> g, chunks |-> F.chunks]
    BY <1>3 DEF With
  <2>2. H.flat = g /\ H.chunks = F.chunks /\ FileOf(F, f) = F.flat
    BY <1>3, <2>1 DEF FileOf
  <2>3. H \in DayFiles
    BY <1>1, <2>1, ChunksAre
  <2> HIDE DEF H
  <2>4. DayLess(H, F)
    BY <1>2, <2>2 DEF DayLess
  <2>5. \A r : (r \in FileOf(F, f).rows => r \in g.rows) => HasStill(r, H, F)
    BY <2>2 DEF HasStill
  <2> QED
    BY <1>3, <2>2, <2>3, <2>4, <2>5 DEF H
<1>4. CASE f.n # -1
  <2> DEFINE N == {m \in DOMAIN F.chunks : m # f.n \/ g # NoFile}
             c == [n \in N |-> IF n = f.n THEN g ELSE F.chunks[n]]
  <2>1. H = [flat |-> F.flat, chunks |-> c]
    BY <1>4 DEF With
  <2>2. /\ N \subseteq DOMAIN F.chunks /\ DOMAIN c = N
        /\ \A n \in N : c[n] = IF n = f.n THEN g ELSE F.chunks[n]
        /\ \A n \in DOMAIN F.chunks : n \in N \/ (n = f.n /\ g = NoFile)
    OBVIOUS
  <2>3. c = [n \in DOMAIN c |-> c[n]] /\ DOMAIN c \subseteq Nat /\ \A n \in DOMAIN c : c[n] \in ParquetFiles
    BY <1>1, <2>2
  <2> HIDE DEF N, c
  <2>4. H \in DayFiles
    BY <1>1, <2>1, <2>3, ChunksAre
  <2>5. H.flat = F.flat /\ H.chunks = c
    BY <2>1
  <2>6. f.n \in DOMAIN F.chunks => FileOf(F, f) = F.chunks[f.n]
    BY <1>4 DEF FileOf
  <2> HIDE DEF H
  <2>7. DayLess(H, F)
    BY <1>2, <2>2, <2>5, <2>6 DEF DayLess
  <2>8. ASSUME NEW r, r \in FileOf(F, f).rows => r \in g.rows PROVE HasStill(r, H, F)
    BY <2>2, <2>5, <2>6, <2>8, NoFilesIs DEF HasStill
  <2> QED
    BY <1>4, <2>2, <2>4, <2>5, <2>7, <2>8 DEF H
<1> QED
  BY <1>3, <1>4
LEMMA FlatReplaced ==
  ASSUME NEW F \in DayFiles, NEW f, f.n = -1, NEW g \in ParquetFiles PROVE [F EXCEPT !.flat = g] = With(F, f, g)
BY DayFilesAre DEF With
LEMMA ChunkReplaced ==
  ASSUME NEW F \in DayFiles, NEW f, f.n # -1, NEW g,
         NEW c, c = [n \in {m \in DOMAIN F.chunks : m # f.n \/ g # NoFile} |-> IF n = f.n THEN g ELSE F.chunks[n]]
  PROVE  [F EXCEPT !.chunks = c] = With(F, f, g)
<1>1. [F EXCEPT !.chunks = c] = [flat |-> F.flat, chunks |-> c]
  BY DayFilesAre
<1> QED
  BY <1>1 DEF With

\* One file is replaced by what is left of it.
LEMMA OneFileLess ==
  ASSUME LogInv, UNCHANGED <<now, backend, parts, hot, liveProjects, ingest, arch, stored>>, fouled \subseteq fouled',
         NEW o \in Orgs, NEW f, f.day \in Days, NEW g \in ParquetFiles, FileLess(g, FileAt(o, f)),
         OneDay(o, f.day, With(cold[o][f.day], f, g)), Promised' \subseteq Promised,
         \A r \in Promised' : r \in FileAt(o, f).rows => r \in g.rows
  PROVE  /\ ColdShape' /\ ArchShape' /\ BatchesFresh' /\ FilesSound' /\ ArchDue' /\ ExportSound' /\ PromisedSafe'
         /\ \A p \in Projects \ (liveProjects' \cup fouled') : NoneLeft(p)'
         /\ cold'[o][f.day] = With(cold[o][f.day], f, g)
         /\ \A p \in Orgs : \A e \in Days : (p = o /\ e = f.day) \/ cold'[p][e] = cold[p][e]
<1> USE DEF LogInv
<1>1. PICK d : d = f.day
  OBVIOUS
<1>2. PICK F : F = cold[o][d]
  OBVIOUS
<1>3. F \in DayFiles /\ DaySound(F, o, d) /\ d \in Days
  BY <1>1, <1>2 DEF ColdShape, FilesSound, DaySound
<1>4. FileOf(F, f) = FileAt(o, f)
  BY <1>1, <1>2 DEF FileOf, FileAt
<1>5. /\ With(F, f, g) \in DayFiles /\ DayLess(With(F, f, g), F)
      /\ \A r : (r \in FileOf(F, f).rows => r \in g.rows) => HasStill(r, With(F, f, g), F)
  BY <1>3, <1>4, FileReplaced
<1>6. /\ ColdShape' /\ cold'[o][d] = With(F, f, g)
      /\ \A p \in Orgs : \A e \in Days : (p = o /\ e = d) \/ cold'[p][e] = cold[p][e]
  BY <1>1, <1>2, <1>3, <1>5, OneDayIs
<1>7. ASSUME NEW p \in Orgs, NEW e \in Days PROVE DayLess(cold'[p][e], cold[p][e])
  <2>1. CASE p = o /\ e = d
    BY <1>2, <1>5, <1>6, <2>1
  <2>2. CASE ~(p = o /\ e = d)
    BY <1>6, <2>2, DayLessSame
  <2> QED
    BY <2>1, <2>2
<1>8. ASSUME NEW r \in Promised' PROVE HasStill(r, cold'[Org(r)][Day(r.at)], cold[Org(r)][Day(r.at)])
  <2>1. Org(r) \in Orgs /\ Day(r.at) \in Days
    BY LogIs, <1>8 DEF Promised, LogShape
  <2>2. CASE Org(r) = o /\ Day(r.at) = d
    BY <1>2, <1>4, <1>5, <1>6, <1>8, <2>2
  <2>3. CASE ~(Org(r) = o /\ Day(r.at) = d)
    BY <1>6, <2>1, <2>3, DayLessSame
  <2> QED
    BY <2>2, <2>3
<1> QED
  BY <1>1, <1>2, <1>6, <1>7, <1>8, RowsTakenAway

\* Files listed are named by their day and, a chunk, its number.
LEMMA ListedAre ==
  ASSUME ColdShape, NEW o \in Orgs, NEW lo, NEW hi
  PROVE  /\ FilesIn(o, lo, hi) \subseteq [day : Days, n : Int]
         /\ \A d \in Days : 2 * d < hi /\ 2 * d + 2 > lo =>
              /\ cold[o][d].flat # NoFile => [day |-> d, n |-> -1] \in FilesIn(o, lo, hi)
              /\ cold[o][d].flat = NoFile =>
                   \A k \in DOMAIN cold[o][d].chunks : [day |-> d, n |-> k] \in FilesIn(o, lo, hi)
<1>1. ASSUME NEW d \in Days PROVE DOMAIN cold[o][d].chunks \subseteq Nat
  <2>1. cold[o][d] \in DayFiles
    BY DEF ColdShape
  <2> QED
    BY <2>1, DayFilesAre
<1>2. -1 \in Int
  OBVIOUS
<1>3. ASSUME NEW d \in Days, NEW k \in DOMAIN cold[o][d].chunks PROVE [day |-> d, n |-> k] \in [day : Days, n : Int]
  BY <1>1
<1>4. \A d \in Days : [day |-> d, n |-> -1] \in [day : Days, n : Int]
  BY <1>2
<1> DEFINE days == {d \in Days : 2 * d < hi /\ 2 * d + 2 > lo}
           flats == {d \in days : cold[o][d].flat # NoFile}
<1>5. FilesIn(o, lo, hi) =
        {[day |-> d, n |-> -1] : d \in flats}
          \cup UNION {{[day |-> d, n |-> k] : k \in DOMAIN cold[o][d].chunks} : d \in days \ flats}
  BY DEF FilesIn
<1>6. FilesIn(o, lo, hi) \subseteq [day : Days, n : Int]
  <2>1. ASSUME NEW f \in FilesIn(o, lo, hi) PROVE f \in [day : Days, n : Int]
    <3>1. CASE f \in {[day |-> d, n |-> -1] : d \in flats}
      BY <1>4, <3>1
    <3>2. CASE \E d \in days \ flats : \E k \in DOMAIN cold[o][d].chunks : f = [day |-> d, n |-> k]
      BY <1>3, <3>2
    <3> QED
      BY <1>5, <2>1, <3>1, <3>2
  <2> QED
    BY <2>1
<1>7. ASSUME NEW d \in Days, 2 * d < hi, 2 * d + 2 > lo, cold[o][d].flat # NoFile
      PROVE  [day |-> d, n |-> -1] \in FilesIn(o, lo, hi)
  <2>1. d \in flats
    BY <1>7
  <2> QED
    BY <1>5, <2>1
<1>8. ASSUME NEW d \in Days, 2 * d < hi, 2 * d + 2 > lo, cold[o][d].flat = NoFile, NEW k \in DOMAIN cold[o][d].chunks
      PROVE  [day |-> d, n |-> k] \in FilesIn(o, lo, hi)
  <2>1. d \in days \ flats
    BY <1>8
  <2> HIDE DEF days, flats
  <2>2. [day |-> d, n |-> k] \in {[day |-> d, n |-> j] : j \in DOMAIN cold[o][d].chunks}
    OBVIOUS
  <2> QED
    BY <1>5, <2>1, <2>2
<1> QED
  BY <1>6, <1>7, <1>8

LEMMA DamagedFileDropped == ASSUME LogInv, NEW o \in Orgs, ReadColdFiles(o) PROVE LogInv'
<1> USE DEF LogInv
<1>1. UNCHANGED <<now, backend, parts, hot, liveProjects, ingest, arch, del, stored, fouled>>
  BY DEF ReadColdFiles, hotVars
<1>2. PICK f \in FilesIn(o, 0, HotCutoff) :
        /\ FileAt(o, f) = Torn
        /\ cold' = IF f.n = -1 THEN [cold EXCEPT ![o][f.day].flat = NoFile]
                   ELSE [cold EXCEPT ![o][f.day].chunks = [n \in DOMAIN @ \ {f.n} |-> @[n]]]
  BY DEF ReadColdFiles
<1>3. PICK F : F = cold[o][f.day]
  OBVIOUS
<1>4. f.day \in Days /\ F \in DayFiles
  BY <1>2, <1>3, ListedAre DEF ColdShape
<1>5. NoFile \in ParquetFiles /\ NoFile.st = "none" /\ NoFile.rows = {} /\ Torn.rows = {}
  BY FilesAre DEF NoFile, Torn
<1>6. OneDay(o, f.day, With(F, f, NoFile))
  <2>1. CASE f.n = -1
    <3>1. PICK X : X = [F EXCEPT !.flat = NoFile]
      OBVIOUS
    <3>2. cold' = [cold EXCEPT ![o][f.day] = X]
      BY <1>2, <1>3, <2>1, <3>1
    <3>3. X = With(F, f, NoFile)
      BY <1>4, <1>5, <2>1, <3>1, FlatReplaced
    <3> QED
      BY <3>2, <3>3 DEF OneDay
  <2>2. CASE f.n # -1
    <3>1. PICK c : c = [n \in DOMAIN F.chunks \ {f.n} |-> F.chunks[n]]
      OBVIOUS
    <3>2. PICK X : X = [F EXCEPT !.chunks = c]
      OBVIOUS
    <3>3. cold' = [cold EXCEPT ![o][f.day] = X]
      BY <1>2, <1>3, <2>2, <3>1, <3>2
    <3>4. c = [n \in {m \in DOMAIN F.chunks : m # f.n \/ NoFile # NoFile} |-> IF n = f.n THEN NoFile ELSE F.chunks[n]]
      BY <3>1
    <3>5. X = With(F, f, NoFile)
      BY <1>4, <2>2, <3>2, <3>4, ChunkReplaced
    <3> QED
      BY <3>3, <3>5 DEF OneDay
  <2> QED
    BY <2>1, <2>2
<1>7. Promised' = Promised
  BY <1>1 DEF Promised, Org, Day
<1>8. FileLess(NoFile, FileAt(o, f)) /\ FileAt(o, f).rows = {}
  BY <1>2, <1>5 DEF FileLess
<1>9. /\ ColdShape' /\ ArchShape' /\ BatchesFresh' /\ FilesSound' /\ ArchDue' /\ ExportSound' /\ PromisedSafe'
      /\ \A p \in Projects \ (liveProjects' \cup fouled') : NoneLeft(p)'
      /\ cold'[o][f.day] = With(F, f, NoFile)
      /\ \A p \in Orgs : \A e \in Days : (p = o /\ e = f.day) \/ cold'[p][e] = cold[p][e]
  BY <1>1, <1>3, <1>4, <1>5, <1>6, <1>7, <1>8, OneFileLess
<1>10. LogShape' /\ DeletionSound'
  BY <1>1 DEF LogShape, DeletionSound
<1>11. DayLess(With(F, f, NoFile), F)
  <2>1. FileOf(F, f) = FileAt(o, f) /\ DaySound(F, o, f.day)
    BY <1>3, <1>4 DEF FileOf, FileAt, FilesSound, DaySound
  <2> QED
    BY <1>4, <1>5, <1>8, <2>1, FileReplaced
<1>12. \A p \in Orgs : \A e \in Days : DayLess(cold'[p][e], cold[p][e])
  BY <1>3, <1>9, <1>11, DayLessSame
<1>13. Purged'
  <2>1. ASSUME NEW p \in del.gone \ fouled PROVE OnlyListed(p)' /\ arch'.pc = "idle"
    <3>1. OnlyListed(p) /\ arch.pc = "idle" /\ OrgOf[p] \in Orgs
      BY <2>1 DEF Purged, Orgs, LogShape
    <3> QED
      BY <1>1, <1>12, <3>1 DEF OnlyListed, NoRowOf, DayLess, FileLess
  <2> QED
    BY <1>1, <1>9, <2>1 DEF Purged
<1> QED
  BY <1>9, <1>10, <1>13

\* Steps of a deletion.
LEMMA LastDay == \A d \in Days : 2 * d < 2 * Max(Days) + 2 /\ 2 * d + 2 > 0
<1>1. PICK k : k = Day(MaxNow + Drift)
  OBVIOUS
<1>2. k \in Nat
  BY <1>1, ArchiveConstants DEF Day
<1>3. Days = 0 .. k
  BY <1>1 DEF Days
<1>4. k \in Days /\ \A d \in Days : k >= d
  BY <1>2, <1>3
<1>5. Max(Days) \in Days /\ \A d \in Days : Max(Days) >= d
  BY <1>4 DEF Max
<1>6. PICK m : m = Max(Days)
  OBVIOUS
<1>7. m \in Nat /\ \A d \in Days : d \in Nat /\ m >= d
  BY <1>2, <1>3, <1>5, <1>6
<1> QED
  BY <1>6, <1>7

LEMMA ProjectDeletionBegins == ASSUME LogInv, NEW p \in Projects, DeleteProject(p) PROVE LogInv'
<1> USE DEF LogInv
<1>1. /\ UNCHANGED <<now, backend, parts, hot, cold, liveProjects, ingest, arch, stored>>
      /\ del.pc = "idle" /\ p \in liveProjects
      /\ del' = [pc |-> "files", gone |-> {p}, files |-> FilesIn(OrgOf[p], 0, 2 * Max(Days) + 2)]
      /\ fouled' = IF arch.pc = "idle" THEN fouled ELSE fouled \cup {p}
  BY DEF DeleteProject, hotVars
<1>2. OrgOf[p] \in Orgs /\ now \in Nat
  BY DEF Orgs, LogShape
<1>3. PICK fs : fs = FilesIn(OrgOf[p], 0, 2 * Max(Days) + 2)
  OBVIOUS
<1>4. fs \in SUBSET [day : Days, n : Int]
  BY <1>2, <1>3, ListedAre
<1>5. /\ del'.pc = "files" /\ del'.gone = {p} /\ del'.files = fs
      /\ del' \in [pc : {"idle", "files", "force"}, gone : SUBSET Projects, files : SUBSET [day : Days, n : Int]]
  BY <1>1, <1>3, <1>4
<1>6. LogShape' /\ DeletionSound' /\ BatchesFresh'
  BY <1>1, <1>5 DEF LogShape, DeletionSound, BatchesFresh
<1>7. ColdShape' /\ ArchShape' /\ FilesSound' /\ ExportSound' /\ ArchDue'
  BY <1>1, <1>2, ColdStay, ExportStays DEF ColdShape, ArchShape, ArchDue, DueDay, Working
<1>8. Promised' \subseteq Promised
  <2>1. liveProjects' \ del'.gone \subseteq liveProjects \ del.gone
    BY <1>1, <1>5 DEF DeletionSound
  <2> QED
    BY <1>1, <1>2, <2>1, PromisedShrink
<1>9. PromisedSafe'
  BY <1>1, <1>8, SafeStays
<1>10. Purged'
  <2>1. ASSUME NEW q \in Projects \ (liveProjects \cup fouled') PROVE NoneLeft(q)'
    <3>1. NoneLeft(q)
      BY <1>1, <2>1 DEF Purged
    <3> QED
      BY <1>1, <3>1 DEF NoneLeft, NoRowOf
  <2>2. ASSUME p \notin fouled' PROVE arch'.pc = "idle" /\ OnlyListed(p)'
    <3>1. arch.pc = "idle"
      BY <1>1, <2>2
    <3>2. ASSUME NEW d \in Days
          PROVE  LET F == cold[OrgOf[p]][d]
                 IN /\ NoRowOf(p, F.flat.rows) \/ [day |-> d, n |-> -1] \in fs
                    /\ \A n \in DOMAIN F.chunks : NoRowOf(p, F.chunks[n].rows) \/ [day |-> d, n |-> n] \in fs
      <4>1. 2 * d < 2 * Max(Days) + 2 /\ 2 * d + 2 > 0
        BY LastDay
      <4>2. PICK F : F = cold[OrgOf[p]][d]
        OBVIOUS
      <4>3. /\ F.flat # NoFile => [day |-> d, n |-> -1] \in fs
            /\ F.flat = NoFile => \A k \in DOMAIN F.chunks : [day |-> d, n |-> k] \in fs
        BY <1>2, <1>3, <4>1, <4>2, ListedAre
      <4>4. F \in DayFiles /\ DaySound(F, OrgOf[p], d)
        BY <1>2, <4>2 DEF ColdShape, FilesSound, DaySound
      <4>5. F.flat # NoFile => DOMAIN F.chunks = {}
        BY <4>4, DayFilesAre, FilesAre DEF DaySound, FileSound
      <4>6. F.flat = NoFile => NoRowOf(p, F.flat.rows)
        BY DEF NoFile, NoRowOf
      <4> QED
        BY <4>2, <4>3, <4>5, <4>6
    <3> QED
      BY <1>1, <1>5, <3>1, <3>2 DEF OnlyListed, NoRowOf
  <2> QED
    BY <1>1, <1>5, <2>1, <2>2 DEF Purged
<1> QED
  BY <1>6, <1>7, <1>9, <1>10

LEMMA RewriteGivenUp == ASSUME LogInv, RewriteFails PROVE LogInv'
<1> USE DEF LogInv
<1>1. /\ UNCHANGED <<now, backend, parts, hot, cold, liveProjects, ingest, arch, stored>>
      /\ del.pc = "files" /\ fouled' = fouled \cup del.gone
  BY DEF RewriteFails, hotVars
<1>2. PICK f \in del.files : del' = [del EXCEPT !.files = @ \ {f}]
  BY DEF RewriteFails
<1>3. PICK fs \in SUBSET del.files : del' = [del EXCEPT !.files = fs]
  <2>1. PICK fs : fs = del.files \ {f}
    OBVIOUS
  <2> QED
    BY <1>2, <2>1
<1>4. /\ del'.pc = del.pc /\ del'.gone = del.gone
      /\ del' \in [pc : {"idle", "files", "force"}, gone : SUBSET Projects, files : SUBSET [day : Days, n : Int]]
  BY <1>3 DEF LogShape
<1>5. now \in Nat
  BY DEF LogShape
<1>6. LogShape' /\ DeletionSound' /\ BatchesFresh'
  BY <1>1, <1>4 DEF LogShape, DeletionSound, BatchesFresh
<1>7. ColdShape' /\ ArchShape' /\ FilesSound' /\ ExportSound' /\ ArchDue'
  BY <1>1, <1>5, ColdStay, ExportStays DEF ColdShape, ArchShape, ArchDue, DueDay, Working
<1>8. PromisedSafe'
  <2>1. Promised' = Promised
    BY <1>1, <1>4 DEF Promised, Org, Day
  <2> QED
    BY <1>1, <2>1, SafeStays
<1>9. Purged'
  BY <1>1, <1>4 DEF Purged, NoneLeft, NoRowOf
<1> QED
  BY <1>6, <1>7, <1>8, <1>9

LEMMA HotRowsDeleted == ASSUME LogInv, RawDeleteLogs \/ ForceDelete PROVE LogInv'
<1> USE DEF LogInv
<1>1. /\ UNCHANGED <<now, backend, parts, cold, ingest, arch, stored, fouled>>
      /\ hot' = {r \in hot : r.proj \notin del.gone} /\ del.files = {}
      /\ \/ del.pc = "files" /\ UNCHANGED liveProjects /\ del' = [del EXCEPT !.pc = "force"]
         \/ del.pc = "force" /\ liveProjects' = liveProjects \ del.gone /\ del' = IdleDel
  BY DEF RawDeleteLogs, ForceDelete, DeletionSound
<1>2. \/ UNCHANGED liveProjects /\ del' = [pc |-> "force", gone |-> del.gone, files |-> {}]
      \/ liveProjects' = liveProjects \ del.gone /\ del' = [pc |-> "idle", gone |-> {}, files |-> {}]
  BY <1>1 DEF LogShape, IdleDel
<1>3. now \in Nat /\ liveProjects \subseteq Projects /\ del.gone \subseteq Projects
  BY DEF LogShape
<1>4. LogShape' /\ DeletionSound' /\ BatchesFresh'
  BY <1>1, <1>2, <1>3 DEF LogShape, DeletionSound, BatchesFresh
<1>5. ColdShape' /\ ArchShape' /\ FilesSound' /\ ExportSound' /\ ArchDue'
  BY <1>1, <1>3, ColdStay, ExportStays DEF ColdShape, ArchShape, ArchDue, DueDay, Working
<1>6. liveProjects' \ del'.gone = liveProjects \ del.gone
  BY <1>2
<1>7. Promised' = Promised
  BY <1>1, <1>6 DEF Promised, Org, Day
<1>8. ASSUME NEW r \in Promised PROVE Safe(r)'
  <2>1. Safe(r) /\ r.proj \notin del.gone
    BY <1>8 DEF PromisedSafe, Promised
  <2> QED
    BY <1>1, <2>1 DEF Safe, InCold, RowsOf, Working, Org, Day
<1>9. ASSUME NEW p \in Projects \ (liveProjects' \cup fouled) PROVE NoneLeft(p)'
  <2>1. CASE p \notin liveProjects
    BY <1>1, <1>9, <2>1 DEF Purged, NoneLeft, NoRowOf
  <2>2. CASE p \in liveProjects
    <3>1. p \in del.gone \ fouled
      BY <1>2, <1>9, <2>2
    <3>2. arch.pc = "idle" /\ OnlyListed(p)
      BY <3>1 DEF Purged
    <3>3. NoRowOf(p, hot') /\ NoRowOf(p, arch.buf)
      BY <1>1, <3>1, <3>2 DEF NoRowOf, ExportSound
    <3>4. ASSUME NEW o \in Orgs, NEW d \in Days
          PROVE  /\ NoRowOf(p, cold[o][d].flat.rows)
                 /\ \A n \in DOMAIN cold[o][d].chunks : NoRowOf(p, cold[o][d].chunks[n].rows)
      <4>1. CASE o = OrgOf[p]
        BY <1>1, <3>2, <4>1 DEF OnlyListed
      <4>2. CASE o # OrgOf[p]
        BY <4>2 DEF FilesSound, FileSound, NoRowOf, Org
      <4> QED
        BY <4>1, <4>2
    <3> QED
      BY <1>1, <3>3, <3>4 DEF NoneLeft, NoRowOf
  <2> QED
    BY <2>1, <2>2
<1>10. Purged'
  <2>1. ASSUME NEW p \in del'.gone \ fouled PROVE arch.pc = "idle" /\ OnlyListed(p)'
    <3>1. p \in del.gone /\ del'.files = del.files
      BY <1>1, <1>2, <2>1
    <3> QED
      BY <1>1, <3>1, <2>1 DEF Purged, OnlyListed, NoRowOf
  <2> QED
    BY <1>1, <1>9, <2>1 DEF Purged
<1> QED
  BY <1>4, <1>5, <1>7, <1>8, <1>10 DEF PromisedSafe

LEMMA TimePasses == ASSUME LogInv, ArchiveTick PROVE LogInv'
<1> USE DEF LogInv
<1>1. /\ UNCHANGED <<backend, parts, hot, cold, liveProjects, ingest, arch, del, stored, fouled>>
      /\ now < MaxNow /\ now' = now + 1 /\ (ingest.pc = "copy" => now < ingest.since + BatchTime)
  BY DEF ArchiveTick, hotVars
<1>2. now \in Nat /\ now' \in Nat /\ now' >= now /\ MaxNow \in Nat /\ now \in 1 .. MaxNow
  BY <1>1, ArchiveConstants DEF LogShape
<1>3. LogShape' /\ DeletionSound'
  BY <1>1, <1>2 DEF LogShape, DeletionSound
<1>4. BatchesFresh'
  <2>1. ingest.since \in Nat /\ BatchTime \in Nat
    BY ArchiveConstants DEF LogShape
  <2> QED
    BY <1>1, <1>2, <2>1 DEF BatchesFresh
<1>5. ColdShape' /\ ArchShape' /\ FilesSound' /\ ExportSound' /\ Purged'
  BY <1>1, <1>2, ColdStay, ExportStays, PurgedStays DEF ColdShape, ArchShape
<1>6. ArchDue'
  <2>1. ASSUME NEW d \in Days, DueDay(d) PROVE DueDay(d)'
    <3>1. PICK k : k = IF backend = "none" THEN ColdDays ELSE HotDays
      OBVIOUS
    <3>2. k \in Nat /\ d \in Nat /\ 2 * d < now - 2 * k
      BY <2>1, <3>1, DaysAre, ArchiveConstants DEF DueDay
    <3>3. 2 * d < now' - 2 * k
      BY <1>2, <3>2, LaterToo
    <3> QED
      BY <1>1, <2>1, <3>1, <3>3 DEF DueDay
  <2>2. arch.todo \subseteq Days /\ arch.day \in Days
    BY DEF ArchShape, ArchStates
  <2> QED
    BY <1>1, <2>1, <2>2 DEF ArchDue, Working
<1>7. PromisedSafe'
  <2>1. Promised' \subseteq Promised
    BY <1>1, <1>2, PromisedShrink
  <2> QED
    BY <1>1, <2>1, SafeStays
<1> QED
  BY <1>3, <1>4, <1>5, <1>6, <1>7

\* What is left of a file without the rows of the projects that go.
LEMMA RewrittenIs ==
  ASSUME NEW f \in ParquetFiles, f.st # "ok" => f.rows = {}, NEW gone
  PROVE  /\ Rewritten(f, gone) \in ParquetFiles /\ FileLess(Rewritten(f, gone), f)
         /\ Rewritten(f, gone).rows = {r \in f.rows : r.proj \notin gone}
<1> DEFINE rest == {r \in f.rows : r.proj \notin gone}
<1>1. CASE f.st # "ok"
  <2>1. Rewritten(f, gone) = f
    BY <1>1 DEF Rewritten
  <2> QED
    BY <1>1, <2>1 DEF FileLess
<1>2. CASE f.st = "ok" /\ rest = {}
  <2>1. Rewritten(f, gone) = NoFile
    BY <1>2 DEF Rewritten
  <2> QED
    BY <1>2, <2>1, FilesAre, NoFilesIs DEF FileLess
<1>3. CASE f.st = "ok" /\ rest # {}
  <2>1. Rewritten(f, gone) = [st |-> "ok", rows |-> rest]
    BY <1>3 DEF Rewritten, File
  <2>2. f.rows \subseteq LogRows
    BY FilesAre
  <2>3. [st |-> "ok", rows |-> rest] \in ParquetFiles
    BY <2>2 DEF ParquetFiles
  <2> HIDE DEF rest
  <2>4. Rewritten(f, gone).st = "ok" /\ Rewritten(f, gone).rows = rest
    BY <2>1
  <2> QED
    BY <1>3, <2>1, <2>3, <2>4 DEF FileLess, rest
<1> QED
  BY <1>1, <1>2, <1>3

LEMMA FileRewritten == ASSUME LogInv, RewriteParquet PROVE LogInv'
<1> USE DEF LogInv
<1>1. UNCHANGED <<now, backend, parts, hot, liveProjects, ingest, arch, stored>> /\ del.pc = "files"
  BY DEF RewriteParquet, hotVars
<1> DEFINE o == OrgOf[CHOOSE p \in del.gone : TRUE]
<1>3. PICK f \in del.files :
        /\ cold' = IF f.n = -1 THEN [cold EXCEPT ![o][f.day].flat = Rewritten(FileAt(o, f), del.gone)]
                   ELSE [cold EXCEPT ![o][f.day].chunks =
                           [n \in {m \in DOMAIN @ : m # f.n \/ Rewritten(FileAt(o, f), del.gone) # NoFile} |->
                              IF n = f.n THEN Rewritten(FileAt(o, f), del.gone) ELSE @[n]]]
        /\ del' = [del EXCEPT !.files = @ \ {f}]
        /\ fouled' = IF FileAt(o, f) = Torn THEN fouled \cup del.gone ELSE fouled
  BY Zenon DEF RewriteParquet
<1>4. del.gone # {} /\ del.gone \subseteq Projects /\ \A p \in del.gone : OrgOf[p] = o
  <2>1. del.gone # {} /\ \A p, q \in del.gone : OrgOf[p] = OrgOf[q]
    BY <1>1 DEF DeletionSound
  <2>2. (CHOOSE p \in del.gone : TRUE) \in del.gone
    BY <2>1
  <2> QED
    BY <2>1, <2>2 DEF LogShape
<1> HIDE DEF o
<1>5. o \in Orgs /\ f.day \in Days
  BY <1>4 DEF Orgs, LogShape
<1>6. PICK F : F = cold[o][f.day]
  OBVIOUS
<1>7. F \in DayFiles /\ DaySound(F, o, f.day)
  BY <1>5, <1>6 DEF ColdShape, FilesSound, DaySound
<1>8. FileOf(F, f) = FileAt(o, f)
  BY <1>6 DEF FileOf, FileAt
<1>9. FileAt(o, f) \in ParquetFiles /\ (FileAt(o, f).st # "ok" => FileAt(o, f).rows = {})
  <2>1. F.flat \in ParquetFiles /\ \A n \in DOMAIN F.chunks : F.chunks[n] \in ParquetFiles
    BY <1>7, DayFilesAre
  <2>2. FileOf(F, f) \in ParquetFiles
    BY <2>1, FilesAre DEF FileOf
  <2>3. FileOf(F, f).st # "ok" => FileOf(F, f).rows = {}
    BY <1>7, NoFilesIs DEF FileOf, DaySound, FileSound
  <2> QED
    BY <1>8, <2>2, <2>3
<1>10. PICK g : g = Rewritten(FileAt(o, f), del.gone)
  OBVIOUS
<1>11. /\ g \in ParquetFiles /\ FileLess(g, FileAt(o, f))
       /\ g.rows = {r \in FileAt(o, f).rows : r.proj \notin del.gone}
  BY <1>9, <1>10, RewrittenIs
<1>12. OneDay(o, f.day, With(F, f, g))
  <2>1. CASE f.n = -1
    <3>1. PICK X : X = [F EXCEPT !.flat = g]
      OBVIOUS
    <3>2. cold' = [cold EXCEPT ![o][f.day] = X]
      BY <1>3, <1>6, <1>10, <2>1, <3>1
    <3>3. X = With(F, f, g)
      BY <1>7, <1>11, <2>1, <3>1, FlatReplaced
    <3> QED
      BY <3>2, <3>3 DEF OneDay
  <2>2. CASE f.n # -1
    <3>1. PICK c : c = [n \in {m \in DOMAIN F.chunks : m # f.n \/ g # NoFile} |-> IF n = f.n THEN g ELSE F.chunks[n]]
      OBVIOUS
    <3>2. PICK X : X = [F EXCEPT !.chunks = c]
      OBVIOUS
    <3>3. cold' = [cold EXCEPT ![o][f.day] = X]
      BY <1>3, <1>6, <1>10, <2>2, <3>1, <3>2
    <3>4. X = With(F, f, g)
      BY <1>7, <2>2, <3>1, <3>2, ChunkReplaced
    <3> QED
      BY <3>3, <3>4 DEF OneDay
  <2> QED
    BY <2>1, <2>2
<1>13. PICK fs \in SUBSET del.files : fs = del.files \ {f} /\ del' = [del EXCEPT !.files = fs]
  <2>1. PICK fs : fs = del.files \ {f}
    OBVIOUS
  <2> QED
    BY <1>3, <2>1
<1>14. /\ del'.pc = del.pc /\ del'.gone = del.gone /\ del'.files = fs
       /\ del' \in [pc : {"idle", "files", "force"}, gone : SUBSET Projects, files : SUBSET [day : Days, n : Int]]
  BY <1>13 DEF LogShape
<1>15. Promised' = Promised
  BY <1>1, <1>14 DEF Promised, Org, Day
<1>16. fouled \subseteq fouled' /\ fouled' \subseteq Projects
  BY <1>3, <1>4 DEF LogShape
<1>17. \A r \in Promised' : r \in FileAt(o, f).rows => r \in g.rows
  BY <1>11, <1>15 DEF Promised
<1>18. OneDay(o, f.day, With(cold[o][f.day], f, g))
  BY <1>6, <1>12
<1>19. /\ ColdShape' /\ ArchShape' /\ BatchesFresh' /\ FilesSound' /\ ArchDue' /\ ExportSound' /\ PromisedSafe'
       /\ \A p \in Projects \ (liveProjects' \cup fouled') : NoneLeft(p)'
       /\ cold'[o][f.day] = With(cold[o][f.day], f, g)
       /\ \A p \in Orgs : \A e \in Days : (p = o /\ e = f.day) \/ cold'[p][e] = cold[p][e]
  BY <1>1, <1>5, <1>11, <1>15, <1>16, <1>17, <1>18, OneFileLess
<1>20. LogShape' /\ DeletionSound'
  BY <1>1, <1>14, <1>16 DEF LogShape, DeletionSound
<1>21. PICK H : H = With(F, f, g)
  OBVIOUS
<1>22. /\ DayLess(H, F)
       /\ f.n = -1 => H.flat = g /\ H.chunks = F.chunks
       /\ f.n # -1 => /\ H.flat = F.flat
                      /\ \A n \in DOMAIN H.chunks : H.chunks[n] = IF n = f.n THEN g ELSE F.chunks[n]
  BY <1>7, <1>8, <1>11, <1>21, FileReplaced
<1>23. Purged'
  <2>1. ASSUME NEW p \in del.gone \ fouled', NEW d \in Days
        PROVE  /\ NoRowOf(p, cold'[o][d].flat.rows) \/ [day |-> d, n |-> -1] \in fs
               /\ \A n \in DOMAIN cold'[o][d].chunks :
                    NoRowOf(p, cold'[o][d].chunks[n].rows) \/ [day |-> d, n |-> n] \in fs
    <3>1. /\ NoRowOf(p, cold[o][d].flat.rows) \/ [day |-> d, n |-> -1] \in del.files
          /\ \A n \in DOMAIN cold[o][d].chunks :
               NoRowOf(p, cold[o][d].chunks[n].rows) \/ [day |-> d, n |-> n] \in del.files
      BY <1>4, <1>16, <2>1 DEF Purged, OnlyListed
    <3>2. NoRowOf(p, g.rows)
      BY <1>11, <2>1 DEF NoRowOf
    <3>3. \A n : [day |-> d, n |-> n] \in del.files => [day |-> d, n |-> n] \in fs \/ (d = f.day /\ n = f.n)
      <4>1. \A n : [day |-> d, n |-> n] = f => d = f.day /\ n = f.n
        OBVIOUS
      <4> QED
        BY <1>13, <4>1
    <3>4. CASE d = f.day
      <4>1. cold'[o][d] = H /\ cold[o][d] = F
        BY <1>6, <1>19, <1>21, <3>4
      <4>2. CASE f.n = -1
        <5>1. NoRowOf(p, H.flat.rows) /\ H.chunks = F.chunks
          BY <1>22, <3>2, <4>2
        <5>2. ASSUME NEW n \in DOMAIN F.chunks PROVE n # f.n
          <6>1. n \in Nat
            BY <1>7, DayFilesAre
          <6> QED
            BY <4>2, <6>1
        <5> QED
          BY <3>1, <3>3, <4>1, <5>1, <5>2
      <4>3. CASE f.n # -1
        <5>1. H.flat = F.flat /\ DOMAIN H.chunks \subseteq DOMAIN F.chunks
          BY <1>22, <4>3 DEF DayLess
        <5>2. NoRowOf(p, H.flat.rows) \/ [day |-> d, n |-> -1] \in fs
          BY <3>1, <3>3, <4>1, <4>3, <5>1
        <5>3. ASSUME NEW n \in DOMAIN H.chunks PROVE NoRowOf(p, H.chunks[n].rows) \/ [day |-> d, n |-> n] \in fs
          <6>1. CASE n = f.n
            BY <1>22, <3>2, <4>3, <6>1
          <6>2. CASE n # f.n
            BY <1>22, <3>1, <3>3, <4>1, <4>3, <5>1, <6>2
          <6> QED
            BY <6>1, <6>2
        <5> QED
          BY <4>1, <5>2, <5>3
      <4> QED
        BY <4>2, <4>3
    <3>5. CASE d # f.day
      BY <1>5, <1>19, <3>1, <3>3, <3>5
    <3> QED
      BY <3>4, <3>5
  <2>2. ASSUME NEW p \in del.gone \ fouled' PROVE arch.pc = "idle" /\ OrgOf[p] = o
    BY <1>4, <1>16, <2>2 DEF Purged
  <2>3. ASSUME NEW p \in del'.gone \ fouled' PROVE arch'.pc = "idle" /\ OnlyListed(p)'
    <3>1. p \in del.gone \ fouled' /\ arch'.pc = "idle" /\ OrgOf[p] = o
      BY <1>1, <1>14, <2>2, <2>3
    <3> QED
      BY <1>14, <2>1, <3>1 DEF OnlyListed, NoRowOf
  <2> QED
    BY <1>19, <2>3 DEF Purged
<1> QED
  BY <1>19, <1>20, <1>23

LEMMA OrganizationDeletionBegins == ASSUME LogInv, NEW o \in Orgs, DeleteOrganization(o) PROVE LogInv'
<1> USE DEF LogInv
<1>1. PICK gone : gone = {p \in liveProjects : OrgOf[p] = o}
  OBVIOUS
<1>2. /\ UNCHANGED <<now, backend, parts, hot, liveProjects, ingest, arch, stored>>
      /\ del.pc = "idle" /\ gone # {}
      /\ cold' = [cold EXCEPT ![o] = [d \in Days |-> NoFiles]]
      /\ del' = [pc |-> "files", gone |-> gone, files |-> {}]
      /\ fouled' = IF arch.pc = "idle" THEN fouled ELSE fouled \cup gone
  BY <1>1 DEF DeleteOrganization, hotVars
<1>3. gone \subseteq liveProjects /\ gone \subseteq Projects /\ \A p \in gone : OrgOf[p] = o
  BY <1>1 DEF LogShape
<1>4. /\ del'.pc = "files" /\ del'.gone = gone /\ del'.files = {}
      /\ del' \in [pc : {"idle", "files", "force"}, gone : SUBSET Projects, files : SUBSET [day : Days, n : Int]]
  BY <1>2, <1>3
<1>5. LogShape' /\ DeletionSound'
  BY <1>2, <1>3, <1>4 DEF LogShape, DeletionSound
<1>6. \A p \in Orgs : \A d \in Days : cold'[p][d] = IF p = o THEN NoFiles ELSE cold[p][d]
  BY <1>2 DEF ColdShape
<1>7. ColdShape'
  BY <1>2, FilesAre DEF ColdShape
<1>8. \A p \in Orgs : \A d \in Days : DayLess(cold'[p][d], cold[p][d])
  BY <1>6, DayLessSame, NoFilesIs
<1>9. Promised' \subseteq Promised /\ \A r \in Promised' : Org(r) \in Orgs /\ Day(r.at) \in Days /\ Org(r) # o
  <2>1. liveProjects' \ del'.gone \subseteq liveProjects \ del.gone
    BY <1>2, <1>4 DEF DeletionSound
  <2>2. now \in Nat
    BY DEF LogShape
  <2>3. Promised' \subseteq Promised
    BY <1>2, <2>1, <2>2, PromisedShrink
  <2>4. ASSUME NEW r \in Promised' PROVE r.proj \in liveProjects /\ r.proj \notin gone /\ r \in LogRows
    BY <1>2, <1>4, <1>5 DEF Promised, LogShape
  <2>5. ASSUME NEW r \in Promised' PROVE Org(r) # o
    BY <1>1, <2>4, <2>5 DEF Org
  <2> QED
    BY <2>3, <2>4, <2>5, LogIs
<1>10. \A r \in Promised' : HasStill(r, cold'[Org(r)][Day(r.at)], cold[Org(r)][Day(r.at)])
  BY <1>6, <1>9, DayLessSame
<1>11. /\ ArchShape' /\ BatchesFresh' /\ FilesSound' /\ ArchDue' /\ ExportSound' /\ PromisedSafe'
       /\ \A p \in Projects \ (liveProjects' \cup fouled') : NoneLeft(p)'
  BY <1>2, <1>7, <1>8, <1>9, <1>10, RowsTakenAway
<1>12. Purged'
  <2>1. ASSUME NEW p \in gone, p \notin fouled' PROVE arch'.pc = "idle" /\ OnlyListed(p)'
    <3>1. arch'.pc = "idle" /\ OrgOf[p] = o
      BY <1>2, <1>3, <2>1
    <3>2. ASSUME NEW d \in Days PROVE cold'[o][d].flat.rows = {} /\ DOMAIN cold'[o][d].chunks = {}
      BY <1>6, NoFilesIs
    <3> QED
      BY <3>1, <3>2 DEF OnlyListed, NoRowOf
  <2> QED
    BY <1>4, <1>11, <2>1 DEF Purged
<1> QED
  BY <1>5, <1>7, <1>11, <1>12

LEMMA LogStep == ASSUME LogInv, [ArchiveNext]_archiveVars PROVE LogInv'
<1>1. CASE ArchiveStep
  BY <1>1, ArchiveBegins, PartitionChosen, OrgStarted, PartStarted, PartWritten, PartitionDetached, PartitionDropped,
     OldFilesDeleted DEF ArchiveStep
<1>2. CASE ArchiveFails
  BY <1>2, ArchiveStops DEF ArchiveFails, hotVars
<1>3. CASE MaintenanceCrash
  BY <1>3, ArchiveStops DEF MaintenanceCrash, hotVars
<1>4. CASE \E o \in Orgs : ReadColdFiles(o) \/ DeleteOrganization(o)
  BY <1>4, DamagedFileDropped, OrganizationDeletionBegins
<1>5. CASE UNCHANGED archiveVars
  <2>1. LogShape' /\ ColdShape' /\ ArchShape' /\ BatchesFresh' /\ ArchDue' /\ DeletionSound'
    BY <1>5 DEF LogInv, archiveVars, LogShape, ColdShape, ArchShape, BatchesFresh, ArchDue, DueDay, Working, DeletionSound
  <2>2. FilesSound' /\ ExportSound' /\ Purged'
    BY <1>5, ColdStay, ExportStays, PurgedStays DEF LogInv, archiveVars, LogShape
  <2>3. Promised' = Promised
    BY <1>5 DEF archiveVars, Promised, Org, Day
  <2>4. PromisedSafe'
    BY <1>5, <2>3, SafeStays DEF LogInv, archiveVars
  <2> QED
    BY <2>1, <2>2, <2>4 DEF LogInv
<1> QED
  BY <1>1, <1>2, <1>3, <1>4, <1>5, PartitionsAdded, BatchBegins, BatchStored, ProjectDeletionBegins, FileRewritten,
     RewriteGivenUp, HotRowsDeleted, TimePasses DEF ArchiveNext

\* What the invariant says of the files holds of the rows that readers merge.
LEMMA KeptAsPromised == ASSUME LogInv PROVE LogsKeptAsPromised
<1> USE DEF LogInv
<1>1. ASSUME backend # "disk", NEW r \in Promised PROVE Kept(r)
  <2>1. Safe(r) /\ Org(r) \in Orgs /\ Day(r.at) \in Days
    BY <1>1, LogIs DEF PromisedSafe, Promised, LogShape
  <2>2. backend \in {"s3", "none"}
    BY <1>1, ArchiveConstants DEF LogShape
  <2>3. r \in hot \/ InCold(r)
    BY <2>1, <2>2 DEF Safe
  <2> QED
    BY <2>1, <2>3 DEF InCold, Kept, ColdRows
<1>2. ASSUME NEW p \in Projects \ (liveProjects \cup fouled), NEW o \in Orgs, NEW r \in hot \cup ColdRows(o)
      PROVE  r.proj # p
  <2>1. NoneLeft(p)
    BY <1>2 DEF Purged
  <2>2. ASSUME NEW d \in Days, r \in RowsOf(cold[o][d]) PROVE r.proj # p
    BY <2>1, <2>2 DEF NoneLeft, NoRowOf, RowsOf
  <2> QED
    BY <1>2, <2>1, <2>2 DEF ColdRows, NoneLeft, NoRowOf
<1> QED
  BY <1>1, <1>2 DEF LogsKeptAsPromised, NoLogLost, DeletedLogsPurged

\* Whatever interrupts the archival, whatever is ingested, read or deleted
\* meanwhile: a promised log is in its partition until that is dropped, and an
\* organization's day has a flat file only when that holds every log of it.
THEOREM LogsInvariant == ArchiveSpec => []LogInv
<1>1. ArchiveInit => LogInv
  BY LogsBegin
<1>2. LogInv /\ [ArchiveNext]_archiveVars => LogInv'
  BY LogStep
<1> QED
  BY <1>1, <1>2, PTL DEF ArchiveSpec

\* A log is kept in one of its tiers as long as its organization's retention
\* covers it (archive_partition drops what it has exported and nothing else), and
\* a deleted project's logs are in neither.
THEOREM LogsStay == ArchiveSpec => []LogsKeptAsPromised
<1>1. LogInv => LogsKeptAsPromised
  BY KeptAsPromised
<1> QED
  BY <1>1, LogsInvariant, PTL
=============================================================================
