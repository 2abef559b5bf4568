------------------------------ MODULE FileBlobs ------------------------------
(***************************************************************************)
(* Uploaded chunks, the files assembled from them, and their cleanup.      *)
(* FileBlob rows are deduplicated by checksum and own one storage object;  *)
(* File rows refer to blobs; debug symbol bundles and debug information    *)
(* files refer to Files.  Web requests and background tasks upload chunks  *)
(* and assemble files while the nightly cleanup deletes old blobs and the  *)
(* bundles no event has used for long.                                     *)
(*                                                                         *)
(* One action is one database statement or one storage call.  A content is *)
(* its checksum.  The assemble status is left out: it is kept in a cache   *)
(* that nothing reads.  A bundle's release and the zip's own format are    *)
(* left out; a job says whether its manifest is accepted.  A blob's id is  *)
(* its checksum and a number, a File's its job and a number; Null is NULL. *)
(***************************************************************************)
EXTENDS Integers, FiniteSets, FiniteSetsExt, Sequences, SequencesExt

CONSTANTS
  Jobs,           \* what may be requested: name -> job
  Stores,         \* storage backends: "disk" picks an unused name for a new
                  \* object, "s3" overwrites the object of the same name
  Plans,          \* the sets of jobs that may be requested together
  Uploaded,       \* checksums of chunks uploaded at the start, in order
  Grace, Retain,  \* 24 hours (an orphan's, and a last use that is not renewed)
                  \* and GLITCHTIP_FILE_RETENTION_DAYS
  MaxClock        \* bound of the clock

\* A job's kind is "chunk" (upload of one), "artifact", "dif" or "proguard".
\* sum is the checksum the client gives, joined the one of its chunks together;
\* parts are the files of an artifact bundle: [map, sum, debug], where map is the
\* number of the part that is its source map, or 0; a source map has none itself.
ASSUME FileConstants ==
  /\ {Grace, Retain, MaxClock} \subseteq Nat /\ Grace <= Retain
  /\ Plans \subseteq SUBSET DOMAIN Jobs /\ Uploaded \in Seq(ToSet(Uploaded))
  /\ \A j \in DOMAIN Jobs :
       /\ Jobs[j].kind \in {"chunk", "artifact", "dif", "proguard"}
       /\ Jobs[j].parts \in Seq(ToSet(Jobs[j].parts))
       /\ \A part \in ToSet(Jobs[j].parts) :
            part.map = 0 \/ (part.map \in DOMAIN Jobs[j].parts /\ Jobs[j].parts[part.map].map = 0)

VARIABLES
  store, clock,
  blobs,     \* FileBlob rows: [id, sum, born, obj]
  objects,   \* storage objects: <<checksum, n>>
  files,     \* File rows: [id, sum, blob, born]
  bundles,   \* DebugSymbolBundle rows: [debug, file, map, used], used is last_used
  difs,      \* DebugInformationFile rows: the id of their File
  work,      \* where each job of the plan is
  cleaner,   \* the nightly cleanup
  ids,       \* checksum -> blob rows created with it so far
  latest     \* ghost: debug id -> birth of the files last put in its bundle, and
             \* the row's last use then or since: [born, used]

fileRows == <<blobs, objects, files, bundles, difs>>
fileVars == <<store, clock, fileRows, work, cleaner, ids, latest>>
-----------------------------------------------------------------------------
Null == <<>>
Sums == UNION {ToSet(Jobs[j].chunks) \cup {Jobs[j].sum, Jobs[j].joined}
                \cup {part.sum : part \in ToSet(Jobs[j].parts)} : j \in DOMAIN Jobs}

\* bundle is the File of the whole upload, made the Files of its parts; want
\* and blob belong to a get_or_create, which goes on to ret.
NewWork(j) == [pc |-> "new", bundle |-> Null, made |-> <<>>, old |-> {},
               want |-> Jobs[j].sum, blob |-> Null, ret |-> "done"]
IdleCleaner == [pc |-> "idle", pass |-> "", batch |-> {}]

FilesInit ==
  /\ store \in Stores /\ clock = 0
  /\ objects = {<<c, 0>> : c \in ToSet(Uploaded)}
  /\ blobs = {[id |-> <<Uploaded[i], 1>>, sum |-> Uploaded[i], born |-> 0, obj |-> <<Uploaded[i], 0>>] :
               i \in DOMAIN Uploaded}
  /\ files = {} /\ bundles = {} /\ difs = {}
  /\ \E plan \in Plans : work = [j \in plan |-> NewWork(j)]
  /\ cleaner = IdleCleaner
  /\ ids = [c \in Sums |-> IF c \in ToSet(Uploaded) THEN 1 ELSE 0]
  /\ latest = [d \in {} |-> [born |-> 0, used |-> 0]]

Goto(j, pc) == work' = [work EXCEPT ![j].pc = pc]
\* The request or task ends, or an exception that nothing handles ends it.
End(j) == work' = [work EXCEPT ![j] = [NewWork(j) EXCEPT !.pc = "done"]]
BlobIds == {b.id : b \in blobs}
FileIds == {f.id : f \in files}
BlobOf(sum) == CHOOSE b \in blobs : b.sum = sum
HasBlob(sum) == \E b \in blobs : b.sum = sum
Readable(sum) == HasBlob(sum) /\ BlobOf(sum).obj \in objects
Backed(i) == \E f \in files, b \in blobs : f.id = i /\ f.blob = b.id /\ b.obj \in objects
FileRow(i) == CHOOSE f \in files : f.id = i

NewId(j) == <<j, Len(work[j].made) + IF work[j].bundle = Null THEN 0 ELSE 1>>
NewFile(j, sum, blob) == [id |-> NewId(j), sum |-> sum, blob |-> blob, born |-> clock]

\* DELETE of File rows: bundles and debug information files of the file go with
\* it, a bundle whose source map it was keeps the other file.
DeleteFiles(gone) ==
  /\ files' = {f \in files : f.id \notin gone}
  /\ bundles' = {[b EXCEPT !.map = IF @ \in gone THEN Null ELSE @] :
                   b \in {c \in bundles : c.file \notin gone}}
  /\ difs' = difs \ gone
-----------------------------------------------------------------------------
(* Requests.                                                               *)

MissingChunks(j) == {c \in ToSet(Jobs[j].chunks) : ~HasBlob(c)}

\* The endpoints that start an assembly answer "not found" while a chunk is
\* missing, and enqueue the task otherwise; a debug information file whose File
\* is known to the project is answered at once.
AssembleRelease(j) ==
  /\ work[j].pc = "new" /\ Jobs[j].kind = "artifact"
  /\ MissingChunks(j) = {}
  /\ Goto(j, "start")
  /\ UNCHANGED <<store, clock, fileRows, cleaner, ids, latest>>

DifsAssembleApi(j) ==
  /\ work[j].pc = "new" /\ Jobs[j].kind = "dif"
  /\ ~\E f \in files : f.id \in difs /\ f.sum = Jobs[j].sum
  /\ MissingChunks(j) = {}
  /\ Goto(j, "dif")
  /\ UNCHANGED <<store, clock, fileRows, cleaner, ids, latest>>

ChunkUpload(j) ==
  /\ work[j].pc = "new" /\ Jobs[j].kind = "chunk"
  /\ Goto(j, IF Jobs[j].big THEN "done" ELSE "select")
  /\ UNCHANGED <<store, clock, fileRows, cleaner, ids, latest>>

\* A file that is too large, no archive or no mapping is refused.
Dsyms(j) ==
  /\ work[j].pc = "new" /\ Jobs[j].kind = "proguard"
  /\ Goto(j, IF Jobs[j].big \/ ~Jobs[j].ok THEN "done" ELSE "proguard")
  /\ UNCHANGED <<store, clock, fileRows, cleaner, ids, latest>>
-----------------------------------------------------------------------------
(* get_or_create of a blob: look, store the bytes, insert or look again.   *)

GetBlob(j) ==
  /\ work[j].pc = "select"
  /\ IF HasBlob(work[j].want)
     THEN work' = [work EXCEPT ![j].blob = BlobOf(work[j].want).id, ![j].pc = work[j].ret]
     ELSE Goto(j, "insert")
  /\ UNCHANGED <<store, clock, fileRows, cleaner, ids, latest>>

FreeName(sum) == IF store = "s3" THEN <<sum, 0>>
                 ELSE <<sum, Min({n \in 0 .. Cardinality(objects) : <<sum, n>> \notin objects})>>
\* The object is stored while the INSERT is prepared.  A second insert of a
\* checksum is refused: get_or_create looks again, the proguard upload fails.
InsertBlob(j) ==
  /\ work[j].pc = "insert"
  /\ objects' = objects \cup {FreeName(work[j].want)}
  /\ IF HasBlob(work[j].want)
     THEN /\ work' = IF Jobs[j].kind = "proguard" THEN [work EXCEPT ![j].pc = "done"]
                     ELSE [work EXCEPT ![j].blob = BlobOf(work[j].want).id, ![j].pc = work[j].ret]
          /\ UNCHANGED <<blobs, ids>>
     ELSE LET id == <<work[j].want, ids[work[j].want] + 1>>
          IN /\ ids' = [ids EXCEPT ![work[j].want] = @ + 1]
             /\ blobs' = blobs \cup {[id |-> id, sum |-> work[j].want, born |-> clock,
                                      obj |-> FreeName(work[j].want)]}
             /\ work' = [work EXCEPT ![j].blob = id, ![j].pc = work[j].ret]
  /\ UNCHANGED <<store, clock, files, bundles, difs, cleaner, latest>>
-----------------------------------------------------------------------------
(* The assembly of an artifact bundle.                                     *)

\* Missing chunks, and a file that is too big, end the assembly.
AssembleArtifacts(j) ==
  /\ work[j].pc = "start"
  /\ IF ~Jobs[j].big /\ MissingChunks(j) = {}
     THEN Goto(j, "assemble") ELSE End(j)
  /\ UNCHANGED <<store, clock, fileRows, cleaner, ids, latest>>

\* The File is created without a blob, then the chunks are read.  One that is
\* gone raises and leaves the File; a wrong checksum deletes it.
AssembleFile(j) ==
  LET chunks == ToSet(Jobs[j].chunks)
      readable == \A c \in chunks : Readable(c)
      wrong == Jobs[j].sum # Jobs[j].joined
  IN /\ work[j].pc = "assemble"
     /\ files' = IF readable /\ wrong THEN files
                 ELSE files \cup {NewFile(j, Jobs[j].sum, Null)}
     /\ IF ~readable \/ wrong THEN End(j)
        ELSE LET one == Cardinality(chunks) = 1
             IN work' = [work EXCEPT ![j].pc = IF one THEN "link" ELSE "select", ![j].ret = "link",
                           ![j].bundle = NewId(j), ![j].want = Jobs[j].joined,
                           ![j].blob = IF one THEN BlobOf(Head(Jobs[j].chunks)).id ELSE Null]
     /\ UNCHANGED <<store, clock, blobs, objects, bundles, difs, cleaner, ids, latest>>

\* file.save(): the foreign key refuses a blob deleted meanwhile.  Then the
\* manifest is opened; a bad one undoes everything.
Link(i, b) == files' = {IF f.id = i THEN [f EXCEPT !.blob = b] ELSE f : f \in files}
FailAndCleanup(j) == DeleteFiles({work[j].bundle} \cup ToSet(work[j].made)) /\ End(j)
LinkBundle(j) ==
  /\ work[j].pc = "link"
  /\ IF work[j].blob \notin BlobIds THEN End(j) /\ UNCHANGED <<files, bundles, difs>>
     ELSE IF ~Jobs[j].ok THEN FailAndCleanup(j)
     ELSE /\ Link(work[j].bundle, work[j].blob) /\ Goto(j, "part")
          /\ UNCHANGED <<bundles, difs>>
  /\ UNCHANGED <<store, clock, blobs, objects, cleaner, ids, latest>>

\* Each artifact: a File, its content as a blob, and the link between them; a
\* path that leaves the bundle undoes everything.
PartAt(j) == Jobs[j].parts[Len(work[j].made) + 1]
CreateArtifact(j) ==
  /\ work[j].pc = "part" /\ Len(work[j].made) < Len(Jobs[j].parts)
  /\ IF PartAt(j).sum = "outside"
     THEN FailAndCleanup(j)
     ELSE /\ files' = files \cup {NewFile(j, PartAt(j).sum, Null)}
          /\ work' = [work EXCEPT ![j].pc = "select", ![j].ret = "putfile",
                                  ![j].want = PartAt(j).sum, ![j].made = Append(@, NewId(j))]
          /\ UNCHANGED <<bundles, difs>>
  /\ UNCHANGED <<store, clock, blobs, objects, cleaner, ids, latest>>

Putfile(j) ==
  /\ work[j].pc = "putfile"
  /\ IF work[j].blob \in BlobIds
     THEN Link(Last(work[j].made), work[j].blob) /\ Goto(j, "part")
     ELSE End(j) /\ UNCHANGED files
  /\ UNCHANGED <<store, clock, blobs, objects, bundles, difs, cleaner, ids, latest>>

\* One bundle per debug id, the one with a source map preferred; parts without
\* a debug id get one each.
BundlesOf(j) ==
  LET parts == Jobs[j].parts
      made == work[j].made
      Row(i) == [debug |-> parts[i].debug, file |-> made[i],
                 map |-> IF parts[i].map = 0 THEN Null ELSE made[parts[i].map],
                 used |-> clock]
      rows == {Row(i) : i \in DOMAIN parts}
      Best(d) == LET mine == {i \in DOMAIN parts : parts[i].debug = d}
                     full == {i \in mine : parts[i].map # 0}
                 IN Row(IF full # {} THEN Max(full) ELSE Min(mine))
  IN {r \in rows : r.debug = "none"} \cup {Best(d) : d \in {r.debug : r \in rows} \ {"none"}}
Complete(j) == {b \in BundlesOf(j) : b.map # Null}
Incomplete(j) == {b \in BundlesOf(j) : b.map = Null}
Debugs(S) == {b.debug : b \in S} \ {"none"}

ReadReplaced(j) ==
  /\ work[j].pc = "part" /\ Len(work[j].made) = Len(Jobs[j].parts)
  /\ LET replaced == {b \in bundles : b.debug \in Debugs(Complete(j))}
     IN work' = [work EXCEPT ![j].pc = "upsert",
                   ![j].old = ({b.file : b \in replaced} \cup {b.map : b \in replaced}) \ {Null}]
  /\ UNCHANGED <<store, clock, fileRows, cleaner, ids, latest>>

\* Bundles with a source map replace the files of the one of their debug id; the
\* row keeps its last use.
LastUsed(d) == IF d \in Debugs(bundles) THEN (CHOOSE b \in bundles : b.debug = d).used ELSE clock
UpsertComplete(j) ==
  /\ work[j].pc = "upsert"
  /\ IF ToSet(work[j].made) \subseteq FileIds
     THEN /\ bundles' = {b \in bundles : b.debug \notin Debugs(Complete(j))}
                         \cup {[b EXCEPT !.used = LastUsed(b.debug)] : b \in Complete(j)}
          /\ latest' = [d \in DOMAIN latest \cup Debugs(Complete(j)) |->
                          IF d \in Debugs(Complete(j))
                          THEN [born |-> Min({FileRow(i).born : i \in ToSet(work[j].made)}),
                                used |-> LastUsed(d)]
                          ELSE latest[d]]
          /\ Goto(j, "ignore")
     ELSE End(j) /\ UNCHANGED <<bundles, latest>>
  /\ UNCHANGED <<store, clock, blobs, objects, files, difs, cleaner, ids>>

\* Mutant: bundles without a source map replace what is there, too.
InsertOverwrites(S) == {b \in bundles : b.debug \notin Debugs(S)} \cup S
\* Bundles without one are inserted where their debug id has none.
InsertMissing(S) == bundles \cup {b \in S : b.debug = "none" \/ b.debug \notin Debugs(bundles)}
InsertIncomplete(j) ==
  /\ work[j].pc = "ignore"
  /\ IF ToSet(work[j].made) \subseteq FileIds
     THEN bundles' = InsertMissing(Incomplete(j)) /\ Goto(j, "drop")
     ELSE End(j) /\ UNCHANGED bundles
  /\ UNCHANGED <<store, clock, blobs, objects, files, difs, cleaner, ids, latest>>

\* Last, the replaced files are deleted, and the File of the bundle itself.
DeleteReplaced(j) ==
  LET kept == {b.file : b \in BundlesOf(j)} \cup {b.map : b \in BundlesOf(j)}
  IN /\ work[j].pc = "drop"
     /\ DeleteFiles((work[j].old \ kept) \cup {work[j].bundle}) /\ End(j)
     /\ UNCHANGED <<store, clock, blobs, objects, cleaner, ids, latest>>
-----------------------------------------------------------------------------
(* Debug information files.                                                *)

\* A File with this checksum is reused.
DifsGetFile(j) ==
  /\ work[j].pc = "dif"
  /\ LET known == {f.id : f \in {g \in files : g.sum = Jobs[j].sum /\ g.blob # Null}}
     IN IF known = {} THEN Goto(j, "chunks")
        ELSE \E i \in known : work' = [work EXCEPT ![j].bundle = i, ![j].pc = "metadata"]
  /\ UNCHANGED <<store, clock, fileRows, cleaner, ids, latest>>

DifsReadChunks(j) ==
  /\ work[j].pc = "chunks"
  /\ LET chunks == ToSet(Jobs[j].chunks)
         one == Cardinality(chunks) = 1
     IN IF (\A c \in chunks : Readable(c)) /\ Jobs[j].sum = Jobs[j].joined
        THEN work' = [work EXCEPT ![j].pc = IF one THEN "newfile" ELSE "select",
                        ![j].ret = "newfile", ![j].want = Jobs[j].joined,
                        ![j].blob = IF one THEN BlobOf(Head(Jobs[j].chunks)).id ELSE Null]
        ELSE End(j)
  /\ UNCHANGED <<store, clock, fileRows, cleaner, ids, latest>>

SaveFile(j, next) ==
  IF work[j].blob \in BlobIds
  THEN /\ files' = files \cup {NewFile(j, Jobs[j].sum, work[j].blob)}
       /\ work' = [work EXCEPT ![j].bundle = NewId(j), ![j].pc = next]
  ELSE End(j) /\ UNCHANGED files

DifsCreateFile(j) ==
  /\ work[j].pc = "newfile" /\ SaveFile(j, "metadata")
  /\ UNCHANGED <<store, clock, blobs, objects, bundles, difs, cleaner, ids, latest>>

\* The symbols are read from the file's bytes; unless the project has it, the
\* row is saved.
DifsExtractMetadata(j) ==
  /\ work[j].pc = "metadata"
  /\ IF Backed(work[j].bundle) /\ work[j].bundle \notin difs
     THEN Goto(j, "savedif") ELSE End(j)
  /\ UNCHANGED <<store, clock, fileRows, cleaner, ids, latest>>

DifsCreateDif(j) ==
  /\ work[j].pc = "savedif"
  /\ difs' = IF work[j].bundle \in FileIds THEN difs \cup {work[j].bundle} ELSE difs
  /\ End(j)
  /\ UNCHANGED <<store, clock, blobs, objects, files, bundles, cleaner, ids, latest>>

\* An upload of a proguard mapping: blob, File and row, each looked up first.
ProguardBlob(j) ==
  /\ work[j].pc = "proguard"
  /\ IF HasBlob(work[j].want)
     THEN work' = [work EXCEPT ![j].blob = BlobOf(work[j].want).id, ![j].pc = "mapping"]
     ELSE work' = [work EXCEPT ![j].pc = "insert", ![j].ret = "mapping"]
  /\ UNCHANGED <<store, clock, fileRows, cleaner, ids, latest>>

ProguardFile(j) ==
  /\ work[j].pc = "mapping"
  /\ LET known == {f.id : f \in {g \in files : g.sum = Jobs[j].sum}}
     IN IF known = {} THEN SaveFile(j, "savemap")
        ELSE /\ \E i \in known : work' = [work EXCEPT ![j].bundle = i, ![j].pc = "savemap"]
             /\ UNCHANGED files
  /\ UNCHANGED <<store, clock, blobs, objects, bundles, difs, cleaner, ids, latest>>

ProguardDif(j) ==
  /\ work[j].pc = "savemap"
  /\ difs' = IF (\E f \in files : f.id \in difs /\ f.sum = Jobs[j].sum)
                \/ work[j].bundle \notin FileIds THEN difs ELSE difs \cup {work[j].bundle}
  /\ End(j)
  /\ UNCHANGED <<store, clock, blobs, objects, files, bundles, cleaner, ids, latest>>
-----------------------------------------------------------------------------
(* The nightly cleanup: old blobs, then orphans.                           *)

OldBlobs == {b \in blobs : b.born < clock - Retain
               /\ ~\E f \in files : f.blob = b.id /\ f.born >= clock - Retain}
OrphanBlobs == {b \in blobs : b.born < clock - Grace /\ ~\E f \in files : f.blob = b.id}
Selected(pass) == IF pass = "old" THEN OldBlobs ELSE OrphanBlobs

CleanupOldFiles ==
  /\ cleaner.pc = "idle" /\ OldBlobs \cup OrphanBlobs # {}
  /\ cleaner' = [IdleCleaner EXCEPT !.pc = "select", !.pass = "old"]
  /\ UNCHANGED <<store, clock, fileRows, work, ids, latest>>

SelectBlobs ==
  /\ cleaner.pc = "select"
  /\ cleaner' = IF Selected(cleaner.pass) # {}
                THEN [cleaner EXCEPT !.pc = "delete", !.batch = Selected(cleaner.pass)]
                ELSE IF cleaner.pass = "old" THEN [cleaner EXCEPT !.pass = "orphan"]
                ELSE IdleCleaner
  /\ UNCHANGED <<store, clock, fileRows, work, ids, latest>>

\* The delete evaluates the pass's conditions once more; a row that no longer
\* meets them survives, and with it its object.
Rechecked(batch) == {b \in batch : b \in Selected(cleaner.pass)}
DeleteBlobRows ==
  /\ cleaner.pc = "delete"
  /\ LET gone == Rechecked(cleaner.batch)
     IN /\ blobs' = blobs \ gone
        /\ DeleteFiles({f.id : f \in {g \in files : g.blob \in {b.id : b \in gone}}})
        /\ cleaner' = [cleaner EXCEPT !.pc = "objects", !.batch = {b \in @ : b \notin blobs'}]
  /\ UNCHANGED <<store, clock, objects, work, ids, latest>>

\* The objects of the deleted rows follow, one call each; a failed call is
\* logged and leaves its object, as does a worker that is killed.
DeleteObject ==
  /\ cleaner.pc = "objects" /\ cleaner.batch # {}
  /\ \E b \in cleaner.batch :
       /\ objects' \in {objects, objects \ {b.obj}}
       /\ cleaner' = [cleaner EXCEPT !.batch = @ \ {b}]
  /\ UNCHANGED <<store, clock, blobs, files, bundles, difs, work, ids, latest>>

NextBatch ==
  /\ cleaner.pc = "objects" /\ cleaner.batch = {}
  /\ cleaner' = [cleaner EXCEPT !.pc = "select"]
  /\ UNCHANGED <<store, clock, fileRows, work, ids, latest>>

\* Later the same night: bundles no event has used for the files' retention.
CleanupOldDebugSymbolBundles ==
  /\ cleaner.pc = "idle" /\ \E b \in bundles : b.used < clock - Retain
  /\ bundles' = {b \in bundles : b.used >= clock - Retain}
  /\ UNCHANGED <<store, clock, blobs, objects, files, difs, work, cleaner, ids, latest>>
-----------------------------------------------------------------------------
\* Events that name bundles renew a last use of more than a day ago.
UseBundles ==
  \E hit \in SUBSET {b \in bundles : b.used < clock - Grace} :
    /\ hit # {}
    /\ bundles' = (bundles \ hit) \cup {[b EXCEPT !.used = clock] : b \in hit}
    /\ latest' = [d \in DOMAIN latest |-> IF \E b \in hit : b.debug = d /\ b.map # Null
                                          THEN [latest[d] EXCEPT !.used = clock] ELSE latest[d]]
    /\ UNCHANGED <<store, clock, blobs, objects, files, difs, work, cleaner, ids>>

FilesTick ==
  /\ clock < MaxClock /\ clock' = clock + 1
  /\ UNCHANGED <<store, fileRows, work, cleaner, ids, latest>>

JobStep(j) ==
  \/ AssembleRelease(j) \/ DifsAssembleApi(j) \/ ChunkUpload(j) \/ Dsyms(j)
  \/ GetBlob(j) \/ InsertBlob(j)
  \/ AssembleArtifacts(j) \/ AssembleFile(j) \/ LinkBundle(j)
  \/ CreateArtifact(j) \/ Putfile(j) \/ ReadReplaced(j) \/ UpsertComplete(j)
  \/ InsertIncomplete(j) \/ DeleteReplaced(j)
  \/ DifsGetFile(j) \/ DifsReadChunks(j) \/ DifsCreateFile(j)
  \/ DifsExtractMetadata(j) \/ DifsCreateDif(j)
  \/ ProguardBlob(j) \/ ProguardFile(j) \/ ProguardDif(j)

FilesNext ==
  \/ \E j \in DOMAIN work : JobStep(j)
  \/ CleanupOldFiles \/ SelectBlobs \/ DeleteBlobRows \/ DeleteObject \/ NextBatch
  \/ CleanupOldDebugSymbolBundles \/ UseBundles
  \/ FilesTick

FilesSpec == FilesInit /\ [][FilesNext]_fileVars
-----------------------------------------------------------------------------
(* Properties.                                                             *)

\* Deduplicated uploads, assemblies and the cleanup, in any order and with the
\* cleanup interrupted anywhere, never leave a blob row whose bytes are gone, as
\* _delete_file_blobs intends by deleting rows first (storage that never reuses
\* the name of an object that exists).
BlobBytesKept == store = "disk" => \A b \in blobs : b.obj \in objects

\* Debug ids whose source map in an upload is another's too: that of another part,
\* or, under a debug id of its own, its own bundle.
Shared(parts, n) ==
  \/ \E k \in DOMAIN parts \ {n} : parts[k].map = parts[n].map
  \/ parts[parts[n].map].debug \notin {"none", parts[n].debug}
SharingMap ==
  UNION {LET parts == Jobs[j].parts IN
         {parts[i].debug : i \in {n \in DOMAIN parts : parts[n].map # 0 /\ Shared(parts, n)}} : j \in DOMAIN work}

\* Once a complete upload for a debug id went in, partial uploads, concurrent
\* ones and the cleanup leave a bundle with a readable source map until its
\* files' retention ends, or that of the row's last use: an event renews that, an
\* upload over an existing row does not.  (Debug ids that share a source map
\* apart: assembling one of them again deletes the other's map, see README.)
CompleteBundleStays ==
  store = "disk" =>
    \A d \in DOMAIN latest :
      latest[d].born >= clock - Retain /\ latest[d].used >= clock - Retain /\ d \notin SharingMap =>
      \E b \in bundles : b.debug = d /\ b.map # Null /\ Backed(b.file) /\ Backed(b.map)

\* What was uploaded stays: every blob's bytes, and the last complete bundle of a
\* debug id (files/maintenance.py 12-61, sourcecode/maintenance.py 10-14,
\* files/assemble.py 213-259).
UploadsHold == BlobBytesKept /\ CompleteBundleStays
=============================================================================
