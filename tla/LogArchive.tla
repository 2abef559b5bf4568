----------------------------- MODULE LogArchive -----------------------------
(***************************************************************************)
(* Logs in their two storage tiers: daily PostgreSQL partitions (hot) and  *)
(* per-organization Parquet files (cold).  A worker stores batches of      *)
(* logs, the nightly maintenance exports each old partition, detaches it   *)
(* and drops it, readers merge both tiers, and a deleter removes projects  *)
(* and organizations from both.                                            *)
(*                                                                         *)
(* Time is counted in half days, so that the cutoff between the tiers can  *)
(* fall inside a day.  A row is [id, at, proj]: `at' is the client's time, *)
(* which the UUIDv7 id of the code carries.  Bodies, levels, services and  *)
(* the column filters built from them are left out; so are hash buckets    *)
(* under a daily partition, and the hourly statistics and resource names,  *)
(* which no reader of the two tiers uses.                                  *)
(***************************************************************************)
EXTENDS Integers, FiniteSets, FiniteSetsExt, Sequences, SequencesExt

CONSTANTS
  Projects, OrgOf,   \* the projects, and the organization (a number) of each
  PaidOrgs,          \* organizations with a paid subscription
  HotDays,           \* GLITCHTIP_LOG_HOT_DAYS
  ColdDays,          \* GLITCHTIP_LOG_RETENTION_DAYS
  Drift,             \* MAX_TIMESTAMP_DRIFT, in half days
  BatchTime,         \* how long an ingest batch may take, in half days
  LeadDays,          \* how many days ahead partitions are created
  Backends,          \* the cold storage tried: "s3", "disk" or "none"
  MaxLogs, MaxNow, MaxCrashes, MaxDeletions   \* bounds

\* The code's 7, 90 and 1 days satisfy these: a log is never accepted for a day
\* that is already old enough to be archived.
ASSUME ArchiveConstants ==
  /\ {HotDays, ColdDays, Drift, LeadDays, BatchTime} \subseteq Nat
  /\ HotDays < ColdDays
  /\ Drift + BatchTime + 1 <= 2 * HotDays
  /\ OrgOf \in [Projects -> Nat]
  /\ Backends \subseteq {"s3", "disk", "none"}
  /\ MaxNow \in Nat \ {0} /\ MaxCrashes \in [Backends -> Nat]

VARIABLES
  now,       \* the clock
  backend,   \* the configured storage backend
  parts,     \* day -> "absent", "attached", "detached" or "dropped"
  hot,       \* rows in logs_logevent, attached partitions or not
  cold,      \* organization -> day -> its Parquet files
  liveProjects,      \* projects with a row in the database
  ingest,    \* the ingest worker
  arch,      \* the maintenance worker's archival step
  del,       \* the worker that deletes a project or an organization
  crashes,
  stored,    \* ghost: every row ever stored
  fouled     \* ghost: projects whose deletion met an archival or a failed rewrite

hotVars == <<parts, hot, liveProjects>>
archiveVars ==
  <<now, backend, parts, hot, cold, liveProjects, ingest, arch, del, crashes,
    stored, fouled>>
-----------------------------------------------------------------------------
Day(t) == t \div 2
Days == 0 .. Day(MaxNow + Drift)
Orgs == {OrgOf[p] : p \in Projects}
Org(r) == OrgOf[r.proj]
Newer(r, s) == r.at > s.at \/ (r.at = s.at /\ r.id > s.id)
Top(S, n) == {r \in S : Cardinality({s \in S : Newer(s, r)}) < n}

NoFile == [st |-> "none", rows |-> {}]
Torn == [st |-> "torn", rows |-> {}]
File(S) == [st |-> "ok", rows |-> S]
NoFiles == [flat |-> NoFile, chunks |-> [n \in {} |-> NoFile]]
IdleIngest == [pc |-> "idle", batch |-> {}, since |-> 0]
IdleArch == [pc |-> "idle", todo |-> {}, day |-> 0, orgs |-> {}, buf |-> {},
             chunk |-> 0, rows |-> {}, to |-> "flat"]
IdleDel == [pc |-> "idle", gone |-> {}, files |-> {}]

ArchiveInit ==
  /\ now = 1
  /\ backend \in Backends
  /\ parts = [d \in Days |-> IF d <= 1 THEN "attached" ELSE "absent"]
  /\ hot = {} /\ stored = {}
  /\ cold = [o \in Orgs |-> [d \in Days |-> NoFiles]]
  /\ liveProjects = Projects /\ fouled = {}
  /\ ingest = IdleIngest /\ arch = IdleArch /\ del = IdleDel
  /\ crashes = 0
-----------------------------------------------------------------------------
(* Partitions and the ingest of logs.                                      *)

\* Each daily partition from today on is created once, in a transaction of its
\* own; a name that exists is left alone.
ExecutePartitionCreation(d) == IF parts[d] = "absent" THEN "attached" ELSE parts[d]

MaintainPartitions ==
  LET ahead == Days \cap (Day(now) .. Day(now) + LeadDays - 1)
  IN /\ \E d \in ahead : parts[d] = "absent"
     /\ parts' = [d \in Days |-> IF d \in ahead THEN ExecutePartitionCreation(d) ELSE parts[d]]
     /\ UNCHANGED <<now, backend, hot, cold, liveProjects, ingest, arch, del, crashes, stored, fouled>>

ValidateTimestamp(t) == t - now <= Drift /\ now - t <= Drift

\* Rows of a batch are built from the client's times; the ones that drifted too
\* far are dropped, and a batch without rows ends there.
ProcessLogEvents ==
  /\ ingest.pc = "idle"
  /\ \E n \in 1 .. 2 : \E ts \in [1 .. n -> {now + k : k \in {-Drift, Drift, Drift + 1}}],
                          p \in liveProjects :
       LET first == Cardinality(stored)
           rows == {[id |-> first + i, at |-> ts[i], proj |-> p] :
                      i \in {j \in 1 .. n : ts[j] >= 0 /\ ValidateTimestamp(ts[j])}}
       IN /\ first + n <= MaxLogs
          /\ \A i, j \in 1 .. n : i < j => ts[i] <= ts[j]   \* numbered by time
          /\ rows # {}
          /\ ingest' = [pc |-> "copy", batch |-> rows, since |-> now]
  /\ UNCHANGED <<now, backend, parts, hot, cold, liveProjects, arch, del, crashes,
                 stored, fouled>>

\* COPY stores the whole batch, or nothing when a row has no partition or its
\* project is gone (both are IntegrityErrors that are raised again); duplicate
\* ids are retried with ON CONFLICT DO NOTHING, which is this union of sets.
CopyRows ==
  /\ ingest.pc = "copy"
  /\ LET ok == \A r \in ingest.batch : parts[Day(r.at)] = "attached" /\ r.proj \in liveProjects
         rows == IF ok THEN ingest.batch ELSE {}
     IN hot' = hot \cup rows /\ stored' = stored \cup rows
  /\ ingest' = IdleIngest
  /\ UNCHANGED <<now, backend, parts, cold, liveProjects, arch, del, crashes, fouled>>
-----------------------------------------------------------------------------
(* The nightly archival.                                                   *)

OlderThan(days) ==
  {d \in Days : parts[d] \in {"attached", "detached"} /\ 2 * d < now - 2 * days}
FilesOlderThan(days) == {d \in Days : 2 * d < now - 2 * days}

\* Without cold storage a partition stays hot for the whole retention.
Expired == OlderThan(IF backend = "none" THEN ColdDays ELSE HotDays)

CleanupOldLogs ==
  /\ arch.pc = "idle"
  /\ \/ Expired # {}
     \/ \E o \in Orgs, d \in FilesOlderThan(ColdDays) : cold[o][d] # NoFiles
  /\ arch' = [IdleArch EXCEPT !.pc = "next", !.todo = Expired]
  /\ fouled' = fouled \cup del.gone
  /\ UNCHANGED <<hotVars, now, backend, cold, ingest, del, crashes, stored>>

\* The organizations with rows in the partition; free ones are not archived.
OrgsToArchive(d) ==
  IF backend = "none" THEN {} ELSE {Org(r) : r \in {s \in hot : Day(s.at) = d}} \cap PaidOrgs

ArchivePartition ==
  /\ arch.pc = "next"
  /\ IF arch.todo = {}
     THEN arch' = [arch EXCEPT !.pc = "clean"]
     ELSE LET d == Min(arch.todo)
          IN arch' = [arch EXCEPT !.todo = @ \ {d}, !.day = d, !.orgs = OrgsToArchive(d),
                                  !.pc = IF OrgsToArchive(d) = {} THEN "detach" ELSE "org"]
  /\ UNCHANGED <<hotVars, now, backend, cold, ingest, del, crashes, stored, fouled>>

\* Mutant: chunks left by an interrupted export count as archived.
ChunksAreArchived(f) == f.flat # NoFile \/ DOMAIN f.chunks # {}
AlreadyArchived(f) == f.flat # NoFile
AfterOrg(o) ==
  [arch EXCEPT !.orgs = @ \ {o}, !.buf = {}, !.chunk = 0,
               !.rows = {}, !.to = "flat",
               !.pc = IF arch.orgs = {o} THEN "detach" ELSE "org"]

\* A flat file means the organization's day is complete and it is skipped;
\* otherwise chunks of an earlier attempt are deleted and the rows are read anew.
ArchiveOrg ==
  /\ arch.pc = "org"
  /\ LET o == Min(arch.orgs)
         d == arch.day
         rows == {r \in hot : Day(r.at) = d /\ Org(r) = o}
     IN IF AlreadyArchived(cold[o][d])
        THEN /\ arch' = AfterOrg(o)
             /\ UNCHANGED cold
        ELSE /\ cold' = [cold EXCEPT ![o][d] = NoFiles]
             /\ arch' = IF rows = {} THEN AfterOrg(o)
                        ELSE [arch EXCEPT !.pc = "copy", !.chunk = 0, !.buf = rows]
  /\ UNCHANGED <<hotVars, now, backend, ingest, del, crashes, stored, fouled>>

\* The CSV stream is cut into chunks by size; the only part of a small
\* organization becomes the flat file.  Rows come in no particular order.
\* On disk a file is there, torn, while it is written; S3 shows it when whole.
FlushCsv ==
  /\ arch.pc = "copy"
  /\ \E S \in SUBSET arch.buf \ {{}} : \E final \in BOOLEAN :
       LET o == Min(arch.orgs)
           d == arch.day
           to == IF final /\ arch.chunk = 0 THEN "flat" ELSE "chunk"
       IN /\ final => S = arch.buf
          /\ arch' = [arch EXCEPT !.pc = "write", !.rows = S, !.to = to]
          /\ cold' = IF backend = "s3" THEN cold
                     ELSE IF to = "flat" THEN [cold EXCEPT ![o][d].flat = Torn]
                     ELSE [cold EXCEPT ![o][d].chunks =
                             [n \in DOMAIN @ \cup {arch.chunk} |->
                                IF n = arch.chunk THEN Torn ELSE @[n]]]
  /\ UNCHANGED <<hotVars, now, backend, ingest, del, crashes, stored, fouled>>

\* The end of a write.  On disk a file that was unlinked meanwhile stays away.
Completed(f, torn) == IF backend = "s3" \/ torn THEN File(arch.rows) ELSE f
WriteEnds ==
  /\ arch.pc = "write"
  /\ LET o == Min(arch.orgs)
         d == arch.day
         c == cold[o][d].chunks
         rest == arch.buf \ arch.rows
     IN /\ cold' =
             IF arch.to = "flat"
             THEN [cold EXCEPT ![o][d].flat = Completed(@, @ = Torn)]
             ELSE IF backend = "s3" \/ arch.chunk \in DOMAIN c
             THEN [cold EXCEPT ![o][d].chunks =
                     [n \in DOMAIN c \cup {arch.chunk} |->
                        IF n = arch.chunk THEN File(arch.rows) ELSE c[n]]]
             ELSE cold
        /\ arch' = IF rest = {} THEN AfterOrg(o)
                   ELSE [arch EXCEPT !.pc = "copy", !.buf = rest, !.rows = {}, !.to = "flat",
                                     !.chunk = @ + 1]
  /\ UNCHANGED <<hotVars, now, backend, ingest, del, crashes, stored, fouled>>

\* Detaching retries deadlocks and falls back to the blocking form; an error
\* that remains leaves the partition for the next night.
DetachPartition ==
  /\ arch.pc = "detach"
  /\ parts' = [parts EXCEPT ![arch.day] = "detached"]
  /\ arch' = [arch EXCEPT !.pc = "drop"]
  /\ UNCHANGED <<now, backend, hot, cold, liveProjects, ingest, del, crashes, stored, fouled>>

DropPartition ==
  /\ arch.pc = "drop"
  /\ parts' = [parts EXCEPT ![arch.day] = "dropped"]
  /\ hot' = {r \in hot : Day(r.at) # arch.day}
  /\ arch' = [arch EXCEPT !.pc = "next"]
  /\ UNCHANGED <<now, backend, cold, liveProjects, ingest, del, crashes, stored, fouled>>

\* Any other error ends the work on this partition; the loop goes on.
ArchiveFails ==
  /\ arch.pc \in {"org", "copy", "write", "detach", "drop"} /\ crashes < MaxCrashes[backend]
  /\ crashes' = crashes + 1
  /\ arch' = [IdleArch EXCEPT !.pc = "next", !.todo = arch.todo]
  /\ UNCHANGED <<hotVars, now, backend, cold, ingest, del, stored, fouled>>

\* Files, and chunk directories, of days before the retention are deleted.
CleanupColdStorage ==
  /\ arch.pc = "clean"
  /\ cold' = [o \in Orgs |-> [d \in Days |->
                IF d \in FilesOlderThan(ColdDays) THEN NoFiles ELSE cold[o][d]]]
  /\ arch' = IdleArch
  /\ UNCHANGED <<hotVars, now, backend, ingest, del, crashes, stored, fouled>>

\* The worker process is killed.
MaintenanceCrash ==
  /\ arch.pc # "idle" /\ crashes < MaxCrashes[backend]
  /\ crashes' = crashes + 1
  /\ arch' = IdleArch
  /\ UNCHANGED <<hotVars, now, backend, cold, ingest, del, stored, fouled>>
-----------------------------------------------------------------------------
(* Readers.                                                                *)

HotCutoff == now - 2 * HotDays

\* One organization's files whose day meets [lo, hi): a day's flat file, or its
\* chunks when it has none.
FilesIn(o, lo, hi) ==
  LET days == {d \in Days : 2 * d < hi /\ 2 * d + 2 > lo}
      flats == {d \in days : cold[o][d].flat # NoFile}
  IN {[day |-> d, n |-> -1] : d \in flats}
       \cup UNION {{[day |-> d, n |-> k] : k \in DOMAIN cold[o][d].chunks} : d \in days \ flats}

\* Flat files come first, by date, then chunks by date and number.
ListedBefore(f, g) ==
  \/ f.n = -1 /\ g.n # -1
  \/ (f.n = -1 <=> g.n = -1) /\ (f.day < g.day \/ (f.day = g.day /\ f.n < g.n))
EnumerateFiles(o, lo, hi) == SetToSortSeq(FilesIn(o, lo, hi), ListedBefore)

FileAt(o, f) == IF f.n = -1 THEN cold[o][f.day].flat
                ELSE IF f.n \in DOMAIN cold[o][f.day].chunks THEN cold[o][f.day].chunks[f.n]
                ELSE NoFile

Before(S, cursor) == IF cursor = {} THEN S
                     ELSE {r \in S : \A c \in cursor : Newer(c, r)}
InSpan(S, lo, hi) == {r \in S : r.at >= lo /\ r.at < hi}

QueryHot(o, lo, hi, limit, cursor) ==
  Top(Before(InSpan({r \in hot : parts[Day(r.at)] = "attached" /\ Org(r) = o}, lo, hi), cursor),
      limit)

\* Mutant: files are read first to last.
QueryColdOldestFirst(o, lo, hi, limit, cursor) ==
  LET fs == EnumerateFiles(o, lo, hi)
      Found(k) == UNION {Before(InSpan(FileAt(o, fs[i]).rows, lo, hi), cursor) : i \in 1 .. k}
      enough == {k \in 0 .. Len(fs) : Cardinality(Found(k)) >= limit}
  IN Top(Found(IF enough = {} THEN Len(fs) ELSE Min(enough)), limit)

\* Files are read last to first until enough rows are found.
QueryCold(o, lo, hi, limit, cursor) ==
  LET fs == Reverse(EnumerateFiles(o, lo, hi))
      Found(k) == UNION {Top(Before(InSpan(FileAt(o, fs[i]).rows, lo, hi), cursor), limit) :
                           i \in 1 .. k}
      enough == {k \in 0 .. Len(fs) : Cardinality(Found(k)) >= limit}
  IN Top(Found(IF enough = {} THEN Len(fs) ELSE Min(enough)), limit)

\* The tiers are split at the cutoff; cold is asked when hot left room.
QueryCombined(o, lo, hi, limit, cursor) ==
  LET coldPage == \A c \in cursor : c.at <= HotCutoff
      both == hi > HotCutoff /\ lo < HotCutoff
      needsHot == hi > HotCutoff /\ ~(both /\ cursor # {} /\ coldPage)
      needsCold == lo < HotCutoff
      h == IF needsHot THEN QueryHot(o, Max({lo, HotCutoff}), hi, limit, cursor) ELSE {}
      c == IF needsCold /\ Cardinality(h) < limit
           THEN QueryCold(o, lo, Min({hi, HotCutoff}), limit, cursor) ELSE {}
  IN Top(h \cup c, limit)

\* A single log is looked for in the tier of its time, then in cold storage.
GetLogFromHot(r) == r \in hot /\ parts[Day(r.at)] = "attached"
GetLogFromCold(r) ==
  \E f \in FilesIn(Org(r), 2 * Day(r.at), 2 * Day(r.at) + 2) : r \in FileAt(Org(r), f).rows
GetLogById(r) == (r.at > HotCutoff /\ GetLogFromHot(r)) \/ GetLogFromCold(r)

\* The hit count of the first page: both tiers over the whole range.
CountHot(o, lo, hi) == Cardinality(QueryHot(o, lo, hi, MaxLogs, {}))
CountCold(o, lo, hi) == Cardinality(QueryCold(o, lo, hi, MaxLogs, {}))
CountHits(o, lo, hi) == CountHot(o, lo, hi) + CountCold(o, lo, hi)

\* A file a reader finds damaged is deleted.
ReadColdFiles(o) ==
  /\ \E f \in FilesIn(o, 0, HotCutoff) :
       /\ FileAt(o, f) = Torn
       /\ cold' = IF f.n = -1 THEN [cold EXCEPT ![o][f.day].flat = NoFile]
                  ELSE [cold EXCEPT ![o][f.day].chunks =
                          [n \in DOMAIN @ \ {f.n} |-> @[n]]]
  /\ UNCHANGED <<hotVars, now, backend, ingest, arch, del, crashes, stored, fouled>>
-----------------------------------------------------------------------------
(* The deletion of a project or of an organization.                        *)

\* The files to rewrite are listed before anything is deleted.
DeleteProject(p) ==
  /\ del.pc = "idle" /\ p \in liveProjects /\ Cardinality(Projects \ liveProjects) < MaxDeletions
  /\ del' = [pc |-> "files", gone |-> {p}, files |-> FilesIn(OrgOf[p], 0, 2 * Max(Days) + 2)]
  /\ fouled' = IF arch.pc = "idle" THEN fouled ELSE fouled \cup {p}
  /\ UNCHANGED <<hotVars, now, backend, cold, ingest, arch, crashes, stored>>

Rewritten(f, gone) ==
  LET rest == {r \in f.rows : r.proj \notin gone}
  IN IF f.st # "ok" THEN f ELSE IF rest = {} THEN NoFile ELSE File(rest)

\* One file at a time; one that is gone meanwhile is passed over.
RewriteParquet ==
  /\ del.pc = "files" /\ del.files # {}
  /\ \E f \in del.files :
       LET o == OrgOf[CHOOSE p \in del.gone : TRUE]
           new == Rewritten(FileAt(o, f), del.gone)
       IN /\ cold' = IF f.n = -1 THEN [cold EXCEPT ![o][f.day].flat = new]
                     ELSE [cold EXCEPT ![o][f.day].chunks =
                             [n \in {m \in DOMAIN @ : m # f.n \/ new # NoFile} |->
                                IF n = f.n THEN new ELSE @[n]]]
          /\ del' = [del EXCEPT !.files = @ \ {f}]
          /\ fouled' = IF FileAt(o, f) = Torn THEN fouled \cup del.gone ELSE fouled
  /\ UNCHANGED <<hotVars, now, backend, ingest, arch, crashes, stored>>

\* A file that cannot be rewritten is logged and passed over.
RewriteFails ==
  /\ del.pc = "files" /\ crashes < MaxCrashes[backend]
  /\ \E f \in del.files : del' = [del EXCEPT !.files = @ \ {f}]
  /\ crashes' = crashes + 1
  /\ fouled' = fouled \cup del.gone
  /\ UNCHANGED <<hotVars, now, backend, cold, ingest, arch, stored>>

\* An organization's whole tree of files goes first.
DeleteOrganization(o) ==
  LET gone == {p \in liveProjects : OrgOf[p] = o}
  IN /\ del.pc = "idle" /\ gone # {} /\ Cardinality(Projects \ liveProjects) < MaxDeletions
     /\ cold' = [cold EXCEPT ![o] = [d \in Days |-> NoFiles]]
     /\ del' = [pc |-> "files", gone |-> gone, files |-> {}]
     /\ fouled' = IF arch.pc = "idle" THEN fouled ELSE fouled \cup gone
     /\ UNCHANGED <<hotVars, now, backend, ingest, arch, crashes, stored>>

RawDeleteLogs ==
  /\ del.pc = "files" /\ del.files = {}
  /\ hot' = {r \in hot : r.proj \notin del.gone}
  /\ del' = [del EXCEPT !.pc = "force"]
  /\ UNCHANGED <<now, backend, parts, cold, liveProjects, ingest, arch, crashes, stored, fouled>>

\* The cascade of the last delete takes rows stored since.
ForceDelete ==
  /\ del.pc = "force"
  /\ liveProjects' = liveProjects \ del.gone
  /\ hot' = {r \in hot : r.proj \notin del.gone}
  /\ del' = IdleDel
  /\ UNCHANGED <<now, backend, parts, cold, ingest, arch, crashes, stored, fouled>>
-----------------------------------------------------------------------------
ArchiveTick ==
  /\ now < MaxNow
  /\ ingest.pc = "copy" => now < ingest.since + BatchTime
  /\ now' = now + 1
  /\ UNCHANGED <<hotVars, backend, cold, ingest, arch, del, crashes, stored, fouled>>

ArchiveStep ==
  \/ CleanupOldLogs \/ ArchivePartition \/ ArchiveOrg \/ FlushCsv \/ WriteEnds
  \/ DetachPartition \/ DropPartition \/ CleanupColdStorage

ArchiveNext ==
  \/ MaintainPartitions \/ ProcessLogEvents \/ CopyRows
  \/ ArchiveStep \/ ArchiveFails \/ MaintenanceCrash
  \/ \E o \in Orgs : ReadColdFiles(o) \/ DeleteOrganization(o)
  \/ \E p \in Projects : DeleteProject(p)
  \/ RewriteParquet \/ RewriteFails \/ RawDeleteLogs \/ ForceDelete
  \/ ArchiveTick

\* Maintenance runs every night and its worker keeps going.
ArchiveFairness == WF_archiveVars(ArchiveStep)
ArchiveSpec == ArchiveInit /\ [][ArchiveNext]_archiveVars /\ ArchiveFairness
-----------------------------------------------------------------------------
(* Properties.                                                             *)

\* A row the product still promises: of a paid organization, of a project not
\* deleted or being deleted, and of a day the retention still covers.
Promised ==
  {r \in stored : Org(r) \in PaidOrgs /\ r.proj \in liveProjects \ del.gone
                  /\ 2 * Day(r.at) >= now - 2 * ColdDays}
RowsOf(fs) ==
  IF fs.flat # NoFile THEN fs.flat.rows
  ELSE UNION {fs.chunks[n].rows : n \in DOMAIN fs.chunks}
ColdRows(o) == UNION {RowsOf(cold[o][d]) : d \in Days}
Kept(r) == r \in hot \/ r \in ColdRows(Org(r))

\* The archival of a partition (export, detach, drop), whatever it is interrupted
\* by and whatever is stored or read meanwhile, loses no log the retention covers
\* (object storage, where a file appears whole, or no cold storage).
NoLogLost == backend # "disk" => \A r \in Promised : Kept(r)

Settled == arch.pc = "idle" /\ OlderThan(HotDays) = {}

\* When no archival is due, a log is found by its id, the hit count is exact, and
\* the listing misses at most logs of the cutoff's own day.
ReadsFindPromisedLogs ==
  Settled /\ backend = "s3" =>
    \A o \in PaidOrgs \cap Orgs :
      LET mine == {r \in Promised : Org(r) = o}
          listed == QueryCombined(o, 0, MaxNow + Drift + 1, MaxLogs, {})
      IN /\ \A r \in mine : r.at # HotCutoff => GetLogById(r)
         /\ \A r \in mine \ listed : Day(r.at) = Day(HotCutoff)
         /\ Cardinality(mine) <= CountHits(o, 0, MaxNow + Drift + 1)

\* The first row of the listing, and following the cursor the row after any other,
\* is what a page of one row shows, as long as no day in cold storage is split into chunks (a cursor that falls on the very
\* instant of the cutoff apart).
PagesAreComplete ==
  \A o \in Orgs :
    (\A d \in Days : DOMAIN cold[o][d].chunks = {}) =>
      LET all == QueryCombined(o, 0, MaxNow + Drift + 1, MaxLogs, {})
      IN \A cursor \in {{}} \cup {{r} : r \in {s \in all : s.at # HotCutoff}} :
           QueryCombined(o, 0, MaxNow + Drift + 1, 1, cursor) = Top(Before(all, cursor), 1)

\* The logs of a deleted project are in neither tier, unless an archival overlapped
\* its deletion or a file could not be rewritten.
DeletedLogsPurged ==
  \A p \in Projects \ (liveProjects \cup fouled) :
    \A o \in Orgs : \A r \in hot \cup ColdRows(o) : r.proj # p

\* A log is kept as long as the retention covers it and its project is there,
\* and not after the project was deleted.
LogsKeptAsPromised == NoLogLost /\ DeletedLogsPurged

\* list_logs, get_log and count_hits over both tiers answer with every log.
LogReadsComplete == ReadsFindPromisedLogs /\ PagesAreComplete
=============================================================================
