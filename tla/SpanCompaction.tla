---------------------------- MODULE SpanCompaction ----------------------------
(***************************************************************************)
(* Raw span storage of Performance Monitoring: promote_spans moves rows    *)
(* from the span_staging table into Parquet chunks, compact_span_chunks    *)
(* seals hours and days and derives the trend rollups, and queries read    *)
(* the newest tier of every period.  One organization, one date.           *)
(*                                                                         *)
(* A Parquet file is the number of rows it holds of every span, so that    *)
(* duplicates are visible; every file is written with rows, so one without *)
(* is a file whose write was cut short: readers skip it, COPY raises.      *)
(* Hour h of the date may be sealed when h <= now, the day when now is the *)
(* last hour.                                                              *)
(***************************************************************************)
EXTENDS Integers, FiniteSets, TLC

CONSTANTS
  Promoters,   \* concurrent promote_spans runs (the schedule allows one)
  Spans,       \* span rows
  LastHour,    \* hours of the date are 1..LastHour (24 in the code)
  BatchLimit,  \* BATCH_LIMIT_PER_ORG
  MaxMishaps,  \* bound: refused slots, failed statements and dead processes
  MaxChunks    \* bound: chunk files ever written

ASSUME SpanAssumption ==
  /\ IsFiniteSet(Promoters) /\ IsFiniteSet(Spans)
  /\ LastHour \in Nat \ {0} /\ BatchLimit \in Nat \ {0}
  /\ MaxMishaps \in Nat /\ MaxChunks \in Nat

Hours == 1..LastHour

VARIABLES
  hourOf, garbage,   \* of every span: its hour; dropped by the garbage guard
  clock,             \* the last hour that is past its SEAL_GRACE
  arrived, staged,   \* spans sent; rows of performance_spanstaging
  chunks, chunkSeq,  \* {date}/{HH}/chunk_*.parquet, names in use
  hourFile,          \* {date}/{HH}.parquet, a function on the hours that exist
  dayFile,           \* {date}.parquet: {} or the singleton of its contents
  rollup, rollupDay, \* the same two tiers of the rollup tree
  prom,              \* promote_spans runs
  comp,              \* the compact_span_chunks run
  late, duplicated,  \* history: written after the seal; may be stored twice
  mishap, mishaps    \* history: kinds of failure that happened, how many

storeVars == <<chunks, hourFile, dayFile, rollup, rollupDay>>
spanVars  == <<hourOf, garbage>>
histVars  == <<late, duplicated, mishap, mishaps>>
vars      == <<spanVars, clock, arrived, staged, storeVars, chunkSeq, prom,
               comp, histVars>>

IdlePromoter == [on |-> FALSE, todo |-> {}, drop |-> {}, cur |-> {}, chunk |-> 0]
IdleCompactor == [pc |-> "idle", now |-> 0, recover |-> {}, todo |-> {}, hour |-> 0,
                  clean |-> TRUE]
\* A run, and one that ends, in which a step failed.
Failed(run) == [run EXCEPT !.clean = FALSE]
CutShort == Failed(IdleCompactor)

Only(S) == CHOOSE x \in S : TRUE

\* A failure of the given kind happens in this step.
Mishap(kind) ==
  /\ mishaps < MaxMishaps
  /\ mishaps' = mishaps + 1
  /\ mishap' = mishap \cup {kind}
NoMishap == UNCHANGED <<mishap, mishaps>>
--------------------------------------------------------------------------------
(***************************************************************************)
(* Reads: enumerate_hour_tiered_files                                      *)
(***************************************************************************)
InChunks(s) == Cardinality({c \in chunks : s \in c.rows})

\* How many rows of span s a query over the date counts: the sealed day
\* shadows everything, a sealed hour shadows its chunks.
Visible(s) ==
  CASE dayFile # {} -> Only(dayFile)[s]
    [] dayFile = {} /\ hourOf[s] \in DOMAIN hourFile -> hourFile[hourOf[s]][s]
    [] OTHER -> InChunks(s)

\* The same in the rollup tree, which has no chunks.
RollupVisible(s) ==
  CASE rollupDay # {} -> Only(rollupDay)[s]
    [] rollupDay = {} /\ hourOf[s] \in DOMAIN rollup -> rollup[hourOf[s]][s]
    [] OTHER -> 0

\* COPY of all hour files of a tree into one file.
DayOf(files) ==
  [s \in Spans |-> IF hourOf[s] \in DOMAIN files THEN files[hourOf[s]][s] ELSE 0]

NoFiles == [h \in {} |-> [s \in Spans |-> 0]]

\* Files a write in place on the filesystem has left cut short.
Torn == {c \in chunks : c.rows = {}}
NoContents == [s \in Spans |-> 0]
TornRollups == {h \in DOMAIN rollup : rollup[h] = NoContents}
--------------------------------------------------------------------------------
Init ==
  /\ hourOf \in [Spans -> Hours]
  /\ garbage \in SUBSET Spans
  /\ clock = 0
  /\ arrived = {} /\ staged = {}
  /\ chunks = {} /\ chunkSeq = 0
  /\ hourFile = NoFiles /\ dayFile = {}
  /\ rollup = NoFiles /\ rollupDay = {}
  /\ prom = [p \in Promoters |-> IdlePromoter]
  /\ comp = IdleCompactor
  /\ late = {} /\ duplicated = {}
  /\ mishap = {} /\ mishaps = 0

\* Ingest inserts a staging row (TransactionStats, InsertStaging).
Stage(s) ==
  /\ s \notin arrived
  /\ arrived' = arrived \cup {s}
  /\ staged' = staged \cup {s}
  /\ UNCHANGED <<spanVars, clock, storeVars, chunkSeq, prom, comp, histVars>>

\* Another hour passes its grace period.
Tick ==
  /\ clock < LastHour
  /\ clock' = clock + 1
  /\ UNCHANGED <<spanVars, arrived, staged, storeVars, chunkSeq, prom, comp,
                 histVars>>
--------------------------------------------------------------------------------
(***************************************************************************)
(* promote_spans                                                           *)
(***************************************************************************)
\* Read at most BatchLimit of the rows older than the five-minute cutoff and
\* set the garbage apart.
ReadStaging(p, S) ==
  /\ ~prom[p].on
  /\ S # {} /\ S \subseteq staged /\ Cardinality(S) <= BatchLimit
  /\ prom' = [prom EXCEPT ![p] =
       [IdlePromoter EXCEPT !.on = TRUE, !.todo = S \ garbage,
                            !.drop = S \cap garbage]]
  /\ duplicated' = duplicated \cup
       {s \in S : \E q \in Promoters \ {p} : s \in prom[q].todo \cup prom[q].cur}
  /\ NoMishap
  /\ UNCHANGED <<spanVars, clock, arrived, staged, storeVars, chunkSeq, comp, late>>

\* The rows of one (date, hour) group.
GroupOf(p, h) == {s \in prom[p].todo : hourOf[s] = h}

\* _write_chunk_parquet: a new name, so nothing is overwritten.
WriteChunk(p, h) ==
  /\ prom[p].cur = {} /\ \E s \in prom[p].todo : hourOf[s] = h
  /\ chunkSeq < MaxChunks
  /\ chunkSeq' = chunkSeq + 1
  /\ chunks' = chunks \cup
       {[n |-> chunkSeq + 1, hour |-> h, rows |-> GroupOf(p, h)]}
  /\ prom' = [prom EXCEPT ![p].todo = @ \ GroupOf(p, h),
                          ![p].cur = GroupOf(p, h), ![p].chunk = chunkSeq + 1]
  /\ late' = IF h <= clock THEN late \cup GroupOf(p, h) ELSE late
  /\ NoMishap
  /\ UNCHANGED <<spanVars, clock, arrived, staged, hourFile, dayFile, rollup,
                 rollupDay, comp, duplicated>>

\* A write that does not end: nothing is there (object storage writes in one
\* piece), or on the filesystem a chunk that cannot be read.
LeaveChunk(h) ==
  \/ UNCHANGED <<chunks, chunkSeq>>
  \/ /\ chunkSeq < MaxChunks
     /\ chunkSeq' = chunkSeq + 1
     /\ chunks' = chunks \cup {[n |-> chunkSeq + 1, hour |-> h, rows |-> {}]}

\* The write raises: the group stays in staging and the next one is tried.
WriteChunkFails(p, h) ==
  /\ prom[p].cur = {} /\ \E s \in prom[p].todo : hourOf[s] = h
  /\ Mishap("promote")
  /\ LeaveChunk(h)
  /\ prom' = [prom EXCEPT ![p].todo = @ \ GroupOf(p, h)]
  /\ UNCHANGED <<spanVars, clock, arrived, staged, hourFile, dayFile, rollup,
                 rollupDay, comp, late, duplicated>>

\* _delete_promoted_rows of the chunk just written.
DeleteRows(p) ==
  /\ prom[p].cur # {}
  /\ staged' = staged \ prom[p].cur
  /\ prom' = [prom EXCEPT ![p].cur = {}, ![p].chunk = 0]
  /\ NoMishap
  /\ UNCHANGED <<spanVars, clock, arrived, storeVars, chunkSeq, comp, late,
                 duplicated>>

\* The DELETE raises: the chunk is removed again ...
DeleteRowsFails(p) ==
  /\ prom[p].cur # {}
  /\ Mishap("promote")
  /\ chunks' = {c \in chunks : c.n # prom[p].chunk}
  /\ prom' = [prom EXCEPT ![p].cur = {}, ![p].chunk = 0]
  /\ UNCHANGED <<spanVars, clock, arrived, staged, hourFile, dayFile, rollup,
                 rollupDay, chunkSeq, comp, late, duplicated>>

\* ... unless the removal fails too: duplicates on the next run.
RemoveChunkFails(p) ==
  /\ prom[p].cur # {}
  /\ Mishap("promote")
  /\ duplicated' = duplicated \cup prom[p].cur
  /\ prom' = [prom EXCEPT ![p].cur = {}, ![p].chunk = 0]
  /\ UNCHANGED <<spanVars, clock, arrived, staged, storeVars, chunkSeq, comp, late>>

\* Mutant of DropGarbage: garbage rows are skipped, not consumed.
DropGarbageSkipped(p) ==
  /\ prom[p].on /\ prom[p].todo = {} /\ prom[p].cur = {}
  /\ staged' = staged
  /\ prom' = [prom EXCEPT ![p] = IdlePromoter]
  /\ NoMishap
  /\ UNCHANGED <<spanVars, clock, arrived, storeVars, chunkSeq, comp, late,
                 duplicated>>

\* The garbage rows are consumed last; the run ends.  (A truncated run that
\* made progress enqueues another one, which is the next ReadStaging.)
DropGarbage(p) ==
  /\ prom[p].on /\ prom[p].todo = {} /\ prom[p].cur = {}
  /\ staged' = staged \ prom[p].drop
  /\ prom' = [prom EXCEPT ![p] = IdlePromoter]
  /\ NoMishap
  /\ UNCHANGED <<spanVars, clock, arrived, storeVars, chunkSeq, comp, late,
                 duplicated>>

\* Failing to consume the garbage is not fatal.
DropGarbageFails(p) ==
  /\ prom[p].todo = {} /\ prom[p].cur = {} /\ prom[p].drop # {}
  /\ Mishap("promote")
  /\ prom' = [prom EXCEPT ![p] = IdlePromoter]
  /\ UNCHANGED <<spanVars, clock, arrived, staged, storeVars, chunkSeq, comp,
                 late, duplicated>>

\* The process dies, maybe while it writes a group's chunk; a chunk whose rows
\* are still staged is a duplicate.
CrashPromoter(p) ==
  /\ prom[p].on
  /\ Mishap("promote")
  /\ IF prom[p].cur = {} /\ prom[p].todo # {}
     THEN \E s \in prom[p].todo : LeaveChunk(hourOf[s])
     ELSE UNCHANGED <<chunks, chunkSeq>>
  /\ duplicated' = duplicated \cup prom[p].cur
  /\ prom' = [prom EXCEPT ![p] = IdlePromoter]
  /\ UNCHANGED <<spanVars, clock, arrived, staged, hourFile, dayFile, rollup,
                 rollupDay, comp, late>>
--------------------------------------------------------------------------------
(***************************************************************************)
(* compact_span_chunks                                                     *)
(***************************************************************************)
\* The run reads the time once, then lists the date's directory.
BeginCompaction ==
  /\ comp.pc = "idle"
  /\ chunks # {} \/ DOMAIN hourFile # {}
  /\ comp' = [pc |-> "recover", now |-> clock, recover |-> DOMAIN hourFile,
              todo |-> {c.hour : c \in chunks}, hour |-> 0, clean |-> TRUE]
  /\ UNCHANGED <<spanVars, clock, arrived, staged, storeVars, chunkSeq, prom,
                 histVars>>

\* Mutant of RecoverRollup: sealed hours are left as they are.
RecoverRollupNot(h) ==
  /\ comp.pc = "recover" /\ h \in comp.recover
  /\ rollup' = rollup
  /\ comp' = [comp EXCEPT !.recover = @ \ {h}]
  /\ NoMishap
  /\ UNCHANGED <<spanVars, clock, arrived, staged, chunks, hourFile, dayFile,
                 rollupDay, chunkSeq, prom, late, duplicated>>

\* Recovery loop: write the rollup of a sealed hour that has none.
RecoverRollup(h) ==
  /\ comp.pc = "recover" /\ h \in comp.recover
  /\ rollup' = IF h \in DOMAIN rollup THEN rollup ELSE rollup @@ (h :> hourFile[h])
  /\ comp' = [comp EXCEPT !.recover = @ \ {h}]
  /\ NoMishap
  /\ UNCHANGED <<spanVars, clock, arrived, staged, chunks, hourFile, dayFile,
                 rollupDay, chunkSeq, prom, late, duplicated>>

\* No DuckDB slot (returns silently) or an exception (caught and logged), which
\* on the filesystem may leave a file that is there and cannot be read.
RollupFails(h) ==
  \/ \E kind \in {"slot", "error"} : Mishap(kind) /\ rollup' = rollup
  \/ Mishap("error") /\ rollup' = (h :> NoContents) @@ rollup

RecoverRollupFails(h) ==
  /\ comp.pc = "recover" /\ h \in comp.recover \ DOMAIN rollup
  /\ RollupFails(h)
  /\ comp' = Failed([comp EXCEPT !.recover = @ \ {h}])
  /\ UNCHANGED <<spanVars, clock, arrived, staged, chunks, hourFile, dayFile,
                 rollupDay, chunkSeq, prom, late, duplicated>>

EndRecovery ==
  /\ comp.pc = "recover" /\ comp.recover = {}
  /\ comp' = [comp EXCEPT !.pc = "hours"]
  /\ UNCHANGED <<spanVars, clock, arrived, staged, storeVars, chunkSeq, prom,
                 histVars>>

\* The hour is past its end plus SEAL_GRACE.
Due(h) == h <= comp.now

ChunksOf(h) == {c \in chunks : c.hour = h}

\* The hour is open, or its directory holds no chunk any more.
SkipHour(h) ==
  /\ comp.pc = "hours" /\ h \in comp.todo
  /\ \/ ~Due(h)
     \/ h \notin DOMAIN hourFile /\ ChunksOf(h) = {}
  /\ comp' = [comp EXCEPT !.todo = @ \ {h}]
  /\ UNCHANGED <<spanVars, clock, arrived, staged, storeVars, chunkSeq, prom,
                 histVars>>

\* Already sealed: never rebuilt, late or leftover chunks are dropped.
DropLateChunks(h) ==
  /\ comp.pc = "hours" /\ h \in comp.todo
  /\ Due(h) /\ h \in DOMAIN hourFile
  /\ chunks' = chunks \ ChunksOf(h)
  /\ comp' = [comp EXCEPT !.todo = @ \ {h}]
  /\ UNCHANGED <<spanVars, clock, arrived, staged, hourFile, dayFile, rollup,
                 rollupDay, chunkSeq, prom, histVars>>

\* The chunks of a due hour are to be copied.
ToSeal(h) ==
  /\ comp.pc = "hours" /\ h \in comp.todo
  /\ Due(h) /\ h \notin DOMAIN hourFile /\ ChunksOf(h) # {}

\* _duckdb_copy of the listed chunks into the hour file (renamed into place).
SealHour(h) ==
  /\ ToSeal(h) /\ ChunksOf(h) \cap Torn = {}
  /\ hourFile' = hourFile @@
       (h :> [s \in Spans |-> Cardinality({c \in ChunksOf(h) : s \in c.rows})])
  /\ comp' = [comp EXCEPT !.pc = "rollup", !.hour = h]
  /\ NoMishap
  /\ UNCHANGED <<spanVars, clock, arrived, staged, chunks, dayFile, rollup,
                 rollupDay, chunkSeq, prom, late, duplicated>>

\* No slot within ten seconds: skip the hour, "retry next run".
SealHourRefused(h) ==
  /\ ToSeal(h)
  /\ Mishap("slot")
  /\ comp' = Failed([comp EXCEPT !.todo = @ \ {h}])
  /\ UNCHANGED <<spanVars, clock, arrived, staged, storeVars, chunkSeq, prom,
                 late, duplicated>>

\* COPY raises on a chunk it cannot read: the rest of the date is skipped, and
\* the chunk is still there for the next run.
SealHourRaises(h) ==
  /\ ToSeal(h) /\ ChunksOf(h) \cap Torn # {}
  /\ comp' = CutShort
  /\ UNCHANGED <<spanVars, clock, arrived, staged, storeVars, chunkSeq, prom,
                 histVars>>

\* _write_hour_rollup overwrites the hour's rollup.
WriteRollup ==
  /\ comp.pc = "rollup"
  /\ rollup' = (comp.hour :> hourFile[comp.hour]) @@ rollup
  /\ comp' = [comp EXCEPT !.pc = "clear"]
  /\ NoMishap
  /\ UNCHANGED <<spanVars, clock, arrived, staged, chunks, hourFile, dayFile,
                 rollupDay, chunkSeq, prom, late, duplicated>>

WriteRollupFails ==
  /\ comp.pc = "rollup"
  /\ RollupFails(comp.hour)
  /\ comp' = Failed([comp EXCEPT !.pc = "clear"])
  /\ UNCHANGED <<spanVars, clock, arrived, staged, chunks, hourFile, dayFile,
                 rollupDay, chunkSeq, prom, late, duplicated>>

\* _delete_subtree of the chunk directory: whatever is in it by now.
ClearHour ==
  /\ comp.pc = "clear"
  /\ chunks' = chunks \ ChunksOf(comp.hour)
  /\ comp' = [comp EXCEPT !.pc = "hours", !.todo = @ \ {comp.hour}, !.hour = 0]
  /\ UNCHANGED <<spanVars, clock, arrived, staged, hourFile, dayFile, rollup,
                 rollupDay, chunkSeq, prom, histVars>>

EndHours ==
  /\ comp.pc = "hours" /\ comp.todo = {}
  /\ comp' = IF comp.now = LastHour THEN [comp EXCEPT !.pc = "roll_raw"]
                                    ELSE [IdleCompactor EXCEPT !.clean = comp.clean]
  /\ UNCHANGED <<spanVars, clock, arrived, staged, storeVars, chunkSeq, prom,
                 histVars>>

\* _roll_sealed_day on the raw tree: the hour files become the day file.
RollRaw ==
  /\ comp.pc = "roll_raw" /\ dayFile = {} /\ DOMAIN hourFile # {}
  /\ dayFile' = {DayOf(hourFile)}
  /\ comp' = [comp EXCEPT !.pc = "clear_raw"]
  /\ NoMishap
  /\ UNCHANGED <<spanVars, clock, arrived, staged, chunks, hourFile, rollup,
                 rollupDay, chunkSeq, prom, late, duplicated>>

RollRawRefused ==
  /\ comp.pc = "roll_raw" /\ dayFile = {} /\ DOMAIN hourFile # {}
  /\ Mishap("slot")
  /\ comp' = Failed([comp EXCEPT !.pc = "roll_rollup"])
  /\ UNCHANGED <<spanVars, clock, arrived, staged, storeVars, chunkSeq, prom,
                 late, duplicated>>

\* The whole {date}/ subtree is deleted after the copy, when the day file
\* exists already, and when there was no hour file to copy.
ClearRaw ==
  /\ \/ comp.pc = "clear_raw"
     \/ comp.pc = "roll_raw" /\ (dayFile # {} \/ DOMAIN hourFile = {})
  /\ chunks' = {} /\ hourFile' = NoFiles
  /\ comp' = [comp EXCEPT !.pc = "roll_rollup"]
  /\ UNCHANGED <<spanVars, clock, arrived, staged, dayFile, rollup, rollupDay,
                 chunkSeq, prom, histVars>>

\* The same for the rollup tree, after which the run ends.
RollRollup ==
  /\ comp.pc = "roll_rollup" /\ rollupDay = {} /\ DOMAIN rollup # {}
  /\ TornRollups = {}
  /\ rollupDay' = {DayOf(rollup)}
  /\ comp' = [comp EXCEPT !.pc = "clear_rollup"]
  /\ NoMishap
  /\ UNCHANGED <<spanVars, clock, arrived, staged, chunks, hourFile, dayFile,
                 rollup, chunkSeq, prom, late, duplicated>>

RollRollupRefused ==
  /\ comp.pc = "roll_rollup" /\ rollupDay = {} /\ DOMAIN rollup # {}
  /\ Mishap("slot")
  /\ comp' = CutShort
  /\ UNCHANGED <<spanVars, clock, arrived, staged, storeVars, chunkSeq, prom,
                 late, duplicated>>

\* COPY raises on a rollup it cannot read.
RollRollupRaises ==
  /\ comp.pc = "roll_rollup" /\ rollupDay = {} /\ TornRollups # {}
  /\ comp' = CutShort
  /\ UNCHANGED <<spanVars, clock, arrived, staged, storeVars, chunkSeq, prom,
                 histVars>>

ClearRollup ==
  /\ \/ comp.pc = "clear_rollup"
     \/ comp.pc = "roll_rollup" /\ (rollupDay # {} \/ DOMAIN rollup = {})
  /\ rollup' = NoFiles
  /\ comp' = [IdleCompactor EXCEPT !.clean = comp.clean]
  /\ UNCHANGED <<spanVars, clock, arrived, staged, chunks, hourFile, dayFile,
                 rollupDay, chunkSeq, prom, histVars>>

\* A COPY or a listing raises (caught around _compact_org_date) or the process
\* dies, maybe while it writes a rollup: the rest of the run is skipped.
AbortCompaction ==
  /\ comp.pc # "idle"
  /\ Mishap("crash")
  /\ \/ rollup' = rollup
     \/ comp.pc = "rollup" /\ rollup' = (comp.hour :> NoContents) @@ rollup
     \/ \E h \in comp.recover \ DOMAIN rollup : rollup' = (h :> NoContents) @@ rollup
  /\ comp' = CutShort
  /\ UNCHANGED <<spanVars, clock, arrived, staged, chunks, hourFile, dayFile,
                 rollupDay, chunkSeq, prom, late, duplicated>>
--------------------------------------------------------------------------------
PromoterStep(p) ==
  \/ \E h \in Hours : WriteChunk(p, h)
  \/ DeleteRows(p) \/ DropGarbage(p)

PromoterMishap(p) ==
  \/ \E h \in Hours : WriteChunkFails(p, h)
  \/ DeleteRowsFails(p) \/ RemoveChunkFails(p)
  \/ DropGarbageFails(p) \/ CrashPromoter(p)

CompactorStep ==
  \/ BeginCompaction \/ EndRecovery \/ WriteRollup \/ ClearHour \/ EndHours
  \/ RollRaw \/ ClearRaw \/ RollRollup \/ RollRollupRaises \/ ClearRollup
  \/ \E h \in Hours : \/ RecoverRollup(h) \/ SkipHour(h) \/ DropLateChunks(h)
                      \/ SealHour(h) \/ SealHourRaises(h)

CompactorMishap ==
  \/ WriteRollupFails \/ RollRawRefused \/ RollRollupRefused \/ AbortCompaction
  \/ \E h \in Hours : RecoverRollupFails(h) \/ SealHourRefused(h)

\* Nothing left to do on this date.
Settled ==
  /\ clock = LastHour /\ staged = {} /\ arrived = Spans
  /\ comp.pc = "idle" /\ \A p \in Promoters : ~prom[p].on
  /\ UNCHANGED vars

Next ==
  \/ \E s \in Spans : Stage(s)
  \/ Tick
  \/ \E p \in Promoters :
       \/ \E S \in SUBSET staged : ReadStaging(p, S)
       \/ PromoterStep(p) \/ PromoterMishap(p)
  \/ CompactorStep
  \/ CompactorMishap
  \/ Settled

Spec == Init /\ [][Next]_vars

\* Both tasks are scheduled again and again, and a started run gets on; the
\* hours pass.  A run reads every old row up to the limit, so some row is read.
Fairness ==
  /\ WF_vars(Tick)
  /\ WF_vars(CompactorStep)
  /\ \A p \in Promoters : /\ WF_vars(\E S \in SUBSET staged : ReadStaging(p, S))
                          /\ WF_vars(PromoterStep(p))
--------------------------------------------------------------------------------

\* No query counts a span twice while its rows move from chunk to hour to day,
\* unless promotion itself stored it twice: overlapping runs, a run that died
\* between write and delete, or a failed delete whose clean-up failed too.
AtMostOnce == \A s \in Spans \ duplicated : Visible(s) <= 1

\* A row leaves staging only into a chunk, and a chunk written before its
\* hour's grace period ended stays readable, whatever fails or dies, as long
\* as no DuckDB slot is refused (_roll_sealed_day deletes the chunks of an hour
\* whose copy was refused a slot in the same run).
NoSpanLost ==
  "slot" \notin mishap =>
    \A s \in arrived \ (staged \cup garbage \cup late) : Visible(s) >= 1

\* After a compaction run in which nothing failed, every sealed hour reports to
\* the trend queries exactly the rows raw queries see, a rollup that an earlier
\* run failed to write having been written from the hour file.  Two cannot be
\* recovered: a rollup whose file was cut short, and one still missing when a
\* day file is made of the hours there are; after a failure the rolled day is
\* not promised.
TrendsMatchRaw ==
  comp.pc = "idle" /\ comp.clean =>
    \A s \in Spans :
      /\ dayFile = {} /\ rollupDay = {} /\ hourOf[s] \in DOMAIN hourFile =>
           hourOf[s] \in TornRollups \/ RollupVisible(s) = Visible(s)
      /\ dayFile # {} /\ mishap \subseteq {"promote"} => RollupVisible(s) = Visible(s)

\* Staging drains, also of garbage rows, and the date ends up as one file, unless
\* the write of a chunk was cut short and left a file no COPY gets past.
Collapses ==
  <>[](staged = {} /\ (Torn # {} \/ (chunks = {} /\ DOMAIN hourFile = {})))
================================================================================
