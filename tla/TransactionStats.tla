--------------------------- MODULE TransactionStats ---------------------------
(***************************************************************************)
(* Transaction ingest: workers run process_transaction_events on batches,  *)
(* one database statement per action, and merge durations into the         *)
(* TransactionGroup rows; nightly maintenance deletes groups that have not *)
(* been seen lately, in a SELECT and a DELETE.                             *)
(*                                                                         *)
(* Of a transaction the model keeps its group key (transaction, op,        *)
(* method), the histogram bucket of its duration and whether its status is *)
(* an error.  Group id 0 is "no row".                                      *)
(***************************************************************************)
EXTENDS Integers, FiniteSets

CONSTANTS
  Workers,     \* ingest task workers
  Keys,        \* (project, transaction, op, method) keys
  NumBuckets,  \* _NUM_BUCKETS (50 in the code)
  ReadReplica, \* TRUE when settings.DATABASES has "read_only"
  MaxEvents,   \* bound: transactions in the stream
  MaxGroups,   \* bound: values of the group id sequence
  MaxBatch,    \* bound: transactions per ingest batch
  MaxAged,     \* bound: times a group falls out of retention
  MaxFailures  \* bound: ingest tasks that die half way

ASSUME StatsAssumption ==
  /\ IsFiniteSet(Workers) /\ IsFiniteSet(Keys)
  /\ NumBuckets \in Nat \ {0} /\ ReadReplica \in BOOLEAN
  /\ MaxEvents \in Nat /\ MaxGroups \in Nat /\ MaxBatch \in Nat \ {0}
  /\ MaxAged \in Nat /\ MaxFailures \in Nat

EventIds == 1..MaxEvents
GroupIds == 1..MaxGroups
NoGroup  == 0
Buckets  == 1..NumBuckets
Pcts     == {50, 95}

\* What is kept of a transaction event.
Transaction == [key : Keys, bucket : Buckets, error : BOOLEAN]

\* The statement a worker executes next.
Steps == {"idle", "fetch", "insert", "refetch", "merge", "read", "write",
          "stage", "stats"}

VARIABLES
  ev, taken,                      \* contents of the stream so far
  live, keyOf, groupSeq,          \* rows of performance_transactiongroup
  count, errors, hist, pct,       \* their columns (pct: p50 and p95)
  old,                            \* rows with last_seen < retention cutoff
  replica,                        \* what the replica knows of each key
  staging, projStat,              \* events with staged spans; hourly statistic
  pc, batch, att, seen,           \* workers: batch, group of each key, rows read
  doomed,                         \* ids maintenance has read and will delete
  merged, lost, aged, failures    \* history: events merged into each group, ...

groupVars  == <<live, keyOf, groupSeq, count, errors, hist, pct, old>>
workerVars == <<pc, batch, att, seen>>
histVars   == <<merged, lost, aged, failures>>
statsVars == <<ev, taken, groupVars, replica, staging, projStat, workerVars, doomed,
          histVars>>
--------------------------------------------------------------------------------
(***************************************************************************)
(* histogram.py                                                            *)
(***************************************************************************)
EmptyHistogram == [b \in Buckets |-> 0]

\* merge_durations: one more per event in the event's bucket.
Histogram(es) == [b \in Buckets |-> Cardinality({e \in es : ev[e].bucket = b})]

\* Running totals of a histogram.
Cumulative(h) ==
  LET sum[b \in 0..NumBuckets] == IF b = 0 THEN 0 ELSE sum[b - 1] + h[b] IN sum

\* math.ceil(total * pct / 100)
Target(total, p) == (total * p + 99) \div 100

\* Mutant of Percentile: rounds the target rank down.
PercentileFloor(h, total, p) ==
  LET sum == Cumulative(h)
      ok  == {b \in Buckets : h[b] > 0 /\ sum[b] >= (total * p) \div 100}
  IN IF total <= 0 \/ ok = {} THEN 0 ELSE CHOOSE b \in ok : \A c \in ok : b <= c

\* percentile_from_histogram: the first non-empty bucket whose running total
\* reaches the target; 0 is None.
Percentile(h, total, p) ==
  LET sum == Cumulative(h)
      ok  == {b \in Buckets : h[b] > 0 /\ sum[b] >= Target(total, p)}
  IN IF total <= 0 \/ ok = {} THEN 0 ELSE CHOOSE b \in ok : \A c \in ok : b <= c

\* Reference: the nearest-rank percentile of the events' buckets.
NearestRank(es, p) ==
  IF es = {} THEN 0
  ELSE CHOOSE b \in Buckets :
         /\ Cardinality({e \in es : ev[e].bucket < b}) < Target(Cardinality(es), p)
         /\ Cardinality({e \in es : ev[e].bucket <= b}) >= Target(Cardinality(es), p)
--------------------------------------------------------------------------------
NoRows == [g \in GroupIds |-> [p \in Pcts |-> 0]]

StatsInit ==
  /\ ev = [e \in {} |-> 0] /\ taken = 0
  /\ live = {} /\ groupSeq = 0
  /\ keyOf = [g \in {} |-> 0]
  /\ count = [g \in GroupIds |-> 0]
  /\ errors = [g \in GroupIds |-> 0]
  /\ hist = [g \in GroupIds |-> EmptyHistogram]
  /\ pct = NoRows
  /\ old = {}
  /\ replica = [k \in Keys |-> NoGroup]
  /\ staging = {} /\ projStat = 0
  /\ pc = [w \in Workers |-> "idle"]
  /\ batch = [w \in Workers |-> {}]
  /\ att = [w \in Workers |-> [k \in Keys |-> NoGroup]]
  /\ seen = [w \in Workers |-> [g \in {} |-> 0]]
  /\ doomed = {}
  /\ merged = [g \in GroupIds |-> {}]
  /\ lost = {} /\ aged = 0 /\ failures = 0

\* The row of a key: (transaction, project, op, method) is unique.
RowOf(k) ==
  IF \E g \in live : keyOf[g] = k THEN CHOOSE g \in live : keyOf[g] = k ELSE NoGroup

KeysOf(w)     == {ev[e].key : e \in batch[w]}
Missing(w)    == {k \in KeysOf(w) : att[w][k] = NoGroup}
GroupsOf(w)   == {att[w][k] : k \in KeysOf(w)} \ {NoGroup}
EventsIn(w, g) == {e \in batch[w] : att[w][ev[e].key] = g}
Grouped(w)       == {e \in batch[w] : att[w][ev[e].key] # NoGroup}
--------------------------------------------------------------------------------
(***************************************************************************)
(* Ingest worker: process_transaction_events                               *)
(***************************************************************************)
\* The queue hands worker w the next transactions.
TakeBatch(w, txns) ==
  LET n == Cardinality(DOMAIN txns) IN
  /\ pc[w] = "idle"
  /\ taken + n <= MaxEvents
  /\ taken' = taken + n
  /\ ev' = [e \in 1..(taken + n) |->
              IF e <= taken THEN ev[e] ELSE txns[e - taken]]
  /\ batch' = [batch EXCEPT ![w] = taken + 1 .. taken + n]
  /\ pc' = [pc EXCEPT ![w] = "fetch"]
  /\ UNCHANGED <<groupVars, replica, staging, projStat, att, seen, doomed, histVars>>

\* _fetch_transaction_groups, on the replica when there is one.
FetchGroups(w) ==
  /\ pc[w] = "fetch"
  /\ att' = [att EXCEPT ![w] = [k \in Keys |->
       IF k \notin KeysOf(w) THEN NoGroup
       ELSE IF ReadReplica THEN replica[k] ELSE RowOf(k)]]
  /\ pc' = [pc EXCEPT ![w] =
       IF \E k \in KeysOf(w) : att'[w][k] = NoGroup THEN "insert" ELSE "merge"]
  /\ UNCHANGED <<ev, taken, groupVars, replica, staging, projStat, batch, seen,
                 doomed, histVars>>

\* The rows INSERT ... ON CONFLICT DO NOTHING really adds.
ToInsert(w) == {k \in Missing(w) : RowOf(k) = NoGroup}

\* Insert the missing groups, one sequence value each.
InsertGroups(w) ==
  LET n == Cardinality(ToInsert(w)) IN
  /\ pc[w] = "insert"
  /\ groupSeq + n <= MaxGroups
  /\ groupSeq' = groupSeq + n
  /\ live' = live \cup (groupSeq + 1 .. groupSeq + n)
  /\ \E f \in [groupSeq + 1 .. groupSeq + n -> ToInsert(w)] :
       /\ \A k \in ToInsert(w) : \E g \in DOMAIN f : f[g] = k
       /\ keyOf' = [g \in 1 .. groupSeq + n |-> IF g <= groupSeq THEN keyOf[g] ELSE f[g]]
  /\ pc' = [pc EXCEPT ![w] = "refetch"]
  /\ UNCHANGED <<ev, taken, count, errors, hist, pct, old, replica, staging,
                 projStat, batch, att, seen, doomed, histVars>>

\* Mutant of ReadBack: the ids are read back from the replica.
ReadBackFromReplica(k) == IF ReadReplica THEN replica[k] ELSE RowOf(k)

\* The id of a key just inserted (or found to exist), from the primary.
ReadBack(k) == RowOf(k)

\* Read the missing ids back; a key may have no row again by now.
Refetch(w) ==
  /\ pc[w] = "refetch"
  /\ att' = [att EXCEPT ![w] = [k \in Keys |->
       IF k \in Missing(w) THEN ReadBack(k) ELSE att[w][k]]]
  /\ pc' = [pc EXCEPT ![w] = "merge"]
  /\ UNCHANGED <<ev, taken, groupVars, replica, staging, projStat, batch, seen,
                 doomed, histVars>>

\* Element-wise addition of the batch's histogram.
Merged(h, inc) == [b \in Buckets |-> h[b] + inc[b]]

\* Phase 1: one UPDATE adds the batch to the rows that (still) exist.
MergeStats(w) ==
  LET G == GroupsOf(w) \cap live IN
  /\ pc[w] = "merge"
  /\ count' = [g \in GroupIds |->
       IF g \in G THEN count[g] + Cardinality(EventsIn(w, g)) ELSE count[g]]
  /\ errors' = [g \in GroupIds |->
       IF g \in G THEN errors[g] + Cardinality({e \in EventsIn(w, g) : ev[e].error})
                  ELSE errors[g]]
  /\ hist' = [g \in GroupIds |->
       IF g \in G THEN Merged(hist[g], Histogram(EventsIn(w, g))) ELSE hist[g]]
  /\ old' = old \ G
  /\ merged' = [g \in GroupIds |->
       IF g \in G THEN merged[g] \cup EventsIn(w, g) ELSE merged[g]]
  /\ pc' = [pc EXCEPT ![w] = IF GroupsOf(w) = {} THEN "stage" ELSE "read"]
  /\ UNCHANGED <<ev, taken, live, keyOf, groupSeq, pct, replica, staging,
                 projStat, batch, att, seen, doomed, lost, aged, failures>>

\* Phase 2, first half: read the merged rows and compute p50 and p95.
ReadHistogram(w) ==
  /\ pc[w] = "read"
  /\ seen' = [seen EXCEPT ![w] = [g \in GroupsOf(w) \cap live |->
       [p \in Pcts |-> Percentile(hist[g], count[g], p)]]]
  /\ pc' = [pc EXCEPT ![w] = "write"]
  /\ UNCHANGED <<ev, taken, groupVars, replica, staging, projStat, batch, att,
                 doomed, histVars>>

\* Phase 2, second half: write them, whatever happened in between.
WritePercentiles(w) ==
  /\ pc[w] = "write"
  /\ pct' = [g \in GroupIds |-> IF g \in DOMAIN seen[w] \cap live
                                THEN seen[w][g] ELSE pct[g]]
  /\ pc' = [pc EXCEPT ![w] = "stage"]
  /\ UNCHANGED <<ev, taken, live, keyOf, groupSeq, count, errors, hist, old,
                 replica, staging, projStat, batch, att, seen, doomed, histVars>>

\* Span staging rows of the transactions that have a group.
InsertStaging(w) ==
  /\ pc[w] = "stage"
  /\ staging' = staging \cup Grouped(w)
  /\ pc' = [pc EXCEPT ![w] = "stats"]
  /\ UNCHANGED <<ev, taken, groupVars, replica, projStat, batch, att, seen,
                 doomed, histVars>>

\* A finished or dead task leaves no local state behind.
ResetWorker(w) ==
  /\ pc' = [pc EXCEPT ![w] = "idle"]
  /\ batch' = [batch EXCEPT ![w] = {}]
  /\ att' = [att EXCEPT ![w] = [k \in Keys |-> NoGroup]]
  /\ seen' = [seen EXCEPT ![w] = [g \in {} |-> 0]]

\* update_statistics: the billed hourly count; the task ends.
UpdateStatistics(w) ==
  /\ pc[w] = "stats"
  /\ projStat' = projStat + Cardinality(Grouped(w))
  /\ ResetWorker(w)
  /\ UNCHANGED <<ev, taken, groupVars, replica, staging, doomed, histVars>>

\* The task raises or dies; its batch is not delivered again.
FailBatch(w) ==
  /\ pc[w] # "idle" /\ failures < MaxFailures
  /\ failures' = failures + 1
  /\ lost' = lost \cup batch[w]
  /\ ResetWorker(w)
  /\ UNCHANGED <<ev, taken, groupVars, replica, staging, projStat, doomed,
                 merged, aged>>
--------------------------------------------------------------------------------
(***************************************************************************)
(* Maintenance: cleanup_old_transaction_events                             *)
(***************************************************************************)
\* A group's last_seen falls behind the retention cutoff.
Age(g) ==
  /\ g \in live \ old /\ aged < MaxAged
  /\ old' = old \cup {g}
  /\ aged' = aged + 1
  /\ UNCHANGED <<ev, taken, live, keyOf, groupSeq, count, errors, hist, pct,
                 replica, staging, projStat, workerVars, doomed, merged, lost, failures>>

\* SELECT the ids of old groups (500 at a time) ...
ReadOldGroups ==
  /\ doomed = {} /\ old # {}
  /\ doomed' = old
  /\ UNCHANGED <<ev, taken, groupVars, replica, staging, projStat, workerVars, histVars>>

\* ... and delete those ids, without looking at last_seen again.
DeleteOldGroups ==
  /\ doomed # {}
  /\ live' = live \ doomed
  /\ old' = old \ doomed
  /\ doomed' = {}
  /\ UNCHANGED <<ev, taken, keyOf, groupSeq, count, errors, hist, pct, replica,
                 staging, projStat, workerVars, histVars>>

\* Streaming replication catches up with the primary.
ReplicaCatchUp ==
  /\ ReadReplica
  /\ replica' = [k \in Keys |-> RowOf(k)]
  /\ UNCHANGED <<ev, taken, groupVars, staging, projStat, workerVars, doomed, histVars>>
--------------------------------------------------------------------------------
WorkerStep(w) ==
  \/ FetchGroups(w) \/ InsertGroups(w) \/ Refetch(w) \/ MergeStats(w)
  \/ ReadHistogram(w) \/ WritePercentiles(w) \/ InsertStaging(w)
  \/ UpdateStatistics(w)

Maintenance == (\E g \in GroupIds : Age(g)) \/ ReadOldGroups \/ DeleteOldGroups

StreamEnded ==
  /\ taken = MaxEvents /\ \A w \in Workers : pc[w] = "idle"
  /\ UNCHANGED statsVars

StatsNext ==
  \/ \E w \in Workers : \E n \in 1..MaxBatch : \E txns \in [1..n -> Transaction] :
       TakeBatch(w, txns)
  \/ \E w \in Workers : WorkerStep(w) \/ FailBatch(w)
  \/ Maintenance
  \/ ReplicaCatchUp
  \/ StreamEnded

StatsSpec == StatsInit /\ [][StatsNext]_statsVars

--------------------------------------------------------------------------------

\* Concurrent batches never overwrite each other's statistics: a group's
\* count, error count and histogram are those of exactly the transactions
\* merged into it, all of them of its key.
StatsOfMergedEvents ==
  \A g \in live :
    /\ count[g] = Cardinality(merged[g])
    /\ errors[g] = Cardinality({e \in merged[g] : ev[e].error})
    /\ hist[g] = Histogram(merged[g])
    /\ \A e \in merged[g] : ev[e].key = keyOf[g]

AllIdle == \A w \in Workers : pc[w] = "idle"

\* With no maintenance pass and no dead task, every transaction of the stream
\* ends up in a group, in span staging and in the billed statistic, once.
EveryTransactionCounted ==
  AllIdle /\ aged = 0 /\ lost = {} =>
    /\ UNION {merged[g] : g \in live} = 1..taken
    /\ staging = 1..taken
    /\ projStat = taken

\* The p50 and p95 a worker is about to write are the nearest-rank percentiles
\* of exactly the transactions in its groups at the moment it read them, other
\* workers' included.
PercentilesExact ==
  [][\A w \in Workers : pc[w] = "read" /\ pc'[w] = "write" =>
       \A g \in DOMAIN seen'[w] : \A p \in Pcts :
         seen'[w][g][p] = NearestRank(merged[g], p)]_statsVars

\* process_transaction_events loses no transaction and counts none twice, in the
\* groups' columns, in span staging and in the billed statistic.
TransactionsCountedOnce == StatsOfMergedEvents /\ EveryTransactionCounted
================================================================================
