----------------------------- MODULE ReadingProofs -----------------------------
(***************************************************************************)
(* Proofs about what is written while it is read.                          *)
(* TransactionStats, for any number of workers, keys, buckets,             *)
(* transactions, tasks that die and groups that are deleted:               *)
(* TransactionsCountedOnce, what the rows of the transaction groups, span  *)
(* staging and the billed statistic say of the stream; and                 *)
(* PercentilesExact, that the scan of a histogram finds the nearest rank.  *)
(* IssueReads, for any users, organizations, projects, issues, events and  *)
(* days: ReadsStayHome, and EventsStayReadable from the order in which     *)
(* events come, are archived and go.                                       *)
(***************************************************************************)
EXTENDS TransactionStats, IssueReads, FiniteSetTheorems, SequenceTheorems, WellFoundedInduction, TLAPS

\* The types of the variables the first proof looks at; seen and pct play no
\* part in it.
StatsTypeOK ==
  /\ taken \in 0..MaxEvents /\ ev \in [1..taken -> Transaction]
  /\ groupSeq \in 0..MaxGroups /\ live \subseteq 1..groupSeq /\ keyOf \in [1..groupSeq -> Keys]
  /\ count \in [GroupIds -> Nat] /\ errors \in [GroupIds -> Nat]
  /\ hist \in [GroupIds -> [Buckets -> Nat]]
  /\ old \subseteq GroupIds /\ doomed \subseteq GroupIds
  /\ replica \in [Keys -> 0..MaxGroups]
  /\ staging \subseteq 1..taken /\ projStat \in Nat
  /\ pc \in [Workers -> Steps]
  /\ batch \in [Workers -> SUBSET (1..taken)]
  /\ att \in [Workers -> [Keys -> 0..MaxGroups]]
  /\ merged \in [GroupIds -> SUBSET (1..taken)]
  /\ lost \subseteq 1..taken /\ aged \in Nat /\ failures \in Nat

\* The steps before a worker's batch is in the rows, and the steps at which it
\* relies on the rows it found.
BeforeMerge == {"fetch", "insert", "refetch", "merge"}
Attached == {"merge", "read", "write", "stage", "stats"}

\* A group id, however old the knowledge, is a row there was of that key.
IsRow(g, k) == g \in 1..groupSeq /\ keyOf[g] = k
BeliefsAreRows ==
  \A k \in Keys :
    /\ replica[k] # NoGroup => IsRow(replica[k], k)
    /\ \A w \in Workers : att[w][k] # NoGroup => IsRow(att[w][k], k)

BatchesDisjoint ==
  /\ \A w \in Workers : batch[w] = {} <=> pc[w] = "idle"
  /\ \A v, w \in Workers : v # w => batch[v] \cap batch[w] = {}

\* A batch is merged by one statement, once.
MergedOnce ==
  \A w \in Workers : pc[w] \in BeforeMerge => \A g \in GroupIds : batch[w] \cap merged[g] = {}

\* The columns of every row there was, deleted ones included.
ColumnsExact ==
  \A g \in GroupIds :
    /\ count[g] = Cardinality(merged[g])
    /\ errors[g] = Cardinality({e \in merged[g] : ev[e].error})
    /\ hist[g] = Histogram(merged[g])
    /\ \A e \in merged[g] : IsRow(g, ev[e].key)

\* As long as nothing aged and no task died, no row is missing: a worker has
\* one for each of its keys ...
RowsStay == live = 1..groupSeq /\ old = {} /\ doomed = {}
RowsFound ==
  \A w \in Workers :
    /\ pc[w] = "refetch" => \A k \in Missing(w) : \E g \in live : keyOf[g] = k
    /\ pc[w] \in Attached => \A e \in batch[w] : att[w][ev[e].key] \in live

\* ... and the transactions no longer in the hands of a worker that has still
\* to write them are in the groups, in span staging and in the statistic.
InGroups(e) == \E g \in live : e \in merged[g]
MergedExact ==
  \A e \in 1..taken : InGroups(e) \/ \E w \in Workers : e \in batch[w] /\ pc[w] \in BeforeMerge
StagedExact ==
  \A e \in 1..taken : e \in staging \/ \E w \in Workers : e \in batch[w] /\ pc[w] # "stats"
Billed == {e \in 1..taken : \A w \in Workers : e \notin batch[w]}
BilledExact == projStat = Cardinality(Billed)
NothingMissing == RowsStay /\ RowsFound /\ MergedExact /\ StagedExact /\ BilledExact

StatsInv ==
  /\ StatsTypeOK
  /\ BeliefsAreRows
  /\ BatchesDisjoint
  /\ MergedOnce
  /\ ColumnsExact
  /\ aged = 0 /\ lost = {} => NothingMissing
--------------------------------------------------------------------------------
\* A set of transactions is finite.
LEMMA TakenFinite ==
  ASSUME NEW n \in Nat, NEW S, S \subseteq 1..n
  PROVE  IsFiniteSet(S) /\ Cardinality(S) \in Nat
<1>1. IsFiniteSet(1..n)
  BY FS_Interval
<1> QED
  BY <1>1, FS_Subset, FS_CardinalityType

\* Two sets of transactions that share none count together what each counts.
LEMMA DisjointTaken ==
  ASSUME NEW n \in Nat, NEW S, NEW T, S \subseteq 1..n, T \subseteq 1..n, S \cap T = {}
  PROVE  Cardinality(S \cup T) = Cardinality(S) + Cardinality(T)
<1>1. IsFiniteSet(S) /\ IsFiniteSet(T) /\ Cardinality(S) \in Nat /\ Cardinality(T) \in Nat
  BY TakenFinite
<1>2. Cardinality(S \cup T) = Cardinality(S) + Cardinality(T) - Cardinality(S \cap T)
  BY <1>1, FS_Union
<1>3. Cardinality(S \cap T) = 0
  BY FS_EmptySet
<1> QED
  BY <1>1, <1>2, <1>3

\* A row of the key of a transaction, if there is one.
LEMMA RowOfIs ==
  ASSUME StatsTypeOK, NEW k \in Keys
  PROVE  /\ RowOf(k) # NoGroup => RowOf(k) \in live /\ IsRow(RowOf(k), k)
         /\ (\E g \in live : keyOf[g] = k) => RowOf(k) # NoGroup
         /\ RowOf(k) \in 0..MaxGroups
<1>1. 0 \notin live /\ live \subseteq 1..MaxGroups
  BY StatsAssumption DEF StatsTypeOK
<1>2. CASE \E g \in live : keyOf[g] = k
  <2>1. PICK r : r = CHOOSE g \in live : keyOf[g] = k
    OBVIOUS
  <2>2. r \in live /\ keyOf[r] = k
    BY <1>2, <2>1
  <2>3. RowOf(k) = r
    BY <1>2, <2>1 DEF RowOf
  <2> QED
    BY <1>1, <2>2, <2>3, StatsAssumption DEF NoGroup, IsRow, StatsTypeOK
<1>3. CASE ~\E g \in live : keyOf[g] = k
  BY <1>3, StatsAssumption DEF RowOf, NoGroup
<1> QED
  BY <1>2, <1>3

\* Rows are never renamed, whatever happens to them.
LEMMA RowsStayRows ==
  ASSUME StatsTypeOK, groupSeq' \in Nat, groupSeq <= groupSeq',
         \A g \in 1..groupSeq : keyOf'[g] = keyOf[g]
  PROVE  \A g, k : IsRow(g, k) => IsRow(g, k)'
BY DEF IsRow, StatsTypeOK

--------------------------------------------------------------------------------
(***************************************************************************)
(* A worker's step that writes none of the rows the statistics are about   *)
(***************************************************************************)
Rows == <<ev, taken, live, keyOf, groupSeq, count, errors, hist, old>>
History == <<staging, projStat, doomed, merged, lost, aged, failures>>

\* The history variables and the columns of the rows are left alone.
LEMMA QuietColumns ==
  ASSUME StatsTypeOK, ColumnsExact, StatsTypeOK', UNCHANGED <<count, errors, hist, merged>>,
         taken <= taken', \A e \in 1..taken : ev'[e] = ev[e],
         \A g, k : IsRow(g, k) => IsRow(g, k)'
  PROVE  ColumnsExact'
<1> USE DEF StatsTypeOK
<1>1. SUFFICES ASSUME NEW g \in GroupIds
      PROVE  /\ count'[g] = Cardinality(merged'[g])
             /\ errors'[g] = Cardinality({e \in merged'[g] : ev'[e].error})
             /\ hist'[g] = Histogram(merged[g])'
             /\ \A e \in merged'[g] : g \in 1..groupSeq' /\ keyOf'[g] = ev'[e].key
  BY DEF ColumnsExact, IsRow
<1>2. merged'[g] = merged[g] /\ merged[g] \subseteq 1..taken
  OBVIOUS
<1>3. {e \in merged'[g] : ev'[e].error} = {e \in merged[g] : ev[e].error}
  BY <1>2
<1>4. \A b \in Buckets : {e \in merged'[g] : ev'[e].bucket = b} = {e \in merged[g] : ev[e].bucket = b}
  BY <1>2
<1>5. Histogram(merged[g])' = Histogram(merged[g])
  BY <1>4 DEF Histogram, Buckets
<1>6. ASSUME NEW e \in merged'[g] PROVE g \in 1..groupSeq' /\ keyOf'[g] = ev'[e].key
  <2>1. e \in 1..taken /\ IsRow(g, ev[e].key)
    BY <1>2 DEF ColumnsExact
  <2>2. IsRow(g, ev[e].key)'
    BY <2>1
  <2> QED
    BY <2>1, <2>2 DEF IsRow
<1> QED
  BY <1>2, <1>3, <1>5, <1>6 DEF ColumnsExact

\* The rows worker w relies on.
RowsFoundBy(w) ==
  /\ pc[w] = "refetch" => \A k \in Missing(w) : \E g \in live : keyOf[g] = k
  /\ pc[w] \in Attached => \A e \in batch[w] : att[w][ev[e].key] \in live

\* A worker reads rows into its memory and goes on, to the merge or past it.
LEMMA WorkerReads ==
  ASSUME StatsInv, StatsTypeOK', UNCHANGED <<Rows, History, replica, batch>>,
         NEW w \in Workers, NEW s \in Steps \ {"idle", "stats"}, pc' = [pc EXCEPT ![w] = s],
         pc[w] \notin {"idle", "stats"}, pc[w] \in BeforeMerge <=> s \in BeforeMerge,
         NEW f \in [Keys -> 0..MaxGroups], att' = [att EXCEPT ![w] = f],
         \A k \in Keys : f[k] # NoGroup => IsRow(f[k], k),
         NothingMissing => RowsFoundBy(w)'
  PROVE  StatsInv'
<1>0. StatsTypeOK /\ StatsTypeOK' /\ ColumnsExact
  BY DEF StatsInv
<1> USE DEF StatsInv, StatsTypeOK, Rows, History
<1>1. \A v \in Workers : v # w => pc'[v] = pc[v] /\ att'[v] = att[v]
  OBVIOUS
<1>2. pc'[w] = s /\ att'[w] = f
  OBVIOUS
<1>3. \A g, k : IsRow(g, k)' <=> IsRow(g, k)
  BY DEF IsRow
<1>4. BeliefsAreRows'
  <2>1. \A k \in Keys : (replica[k] # NoGroup => IsRow(replica[k], k)')
    BY <1>3 DEF BeliefsAreRows
  <2>2. ASSUME NEW k \in Keys, NEW v \in Workers, att'[v][k] # NoGroup
        PROVE  att'[v][k] \in 1..groupSeq' /\ keyOf'[att'[v][k]] = k
    <3>1. IsRow(att'[v][k], k)
      BY <1>1, <1>2, <2>2 DEF BeliefsAreRows
    <3> QED
      BY <3>1 DEF IsRow
  <2> QED
    BY <2>1, <2>2 DEF BeliefsAreRows, IsRow
<1>5. BatchesDisjoint'
  BY <1>1, <1>2 DEF BatchesDisjoint
<1>6. MergedOnce'
  BY <1>1, <1>2 DEF MergedOnce
<1>7. ColumnsExact'
  <2>1. /\ taken <= taken' /\ (\A e \in 1..taken : ev'[e] = ev[e])
        /\ UNCHANGED <<count, errors, hist, merged>>
    OBVIOUS
  <2>2. \A g, k : IsRow(g, k) => IsRow(g, k)'
    BY <1>3
  <2> HIDE DEF StatsTypeOK
  <2> QED
    BY <1>0, <2>1, <2>2, QuietColumns
<1>8. ASSUME aged' = 0, lost' = {} PROVE NothingMissing'
  <2>1. NothingMissing
    BY <1>8
  <2>2. RowsStay'
    BY <2>1 DEF NothingMissing, RowsStay
  <2>3. RowsFound'
    <3>1. ASSUME NEW v \in Workers, v # w PROVE RowsFoundBy(v)'
      <4>1. pc'[v] = pc[v] /\ att'[v] = att[v] /\ batch'[v] = batch[v] /\ ev' = ev /\ live' = live /\ keyOf' = keyOf
        BY <1>1, <3>1
      <4>2. Missing(v)' = Missing(v)
        BY <4>1 DEF Missing, KeysOf
      <4>3. RowsFoundBy(v)
        BY <2>1 DEF NothingMissing, RowsFound, RowsFoundBy
      <4> QED
        BY <4>1, <4>2, <4>3 DEF RowsFoundBy
    <3> QED
      BY <2>1, <3>1 DEF RowsFound, RowsFoundBy
  <2>4. MergedExact'
    BY <1>1, <1>2, <2>1 DEF NothingMissing, MergedExact, InGroups
  <2>5. StagedExact' /\ BilledExact'
    BY <1>1, <1>2, <2>1 DEF NothingMissing, StagedExact, BilledExact, Billed
  <2> QED
    BY <2>2, <2>3, <2>4, <2>5 DEF NothingMissing
<1> QED
  BY <1>4, <1>5, <1>6, <1>7, <1>8

\* A worker that looks up its groups keeps the invariant,
LEMMA StatsFetchGroups ==
  ASSUME StatsInv, StatsTypeOK', NEW w \in Workers, FetchGroups(w)
  PROVE  StatsInv'
<1> USE DEF StatsInv, StatsTypeOK
<1>1. PICK f : f = [k \in Keys |-> IF k \notin KeysOf(w) THEN NoGroup
                                   ELSE IF ReadReplica THEN replica[k] ELSE RowOf(k)]
  OBVIOUS
<1>2. PICK s : s = IF \E k \in KeysOf(w) : f[k] = NoGroup THEN "insert" ELSE "merge"
  OBVIOUS
<1>3. \A k \in Keys : f[k] \in 0..MaxGroups /\ (f[k] # NoGroup => IsRow(f[k], k))
  <2>1. ASSUME NEW k \in Keys
        PROVE  /\ RowOf(k) \in 0..MaxGroups /\ (RowOf(k) # NoGroup => IsRow(RowOf(k), k))
               /\ replica[k] \in 0..MaxGroups /\ (replica[k] # NoGroup => IsRow(replica[k], k))
    BY RowOfIs DEF BeliefsAreRows
  <2>2. NoGroup \in 0..MaxGroups
    BY StatsAssumption DEF NoGroup
  <2> QED
    BY <1>1, <2>1, <2>2
<1>4. f \in [Keys -> 0..MaxGroups]
  BY <1>1, <1>3
<1>5. /\ pc[w] = "fetch" /\ att' = [att EXCEPT ![w] = f]
      /\ UNCHANGED <<Rows, History, replica, batch>>
  BY <1>1 DEF FetchGroups, groupVars, histVars, Rows, History
<1>6. pc' = [pc EXCEPT ![w] = s]
  <2>1. att'[w] = f
    BY <1>4, <1>5
  <2> QED
    BY <1>2, <2>1 DEF FetchGroups
<1>7. ASSUME NothingMissing PROVE RowsFoundBy(w)'
  <2>1. pc'[w] = s /\ att'[w] = f /\ live' = live /\ batch' = batch /\ ev' = ev
    BY <1>4, <1>5, <1>6 DEF Rows
  <2>2. ASSUME s = "merge", NEW e \in batch[w] PROVE f[ev[e].key] \in live
    <3>1. ev[e].key \in KeysOf(w) /\ ev[e].key \in Keys
      BY DEF KeysOf, Transaction
    <3>2. f[ev[e].key] # NoGroup
      BY <1>2, <2>2, <3>1
    <3> QED
      BY <1>3, <1>7, <3>1, <3>2 DEF IsRow, NothingMissing, RowsStay
  <2> QED
    BY <1>2, <2>1, <2>2 DEF RowsFoundBy, Attached
<1>8. s \in Steps \ {"idle", "stats"} /\ s \in BeforeMerge /\ pc[w] \in BeforeMerge
  BY <1>2, <1>5 DEF Steps, BeforeMerge
<1> HIDE DEF StatsInv, StatsTypeOK
<1> QED
  BY <1>3, <1>4, <1>5, <1>6, <1>7, <1>8, WorkerReads

\* one that looks them up again,
LEMMA StatsRefetch ==
  ASSUME StatsInv, StatsTypeOK', NEW w \in Workers, Refetch(w)
  PROVE  StatsInv'
<1> USE DEF StatsInv, StatsTypeOK
<1>1. PICK f : f = [k \in Keys |-> IF k \in Missing(w) THEN ReadBack(k) ELSE att[w][k]]
  OBVIOUS
<1>2. \A k \in Keys : f[k] \in 0..MaxGroups /\ (f[k] # NoGroup => IsRow(f[k], k))
  <2>1. ASSUME NEW k \in Keys
        PROVE  /\ RowOf(k) \in 0..MaxGroups /\ (RowOf(k) # NoGroup => IsRow(RowOf(k), k))
               /\ att[w][k] \in 0..MaxGroups /\ (att[w][k] # NoGroup => IsRow(att[w][k], k))
    <3>1. RowOf(k) \in 0..MaxGroups /\ (RowOf(k) # NoGroup => IsRow(RowOf(k), k))
      BY RowOfIs
    <3>2. att[w][k] \in 0..MaxGroups
      OBVIOUS
    <3>3. att[w][k] # NoGroup => IsRow(att[w][k], k)
      BY DEF BeliefsAreRows
    <3> QED
      BY <3>1, <3>2, <3>3
  <2>2. ASSUME NEW k \in Keys PROVE f[k] = RowOf(k) \/ f[k] = att[w][k]
    BY <1>1 DEF ReadBack
  <2> QED
    BY <2>1, <2>2
<1>3. f \in [Keys -> 0..MaxGroups]
  BY <1>1, <1>2
<1>4. /\ pc[w] = "refetch" /\ att' = [att EXCEPT ![w] = f] /\ pc' = [pc EXCEPT ![w] = "merge"]
      /\ UNCHANGED <<Rows, History, replica, batch>>
  BY <1>1 DEF Refetch, groupVars, histVars, Rows, History
<1>5. ASSUME NothingMissing PROVE RowsFoundBy(w)'
  <2>1. pc'[w] = "merge" /\ att'[w] = f /\ live' = live /\ batch' = batch /\ ev' = ev
    BY <1>3, <1>4 DEF Rows
  <2>2. ASSUME NEW e \in batch[w] PROVE f[ev[e].key] \in live
    <3>1. ev[e].key \in KeysOf(w) /\ ev[e].key \in Keys
      BY DEF KeysOf, Transaction
    <3>2. f[ev[e].key] # NoGroup
      <4>1. CASE ev[e].key \in Missing(w)
        <5>1. \E g \in live : keyOf[g] = ev[e].key
          BY <1>4, <1>5, <4>1 DEF NothingMissing, RowsFound
        <5> QED
          BY <1>1, <3>1, <4>1, <5>1, RowOfIs DEF ReadBack
      <4>2. CASE ev[e].key \notin Missing(w)
        BY <1>1, <3>1, <4>2 DEF Missing
      <4> QED
        BY <4>1, <4>2
    <3> QED
      BY <1>2, <1>5, <3>1, <3>2 DEF IsRow, NothingMissing, RowsStay
  <2> QED
    BY <2>1, <2>2 DEF RowsFoundBy, Attached
<1>6. "merge" \in Steps \ {"idle", "stats"} /\ "merge" \in BeforeMerge /\ pc[w] \in BeforeMerge
  BY <1>4 DEF Steps, BeforeMerge
<1> HIDE DEF StatsInv, StatsTypeOK
<1> QED
  BY <1>2, <1>3, <1>4, <1>5, <1>6, WorkerReads

\* The percentiles are read and written, or there are none: the rows' other
\* columns are as they were.
LEMMA StatsPercentiles ==
  ASSUME StatsInv, StatsTypeOK', NEW w \in Workers, ReadHistogram(w) \/ WritePercentiles(w)
  PROVE  StatsInv'
<1> USE DEF StatsInv, StatsTypeOK
<1>1. PICK s \in {"write", "stage"} : pc' = [pc EXCEPT ![w] = s]
  BY DEF ReadHistogram, WritePercentiles
<1>2. /\ pc[w] \in {"read", "write"} /\ att' = [att EXCEPT ![w] = att[w]]
      /\ UNCHANGED <<Rows, History, replica, batch, att>>
  BY DEF ReadHistogram, WritePercentiles, groupVars, histVars, Rows, History
<1>3. ASSUME NothingMissing PROVE RowsFoundBy(w)'
  BY <1>1, <1>2, <1>3 DEF NothingMissing, RowsFound, RowsFoundBy, Attached, Rows
<1>4. s \in Steps \ {"idle", "stats"} /\ s \notin BeforeMerge /\ pc[w] \notin BeforeMerge
      /\ pc[w] \notin {"idle", "stats"}
  BY <1>1, <1>2 DEF Steps, BeforeMerge
<1>5. att[w] \in [Keys -> 0..MaxGroups] /\ \A k \in Keys : att[w][k] # NoGroup => IsRow(att[w][k], k)
  BY DEF BeliefsAreRows
<1> HIDE DEF StatsInv, StatsTypeOK
<1> QED
  BY <1>1, <1>2, <1>3, <1>4, <1>5, WorkerReads
--------------------------------------------------------------------------------
(***************************************************************************)
(* The steps that write rows                                               *)
(***************************************************************************)
\* Transactions handed to a worker are in nobody else's hands, and in no group.
LEMMA StatsTakeBatch ==
  ASSUME StatsInv, StatsTypeOK', NEW w \in Workers, NEW n \in 1..MaxBatch,
         NEW txns \in [1..n -> Transaction], TakeBatch(w, txns)
  PROVE  StatsInv'
<1>0. StatsTypeOK /\ StatsTypeOK' /\ ColumnsExact
  BY DEF StatsInv
<1> USE StatsAssumption DEF StatsInv, StatsTypeOK
<1>1. PICK t \in 0..MaxEvents : t = taken
  OBVIOUS
<1>2. DOMAIN txns = 1..n /\ n \in Nat \ {0} /\ Cardinality(DOMAIN txns) = n
  BY FS_Interval
<1>3. PICK B : B = t + 1 .. t + n
  OBVIOUS
<1>4. /\ taken' = t + n /\ batch' = [batch EXCEPT ![w] = B] /\ pc' = [pc EXCEPT ![w] = "fetch"] /\ pc[w] = "idle"
      /\ UNCHANGED <<groupVars, replica, staging, projStat, att, doomed, histVars>>
  BY <1>1, <1>2, <1>3 DEF TakeBatch
<1>5. \A e \in 1..t : e \in 1..taken' /\ ev'[e] = ev[e]
  <2>1. ev' = [e \in 1..(t + n) |-> IF e <= t THEN ev[e] ELSE txns[e - t]]
    BY <1>1, <1>2 DEF TakeBatch
  <2> QED
    BY <1>2, <1>4, <2>1
<1>6. B # {} /\ B \cap (1..t) = {} /\ \A e \in 1..taken' : e \in 1..t \/ e \in B
  <2>1. t + 1 \in B /\ taken' = t + n
    BY <1>2, <1>3, <1>4
  <2> HIDE DEF StatsInv, StatsTypeOK
  <2>2. B \cap (1..t) = {} /\ \A e \in 1..(t + n) : e \in 1..t \/ e \in B
    BY <1>2, <1>3
  <2> QED
    BY <2>1, <2>2
<1>7. \A v \in Workers : v # w => pc'[v] = pc[v] /\ batch'[v] = batch[v]
  BY <1>4
<1>8. pc'[w] = "fetch" /\ batch'[w] = B
  BY <1>4
<1>9. UNCHANGED <<live, keyOf, groupSeq, count, errors, hist, old, replica, staging, projStat, att, doomed,
                  merged, lost, aged>>
  BY <1>4 DEF groupVars, histVars
<1>10. BeliefsAreRows'
  BY <1>9 DEF BeliefsAreRows, IsRow
<1>11. BatchesDisjoint'
  BY <1>1, <1>6, <1>7, <1>8 DEF BatchesDisjoint
<1>12. MergedOnce'
  BY <1>1, <1>6, <1>7, <1>8, <1>9 DEF MergedOnce
<1>13. ColumnsExact'
  <2>1. taken <= taken' /\ (\A e \in 1..taken : ev'[e] = ev[e]) /\ UNCHANGED <<count, errors, hist, merged>>
    BY <1>1, <1>2, <1>4, <1>5, <1>9
  <2>2. \A g, k : IsRow(g, k) => IsRow(g, k)'
    BY <1>9 DEF IsRow
  <2> HIDE DEF StatsTypeOK
  <2> QED
    BY <1>0, <2>1, <2>2, QuietColumns
<1>14. ASSUME aged' = 0, lost' = {} PROVE NothingMissing'
  <2>1. NothingMissing
    BY <1>9, <1>14
  <2>2. RowsStay'
    BY <1>9, <2>1 DEF NothingMissing, RowsStay
  <2>3. RowsFound'
    <3>1. ASSUME NEW v \in Workers, v # w PROVE RowsFoundBy(v)'
      <4>1. pc'[v] = pc[v] /\ att'[v] = att[v] /\ batch'[v] = batch[v] /\ live' = live /\ keyOf' = keyOf
        BY <1>7, <1>9, <3>1
      <4>2. \A e \in batch[v] : ev'[e] = ev[e]
        BY <1>1, <1>5
      <4>3. KeysOf(v)' = KeysOf(v)
        BY <4>1, <4>2 DEF KeysOf
      <4>4. RowsFoundBy(v)
        BY <2>1 DEF NothingMissing, RowsFound, RowsFoundBy
      <4> QED
        BY <4>1, <4>2, <4>3, <4>4 DEF RowsFoundBy, Missing
    <3>2. RowsFoundBy(w)'
      BY <1>8 DEF RowsFoundBy, Attached
    <3> QED
      BY <3>1, <3>2 DEF RowsFound, RowsFoundBy
  <2>4. MergedExact'
    <3>1. SUFFICES ASSUME NEW e \in 1..taken'
          PROVE  InGroups(e)' \/ \E v \in Workers : e \in batch'[v] /\ pc'[v] \in BeforeMerge
      BY DEF MergedExact
    <3>2. CASE e \in B
      BY <1>8, <3>2 DEF BeforeMerge
    <3>3. CASE e \in 1..t
      <4>1. InGroups(e) \/ \E v \in Workers : e \in batch[v] /\ pc[v] \in BeforeMerge
        BY <1>1, <2>1, <3>3 DEF NothingMissing, MergedExact
      <4> QED
        BY <1>4, <1>7, <1>9, <4>1 DEF InGroups, BeforeMerge
    <3> QED
      BY <1>6, <3>2, <3>3
  <2>7. StagedExact'
    <3>1. SUFFICES ASSUME NEW e \in 1..taken'
          PROVE  e \in staging' \/ \E v \in Workers : e \in batch'[v] /\ pc'[v] # "stats"
      BY DEF StagedExact
    <3>2. CASE e \in B
      BY <1>8, <3>2
    <3>3. CASE e \in 1..t
      <4>1. e \in staging \/ \E v \in Workers : e \in batch[v] /\ pc[v] # "stats"
        BY <1>1, <2>1, <3>3 DEF NothingMissing, StagedExact
      <4>2. batch[w] = {}
        BY <1>4 DEF BatchesDisjoint
      <4> QED
        BY <1>7, <1>9, <4>1, <4>2
    <3> QED
      BY <1>6, <3>2, <3>3
  <2>5. Billed' = Billed
    BY <1>1, <1>4, <1>5, <1>6, <1>7, <1>8, <2>1, <1>0 DEF Billed, BatchesDisjoint
  <2>6. BilledExact'
    BY <1>9, <2>1, <2>5 DEF NothingMissing, BilledExact
  <2> QED
    BY <2>2, <2>3, <2>4, <2>6, <2>7 DEF NothingMissing
<1> QED
  BY <1>10, <1>11, <1>12, <1>13, <1>14

\* New rows are added behind the old ones, one for each key without a row.
LEMMA StatsInsertGroups ==
  ASSUME StatsInv, StatsTypeOK', NEW w \in Workers, InsertGroups(w)
  PROVE  StatsInv'
<1>0. StatsTypeOK /\ StatsTypeOK' /\ ColumnsExact
  BY DEF StatsInv
<1> USE StatsAssumption DEF StatsInv, StatsTypeOK
<1>1. PICK t \in 0..MaxGroups : t = groupSeq
  OBVIOUS
<1>2. PICK n \in Nat : n = Cardinality(ToInsert(w))
  <2>1. ToInsert(w) \subseteq Keys
    BY DEF ToInsert, Missing, KeysOf, Transaction
  <2>2. IsFiniteSet(ToInsert(w))
    BY <2>1, FS_Subset
  <2> QED
    BY <2>2, FS_CardinalityType
<1>3. PICK f \in [t + 1 .. t + n -> ToInsert(w)] :
        /\ \A k \in ToInsert(w) : \E g \in DOMAIN f : f[g] = k
        /\ keyOf' = [g \in 1 .. t + n |-> IF g <= t THEN keyOf[g] ELSE f[g]]
  <2> HIDE DEF StatsInv, StatsTypeOK
  <2>1. PICK f \in [groupSeq + 1 .. groupSeq + Cardinality(ToInsert(w)) -> ToInsert(w)] :
          /\ \A k \in ToInsert(w) : \E g \in DOMAIN f : f[g] = k
          /\ keyOf' = [g \in 1 .. groupSeq + Cardinality(ToInsert(w)) |-> IF g <= groupSeq THEN keyOf[g] ELSE f[g]]
    BY DEF InsertGroups
  <2> QED
    BY <1>1, <1>2, <2>1
<1>4. /\ groupSeq' = t + n /\ live' = live \cup (t + 1 .. t + n)
      /\ pc[w] = "insert" /\ pc' = [pc EXCEPT ![w] = "refetch"]
      /\ UNCHANGED <<ev, taken, count, errors, hist, pct, old, replica, staging, projStat, batch, att, doomed, histVars>>
  BY <1>1, <1>2 DEF InsertGroups
<1>5. t <= groupSeq' /\ live \subseteq live' /\ \A g \in 1..t : keyOf'[g] = keyOf[g]
  <2>1. t <= groupSeq' /\ live \subseteq live'
    BY <1>4
  <2>2. ASSUME NEW g \in 1..t PROVE g \in 1 .. t + n /\ g <= t
    OBVIOUS
  <2> QED
    BY <1>3, <2>1, <2>2
<1>6. \A g, k : IsRow(g, k) => IsRow(g, k)'
  BY <1>1, <1>4, <1>5 DEF IsRow
<1>7. \A v \in Workers : v # w => pc'[v] = pc[v]
  BY <1>4
<1>8. pc'[w] = "refetch"
  BY <1>4
<1>9. UNCHANGED <<ev, taken, count, errors, hist, old, replica, staging, projStat, batch, att, doomed,
                  merged, lost, aged>>
  BY <1>4 DEF histVars
<1>10. BeliefsAreRows'
  <2>1. ASSUME NEW k \in Keys, replica'[k] # NoGroup
        PROVE  replica'[k] \in 1..groupSeq' /\ keyOf'[replica'[k]] = k
    <3>1. IsRow(replica[k], k)
      BY <1>9, <2>1 DEF BeliefsAreRows
    <3> QED
      BY <1>6, <1>9, <3>1 DEF IsRow
  <2>2. ASSUME NEW k \in Keys, NEW v \in Workers, att'[v][k] # NoGroup
        PROVE  att'[v][k] \in 1..groupSeq' /\ keyOf'[att'[v][k]] = k
    <3>1. IsRow(att[v][k], k)
      BY <1>9, <2>2 DEF BeliefsAreRows
    <3> QED
      BY <1>6, <1>9, <3>1 DEF IsRow
  <2> QED
    BY <2>1, <2>2 DEF BeliefsAreRows, IsRow
<1>11. BatchesDisjoint' /\ MergedOnce'
  BY <1>4, <1>7, <1>8, <1>9 DEF BatchesDisjoint, MergedOnce, BeforeMerge
<1>12. ColumnsExact'
  <2>1. taken <= taken' /\ (\A e \in 1..taken : ev'[e] = ev[e]) /\ UNCHANGED <<count, errors, hist, merged>>
    BY <1>9
  <2> HIDE DEF StatsTypeOK
  <2> QED
    BY <1>0, <1>6, <2>1, QuietColumns
<1>13. ASSUME aged' = 0, lost' = {} PROVE NothingMissing'
  <2>1. NothingMissing
    BY <1>9, <1>13
  <2>2. RowsStay'
    BY <1>1, <1>4, <1>9, <2>1 DEF NothingMissing, RowsStay
  <2>3. ASSUME NEW k \in Missing(w) PROVE \E g \in live' : keyOf'[g] = k
    <3>1. k \in Keys
      <4>1. PICK e \in batch[w] : k = ev[e].key
        BY DEF Missing, KeysOf
      <4>2. e \in 1..taken /\ ev[e] \in Transaction
        OBVIOUS
      <4> QED
        BY <4>1, <4>2 DEF Transaction
    <3>2. CASE RowOf(k) = NoGroup
      <4>1. PICK g \in t + 1 .. t + n : f[g] = k
        BY <1>3, <2>3, <3>2 DEF ToInsert
      <4>2. g \in live' /\ g \in 1 .. t + n /\ ~(g <= t)
        BY <1>4, <4>1
      <4> QED
        BY <1>3, <4>1, <4>2
    <3>3. CASE RowOf(k) # NoGroup
      <4>1. PICK g \in live : g \in 1..t /\ keyOf[g] = k
        BY <1>1, <3>1, <3>3, RowOfIs DEF IsRow
      <4> QED
        BY <1>5, <4>1
    <3> QED
      BY <3>2, <3>3
  <2>4. RowsFound'
    <3>1. ASSUME NEW v \in Workers, v # w PROVE RowsFoundBy(v)'
      <4>1. pc'[v] = pc[v] /\ att' = att /\ batch' = batch /\ ev' = ev
        BY <1>7, <1>9, <3>1
      <4>2. Missing(v)' = Missing(v)
        BY <4>1 DEF Missing, KeysOf
      <4>3. RowsFoundBy(v)
        BY <2>1 DEF NothingMissing, RowsFound, RowsFoundBy
      <4>4. ASSUME NEW k, \E g \in live : keyOf[g] = k PROVE \E g \in live' : keyOf'[g] = k
        BY <1>1, <1>5, <4>4
      <4> QED
        BY <1>5, <4>1, <4>2, <4>3, <4>4 DEF RowsFoundBy
    <3>2. RowsFoundBy(w)'
      <4>1. Missing(w)' = Missing(w)
        BY <1>9 DEF Missing, KeysOf
      <4> QED
        BY <1>8, <2>3, <4>1 DEF RowsFoundBy, Attached
    <3> QED
      BY <3>1, <3>2 DEF RowsFound, RowsFoundBy
  <2>5. MergedExact'
    BY <1>4, <1>5, <1>7, <1>8, <1>9, <2>1 DEF NothingMissing, MergedExact, InGroups, BeforeMerge
  <2>6. StagedExact' /\ BilledExact'
    BY <1>4, <1>7, <1>8, <1>9, <2>1 DEF NothingMissing, StagedExact, BilledExact, Billed
  <2> QED
    BY <2>2, <2>4, <2>5, <2>6 DEF NothingMissing
<1> QED
  BY <1>10, <1>11, <1>12, <1>13

\* One group's columns after the merge of events that are not in it yet.
LEMMA MergedColumns ==
  ASSUME StatsTypeOK, NEW g \in GroupIds, NEW E, E \subseteq 1..taken, E \cap merged[g] = {},
         count[g] = Cardinality(merged[g]), hist[g] = Histogram(merged[g]),
         errors[g] = Cardinality({e \in merged[g] : ev[e].error})
  PROVE  /\ count[g] + Cardinality(E) = Cardinality(merged[g] \cup E)
         /\ errors[g] + Cardinality({e \in E : ev[e].error})
              = Cardinality({e \in merged[g] \cup E : ev[e].error})
         /\ Merged(hist[g], Histogram(E)) = Histogram(merged[g] \cup E)
<1>1. merged[g] \subseteq 1..taken /\ taken \in Nat /\ merged[g] \cap E = {}
  BY StatsAssumption DEF StatsTypeOK
<1> HIDE DEF StatsTypeOK
<1>2. count[g] + Cardinality(E) = Cardinality(merged[g] \cup E)
  <2>1. Cardinality(merged[g] \cup E) = Cardinality(merged[g]) + Cardinality(E)
    BY <1>1, DisjointTaken
  <2> QED
    BY <2>1
<1>3. errors[g] + Cardinality({e \in E : ev[e].error}) = Cardinality({e \in merged[g] \cup E : ev[e].error})
  <2>1. {e \in merged[g] \cup E : ev[e].error} = {e \in merged[g] : ev[e].error} \cup {e \in E : ev[e].error}
    OBVIOUS
  <2>2. PICK A, B : A = {e \in merged[g] : ev[e].error} /\ B = {e \in E : ev[e].error}
    OBVIOUS
  <2>3. A \cap B = {} /\ A \subseteq 1..taken /\ B \subseteq 1..taken
    BY <1>1, <2>2
  <2>4. Cardinality(A \cup B) = Cardinality(A) + Cardinality(B)
    BY <1>1, <2>3, DisjointTaken
  <2> QED
    BY <2>1, <2>2, <2>4
<1>4. ASSUME NEW b \in Buckets
      PROVE  Merged(hist[g], Histogram(E))[b] = Cardinality({e \in merged[g] \cup E : ev[e].bucket = b})
  <2>1. {e \in merged[g] \cup E : ev[e].bucket = b}
          = {e \in merged[g] : ev[e].bucket = b} \cup {e \in E : ev[e].bucket = b}
    OBVIOUS
  <2>2. PICK A, B : A = {e \in merged[g] : ev[e].bucket = b} /\ B = {e \in E : ev[e].bucket = b}
    OBVIOUS
  <2>5. A \cap B = {} /\ A \subseteq 1..taken /\ B \subseteq 1..taken
    BY <1>1, <2>2
  <2>6. Cardinality(A \cup B) = Cardinality(A) + Cardinality(B)
    BY <1>1, <2>5, DisjointTaken
  <2>3. Cardinality({e \in merged[g] \cup E : ev[e].bucket = b})
          = Cardinality({e \in merged[g] : ev[e].bucket = b}) + Cardinality({e \in E : ev[e].bucket = b})
    BY <2>1, <2>2, <2>6
  <2>4. hist[g][b] = Cardinality({e \in merged[g] : ev[e].bucket = b})
    BY DEF Histogram
  <2> QED
    BY <2>3, <2>4 DEF Merged, Histogram
<1>5. Merged(hist[g], Histogram(E)) = Histogram(merged[g] \cup E)
  BY <1>4 DEF Merged, Histogram
<1> QED
  BY <1>2, <1>3, <1>5

\* One statement adds a batch to its rows: nothing of it was there before.
LEMMA StatsMergeStats ==
  ASSUME StatsInv, StatsTypeOK', NEW w \in Workers, MergeStats(w)
  PROVE  StatsInv'
<1>0. StatsTypeOK /\ StatsTypeOK' /\ ColumnsExact
  BY DEF StatsInv
<1> USE StatsAssumption DEF StatsInv, StatsTypeOK
<1>20. ASSUME NEW g \in live PROVE g \in GroupIds /\ g # NoGroup
  <2>1. g \in Int /\ 1 <= g /\ g <= groupSeq /\ groupSeq <= MaxGroups /\ groupSeq \in Int /\ MaxGroups \in Int
    OBVIOUS
  <2> QED
    BY <2>1 DEF GroupIds, NoGroup
<1>1. PICK G : G = GroupsOf(w) \cap live /\ G \subseteq GroupIds
  <2>1. GroupsOf(w) \cap live \subseteq GroupIds
    BY <1>20
  <2> HIDE DEF StatsInv, StatsTypeOK
  <2> QED
    BY <2>1
<1>2. /\ \A g \in GroupIds \ G : /\ count'[g] = count[g] /\ errors'[g] = errors[g]
                                 /\ hist'[g] = hist[g] /\ merged'[g] = merged[g]
      /\ \A g \in G : /\ count'[g] = count[g] + Cardinality(EventsIn(w, g))
                      /\ errors'[g] = errors[g] + Cardinality({e \in EventsIn(w, g) : ev[e].error})
                      /\ hist'[g] = Merged(hist[g], Histogram(EventsIn(w, g)))
                      /\ merged'[g] = merged[g] \cup EventsIn(w, g)
  <2> HIDE DEF StatsInv, StatsTypeOK
  <2> QED
    BY <1>1 DEF MergeStats
<1>3. PICK s \in {"stage", "read"} : pc' = [pc EXCEPT ![w] = s]
  BY DEF MergeStats
<1>4. pc[w] = "merge" /\ UNCHANGED <<ev, taken, live, keyOf, groupSeq, replica, staging, projStat, batch, att,
                                     doomed, lost, aged>> /\ old' \subseteq old
  BY DEF MergeStats
<1>5. \A v \in Workers : v # w => pc'[v] = pc[v]
  BY <1>3
<1>6. pc'[w] = s
  BY <1>3
<1>7. ASSUME NEW g \in GroupIds
      PROVE  EventsIn(w, g) \subseteq batch[w] /\ EventsIn(w, g) \subseteq 1..taken /\ EventsIn(w, g) \cap merged[g] = {}
  BY <1>4 DEF EventsIn, MergedOnce, BeforeMerge
<1>8. BeliefsAreRows'
  BY <1>4 DEF BeliefsAreRows, IsRow
<1>9. BatchesDisjoint'
  BY <1>3, <1>4, <1>5, <1>6 DEF BatchesDisjoint
<1>10. MergedOnce'
  <2>1. ASSUME NEW v \in Workers, pc'[v] \in BeforeMerge, NEW g \in GroupIds PROVE batch'[v] \cap merged'[g] = {}
    <3>1. v # w
      BY <1>3, <1>6, <2>1 DEF BeforeMerge
    <3>2. batch[v] \cap merged[g] = {} /\ batch[v] \cap batch[w] = {}
      BY <1>5, <2>1, <3>1 DEF MergedOnce, BatchesDisjoint
    <3>3. merged'[g] \subseteq merged[g] \cup batch[w]
      BY <1>2, <1>7
    <3> QED
      BY <1>4, <3>2, <3>3
  <2> QED
    BY <2>1 DEF MergedOnce
<1>11. ColumnsExact'
  <2>1. SUFFICES \A g \in GroupIds :
                 /\ count'[g] = Cardinality(merged'[g])
                 /\ errors'[g] = Cardinality({e \in merged'[g] : ev[e].error})
                 /\ hist'[g] = Histogram(merged'[g])
                 /\ \A e \in merged'[g] : IsRow(g, ev[e].key)
    <3>1. \A g \in GroupIds : Histogram(merged[g])' = Histogram(merged'[g])
      BY <1>4 DEF Histogram
    <3>2. \A g \in GroupIds : {e \in merged'[g] : ev'[e].error} = {e \in merged'[g] : ev[e].error}
      BY <1>4
    <3>3. \A g \in GroupIds : \A e \in merged'[g] : IsRow(g, ev[e].key) <=> g \in 1..groupSeq' /\ keyOf'[g] = ev'[e].key
      BY <1>4 DEF IsRow
    <3> HIDE DEF StatsInv, StatsTypeOK
    <3> QED
      BY <2>1, <3>1, <3>2, <3>3 DEF ColumnsExact, IsRow
  <2> TAKE g \in GroupIds
  <2>2. /\ count[g] = Cardinality(merged[g]) /\ errors[g] = Cardinality({e \in merged[g] : ev[e].error})
        /\ hist[g] = Histogram(merged[g]) /\ \A e \in merged[g] : IsRow(g, ev[e].key)
    BY DEF ColumnsExact
  <2>3. CASE g \notin G
    BY <1>2, <2>2, <2>3
  <2>4. CASE g \in G
    <3>1. PICK E : E = EventsIn(w, g) /\ E \subseteq 1..taken /\ E \cap merged[g] = {}
      BY <1>7
    <3>2. merged'[g] = merged[g] \cup E
      BY <1>2, <2>4, <3>1
    <3>3. ASSUME NEW e \in E PROVE IsRow(g, ev[e].key)
      <4>1. att[w][ev[e].key] = g /\ ev[e].key \in Keys /\ g # NoGroup
        <5>1. e \in batch[w] /\ att[w][ev[e].key] = g
          BY <3>1 DEF EventsIn
        <5>2. e \in 1..taken
          BY <5>1
        <5> QED
          BY <1>1, <1>20, <2>4, <5>1, <5>2 DEF Transaction
      <4> QED
        BY <4>1 DEF BeliefsAreRows
    <3>4. /\ count'[g] = count[g] + Cardinality(E)
          /\ errors'[g] = errors[g] + Cardinality({e \in E : ev[e].error})
          /\ hist'[g] = Merged(hist[g], Histogram(E))
      BY <1>2, <2>4, <3>1
    <3> HIDE DEF StatsInv, StatsTypeOK
    <3>5. /\ count[g] + Cardinality(E) = Cardinality(merged[g] \cup E)
          /\ errors[g] + Cardinality({e \in E : ev[e].error})
               = Cardinality({e \in merged[g] \cup E : ev[e].error})
          /\ Merged(hist[g], Histogram(E)) = Histogram(merged[g] \cup E)
      BY <1>0, <2>2, <3>1, MergedColumns
    <3> QED
      BY <2>2, <3>2, <3>3, <3>4, <3>5
  <2> QED
    BY <2>3, <2>4
<1>12. ASSUME aged' = 0, lost' = {} PROVE NothingMissing'
  <2>1. NothingMissing
    BY <1>4, <1>12
  <2>2. RowsStay'
    BY <1>4, <2>1 DEF NothingMissing, RowsStay
  <2>3. RowsFound'
    <3>1. \A v \in Workers : Missing(v)' = Missing(v)
      BY <1>4 DEF Missing, KeysOf
    <3>2. "merge" \in Attached /\ pc'[w] # "refetch"
      BY <1>6 DEF Attached
    <3>3. ASSUME NEW v \in Workers PROVE RowsFoundBy(v)'
      <4>1. RowsFoundBy(v) /\ RowsFoundBy(w)
        BY <2>1 DEF NothingMissing, RowsFound, RowsFoundBy
      <4>2. CASE v = w
        BY <1>4, <3>2, <4>1, <4>2 DEF RowsFoundBy
      <4>3. CASE v # w
        BY <1>4, <1>5, <3>1, <4>1, <4>3 DEF RowsFoundBy
      <4> QED
        BY <4>2, <4>3
    <3> QED
      BY <3>3 DEF RowsFound, RowsFoundBy
  <2>4. ASSUME NEW e \in batch[w] PROVE InGroups(e)'
    <3>1. PICK g : g = att[w][ev[e].key]
      OBVIOUS
    <3>2. g \in live
      BY <1>4, <2>1, <3>1 DEF NothingMissing, RowsFound, Attached
    <3>3. g \in GroupIds /\ g # NoGroup
      BY <1>20, <3>2
    <3>4. g \in GroupsOf(w) /\ e \in EventsIn(w, g)
      BY <3>1, <3>3 DEF GroupsOf, KeysOf, EventsIn
    <3>5. e \in merged'[g]
      BY <1>1, <1>2, <3>2, <3>3, <3>4
    <3> QED
      BY <1>4, <3>2, <3>5 DEF InGroups
  <2>5. ASSUME NEW e, InGroups(e) PROVE InGroups(e)'
    BY <1>2, <1>4, <1>20, <2>5 DEF InGroups
  <2>6. MergedExact'
    BY <1>4, <1>5, <2>1, <2>4, <2>5 DEF NothingMissing, MergedExact
  <2>7. StagedExact' /\ BilledExact'
    BY <1>3, <1>4, <1>5, <1>6, <2>1 DEF NothingMissing, StagedExact, BilledExact, Billed
  <2> QED
    BY <2>2, <2>3, <2>6, <2>7 DEF NothingMissing
<1> QED
  BY <1>8, <1>9, <1>10, <1>11, <1>12

\* Span staging: the batch's transactions that have a row.
LEMMA StatsInsertStaging ==
  ASSUME StatsInv, StatsTypeOK', NEW w \in Workers, InsertStaging(w)
  PROVE  StatsInv'
<1>0. StatsTypeOK /\ StatsTypeOK' /\ ColumnsExact
  BY DEF StatsInv
<1> USE DEF StatsInv, StatsTypeOK
<1>1. /\ pc[w] = "stage" /\ pc' = [pc EXCEPT ![w] = "stats"] /\ staging' = staging \cup Grouped(w)
      /\ UNCHANGED <<Rows, replica, projStat, batch, att, doomed, merged, lost, aged>>
  BY DEF InsertStaging, groupVars, histVars, Rows
<1>2. \A v \in Workers : v # w => pc'[v] = pc[v]
  BY <1>1
<1>3. pc'[w] = "stats"
  BY <1>1
<1>4. UNCHANGED <<ev, taken, live, keyOf, groupSeq, count, errors, hist, old>>
  BY <1>1 DEF Rows
<1>5. BeliefsAreRows'
  BY <1>1, <1>4 DEF BeliefsAreRows, IsRow
<1>6. BatchesDisjoint' /\ MergedOnce'
  BY <1>1, <1>2, <1>3 DEF BatchesDisjoint, MergedOnce, BeforeMerge
<1>7. ColumnsExact'
  <2>1. taken <= taken' /\ (\A e \in 1..taken : ev'[e] = ev[e]) /\ UNCHANGED <<count, errors, hist, merged>>
    BY <1>1, <1>4
  <2>2. \A g, k : IsRow(g, k) => IsRow(g, k)'
    BY <1>4 DEF IsRow
  <2> HIDE DEF StatsTypeOK
  <2> QED
    BY <1>0, <2>1, <2>2, QuietColumns
<1>8. ASSUME aged' = 0, lost' = {} PROVE NothingMissing'
  <2>1. NothingMissing
    BY <1>1, <1>8
  <2>2. RowsStay'
    BY <1>1, <1>4, <2>1 DEF NothingMissing, RowsStay
  <2>3. \A v \in Workers : RowsFoundBy(v)
    BY <2>1 DEF NothingMissing, RowsFound, RowsFoundBy
  <2>4. ASSUME NEW v \in Workers PROVE RowsFoundBy(v)'
    <3>1. Missing(v)' = Missing(v)
      BY <1>1, <1>4 DEF Missing, KeysOf
    <3> QED
      BY <1>1, <1>2, <1>3, <1>4, <2>3, <3>1 DEF RowsFoundBy, Attached
  <2>5. MergedExact'
    BY <1>1, <1>2, <1>4, <2>1 DEF NothingMissing, MergedExact, InGroups, BeforeMerge
  <2>6. ASSUME NEW e \in batch[w] PROVE e \in staging'
    <3>1. att[w][ev[e].key] \in live
      BY <1>1, <2>3 DEF RowsFoundBy, Attached
    <3>2. 0 \notin live
      OBVIOUS
    <3> QED
      BY <1>1, <3>1, <3>2 DEF Grouped, NoGroup
  <2>7. StagedExact'
    BY <1>1, <1>2, <1>4, <2>1, <2>6 DEF NothingMissing, StagedExact
  <2>8. BilledExact'
    BY <1>1, <1>4, <2>1 DEF NothingMissing, BilledExact, Billed
  <2> QED
    BY <2>2, <2>4, <2>5, <2>7, <2>8 DEF NothingMissing, RowsFound, RowsFoundBy
<1> QED
  BY <1>5, <1>6, <1>7, <1>8

\* The end of a task, whatever it leaves in the statistic: the worker is idle,
\* its batch forgotten.
LEMMA StatsTaskEnds ==
  ASSUME StatsInv, StatsTypeOK', NEW w \in Workers, ResetWorker(w), pc[w] # "idle",
         UNCHANGED <<Rows, replica, staging, doomed, merged>>,
         aged' = 0 /\ lost' = {} => aged = 0 /\ lost = {} /\ pc[w] = "stats" /\ BilledExact'
  PROVE  StatsInv'
<1>0. StatsTypeOK /\ StatsTypeOK' /\ ColumnsExact
  BY DEF StatsInv
<1> USE DEF StatsInv, StatsTypeOK
<1>1. \A v \in Workers : v # w => pc'[v] = pc[v] /\ batch'[v] = batch[v] /\ att'[v] = att[v]
  BY DEF ResetWorker
<1>2. pc'[w] = "idle" /\ batch'[w] = {} /\ att'[w] = [k \in Keys |-> NoGroup]
  BY DEF ResetWorker
<1>4. UNCHANGED <<ev, taken, live, keyOf, groupSeq, count, errors, hist, old>>
  BY DEF Rows
<1>5. BeliefsAreRows'
  <2>1. \A v \in Workers, k \in Keys : att'[v][k] # NoGroup => att'[v][k] = att[v][k]
    BY <1>1, <1>2
  <2> QED
    BY <1>4, <2>1 DEF BeliefsAreRows, IsRow
<1>6. BatchesDisjoint' /\ MergedOnce'
  BY <1>1, <1>2 DEF BatchesDisjoint, MergedOnce, BeforeMerge
<1>7. ColumnsExact'
  <2>1. taken <= taken' /\ (\A e \in 1..taken : ev'[e] = ev[e]) /\ UNCHANGED <<count, errors, hist, merged>>
    BY <1>4
  <2>2. \A g, k : IsRow(g, k) => IsRow(g, k)'
    BY <1>4 DEF IsRow
  <2> HIDE DEF StatsTypeOK
  <2> QED
    BY <1>0, <2>1, <2>2, QuietColumns
<1>8. ASSUME aged' = 0, lost' = {} PROVE NothingMissing'
  <2>1. NothingMissing /\ pc[w] = "stats" /\ BilledExact'
    BY <1>8
  <2>2. RowsStay'
    BY <1>4, <2>1 DEF NothingMissing, RowsStay
  <2>3. ASSUME NEW v \in Workers PROVE RowsFoundBy(v)'
    <3>1. CASE v = w
      BY <1>2, <3>1 DEF RowsFoundBy, Attached
    <3>2. CASE v # w
      <4>1. pc'[v] = pc[v] /\ att'[v] = att[v] /\ batch'[v] = batch[v]
        BY <1>1, <3>2
      <4>2. Missing(v)' = Missing(v)
        BY <1>4, <4>1 DEF Missing, KeysOf
      <4>3. RowsFoundBy(v)
        BY <2>1 DEF NothingMissing, RowsFound, RowsFoundBy
      <4> QED
        BY <1>4, <4>1, <4>2, <4>3 DEF RowsFoundBy
    <3> QED
      BY <3>1, <3>2
  <2>4. MergedExact'
    BY <1>1, <1>4, <2>1 DEF NothingMissing, MergedExact, InGroups, BeforeMerge
  <2>5. StagedExact'
    BY <1>1, <1>4, <2>1 DEF NothingMissing, StagedExact
  <2> QED
    BY <2>1, <2>2, <2>3, <2>4, <2>5 DEF NothingMissing, RowsFound, RowsFoundBy
<1> QED
  BY <1>5, <1>6, <1>7, <1>8

\* one that counts its batch,
LEMMA StatsUpdateStatistics ==
  ASSUME StatsInv, StatsTypeOK', NEW w \in Workers, UpdateStatistics(w)
  PROVE  StatsInv'
<1>1. /\ pc[w] = "stats" /\ projStat' = projStat + Cardinality(Grouped(w)) /\ ResetWorker(w)
      /\ UNCHANGED <<Rows, replica, staging, doomed, merged, lost, aged>>
  BY DEF UpdateStatistics, groupVars, histVars, Rows
<1>2. ASSUME aged = 0, lost = {} PROVE BilledExact'
  <2>1. NothingMissing /\ StatsTypeOK /\ BatchesDisjoint
    BY <1>2 DEF StatsInv
  <2>2. /\ batch' = [batch EXCEPT ![w] = {}] /\ taken' = taken
        /\ batch \in [Workers -> SUBSET (1..taken)] /\ taken \in Nat /\ 0 \notin live
    BY <1>1, <2>1, StatsAssumption DEF ResetWorker, Rows, StatsTypeOK
  <2>3. Grouped(w) = batch[w]
    BY <1>1, <2>1, <2>2 DEF NothingMissing, RowsFound, Attached, Grouped, NoGroup
  <2>4. PICK A, B : A = Billed /\ B = batch[w]
    OBVIOUS
  <2>5. Billed' = A \cup B
    <3>1. \A v \in Workers : v # w => batch'[v] = batch[v] /\ batch[v] \cap batch[w] = {}
      BY <2>1, <2>2 DEF BatchesDisjoint
    <3>2. batch'[w] = {}
      BY <2>2
    <3>3. batch[w] \subseteq 1..taken
      BY <2>2
    <3> QED
      BY <2>2, <2>4, <3>1, <3>2, <3>3 DEF Billed
  <2>6. A \cap B = {} /\ A \subseteq 1..taken /\ B \subseteq 1..taken
    BY <2>2, <2>4 DEF Billed
  <2>7. Cardinality(A \cup B) = Cardinality(A) + Cardinality(B)
    BY <2>2, <2>6, DisjointTaken
  <2> QED
    BY <1>1, <2>1, <2>3, <2>4, <2>5, <2>7 DEF NothingMissing, BilledExact
<1>3. pc[w] # "idle"
  BY <1>1
<1> QED
  BY <1>1, <1>2, <1>3, StatsTaskEnds

\* one whose batch fails,
LEMMA StatsFailBatch ==
  ASSUME StatsInv, StatsTypeOK', NEW w \in Workers, FailBatch(w)
  PROVE  StatsInv'
<1>1. /\ pc[w] # "idle" /\ ResetWorker(w) /\ lost' = lost \cup batch[w]
      /\ UNCHANGED <<Rows, replica, staging, doomed, merged>>
  BY DEF FailBatch, groupVars, histVars, Rows
<1>2. batch[w] # {}
  BY <1>1 DEF StatsInv, BatchesDisjoint
<1>3. lost' # {}
  BY <1>1, <1>2
<1> QED
  BY <1>1, <1>3, StatsTaskEnds
--------------------------------------------------------------------------------
(***************************************************************************)
(* Maintenance and the replica                                             *)
(***************************************************************************)
\* Deleting rows disturbs nothing that holds of the rows there were; that none
\* is missing is claimed only while none has aged.
LEMMA StatsMaintenance ==
  ASSUME StatsInv, StatsTypeOK', Maintenance
  PROVE  StatsInv'
<1>0. StatsTypeOK /\ StatsTypeOK' /\ ColumnsExact
  BY DEF StatsInv
<1>1. /\ UNCHANGED <<ev, taken, keyOf, groupSeq, count, errors, hist, replica, staging, projStat,
                    pc, batch, att, merged, lost>>
      /\ aged' = 0 => aged = 0 /\ old' \subseteq old /\ doomed' \subseteq old \cup doomed
                      /\ (doomed = {} => live' = live)
  <2>1. ASSUME NEW g \in GroupIds, Age(g) PROVE aged' # 0
    BY <1>0, <2>1 DEF Age, StatsTypeOK
  <2>2. CASE \E g \in GroupIds : Age(g)
    BY <2>1, <2>2 DEF Age, workerVars
  <2>3. CASE ReadOldGroups
    BY <2>3 DEF ReadOldGroups, groupVars, workerVars, histVars
  <2>4. CASE DeleteOldGroups
    BY <2>4 DEF DeleteOldGroups, workerVars, histVars
  <2> QED
    BY <2>2, <2>3, <2>4 DEF Maintenance
<1> USE DEF StatsInv
<1>2. BeliefsAreRows' /\ BatchesDisjoint' /\ MergedOnce'
  BY <1>1 DEF BeliefsAreRows, IsRow, BatchesDisjoint, MergedOnce
<1>3. ColumnsExact'
  <2>1. taken <= taken' /\ (\A e \in 1..taken : ev'[e] = ev[e]) /\ UNCHANGED <<count, errors, hist, merged>>
    BY <1>0, <1>1, StatsAssumption DEF StatsTypeOK
  <2>2. \A g, k : IsRow(g, k) => IsRow(g, k)'
    BY <1>1 DEF IsRow
  <2> QED
    BY <1>0, <2>1, <2>2, QuietColumns
<1>4. ASSUME aged' = 0, lost' = {} PROVE NothingMissing'
  <2>1. NothingMissing
    BY <1>1, <1>4
  <2>2. UNCHANGED <<live, old, doomed>>
    BY <1>1, <1>4, <2>1 DEF NothingMissing, RowsStay
  <2>3. \A w \in Workers : Missing(w)' = Missing(w)
    BY <1>1 DEF Missing, KeysOf
  <2> QED
    BY <1>1, <2>1, <2>2, <2>3 DEF NothingMissing, RowsStay, RowsFound, MergedExact, InGroups, StagedExact,
                                  BilledExact, Billed
<1> QED
  BY <1>0, <1>2, <1>3, <1>4

\* and a replica that catches up.
LEMMA StatsReplicaCatchUp ==
  ASSUME StatsInv, StatsTypeOK', ReplicaCatchUp
  PROVE  StatsInv'
<1>0. StatsTypeOK /\ StatsTypeOK' /\ ColumnsExact
  BY DEF StatsInv
<1>1. /\ replica' = [k \in Keys |-> RowOf(k)]
      /\ UNCHANGED <<ev, taken, live, keyOf, groupSeq, count, errors, hist, old, staging, projStat, pc, batch, att,
                    doomed, merged, lost, aged>>
  BY DEF ReplicaCatchUp, groupVars, workerVars, histVars
<1> USE DEF StatsInv
<1>2. BeliefsAreRows'
  <2>1. ASSUME NEW k \in Keys, replica'[k] # NoGroup PROVE replica'[k] \in 1..groupSeq /\ keyOf[replica'[k]] = k
    BY <1>0, <1>1, <2>1, RowOfIs DEF IsRow
  <2> QED
    BY <1>1, <2>1 DEF BeliefsAreRows, IsRow
<1>3. BatchesDisjoint' /\ MergedOnce'
  BY <1>1 DEF BatchesDisjoint, MergedOnce
<1>4. ColumnsExact'
  <2>1. taken <= taken' /\ (\A e \in 1..taken : ev'[e] = ev[e]) /\ UNCHANGED <<count, errors, hist, merged>>
    BY <1>0, <1>1, StatsAssumption DEF StatsTypeOK
  <2>2. \A g, k : IsRow(g, k) => IsRow(g, k)'
    BY <1>1 DEF IsRow
  <2> QED
    BY <1>0, <2>1, <2>2, QuietColumns
<1>5. ASSUME aged' = 0, lost' = {} PROVE NothingMissing'
  <2>1. NothingMissing
    BY <1>1, <1>5
  <2>2. \A w \in Workers : Missing(w)' = Missing(w)
    BY <1>1 DEF Missing, KeysOf
  <2> QED
    BY <1>1, <2>1, <2>2 DEF NothingMissing, RowsStay, RowsFound, MergedExact, InGroups, StagedExact,
                            BilledExact, Billed
<1> QED
  BY <1>0, <1>2, <1>3, <1>4, <1>5
--------------------------------------------------------------------------------
(***************************************************************************)
(* Types                                                                   *)
(***************************************************************************)
LEMMA TakeBatchTypes ==
  ASSUME StatsTypeOK, NEW w \in Workers, NEW n \in 1..MaxBatch, NEW txns \in [1..n -> Transaction],
         TakeBatch(w, txns)
  PROVE  StatsTypeOK'
<1> USE StatsAssumption DEF StatsTypeOK
<1>1. PICK t \in 0..MaxEvents : t = taken
  OBVIOUS
<1>2. DOMAIN txns = 1..n /\ n \in Nat \ {0} /\ Cardinality(DOMAIN txns) = n
  BY FS_Interval
<1>3. /\ taken' = t + n /\ taken' <= MaxEvents
      /\ batch' = [batch EXCEPT ![w] = t + 1 .. t + n] /\ pc' = [pc EXCEPT ![w] = "fetch"]
      /\ ev' = [e \in 1..(t + n) |-> IF e <= t THEN ev[e] ELSE txns[e - t]]
      /\ UNCHANGED <<groupVars, replica, staging, projStat, att, doomed, histVars>>
  BY <1>1, <1>2 DEF TakeBatch
<1>4. taken' \in 0..MaxEvents
  BY <1>1, <1>2, <1>3
<1>5. ev' \in [1..taken' -> Transaction]
  <2>1. ASSUME NEW e \in 1..(t + n) PROVE (IF e <= t THEN ev[e] ELSE txns[e - t]) \in Transaction
    <3>1. CASE e <= t
      BY <1>1, <3>1
    <3>2. CASE ~(e <= t)
      <4>1. e - t \in 1..n
        BY <1>1, <1>2, <3>2
      <4> QED
        BY <3>2, <4>1
    <3> QED
      BY <3>1, <3>2
  <2> HIDE DEF StatsTypeOK
  <2> QED
    BY <1>3, <2>1
<1>6. (1..t) \subseteq (1..taken') /\ (t + 1 .. t + n) \subseteq (1..taken')
  BY <1>1, <1>2, <1>3
<1>7. batch' \in [Workers -> SUBSET (1..taken')] /\ staging' \subseteq 1..taken'
      /\ merged' \in [GroupIds -> SUBSET (1..taken')] /\ lost' \subseteq 1..taken'
  BY <1>1, <1>3, <1>6 DEF histVars
<1>8. pc' \in [Workers -> Steps]
  BY <1>3 DEF Steps
<1> QED
  BY <1>3, <1>4, <1>5, <1>7, <1>8 DEF groupVars, histVars

\* The types after the groups of a batch are inserted,
LEMMA InsertGroupsTypes ==
  ASSUME StatsTypeOK, NEW w \in Workers, InsertGroups(w)
  PROVE  StatsTypeOK'
<1> USE StatsAssumption DEF StatsTypeOK
<1>1. PICK t \in 0..MaxGroups : t = groupSeq
  OBVIOUS
<1>2. ToInsert(w) \subseteq Keys
  BY DEF ToInsert, Missing, KeysOf, Transaction
<1>3. PICK n \in Nat : n = Cardinality(ToInsert(w))
  BY <1>2, FS_Subset, FS_CardinalityType
<1>4. PICK f \in [t + 1 .. t + n -> ToInsert(w)] :
        keyOf' = [g \in 1 .. t + n |-> IF g <= t THEN keyOf[g] ELSE f[g]]
  <2> HIDE DEF StatsTypeOK
  <2> QED
    BY <1>1, <1>3 DEF InsertGroups
<1>5. /\ groupSeq' = t + n /\ groupSeq' <= MaxGroups /\ live' = live \cup (t + 1 .. t + n)
      /\ pc' = [pc EXCEPT ![w] = "refetch"]
      /\ UNCHANGED <<ev, taken, count, errors, hist, old, replica, staging, projStat, batch, att, doomed, histVars>>
  BY <1>1, <1>3 DEF InsertGroups
<1>6. keyOf' \in [1..groupSeq' -> Keys]
  <2>1. ASSUME NEW g \in 1 .. t + n PROVE (IF g <= t THEN keyOf[g] ELSE f[g]) \in Keys
    <3>1. CASE g <= t
      BY <1>1, <3>1
    <3>2. CASE ~(g <= t)
      <4>1. g \in t + 1 .. t + n
        BY <3>2
      <4> QED
        BY <1>2, <3>2, <4>1
    <3> QED
      BY <3>1, <3>2
  <2> HIDE DEF StatsTypeOK
  <2> QED
    BY <1>4, <1>5, <2>1
<1>7. groupSeq' \in 0..MaxGroups /\ live' \subseteq 1..groupSeq'
  BY <1>1, <1>5
<1>8. pc' \in [Workers -> Steps]
  BY <1>5 DEF Steps
<1> QED
  BY <1>5, <1>6, <1>7, <1>8 DEF histVars

\* looked up,
LEMMA FetchTypes ==
  ASSUME StatsTypeOK, NEW w \in Workers, FetchGroups(w) \/ Refetch(w)
  PROVE  StatsTypeOK'
<1>1. ASSUME NEW k \in Keys
      PROVE  RowOf(k) \in 0..MaxGroups /\ replica[k] \in 0..MaxGroups /\ att[w][k] \in 0..MaxGroups
             /\ NoGroup \in 0..MaxGroups
  <2>1. RowOf(k) \in 0..MaxGroups
    BY RowOfIs
  <2> QED
    BY <2>1, StatsAssumption DEF StatsTypeOK, NoGroup
<1>2. PICK f \in [Keys -> 0..MaxGroups] : att' = [att EXCEPT ![w] = f]
  <2>1. CASE FetchGroups(w)
    BY <1>1, <2>1 DEF FetchGroups
  <2>2. CASE Refetch(w)
    BY <1>1, <2>2 DEF Refetch, ReadBack
  <2> QED
    BY <2>1, <2>2
<1>3. PICK s \in Steps : pc' = [pc EXCEPT ![w] = s]
  BY DEF FetchGroups, Refetch, Steps
<1>4. UNCHANGED <<ev, taken, groupVars, replica, staging, projStat, batch, doomed, histVars>>
  BY DEF FetchGroups, Refetch
<1> QED
  BY <1>2, <1>3, <1>4 DEF StatsTypeOK, groupVars, histVars

\* merged,
LEMMA MergeTypes ==
  ASSUME StatsTypeOK, NEW w \in Workers, MergeStats(w)
  PROVE  StatsTypeOK'
<1>1. taken \in Nat /\ batch[w] \subseteq 1..taken
  BY StatsAssumption DEF StatsTypeOK
<1>2. ASSUME NEW S, S \subseteq batch[w] PROVE Cardinality(S) \in Nat
  BY <1>1, <1>2, TakenFinite
<1>3. ASSUME NEW g \in GroupIds
      PROVE  /\ EventsIn(w, g) \subseteq batch[w] /\ Cardinality(EventsIn(w, g)) \in Nat
             /\ Cardinality({e \in EventsIn(w, g) : ev[e].error}) \in Nat
             /\ Histogram(EventsIn(w, g)) \in [Buckets -> Nat]
  <2>1. EventsIn(w, g) \subseteq batch[w]
    BY DEF EventsIn
  <2>2. \A b \in Buckets : Cardinality({e \in EventsIn(w, g) : ev[e].bucket = b}) \in Nat
    BY <1>2, <2>1
  <2>3. {e \in EventsIn(w, g) : ev[e].error} \subseteq batch[w]
    BY <2>1
  <2> QED
    BY <1>2, <2>1, <2>2, <2>3 DEF Histogram
<1>4. count' \in [GroupIds -> Nat] /\ errors' \in [GroupIds -> Nat]
  <2>1. PICK G : G = GroupsOf(w) \cap live
    OBVIOUS
  <2>2. \A g \in GroupIds : count[g] \in Nat /\ errors[g] \in Nat
    BY DEF StatsTypeOK
  <2>3. PICK c, d : /\ c = [g \in GroupIds |-> Cardinality(EventsIn(w, g))]
                    /\ d = [g \in GroupIds |-> Cardinality({e \in EventsIn(w, g) : ev[e].error})]
    OBVIOUS
  <2>4. \A g \in GroupIds : c[g] \in Nat /\ d[g] \in Nat
    BY <1>3, <2>3
  <2>5. /\ count' = [g \in GroupIds |-> IF g \in G THEN count[g] + c[g] ELSE count[g]]
        /\ errors' = [g \in GroupIds |-> IF g \in G THEN errors[g] + d[g] ELSE errors[g]]
    BY <2>1, <2>3 DEF MergeStats
  <2> QED
    BY <2>2, <2>4, <2>5
<1>5. hist' \in [GroupIds -> [Buckets -> Nat]]
  <2>1. ASSUME NEW g \in GroupIds PROVE Merged(hist[g], Histogram(EventsIn(w, g))) \in [Buckets -> Nat]
    <3>1. hist[g] \in [Buckets -> Nat] /\ Histogram(EventsIn(w, g)) \in [Buckets -> Nat]
      BY <1>3 DEF StatsTypeOK
    <3> QED
      BY <3>1 DEF Merged
  <2> QED
    BY <2>1 DEF MergeStats, StatsTypeOK
<1>6. merged' \in [GroupIds -> SUBSET (1..taken)]
  BY <1>1, <1>3 DEF MergeStats, StatsTypeOK
<1>7. pc' \in [Workers -> Steps] /\ old' \subseteq GroupIds
  BY DEF MergeStats, StatsTypeOK, Steps
<1>8. UNCHANGED <<ev, taken, live, keyOf, groupSeq, replica, staging, projStat, batch, att, doomed, lost, aged, failures>>
  BY DEF MergeStats
<1> QED
  BY <1>4, <1>5, <1>6, <1>7, <1>8 DEF StatsTypeOK

\* after the later steps of a worker,
LEMMA WorkerEndTypes ==
  ASSUME StatsTypeOK, NEW w \in Workers,
         ReadHistogram(w) \/ WritePercentiles(w) \/ InsertStaging(w) \/ UpdateStatistics(w) \/ FailBatch(w)
  PROVE  StatsTypeOK'
<1>1. taken \in Nat /\ batch[w] \subseteq 1..taken /\ Grouped(w) \subseteq batch[w] /\ NoGroup \in 0..MaxGroups
  BY StatsAssumption DEF StatsTypeOK, Grouped, NoGroup
<1>2. Cardinality(Grouped(w)) \in Nat
  BY <1>1, TakenFinite
<1>3. CASE ReadHistogram(w) \/ WritePercentiles(w)
  BY <1>3 DEF ReadHistogram, WritePercentiles, StatsTypeOK, Steps, groupVars, histVars
<1>4. CASE InsertStaging(w)
  BY <1>1, <1>4 DEF InsertStaging, StatsTypeOK, Steps, groupVars, histVars
<1>5. CASE UpdateStatistics(w)
  BY <1>1, <1>2, <1>5 DEF UpdateStatistics, ResetWorker, StatsTypeOK, Steps, groupVars, histVars
<1>6. CASE FailBatch(w)
  <2>1. /\ pc' = [pc EXCEPT ![w] = "idle"] /\ batch' = [batch EXCEPT ![w] = {}]
        /\ att' = [att EXCEPT ![w] = [k \in Keys |-> NoGroup]]
        /\ lost' = lost \cup batch[w] /\ failures' = failures + 1
        /\ UNCHANGED <<ev, taken, live, keyOf, groupSeq, count, errors, hist, old, replica, staging, projStat,
                       doomed, merged, aged>>
    BY <1>6 DEF FailBatch, ResetWorker, groupVars
  <2>2. failures' \in Nat
    BY <2>1 DEF StatsTypeOK
  <2>3. pc' \in [Workers -> Steps] /\ batch' \in [Workers -> SUBSET (1..taken)]
        /\ att' \in [Workers -> [Keys -> 0..MaxGroups]] /\ lost' \subseteq 1..taken
    BY <1>1, <2>1 DEF StatsTypeOK, Steps
  <2> QED
    BY <2>1, <2>2, <2>3 DEF StatsTypeOK
<1> QED
  BY <1>3, <1>4, <1>5, <1>6

\* and after maintenance.
LEMMA MaintenanceTypes ==
  ASSUME StatsTypeOK, Maintenance \/ ReplicaCatchUp
  PROVE  StatsTypeOK'
<1>1. ASSUME NEW g \in GroupIds, Age(g) PROVE StatsTypeOK'
  <2>1. old' \subseteq GroupIds /\ aged' \in Nat
    BY <1>1 DEF Age, StatsTypeOK
  <2> QED
    BY <1>1, <2>1 DEF Age, StatsTypeOK, workerVars
<1>2. CASE ReadOldGroups
  BY <1>2 DEF ReadOldGroups, StatsTypeOK, groupVars, workerVars, histVars
<1>3. CASE DeleteOldGroups
  BY <1>3 DEF DeleteOldGroups, StatsTypeOK, workerVars, histVars
<1>4. CASE ReplicaCatchUp
  <2>1. \A k \in Keys : RowOf(k) \in 0..MaxGroups
    BY RowOfIs
  <2> QED
    BY <1>4, <2>1 DEF ReplicaCatchUp, StatsTypeOK, groupVars, workerVars, histVars
<1> QED
  BY <1>1, <1>2, <1>3, <1>4 DEF Maintenance
--------------------------------------------------------------------------------
\* The invariant holds at the start.
LEMMA StatsInitInv == StatsInit => StatsInv
<1> SUFFICES ASSUME StatsInit PROVE StatsInv
  OBVIOUS
<1>1. StatsTypeOK
  <2>1. groupSeq = 0 /\ taken = 0 /\ live = {} /\ batch = [w \in Workers |-> {}] /\ merged = [g \in GroupIds |-> {}]
    BY DEF StatsInit
  <2>2. ev \in [1..taken -> Transaction] /\ keyOf \in [1..groupSeq -> Keys]
    BY <2>1 DEF StatsInit
  <2>3. hist \in [GroupIds -> [Buckets -> Nat]]
    BY DEF StatsInit, EmptyHistogram
  <2> QED
    BY <2>1, <2>2, <2>3, StatsAssumption DEF StatsInit, StatsTypeOK, NoGroup, Steps
<1>2. BeliefsAreRows
  BY DEF StatsInit, BeliefsAreRows
<1>3. BatchesDisjoint /\ MergedOnce
  BY DEF StatsInit, BatchesDisjoint, MergedOnce
<1>4. ColumnsExact
  <2>1. SUFFICES ASSUME NEW g \in GroupIds
        PROVE  /\ count[g] = Cardinality(merged[g])
               /\ errors[g] = Cardinality({e \in merged[g] : ev[e].error})
               /\ hist[g] = Histogram(merged[g])
               /\ \A e \in merged[g] : IsRow(g, ev[e].key)
    BY DEF ColumnsExact
  <2>2. merged[g] = {} /\ count[g] = 0 /\ errors[g] = 0 /\ hist[g] = EmptyHistogram
    BY DEF StatsInit
  <2>3. \A b \in Buckets : {e \in merged[g] : ev[e].bucket = b} = {}
    BY <2>2
  <2>4. Cardinality({}) = 0
    BY FS_EmptySet
  <2>5. Histogram(merged[g]) = EmptyHistogram
    BY <2>3, <2>4 DEF Histogram, EmptyHistogram
  <2>6. {e \in merged[g] : ev[e].error} = {}
    BY <2>2
  <2> QED
    BY <2>2, <2>4, <2>5, <2>6
<1>5. NothingMissing
  <2>1. RowsStay
    BY DEF StatsInit, RowsStay
  <2>2. RowsFound
    BY DEF StatsInit, RowsFound, Attached
  <2>3. MergedExact /\ StagedExact
    BY DEF StatsInit, MergedExact, StagedExact
  <2>4. Billed = {}
    BY DEF StatsInit, Billed
  <2>5. BilledExact
    BY <2>4, FS_EmptySet DEF StatsInit, BilledExact
  <2> QED
    BY <2>1, <2>2, <2>3, <2>5 DEF NothingMissing
<1> QED
  BY <1>1, <1>2, <1>3, <1>4, <1>5 DEF StatsInv

\* Every step keeps it.
LEMMA StatsStep == StatsInv /\ [StatsNext]_statsVars => StatsInv'
<1> SUFFICES ASSUME StatsInv, [StatsNext]_statsVars PROVE StatsInv'
  OBVIOUS
<1>0. StatsTypeOK
  BY DEF StatsInv
<1>1. ASSUME NEW w \in Workers, NEW n \in 1..MaxBatch, NEW txns \in [1..n -> Transaction], TakeBatch(w, txns)
      PROVE  StatsInv'
  BY <1>0, <1>1, TakeBatchTypes, StatsTakeBatch
<1>2. ASSUME NEW w \in Workers, FetchGroups(w) PROVE StatsInv'
  BY <1>0, <1>2, FetchTypes, StatsFetchGroups
<1>3. ASSUME NEW w \in Workers, InsertGroups(w) PROVE StatsInv'
  BY <1>0, <1>3, InsertGroupsTypes, StatsInsertGroups
<1>4. ASSUME NEW w \in Workers, Refetch(w) PROVE StatsInv'
  BY <1>0, <1>4, FetchTypes, StatsRefetch
<1>5. ASSUME NEW w \in Workers, MergeStats(w) PROVE StatsInv'
  BY <1>0, <1>5, MergeTypes, StatsMergeStats
<1>6. ASSUME NEW w \in Workers, ReadHistogram(w) \/ WritePercentiles(w) PROVE StatsInv'
  BY <1>0, <1>6, WorkerEndTypes, StatsPercentiles
<1>7. ASSUME NEW w \in Workers, InsertStaging(w) PROVE StatsInv'
  BY <1>0, <1>7, WorkerEndTypes, StatsInsertStaging
<1>8. ASSUME NEW w \in Workers, UpdateStatistics(w) PROVE StatsInv'
  BY <1>0, <1>8, WorkerEndTypes, StatsUpdateStatistics
<1>9. ASSUME NEW w \in Workers, FailBatch(w) PROVE StatsInv'
  BY <1>0, <1>9, WorkerEndTypes, StatsFailBatch
<1>10. CASE Maintenance
  BY <1>0, <1>10, MaintenanceTypes, StatsMaintenance
<1>11. CASE ReplicaCatchUp
  BY <1>0, <1>11, MaintenanceTypes, StatsReplicaCatchUp
<1>12. CASE UNCHANGED statsVars
  <2>1. UNCHANGED <<ev, taken, live, keyOf, groupSeq, count, errors, hist, old, replica, staging, projStat,
                    pc, batch, att, doomed, merged, lost, aged, failures>>
    BY <1>12 DEF statsVars, groupVars, workerVars, histVars
  <2>2. StatsTypeOK' /\ BeliefsAreRows' /\ BatchesDisjoint' /\ MergedOnce'
    BY <2>1 DEF StatsInv, StatsTypeOK, BeliefsAreRows, IsRow, BatchesDisjoint, MergedOnce
  <2>3. ColumnsExact'
    BY <2>1 DEF StatsInv, ColumnsExact, IsRow, Histogram
  <2>4. \A w \in Workers : Missing(w)' = Missing(w)
    BY <2>1 DEF Missing, KeysOf
  <2>5. ASSUME aged' = 0, lost' = {} PROVE NothingMissing'
    BY <2>1, <2>4, <2>5 DEF StatsInv, NothingMissing, RowsStay, RowsFound, MergedExact, InGroups, StagedExact,
                            BilledExact, Billed
  <2> QED
    BY <2>2, <2>3, <2>5 DEF StatsInv
<1>13. CASE StreamEnded
  BY <1>12, <1>13 DEF StreamEnded
<1> QED
  BY <1>1, <1>2, <1>3, <1>4, <1>5, <1>6, <1>7, <1>8, <1>9, <1>10, <1>11, <1>12, <1>13 DEF StatsNext, WorkerStep

\* The rows' columns are those of the transactions merged into them, each of
\* them merged once, and as long as nothing aged and no task died no row and no
\* transaction is missing.
THEOREM StatsInvariant == StatsSpec => []StatsInv
<1>1. StatsInit => StatsInv
  BY StatsInitInv
<1>2. StatsInv /\ [StatsNext]_statsVars => StatsInv'
  BY StatsStep
<1> QED
  BY <1>1, <1>2, PTL DEF StatsSpec

\* It says that every transaction is counted once.
LEMMA StatsInvCounts == StatsInv => TransactionsCountedOnce
<1> SUFFICES ASSUME StatsInv PROVE TransactionsCountedOnce
  OBVIOUS
<1>0. StatsTypeOK /\ taken \in Nat
  BY StatsAssumption DEF StatsInv, StatsTypeOK
<1>1. live \subseteq GroupIds
  <2>1. groupSeq \in 0..MaxGroups /\ live \subseteq 1..groupSeq
    BY <1>0 DEF StatsTypeOK
  <2> QED
    BY <2>1, StatsAssumption DEF GroupIds
<1>2. StatsOfMergedEvents
  <2>1. ASSUME NEW g \in live
        PROVE  /\ count[g] = Cardinality(merged[g])
               /\ errors[g] = Cardinality({e \in merged[g] : ev[e].error})
               /\ hist[g] = Histogram(merged[g])
               /\ \A e \in merged[g] : IsRow(g, ev[e].key)
    BY <1>1 DEF StatsInv, ColumnsExact
  <2> QED
    BY <2>1 DEF StatsOfMergedEvents, IsRow
<1>3. ASSUME AllIdle, aged = 0, lost = {}
      PROVE  UNION {merged[g] : g \in live} = 1..taken /\ staging = 1..taken /\ projStat = taken
  <2>1. NothingMissing /\ \A w \in Workers : batch[w] = {}
    BY <1>3 DEF StatsInv, AllIdle, BatchesDisjoint
  <2>2. \A e \in 1..taken : InGroups(e) /\ e \in staging
    BY <2>1 DEF NothingMissing, MergedExact, StagedExact
  <2>3. \A g \in live : merged[g] \subseteq 1..taken
    BY <1>0, <1>1 DEF StatsTypeOK
  <2>4. UNION {merged[g] : g \in live} = 1..taken
    BY <2>2, <2>3 DEF InGroups
  <2>5. staging = 1..taken
    BY <1>0, <2>2 DEF StatsTypeOK
  <2>6. Billed = 1..taken
    BY <2>1 DEF Billed
  <2>7. Cardinality(1..taken) = taken
    BY <1>0, FS_Interval
  <2> QED
    BY <2>1, <2>4, <2>5, <2>6, <2>7 DEF NothingMissing, BilledExact
<1> QED
  BY <1>2, <1>3 DEF TransactionsCountedOnce, EveryTransactionCounted

\* process_transaction_events loses no transaction and counts none twice, in the
\* groups' columns, in span staging and in the billed statistic, whatever the
\* workers, their batches and the maintenance passes do in between.
THEOREM TransactionsCounted == StatsSpec => []TransactionsCountedOnce
<1>1. StatsInv => TransactionsCountedOnce
  BY StatsInvCounts
<1> QED
  BY <1>1, StatsInvariant, PTL
--------------------------------------------------------------------------------
\* A set of naturals has a least one: induction, in the form that takes a set
\* and not a predicate.
LEMMA LeastNatural == ASSUME NEW S, S \subseteq Nat, S # {} PROVE \E x \in S : \A y \in S : x <= y
<1>1. \A x, y \in Nat : <<y, x>> \in OpToRel(<, Nat) <=> y < x
  BY DEF OpToRel
<1>2. PICK x \in S : \A y \in S : ~(<<y, x>> \in OpToRel(<, Nat))
  BY NatLessThanWellFounded, WFMin
<1>3. ASSUME NEW y \in S PROVE x <= y
  <2>1. x \in Nat /\ y \in Nat /\ ~(y < x)
    BY <1>1, <1>2
  <2> QED
    BY <2>1
<1> QED
  BY <1>3

(***************************************************************************)
(* Percentiles                                                             *)
(***************************************************************************)
\* The equation of the running totals has one solution.
Running(sum, h) == sum = [b \in 0..NumBuckets |-> IF b = 0 THEN 0 ELSE sum[b - 1] + h[b]]

\* The running totals of a histogram are what Cumulative returns,
LEMMA RunningTotals ==
  ASSUME NEW h, NEW t, Running(t, h) PROVE Running(Cumulative(h), h)
<1>1. Cumulative(h) = CHOOSE s : Running(s, h)
  BY DEF Cumulative, Running
<1> QED
  BY <1>1

\* and no other function has them.
LEMMA RunningUnique ==
  ASSUME NEW h, NEW s, NEW t, Running(s, h), Running(t, h)
  PROVE  \A b \in 0..NumBuckets : s[b] = t[b]
<1> SUFFICES ASSUME NEW b \in 0..NumBuckets, s[b] # t[b] PROVE FALSE
  OBVIOUS
<1>0. NumBuckets \in Nat
  BY StatsAssumption
<1>1. PICK D : D = {x \in 0..NumBuckets : s[x] # t[x]}
  OBVIOUS
<1>2. D \subseteq Nat /\ D # {}
  BY <1>0, <1>1
<1>3. PICK x \in D : \A y \in D : x <= y
  BY <1>2, LeastNatural
<1>4. x \in 0..NumBuckets /\ s[x] # t[x]
  BY <1>1
<1>5. CASE x = 0
  <2>1. s[0] = 0 /\ t[0] = 0
    BY <1>4, <1>5 DEF Running
  <2> QED
    BY <1>4, <1>5, <2>1
<1>6. CASE x # 0
  <2>1. x - 1 \in 0..NumBuckets /\ ~(x <= x - 1)
    BY <1>0, <1>4, <1>6
  <2>2. s[x - 1] = t[x - 1]
    BY <1>1, <1>3, <2>1
  <2>3. s[x] = s[x - 1] + h[x] /\ t[x] = t[x - 1] + h[x]
    BY <1>4, <1>6 DEF Running
  <2> QED
    BY <1>4, <2>2, <2>3
<1> QED
  BY <1>5, <1>6

\* The solution for the histogram of some transactions: how many of them are in
\* a bucket or below it.
UpTo(es, b) == {e \in es : ev[e].bucket <= b}
\* The total up to a bucket counts the transactions up to it.
LEMMA TotalsOfHistogram ==
  ASSUME NEW n \in Nat, ev \in [1..n -> Transaction], NEW es, es \subseteq 1..n
  PROVE  /\ \A b \in 0..NumBuckets : Cumulative(Histogram(es))[b] = Cardinality(UpTo(es, b))
         /\ \A b \in Buckets : Cardinality(UpTo(es, b)) = Cardinality(UpTo(es, b - 1)) + Histogram(es)[b]
<1>0. NumBuckets \in Nat /\ Buckets = 1..NumBuckets
  BY StatsAssumption DEF Buckets
<1>1. ASSUME NEW e \in es PROVE ev[e].bucket \in 1..NumBuckets
  <2>1. ev[e] \in Transaction
    OBVIOUS
  <2> QED
    BY <1>0, <2>1 DEF Transaction
<1>2. PICK t : t = [b \in 0..NumBuckets |-> Cardinality(UpTo(es, b))]
  OBVIOUS
<1>3. \A b : UpTo(es, b) \subseteq 1..n
  BY DEF UpTo
<1>4. Cardinality(UpTo(es, 0)) = 0
  <2>1. UpTo(es, 0) = {}
    <3>1. ASSUME NEW e \in es PROVE ~(ev[e].bucket <= 0)
      BY <1>0, <1>1
    <3> QED
      BY <3>1 DEF UpTo
  <2> QED
    BY <2>1, FS_EmptySet
<1>5. ASSUME NEW b \in Buckets
      PROVE  Cardinality(UpTo(es, b)) = Cardinality(UpTo(es, b - 1)) + Histogram(es)[b]
  <2>1. PICK S : S = {e \in es : ev[e].bucket = b}
    OBVIOUS
  <2>2. Histogram(es)[b] = Cardinality(S)
    BY <2>1 DEF Histogram
  <2>3. S \subseteq 1..n /\ S \cap UpTo(es, b - 1) = {} /\ UpTo(es, b) = UpTo(es, b - 1) \cup S
    <3>1. ASSUME NEW e \in es
          PROVE  /\ e \in UpTo(es, b) <=> e \in UpTo(es, b - 1) \/ e \in S
                 /\ ~(e \in UpTo(es, b - 1) /\ e \in S)
      <4>1. ev[e].bucket \in Int /\ b \in Int
        BY <1>0, <1>1
      <4> QED
        BY <2>1, <4>1 DEF UpTo
    <3>2. S \subseteq es /\ UpTo(es, b) \subseteq es /\ UpTo(es, b - 1) \subseteq es
      BY <2>1 DEF UpTo
    <3> QED
      BY <3>1, <3>2
  <2> QED
    BY <1>3, <2>2, <2>3, DisjointTaken
<1>6. Running(t, Histogram(es))
  <2>1. ASSUME NEW b \in 0..NumBuckets
        PROVE  Cardinality(UpTo(es, b)) = IF b = 0 THEN 0 ELSE t[b - 1] + Histogram(es)[b]
    <3>1. CASE b = 0
      BY <1>4, <3>1
    <3>2. CASE b # 0
      <4>1. b \in Buckets /\ b - 1 \in 0..NumBuckets
        BY <1>0, <3>2
      <4>2. t[b - 1] = Cardinality(UpTo(es, b - 1))
        BY <1>2, <4>1
      <4> QED
        BY <1>5, <3>2, <4>1, <4>2
    <3> QED
      BY <3>1, <3>2
  <2> QED
    BY <1>2, <2>1 DEF Running
<1>7. \A b \in 0..NumBuckets : Cumulative(Histogram(es))[b] = t[b]
  BY <1>6, RunningTotals, RunningUnique
<1> QED
  BY <1>2, <1>5, <1>7

\* The rank of a percentile is one of the ranks.
LEMMA TargetBounds ==
  ASSUME NEW n \in Nat \ {0}, NEW p \in Pcts PROVE Target(n, p) \in 1..n
<1>1. CASE p = 50
  BY <1>1 DEF Target
<1>2. CASE p = 95
  BY <1>2 DEF Target
<1> QED
  BY <1>1, <1>2 DEF Pcts

\* There is a bucket at which the totals reach a rank.
Reaches(es, k, b) ==
  /\ b \in Buckets /\ Histogram(es)[b] > 0
  /\ \A c \in 0..NumBuckets : Cardinality(UpTo(es, c)) >= k <=> b <= c
\* Every rank is reached in some bucket.
LEMMA RankReached ==
  ASSUME NEW n \in Nat, ev \in [1..n -> Transaction], NEW es, es \subseteq 1..n, NEW k \in 1..Cardinality(es)
  PROVE  \E b : Reaches(es, k, b)
<1>0. NumBuckets \in Nat /\ Buckets = 1..NumBuckets /\ Cardinality(es) \in Nat
  BY StatsAssumption, TakenFinite DEF Buckets
<1>1. \A b : UpTo(es, b) \subseteq 1..n /\ Cardinality(UpTo(es, b)) \in Nat
  <2>1. \A b : UpTo(es, b) \subseteq 1..n
    BY DEF UpTo
  <2> QED
    BY <2>1, TakenFinite
<1>2. ASSUME NEW e \in es PROVE ev[e].bucket \in 1..NumBuckets
  <2>1. ev[e] \in Transaction
    OBVIOUS
  <2> QED
    BY <1>0, <2>1 DEF Transaction
<1>3. UpTo(es, NumBuckets) = es /\ UpTo(es, 0) = {}
  <2>1. ASSUME NEW e \in es PROVE ev[e].bucket <= NumBuckets /\ ~(ev[e].bucket <= 0)
    BY <1>0, <1>2
  <2> QED
    BY <2>1 DEF UpTo
<1>4. Cardinality(UpTo(es, 0)) = 0
  BY <1>3, FS_EmptySet
<1>5. PICK D : D = {c \in 0..NumBuckets : Cardinality(UpTo(es, c)) >= k}
  OBVIOUS
<1>6. D \subseteq Nat /\ NumBuckets \in D
  BY <1>0, <1>3, <1>5
<1>7. PICK b \in D : \A c \in D : b <= c
  BY <1>6, LeastNatural
<1>8. b \in 0..NumBuckets /\ Cardinality(UpTo(es, b)) >= k /\ b # 0 /\ k \in Nat
  BY <1>0, <1>4, <1>5
<1>9. b \in Buckets /\ b - 1 \in 0..NumBuckets /\ b - 1 \notin D
  BY <1>0, <1>7, <1>8
<1>10. Cardinality(UpTo(es, b - 1)) < k
  BY <1>0, <1>1, <1>5, <1>8, <1>9
<1>11. Histogram(es)[b] > 0
  <2>1. Cardinality(UpTo(es, b)) = Cardinality(UpTo(es, b - 1)) + Histogram(es)[b]
    BY <1>9, TotalsOfHistogram
  <2>2. Histogram(es)[b] \in Nat
    <3>1. PICK S : S = {e \in es : ev[e].bucket = b}
      OBVIOUS
    <3>2. S \subseteq 1..n /\ Histogram(es)[b] = Cardinality(S)
      BY <1>9, <3>1 DEF Histogram
    <3> QED
      BY <3>2, TakenFinite
  <2> QED
    BY <1>1, <1>8, <1>10, <2>1, <2>2
<1>12. ASSUME NEW c \in 0..NumBuckets, b <= c PROVE Cardinality(UpTo(es, c)) >= k
  <2>1. ASSUME NEW e \in UpTo(es, b) PROVE e \in UpTo(es, c)
    <3>1. e \in es /\ ev[e].bucket \in Int /\ ev[e].bucket <= b
      BY <1>0, <1>2 DEF UpTo
    <3> QED
      BY <1>8, <1>12, <3>1 DEF UpTo
  <2>2. IsFiniteSet(UpTo(es, c)) /\ UpTo(es, b) \subseteq UpTo(es, c)
    BY <1>1, <2>1, TakenFinite
  <2>3. Cardinality(UpTo(es, b)) <= Cardinality(UpTo(es, c))
    BY <2>2, FS_Subset
  <2> QED
    BY <1>1, <1>8, <2>3
<1>13. ASSUME NEW c \in 0..NumBuckets, Cardinality(UpTo(es, c)) >= k PROVE b <= c
  BY <1>5, <1>7, <1>13
<1> QED
  BY <1>9, <1>11, <1>12, <1>13 DEF Reaches

\* The scan of the histogram stops there, and so does the reference.
LEMMA PercentileIsNearestRank ==
  ASSUME NEW n \in Nat, ev \in [1..n -> Transaction], NEW es, es \subseteq 1..n, NEW p \in Pcts
  PROVE  Percentile(Histogram(es), Cardinality(es), p) = NearestRank(es, p)
<1>0. NumBuckets \in Nat /\ Buckets = 1..NumBuckets /\ Cardinality(es) \in Nat /\ IsFiniteSet(es)
  BY StatsAssumption, TakenFinite DEF Buckets
<1>1. CASE es = {}
  <2>1. Cardinality(es) = 0
    BY <1>1, FS_EmptySet
  <2> QED
    BY <1>1, <2>1 DEF Percentile, NearestRank
<1>2. CASE es # {}
  <2>1. Cardinality(es) \in Nat \ {0}
    BY <1>0, <1>2, FS_EmptySet
  <2>2. PICK k : k = Target(Cardinality(es), p)
    OBVIOUS
  <2>3. k \in 1..Cardinality(es)
    BY <2>1, <2>2, TargetBounds
  <2>4. PICK b : Reaches(es, k, b)
    BY <2>3, RankReached
  <2>5. b \in Buckets /\ b \in Nat /\ Histogram(es)[b] > 0
        /\ \A c \in 0..NumBuckets : Cardinality(UpTo(es, c)) >= k <=> b <= c
    BY <1>0, <2>4 DEF Reaches
  <2>6. \A c : Cardinality(UpTo(es, c)) \in Nat
    <3>1. \A c : UpTo(es, c) \subseteq 1..n
      BY DEF UpTo
    <3> QED
      BY <3>1, TakenFinite
  <2>7. Percentile(Histogram(es), Cardinality(es), p) = b
    <3>1. PICK sum : sum = Cumulative(Histogram(es))
      OBVIOUS
    <3>2. \A c \in Buckets : sum[c] = Cardinality(UpTo(es, c))
      <4>1. \A c \in 0..NumBuckets : Cumulative(Histogram(es))[c] = Cardinality(UpTo(es, c))
        BY TotalsOfHistogram
      <4>2. \A c \in Buckets : c \in 0..NumBuckets
        BY <1>0
      <4> QED
        BY <3>1, <4>1, <4>2
    <3>3. PICK found : found = {c \in Buckets : Histogram(es)[c] > 0 /\ sum[c] >= k}
      OBVIOUS
    <3>4. \A c \in Buckets : c \in 0..NumBuckets
      BY <1>0
    <3>5. b \in found /\ \A c \in found : b <= c /\ c \in Nat
      BY <1>0, <2>5, <3>2, <3>3, <3>4
    <3>6. Percentile(Histogram(es), Cardinality(es), p) = CHOOSE c \in found : \A d \in found : c <= d
      BY <2>1, <2>2, <3>1, <3>3, <3>5 DEF Percentile
    <3>7. \A c \in found : (\A d \in found : c <= d) => c = b
      BY <2>5, <3>5
    <3> QED
      BY <3>5, <3>6, <3>7
  <2>8. NearestRank(es, p) = b
    <3>1. ASSUME NEW c \in Buckets PROVE {e \in es : ev[e].bucket < c} = UpTo(es, c - 1)
      <4>1. ASSUME NEW e \in es PROVE ev[e].bucket < c <=> ev[e].bucket <= c - 1
        <5>1. ev[e] \in Transaction
          OBVIOUS
        <5>2. ev[e].bucket \in Int /\ c \in Int
          BY <1>0, <5>1 DEF Transaction
        <5> QED
          BY <5>2
      <4> QED
        BY <4>1 DEF UpTo
    <3>2. ASSUME NEW c \in Buckets
          PROVE  Cardinality({e \in es : ev[e].bucket < c}) < k /\ Cardinality({e \in es : ev[e].bucket <= c}) >= k
                   <=> c = b
      <4>1. c \in 0..NumBuckets /\ c - 1 \in 0..NumBuckets /\ c \in Nat /\ k \in Nat
        BY <1>0, <2>3
      <4>2. {e \in es : ev[e].bucket <= c} = UpTo(es, c)
        BY DEF UpTo
      <4>3. Cardinality(UpTo(es, c)) >= k <=> b <= c
        BY <2>5, <4>1
      <4>4. Cardinality(UpTo(es, c - 1)) < k <=> ~(b <= c - 1)
        BY <2>5, <2>6, <4>1
      <4>5. b <= c /\ ~(b <= c - 1) <=> c = b
        BY <2>5, <4>1
      <4>6. Cardinality({e \in es : ev[e].bucket < c}) = Cardinality(UpTo(es, c - 1))
        BY <3>1
      <4> QED
        BY <4>2, <4>3, <4>4, <4>5, <4>6
    <3>3. NearestRank(es, p) = CHOOSE c \in Buckets :
            Cardinality({e \in es : ev[e].bucket < c}) < k /\ Cardinality({e \in es : ev[e].bucket <= c}) >= k
      BY <1>2, <2>2 DEF NearestRank
    <3> QED
      BY <2>5, <3>2, <3>3
  <2> QED
    BY <2>7, <2>8
<1> QED
  BY <1>1, <1>2

--------------------------------------------------------------------------------
(***************************************************************************)
(* Workers write percentiles of what is in the rows                        *)
(***************************************************************************)
\* Every worker has its own memory of the rows it read.
SeenOK == DOMAIN seen = Workers
\* It does in every behaviour.
LEMMA SeenInvariant == StatsSpec => []SeenOK
<1>1. StatsInit => SeenOK
  BY DEF StatsInit, SeenOK
<1>2. SeenOK /\ [StatsNext]_statsVars => SeenOK'
  <2> SUFFICES ASSUME SeenOK, [StatsNext]_statsVars PROVE SeenOK'
    OBVIOUS
  <2>1. ASSUME NEW w \in Workers, NEW n \in 1..MaxBatch, NEW txns \in [1..n -> Transaction], TakeBatch(w, txns)
        PROVE  SeenOK'
    BY <2>1 DEF TakeBatch, SeenOK
  <2>2. ASSUME NEW w \in Workers, WorkerStep(w) PROVE SeenOK'
    BY <2>2 DEF WorkerStep, FetchGroups, InsertGroups, Refetch, MergeStats, ReadHistogram, WritePercentiles,
                InsertStaging, UpdateStatistics, ResetWorker, SeenOK
  <2>3. ASSUME NEW w \in Workers, FailBatch(w) PROVE SeenOK'
    BY <2>3 DEF FailBatch, ResetWorker, SeenOK
  <2>4. ASSUME Maintenance \/ ReplicaCatchUp \/ StreamEnded \/ UNCHANGED statsVars PROVE SeenOK'
    BY <2>4 DEF Maintenance, Age, ReadOldGroups, DeleteOldGroups, ReplicaCatchUp, StreamEnded, statsVars,
                workerVars, SeenOK
  <2> QED
    BY <2>1, <2>2, <2>3, <2>4 DEF StatsNext
<1> QED
  BY <1>1, <1>2, PTL DEF StatsSpec

\* Only ReadHistogram takes a worker from "read" to "write".
LEMMA OnlyReadHistogram ==
  ASSUME StatsTypeOK, [StatsNext]_statsVars, NEW w \in Workers, pc[w] = "read", pc'[w] = "write"
  PROVE  ReadHistogram(w)
<1>0. pc \in [Workers -> Steps]
  BY DEF StatsTypeOK
<1>1. ASSUME NEW v \in Workers, NEW n \in 1..MaxBatch, NEW txns \in [1..n -> Transaction], TakeBatch(v, txns)
      PROVE  FALSE
  BY <1>0, <1>1 DEF TakeBatch
<1>2. ASSUME NEW v \in Workers, FailBatch(v) PROVE FALSE
  BY <1>0, <1>2 DEF FailBatch, ResetWorker
<1>3. ASSUME NEW v \in Workers, WorkerStep(v) PROVE ReadHistogram(w)
  <2>1. CASE v = w /\ ReadHistogram(v)
    BY <2>1
  <2>2. CASE v = w /\ ~ReadHistogram(v)
    BY <1>0, <1>3, <2>2 DEF WorkerStep, FetchGroups, InsertGroups, Refetch, MergeStats, WritePercentiles,
                            InsertStaging, UpdateStatistics
  <2>3. CASE v # w
    BY <1>0, <1>3, <2>3 DEF WorkerStep, FetchGroups, InsertGroups, Refetch, MergeStats, ReadHistogram,
                            WritePercentiles, InsertStaging, UpdateStatistics, ResetWorker
  <2> QED
    BY <2>1, <2>2, <2>3
<1>4. ASSUME Maintenance \/ ReplicaCatchUp \/ StreamEnded \/ UNCHANGED statsVars PROVE FALSE
  BY <1>4 DEF Maintenance, Age, ReadOldGroups, DeleteOldGroups, ReplicaCatchUp, StreamEnded, statsVars, workerVars
<1> QED
  BY <1>1, <1>2, <1>3, <1>4 DEF StatsNext

\* The percentiles a worker computes are the nearest ranks of the group it read.
LEMMA StepPercentilesExact ==
  ASSUME StatsInv, SeenOK, [StatsNext]_statsVars, NEW w \in Workers, pc[w] = "read", pc'[w] = "write",
         NEW g \in DOMAIN seen'[w], NEW p \in Pcts
  PROVE  seen'[w][g][p] = NearestRank(merged[g], p)
<1>0. StatsTypeOK /\ ColumnsExact
  BY DEF StatsInv
<1>1. ReadHistogram(w)
  BY <1>0, OnlyReadHistogram
<1>2. seen'[w] = [x \in GroupsOf(w) \cap live |-> [q \in Pcts |-> Percentile(hist[x], count[x], q)]]
  BY <1>1 DEF ReadHistogram, SeenOK
<1>3. g \in live /\ seen'[w][g][p] = Percentile(hist[g], count[g], p)
  BY <1>2
<1>4. g \in GroupIds
  <2>1. groupSeq \in 0..MaxGroups /\ live \subseteq 1..groupSeq
    BY <1>0 DEF StatsTypeOK
  <2> QED
    BY <1>3, <2>1, StatsAssumption DEF GroupIds
<1>5. hist[g] = Histogram(merged[g]) /\ count[g] = Cardinality(merged[g])
  BY <1>0, <1>4 DEF ColumnsExact
<1>6. taken \in Nat /\ ev \in [1..taken -> Transaction] /\ merged[g] \subseteq 1..taken
  BY <1>0, <1>4, StatsAssumption DEF StatsTypeOK
<1>7. Percentile(Histogram(merged[g]), Cardinality(merged[g]), p) = NearestRank(merged[g], p)
  BY <1>6, PercentileIsNearestRank
<1> QED
  BY <1>3, <1>5, <1>7

\* Whatever other workers merge meanwhile, and whatever the number of buckets,
\* what percentile_from_histogram gives a worker for a group is the nearest-rank
\* percentile of the transactions that are in the group when it reads the row.
THEOREM StatsPercentilesExact == StatsSpec => PercentilesExact
<1>1. StatsInv /\ SeenOK /\ [StatsNext]_statsVars =>
        [\A w \in Workers : pc[w] = "read" /\ pc'[w] = "write" =>
           \A g \in DOMAIN seen'[w] : \A p \in Pcts :
             seen'[w][g][p] = NearestRank(merged[g], p)]_statsVars
  BY StepPercentilesExact
<1> QED
  BY <1>1, StatsInvariant, SeenInvariant, PTL DEF StatsSpec, PercentilesExact

(***************************************************************************)
(* Reads of issues and events                                              *)
(***************************************************************************)
\* Rows of events, in the order of their ids.
EventRow == [issue : ReadIssues, org : Orgs, day : Nat, tier : {"hot", "cold", "gone"}]
ReadTypes(rows, iss, leaf, now) ==
  /\ rows \in Seq(EventRow) /\ iss \in [ReadIssues -> {"none", "live", "marked", "gone"}]
  /\ leaf \in [ReadIssues -> Nat] /\ now \in Nat
\* A row names the organization its issue is in, through merges too.
HomeRows(rows) == \A e \in DOMAIN rows : rows[e].org = IssueOrg(rows[e].issue)
DaysInOrder(rows, now) ==
  /\ \A e \in DOMAIN rows : rows[e].day <= now
  /\ \A e, f \in DOMAIN rows : e <= f => rows[e].day <= rows[f].day
\* Old events go first, unless with their issue.
GoneInOrder(rows, iss) ==
  \A e, f \in DOMAIN rows : e < f /\ rows[f].tier = "gone" /\ rows[e].tier # "gone" => iss[rows[f].issue] = "gone"
IsNewest(rows, i, e) == e \in DOMAIN rows /\ rows[e].issue = i /\ \A f \in DOMAIN rows : rows[f].issue = i => f <= e
\* The leaf of an issue that was not merged has the day of its newest event.
LeafIsNewest(rows, leaf, mixed) ==
  \A i \in ReadIssues \ mixed, e \in DOMAIN rows : IsNewest(rows, i, e) => leaf[i] = rows[e].day
ReadInv ==
  /\ ReadTypes(event, issue, last_seen, today) /\ HomeRows(event) /\ DaysInOrder(event, today)
  /\ GoneInOrder(event, issue) /\ LeafIsNewest(event, last_seen, mergedIssues)

\* Ids are positions in a sequence.
LEMMA IdsAreNumbers ==
  ASSUME NEW rows \in Seq(EventRow)
  PROVE  /\ DOMAIN rows = 1..Len(rows) /\ Len(rows) \in Nat /\ DOMAIN rows \subseteq Nat
         /\ \A e \in DOMAIN rows : /\ rows[e] \in EventRow /\ rows[e].issue \in ReadIssues /\ rows[e].day \in Nat
                                 /\ rows[e].org \in Orgs /\ rows[e].tier \in {"hot", "cold", "gone"}
<1>1. DOMAIN rows = 1..Len(rows) /\ Len(rows) \in Nat /\ \A e \in 1..Len(rows) : rows[e] \in EventRow
  BY ElementOfSeq, LenProperties
<1> QED
  BY <1>1 DEF EventRow

\* Rows that change in place.
LEMMA SameIds ==
  ASSUME NEW rows \in Seq(EventRow), NEW new, new = [e \in DOMAIN rows |-> new[e]],
         \A e \in DOMAIN rows : new[e] \in EventRow
  PROVE  new \in Seq(EventRow) /\ DOMAIN new = DOMAIN rows
<1>1. DOMAIN rows = 1..Len(rows) /\ Len(rows) \in Nat
  BY IdsAreNumbers
<1>2. new \in [1..Len(rows) -> EventRow]
  BY <1>1
<1> QED
  BY <1>1, <1>2, SeqDef

\* The facts of IssueOrg.
LEMMA OrgsAre ==
  ASSUME NEW i \in ReadIssues
  PROVE  ProjectOf[i] \in Projects /\ IssueOrg(i) \in Orgs /\ IssueOrg(i) = OrgOf[ProjectOf[i]]
BY ReadAssumption DEF IssueOrg
--------------------------------------------------------------------------------
\* An event arrives.
LEMMA IngestKeeps ==
  ASSUME ReadInv, NEW i \in ReadIssues, Ingest(i)
  PROVE  ReadInv'
<1>1. PICK rows : rows = event
  OBVIOUS
<1>2. PICK new : new = event'
  OBVIOUS
<1>3. PICK row : row = [issue |-> i, org |-> IssueOrg(i), day |-> today, tier |-> "hot"]
  OBVIOUS
<1>4. /\ rows \in Seq(EventRow) /\ row \in EventRow /\ new = Append(rows, row) /\ today' = today
      /\ mergedIssues' = mergedIssues /\ row.issue = i /\ row.org = IssueOrg(i) /\ row.day = today /\ row.tier = "hot"
  BY <1>1, <1>2, <1>3, OrgsAre DEF ReadInv, ReadTypes, Ingest, EventRow
<1>5. DOMAIN rows = 1..Len(rows) /\ Len(rows) \in Nat
  BY <1>4, IdsAreNumbers
<1>6. /\ new \in Seq(EventRow) /\ DOMAIN new = 1..(Len(rows) + 1) /\ new[Len(rows) + 1] = row
      /\ \A e \in DOMAIN rows : new[e] = rows[e]
  <2>1. /\ Append(rows, row) \in Seq(EventRow) /\ Len(Append(rows, row)) = Len(rows) + 1
        /\ Append(rows, row)[Len(rows) + 1] = row /\ \A e \in 1..Len(rows) : Append(rows, row)[e] = rows[e]
    BY <1>4, AppendProperties
  <2>2. DOMAIN new = 1..Len(new)
    BY <1>4, <2>1, IdsAreNumbers
  <2> QED
    BY <1>4, <1>5, <2>1, <2>2
<1>7. /\ issue' = [issue EXCEPT ![i] = "live"] /\ last_seen' = [last_seen EXCEPT ![i] = today]
      /\ issue[i] \in {"none", "live"}
      /\ issue \in [ReadIssues -> {"none", "live", "marked", "gone"}] /\ last_seen \in [ReadIssues -> Nat] /\ today \in Nat
  BY DEF Ingest, ReadInv, ReadTypes
<1>8. ReadTypes(new, issue', last_seen', today)
  BY <1>6, <1>7 DEF ReadTypes
<1>9. HomeRows(new)
  BY <1>1, <1>4, <1>5, <1>6 DEF ReadInv, HomeRows
<1>10. DaysInOrder(new, today)
  <2>1. \A e \in DOMAIN rows : rows[e].day <= today
    BY <1>1 DEF ReadInv, DaysInOrder
  <2>2. \A e \in DOMAIN new : e \in DOMAIN rows \/ e = Len(rows) + 1
    BY <1>5, <1>6
  <2>3. \A e \in DOMAIN new : new[e].day <= today
    BY <1>4, <1>6, <1>7, <2>1, <2>2
  <2>4. \A e, f \in DOMAIN rows : e <= f => rows[e].day <= rows[f].day
    BY <1>1 DEF ReadInv, DaysInOrder
  <2>5. ASSUME NEW e \in DOMAIN new, NEW f \in DOMAIN new, e <= f PROVE new[e].day <= new[f].day
    <3>1. CASE f \in DOMAIN rows
      BY <1>5, <1>6, <2>2, <2>4, <2>5, <3>1
    <3>2. CASE f = Len(rows) + 1
      BY <1>4, <1>6, <2>3, <3>2
    <3> QED
      BY <2>2, <3>1, <3>2
  <2> QED
    BY <2>3, <2>5 DEF DaysInOrder
<1>11. GoneInOrder(new, issue')
  <2> SUFFICES ASSUME NEW e \in DOMAIN new, NEW f \in DOMAIN new, e < f, new[f].tier = "gone", new[e].tier # "gone"
               PROVE  issue'[new[f].issue] = "gone"
    BY DEF GoneInOrder
  <2>1. f \in DOMAIN rows /\ e \in DOMAIN rows
    BY <1>4, <1>5, <1>6
  <2>2. issue[rows[f].issue] = "gone" /\ rows[f].issue \in ReadIssues
    BY <1>1, <1>4, <1>6, <2>1, IdsAreNumbers DEF ReadInv, GoneInOrder
  <2> QED
    BY <1>6, <1>7, <2>1, <2>2
<1>12. LeafIsNewest(new, last_seen', mergedIssues)
  <2> SUFFICES ASSUME NEW j \in ReadIssues \ mergedIssues, NEW e \in DOMAIN new, IsNewest(new, j, e)
               PROVE  last_seen'[j] = new[e].day
    BY DEF LeafIsNewest
  <2>1. CASE j = i
    <3>1. Len(rows) + 1 \in DOMAIN new /\ new[Len(rows) + 1].issue = i
      BY <1>4, <1>5, <1>6
    <3>2. e = Len(rows) + 1
      BY <1>5, <1>6, <2>1, <3>1 DEF IsNewest
    <3> QED
      BY <1>4, <1>6, <1>7, <2>1, <3>2
  <2>2. CASE j # i
    <3>1. e \in DOMAIN rows
      BY <1>4, <1>5, <1>6, <2>2 DEF IsNewest
    <3>2. IsNewest(rows, j, e)
      BY <1>5, <1>6, <3>1 DEF IsNewest
    <3> QED
      BY <1>1, <1>6, <1>7, <2>2, <3>1, <3>2 DEF ReadInv, LeafIsNewest
  <2> QED
    BY <2>1, <2>2
<1> QED
  BY <1>2, <1>4, <1>8, <1>9, <1>10, <1>11, <1>12 DEF ReadInv
--------------------------------------------------------------------------------
\* Rows that keep their day, and whose issue stays in its organization.
SameRow(was, row) ==
  /\ row \in EventRow /\ row.day = was.day /\ row.org = was.org /\ IssueOrg(row.issue) = IssueOrg(was.issue)

\* What a change of rows in place keeps by itself.
LEMMA ChangedInPlace ==
  ASSUME NEW rows \in Seq(EventRow), NEW new, NEW now, HomeRows(rows), DaysInOrder(rows, now),
         new = [e \in DOMAIN rows |-> new[e]], \A e \in DOMAIN rows : SameRow(rows[e], new[e])
  PROVE  new \in Seq(EventRow) /\ DOMAIN new = DOMAIN rows /\ HomeRows(new) /\ DaysInOrder(new, now)
<1>1. new \in Seq(EventRow) /\ DOMAIN new = DOMAIN rows
  BY SameIds DEF SameRow
<1>2. \A e \in DOMAIN rows : /\ new[e].day = rows[e].day /\ new[e].org = rows[e].org
                           /\ IssueOrg(new[e].issue) = IssueOrg(rows[e].issue)
  BY DEF SameRow
<1>3. HomeRows(new)
  BY <1>1, <1>2 DEF HomeRows
<1>4. DaysInOrder(new, now)
  BY <1>1, <1>2 DEF DaysInOrder
<1> QED
  BY <1>1, <1>3, <1>4

\* Rows that keep their issue leave the newest event of an issue the newest.
LEMMA SameLeaves ==
  ASSUME NEW rows, NEW new, NEW leaf, NEW mixed, LeafIsNewest(rows, leaf, mixed), DOMAIN new = DOMAIN rows,
         \A e \in DOMAIN rows : new[e].issue = rows[e].issue /\ new[e].day = rows[e].day
  PROVE  LeafIsNewest(new, leaf, mixed)
<1> SUFFICES ASSUME NEW j \in ReadIssues \ mixed, NEW e \in DOMAIN new, IsNewest(new, j, e)
             PROVE  leaf[j] = new[e].day
  BY DEF LeafIsNewest
<1>1. IsNewest(rows, j, e)
  BY DEF IsNewest
<1> QED
  BY <1>1 DEF LeafIsNewest
--------------------------------------------------------------------------------
\* A day's partition, moved: days and issues stay.
Moved(row, d, from, to) == IF row.day = d /\ row.tier \in from THEN [row EXCEPT !.tier = to] ELSE row

\* A row that is moved.
LEMMA MovedRow ==
  ASSUME NEW row \in EventRow, NEW d, NEW from, NEW to \in {"hot", "cold", "gone"}
  PROVE  /\ SameRow(row, Moved(row, d, from, to)) /\ Moved(row, d, from, to).issue = row.issue
         /\ Moved(row, d, from, to).tier = (IF row.day = d /\ row.tier \in from THEN to ELSE row.tier)
<1>1. CASE row.day = d /\ row.tier \in from
  <2>1. Moved(row, d, from, to) = [row EXCEPT !.tier = to]
    BY <1>1 DEF Moved
  <2> QED
    BY <1>1, <2>1 DEF SameRow, EventRow
<1>2. CASE ~(row.day = d /\ row.tier \in from)
  BY <1>2 DEF SameRow, EventRow, Moved
<1> QED
  BY <1>1, <1>2

\* What a move of a day's partition keeps whatever the tier it goes to.
LEMMA MoveKeeps ==
  ASSUME ReadInv, NEW d, NEW from, NEW to \in {"hot", "cold", "gone"}, MoveDay(d, from, to)
  PROVE  /\ ReadTypes(event, issue, last_seen, today)'
         /\ HomeRows(event)' /\ DaysInOrder(event, today)' /\ LeafIsNewest(event, last_seen, mergedIssues)'
         /\ DOMAIN event' = DOMAIN event /\ issue' = issue
         /\ \A e \in DOMAIN event : /\ event[e] \in EventRow /\ event'[e].issue = event[e].issue
              /\ event'[e].tier = (IF event[e].day = d /\ event[e].tier \in from THEN to ELSE event[e].tier)
<1>1. PICK rows : rows = event
  OBVIOUS
<1>2. PICK new : new = event'
  OBVIOUS
<1>3. PICK now : now = today
  OBVIOUS
<1>4. /\ rows \in Seq(EventRow) /\ HomeRows(rows) /\ DaysInOrder(rows, now) /\ LeafIsNewest(rows, last_seen, mergedIssues)
  BY <1>1, <1>3 DEF ReadInv, ReadTypes
<1>5. new = [e \in DOMAIN rows |-> Moved(rows[e], d, from, to)]
  BY <1>1, <1>2 DEF MoveDay, Moved
<1>6. UNCHANGED <<issue, last_seen, mergedIssues, today>>
  BY DEF MoveDay
<1>7. \A e \in DOMAIN rows : rows[e] \in EventRow /\ new[e] = Moved(rows[e], d, from, to)
  BY <1>4, <1>5, IdsAreNumbers
<1>8. \A e \in DOMAIN rows : /\ SameRow(rows[e], new[e]) /\ new[e].issue = rows[e].issue
        /\ new[e].tier = (IF rows[e].day = d /\ rows[e].tier \in from THEN to ELSE rows[e].tier)
  BY <1>7, MovedRow
<1>9. new = [e \in DOMAIN rows |-> new[e]]
  BY <1>5, <1>7
<1>10. new \in Seq(EventRow) /\ DOMAIN new = DOMAIN rows /\ HomeRows(new) /\ DaysInOrder(new, now)
  BY <1>4, <1>8, <1>9, ChangedInPlace
<1>11. \A e \in DOMAIN rows : new[e].issue = rows[e].issue /\ new[e].day = rows[e].day
  BY <1>8 DEF SameRow
<1>12. PICK leaf, mixed : leaf = last_seen /\ mixed = mergedIssues
  OBVIOUS
<1>13. LeafIsNewest(new, leaf, mixed)
  BY <1>4, <1>10, <1>11, <1>12, SameLeaves
<1>14. ReadTypes(new, issue, last_seen, today)
  BY <1>10 DEF ReadInv, ReadTypes
<1> QED
  BY <1>1, <1>2, <1>3, <1>6, <1>7, <1>8, <1>10, <1>12, <1>13, <1>14

\* A day is archived.
LEMMA ArchiveKeeps ==
  ASSUME ReadInv, NEW d, Archive(d)
  PROVE  ReadInv'
<1>1. MoveDay(d, {"hot"}, "cold") /\ "cold" \in {"hot", "cold", "gone"}
  BY DEF Archive
<1>2. PICK from, to : from = {"hot"} /\ to = "cold"
  OBVIOUS
<1>3. MoveDay(d, from, to) /\ to \in {"hot", "cold", "gone"}
  BY <1>1, <1>2
<1>4. /\ ReadTypes(event, issue, last_seen, today)'
      /\ HomeRows(event)' /\ DaysInOrder(event, today)' /\ LeafIsNewest(event, last_seen, mergedIssues)'
      /\ DOMAIN event' = DOMAIN event /\ issue' = issue
      /\ \A e \in DOMAIN event : /\ event[e] \in EventRow /\ event'[e].issue = event[e].issue
           /\ event'[e].tier = (IF event[e].day = d /\ event[e].tier \in from THEN to ELSE event[e].tier)
  BY <1>3, MoveKeeps
<1>5. \A e \in DOMAIN event : event'[e].tier = "gone" <=> event[e].tier = "gone"
  BY <1>2, <1>4
<1>6. GoneInOrder(event, issue)'
  BY <1>4, <1>5 DEF ReadInv, GoneInOrder
<1> QED
  BY <1>4, <1>6 DEF ReadInv

\* A day past its retention goes: no older one is left.
LEMMA ExpireKeeps ==
  ASSUME ReadInv, NEW d \in Nat, Expire(d)
  PROVE  ReadInv'
<1>1. MoveDay(d, {"hot", "cold"}, "gone") /\ \A e \in InTier({"hot", "cold"}) : event[e].day >= d
  BY DEF Expire
<1>2. PICK from, to : from = {"hot", "cold"} /\ to = "gone"
  OBVIOUS
<1>3. MoveDay(d, from, to) /\ to \in {"hot", "cold", "gone"}
  BY <1>1, <1>2
<1>4. /\ ReadTypes(event, issue, last_seen, today)'
      /\ HomeRows(event)' /\ DaysInOrder(event, today)' /\ LeafIsNewest(event, last_seen, mergedIssues)'
      /\ DOMAIN event' = DOMAIN event /\ issue' = issue
      /\ \A e \in DOMAIN event : /\ event[e] \in EventRow /\ event'[e].issue = event[e].issue
           /\ event'[e].tier = (IF event[e].day = d /\ event[e].tier \in from THEN to ELSE event[e].tier)
  BY <1>3, MoveKeeps
<1>5. GoneInOrder(event, issue)'
  <2> SUFFICES ASSUME NEW e \in DOMAIN event, NEW f \in DOMAIN event, e < f, event'[f].tier = "gone", event'[e].tier # "gone"
               PROVE  issue[event[f].issue] = "gone"
    BY <1>4 DEF GoneInOrder
  <2>1. event[e].tier \in {"hot", "cold"} /\ event[e].day # d /\ event[e].day \in Nat /\ event[f].day \in Nat
    BY <1>2, <1>4 DEF EventRow
  <2>2. event[e].day >= d
    BY <1>1, <2>1 DEF InTier
  <2>3. event[e].day <= event[f].day
    <3>1. e \in Nat /\ f \in Nat
      BY IdsAreNumbers DEF ReadInv, ReadTypes
    <3>2. e <= f
      BY <3>1
    <3> QED
      BY <3>2 DEF ReadInv, DaysInOrder
  <2>4. event[f].day # d
    BY <2>1, <2>2, <2>3
  <2>5. event[f].tier = "gone"
    BY <1>4, <2>4
  <2> QED
    BY <2>1, <2>5 DEF ReadInv, GoneInOrder
<1> QED
  BY <1>4, <1>5 DEF ReadInv
--------------------------------------------------------------------------------
\* Two issues are merged: neither row is gone, and the hot events that move stay in
\* the organization.
LEMMA MergeKeeps ==
  ASSUME ReadInv, NEW target \in ReadIssues, NEW source \in ReadIssues, Merge(target, source)
  PROVE  ReadInv'
<1>1. PICK rows : rows = event
  OBVIOUS
<1>2. PICK new : new = event'
  OBVIOUS
<1>3. PICK now : now = today
  OBVIOUS
<1>4. /\ rows \in Seq(EventRow) /\ HomeRows(rows) /\ DaysInOrder(rows, now)
      /\ issue \in [ReadIssues -> {"none", "live", "marked", "gone"}]
  BY <1>1, <1>3 DEF ReadInv, ReadTypes
<1>5. /\ new = [e \in DOMAIN rows |-> IF rows[e].issue = source /\ rows[e].tier = "hot"
                                      THEN [rows[e] EXCEPT !.issue = target] ELSE rows[e]]
      /\ issue' = [issue EXCEPT ![source] = "marked"] /\ mergedIssues' = mergedIssues \cup {target, source}
      /\ UNCHANGED <<last_seen, today>> /\ IssueOrg(source) = IssueOrg(target)
      /\ issue[source] # "gone" /\ issue[target] # "gone"
  BY <1>1, <1>2 DEF Merge, Exists
<1>6. \A e \in DOMAIN rows : rows[e] \in EventRow /\ rows[e].issue \in ReadIssues
  BY <1>4, IdsAreNumbers
<1>7. ASSUME NEW e \in DOMAIN rows
      PROVE  /\ SameRow(rows[e], new[e]) /\ new[e].tier = rows[e].tier
             /\ new[e].issue = rows[e].issue \/ (rows[e].issue = source /\ new[e].issue = target /\ rows[e].tier = "hot")
  <2>1. CASE rows[e].issue = source /\ rows[e].tier = "hot"
    <3>1. new[e] = [rows[e] EXCEPT !.issue = target]
      BY <1>5, <2>1
    <3> QED
      BY <1>5, <1>6, <2>1, <3>1 DEF SameRow, EventRow
  <2>2. CASE ~(rows[e].issue = source /\ rows[e].tier = "hot")
    BY <1>5, <1>6, <2>2 DEF SameRow
  <2> QED
    BY <2>1, <2>2
<1>8. new = [e \in DOMAIN rows |-> new[e]]
  BY <1>5
<1>9. new \in Seq(EventRow) /\ DOMAIN new = DOMAIN rows /\ HomeRows(new) /\ DaysInOrder(new, now)
  <2>1. \A e \in DOMAIN rows : SameRow(rows[e], new[e])
    BY <1>7
  <2> QED
    BY <1>4, <1>8, <2>1, ChangedInPlace
<1>10. ReadTypes(new, issue', last_seen, today)
  BY <1>4, <1>5, <1>9 DEF ReadInv, ReadTypes
<1>11. GoneInOrder(new, issue')
  <2> SUFFICES ASSUME NEW e \in DOMAIN rows, NEW f \in DOMAIN rows, e < f, new[f].tier = "gone", new[e].tier # "gone"
               PROVE  issue'[new[f].issue] = "gone"
    BY <1>9 DEF GoneInOrder
  <2>1. rows[f].tier = "gone" /\ rows[e].tier # "gone" /\ new[f].issue = rows[f].issue
    BY <1>7
  <2>2. issue[rows[f].issue] = "gone"
    BY <1>1, <2>1 DEF ReadInv, GoneInOrder
  <2> QED
    BY <1>4, <1>5, <1>6, <2>1, <2>2
<1>12. LeafIsNewest(new, last_seen, mergedIssues')
  <2> SUFFICES ASSUME NEW j \in ReadIssues \ mergedIssues', NEW e \in DOMAIN new, IsNewest(new, j, e)
               PROVE  last_seen[j] = new[e].day
    BY DEF LeafIsNewest
  <2>1. j # source /\ j # target /\ j \notin mergedIssues
    BY <1>5
  <2>2. \A f \in DOMAIN rows : new[f].issue = j <=> rows[f].issue = j
    BY <1>7, <2>1
  <2>3. IsNewest(rows, j, e)
    BY <1>9, <2>2 DEF IsNewest
  <2>4. new[e].day = rows[e].day
    BY <1>7, <1>9 DEF SameRow
  <2> QED
    BY <1>1, <1>9, <2>1, <2>3, <2>4 DEF ReadInv, LeafIsNewest
<1> QED
  BY <1>2, <1>3, <1>5, <1>9, <1>10, <1>11, <1>12 DEF ReadInv

\* An issue's row and hot events go.
LEMMA DeletionKeeps ==
  ASSUME ReadInv, NEW i \in ReadIssues, RunDeletion(i)
  PROVE  ReadInv'
<1>1. PICK rows : rows = event
  OBVIOUS
<1>2. PICK new : new = event'
  OBVIOUS
<1>3. PICK now, leaf, mixed : now = today /\ leaf = last_seen /\ mixed = mergedIssues
  OBVIOUS
<1>4. /\ rows \in Seq(EventRow) /\ HomeRows(rows) /\ DaysInOrder(rows, now) /\ LeafIsNewest(rows, leaf, mixed)
      /\ issue \in [ReadIssues -> {"none", "live", "marked", "gone"}]
  BY <1>1, <1>3 DEF ReadInv, ReadTypes
<1>5. /\ new = [e \in DOMAIN rows |-> IF rows[e].issue = i /\ rows[e].tier = "hot"
                                      THEN [rows[e] EXCEPT !.tier = "gone"] ELSE rows[e]]
      /\ issue' = [issue EXCEPT ![i] = "gone"]
      /\ UNCHANGED <<last_seen, today, mergedIssues>> /\ issue[i] # "gone"
  BY <1>1, <1>2 DEF RunDeletion
<1>6. \A e \in DOMAIN rows : rows[e] \in EventRow /\ rows[e].issue \in ReadIssues
  BY <1>4, IdsAreNumbers
<1>7. ASSUME NEW e \in DOMAIN rows
      PROVE  /\ SameRow(rows[e], new[e]) /\ new[e].issue = rows[e].issue
             /\ new[e].tier = rows[e].tier \/ (rows[e].issue = i /\ new[e].tier = "gone")
  <2>1. CASE rows[e].issue = i /\ rows[e].tier = "hot"
    <3>1. new[e] = [rows[e] EXCEPT !.tier = "gone"]
      BY <1>5, <2>1
    <3> QED
      BY <1>5, <1>6, <2>1, <3>1 DEF SameRow, EventRow
  <2>2. CASE ~(rows[e].issue = i /\ rows[e].tier = "hot")
    BY <1>5, <1>6, <2>2 DEF SameRow
  <2> QED
    BY <2>1, <2>2
<1>8. new = [e \in DOMAIN rows |-> new[e]]
  BY <1>5
<1>9. new \in Seq(EventRow) /\ DOMAIN new = DOMAIN rows /\ HomeRows(new) /\ DaysInOrder(new, now)
  <2>1. \A e \in DOMAIN rows : SameRow(rows[e], new[e])
    BY <1>7
  <2> QED
    BY <1>4, <1>8, <2>1, ChangedInPlace
<1>10. ReadTypes(new, issue', last_seen, today)
  BY <1>4, <1>5, <1>9 DEF ReadInv, ReadTypes
<1>11. GoneInOrder(new, issue')
  <2> SUFFICES ASSUME NEW e \in DOMAIN rows, NEW f \in DOMAIN rows, e < f, new[f].tier = "gone", new[e].tier # "gone"
               PROVE  issue'[new[f].issue] = "gone"
    BY <1>9 DEF GoneInOrder
  <2>1. CASE rows[f].issue = i
    BY <1>4, <1>5, <1>7, <2>1
  <2>2. CASE rows[f].issue # i
    <3>1. rows[f].tier = "gone" /\ rows[e].tier # "gone" /\ new[f].issue = rows[f].issue
      BY <1>5, <1>7, <2>2
    <3>2. issue[rows[f].issue] = "gone"
      BY <1>1, <3>1 DEF ReadInv, GoneInOrder
    <3> QED
      BY <1>4, <1>5, <1>6, <3>1, <3>2
  <2> QED
    BY <2>1, <2>2
<1>12. LeafIsNewest(new, leaf, mixed)
  <2>1. \A e \in DOMAIN rows : new[e].issue = rows[e].issue /\ new[e].day = rows[e].day
    BY <1>7 DEF SameRow
  <2> QED
    BY <1>4, <1>9, <2>1, SameLeaves
<1> QED
  BY <1>2, <1>3, <1>5, <1>9, <1>10, <1>11, <1>12 DEF ReadInv

\* The steps that leave the events alone.
LEMMA QuietSteps ==
  ASSUME ReadInv, UNCHANGED <<last_seen, event, mergedIssues>>,
         today' \in Nat, today' >= today, issue' \in [ReadIssues -> {"none", "live", "marked", "gone"}],
         \A i \in ReadIssues : issue[i] = "gone" => issue'[i] = "gone"
  PROVE  ReadInv'
<1>1. /\ event \in Seq(EventRow) /\ today \in Nat
  BY DEF ReadInv, ReadTypes
<1>2. \A e \in DOMAIN event : event[e].issue \in ReadIssues /\ event[e].day \in Nat
  BY <1>1, IdsAreNumbers
<1>3. ReadTypes(event, issue', last_seen, today')
  BY DEF ReadInv, ReadTypes
<1>4. DaysInOrder(event, today')
  BY <1>1, <1>2 DEF ReadInv, DaysInOrder
<1>5. GoneInOrder(event, issue')
  BY <1>2 DEF ReadInv, GoneInOrder
<1> QED
  BY <1>3, <1>4, <1>5 DEF ReadInv

\* No row is stored and no issue exists at first.
LEMMA ReadsBegin ==
  ASSUME ReadInit
  PROVE  ReadInv
<1>1. event = <<>> /\ issue = [i \in ReadIssues |-> "none"] /\ last_seen = [i \in ReadIssues |-> 0] /\ today = 1
  BY DEF ReadInit
<1>2. <<>> \in Seq(EventRow) /\ DOMAIN <<>> = {}
  BY EmptySeq
<1> QED
  BY <1>1, <1>2 DEF ReadInv, ReadTypes, HomeRows, DaysInOrder, GoneInOrder, LeafIsNewest, IsNewest

\* The rows of events are in the order of their days, in the organization of their
\* issue, and go in order; the leaf of an issue has the day of its newest event.
THEOREM ReadInvHolds == ReadSpec => []ReadInv
<1>1. ReadInit => ReadInv
  BY ReadsBegin
<1>2. ReadInv /\ [ReadNext]_readVars => ReadInv'
  <2> SUFFICES ASSUME ReadInv, [ReadNext]_readVars PROVE ReadInv'
    OBVIOUS
  <2>0. today \in Nat /\ issue \in [ReadIssues -> {"none", "live", "marked", "gone"}]
    BY DEF ReadInv, ReadTypes
  <2>1. ASSUME NEW i \in ReadIssues, Ingest(i) PROVE ReadInv'
    BY <2>1, IngestKeeps
  <2>2. ASSUME NEW i \in ReadIssues, MarkDeleted(i) PROVE ReadInv'
    BY <2>0, <2>2, QuietSteps DEF MarkDeleted
  <2>3. ASSUME NEW i \in ReadIssues, RunDeletion(i) PROVE ReadInv'
    BY <2>3, DeletionKeeps
  <2>4. ASSUME NEW d \in 1..MaxDay, Archive(d) \/ Expire(d) PROVE ReadInv'
    <3>1. d \in Nat
      BY ReadAssumption
    <3> QED
      BY <2>4, <3>1, ArchiveKeeps, ExpireKeeps
  <2>5. ASSUME NEW i \in ReadIssues, NEW j \in ReadIssues, Merge(i, j) PROVE ReadInv'
    BY <2>5, MergeKeeps
  <2>6. ASSUME NEW u \in Users, NEW org \in Orgs, JoinOrLeave(u, org) PROVE ReadInv'
    BY <2>0, <2>6, QuietSteps DEF JoinOrLeave
  <2>7. CASE DayPasses
    BY <2>0, <2>7, QuietSteps DEF DayPasses
  <2>8. ASSUME NEW s, DuckdbBecomes(s) PROVE ReadInv'
    BY <2>0, <2>8, QuietSteps DEF DuckdbBecomes
  <2>9. CASE UNCHANGED readVars
    BY <2>0, <2>9, QuietSteps DEF readVars
  <2> QED
    BY <2>1, <2>2, <2>3, <2>4, <2>5, <2>6, <2>7, <2>8, <2>9 DEF ReadNext
<1> QED
  BY <1>1, <1>2, PTL DEF ReadSpec
--------------------------------------------------------------------------------
\* A tool answers at most what its query finds.
LEMMA ScopesOnlyNarrow ==
  ASSUME NEW t, NEW scopes, NEW answer
  PROVE  _check_scopes(t, scopes, answer) \subseteq answer
BY DEF _check_scopes

\* Nothing is the newest of no events.
LEMMA NewestOfNone == Newest({}) = {}
BY DEF Newest

\* The issues a user sees are of the user's organizations.
LEMMA OwnIssues ==
  ASSUME NEW u, NEW i, <<u, IssueOrg(i)>> \notin member
  PROVE  ~IssueOfUser(u, i) /\ i \notin IssueQueryset(u)
BY DEF IssueOfUser, IssueQueryset

\* The rows of an organization are shown to nobody outside it.
LEMMA OwnRows ==
  ASSUME NEW u, NEW org
  PROVE  /\ _get_org_id(u, org) \subseteq {org} /\ get_organization_for_user(u, org) \subseteq {org}
         /\ <<u, org>> \notin member => _get_org_id(u, org) = {} /\ get_organization_for_user(u, org) = {}
BY DEF _get_org_id, get_organization_for_user

\* One issue, for a user outside its organization.
LEMMA IssueStaysHome ==
  ASSUME NEW t \in Tokens, NEW i, <<t.user, IssueOrg(i)>> \notin member
  PROVE  rest_get_issue(t.user, i) \cup issue_stats(t.user, IssueOrg(i), {i}) \cup tool_get_issue(t, i)
           \cup get_latest_issue_event(t.user, i) \cup tool_get_latest_event(t, i) = {}
<1>1. ~IssueOfUser(t.user, i) /\ i \notin IssueQueryset(t.user)
  BY OwnIssues
<1>2. rest_get_issue(t.user, i) = {} /\ issue_stats(t.user, IssueOrg(i), {i}) = {}
  BY <1>1 DEF rest_get_issue, issue_stats
<1>3. get_latest_issue_event(t.user, i) = {} /\ mcp_get_latest_event(t.user, i) = {}
  BY <1>1 DEF get_latest_issue_event, mcp_get_latest_event
<1>4. tool_get_issue(t, i) = {} /\ tool_get_latest_event(t, i) = {}
  BY <1>2, <1>3 DEF tool_get_issue, tool_get_latest_event, _check_scopes
<1> QED
  BY <1>2, <1>3, <1>4

\* The lists of an organization, for a user outside it.
LEMMA ListsStayHome ==
  ASSUME NEW t \in Tokens, NEW org \in Orgs, <<t.user, org>> \notin member
  PROVE  rest_list_issues(t.user, org) \cup tool_list_issues(t, org) \cup tool_list_transaction_groups(t, org)
           \cup tool_list_alerts([t EXCEPT !.scopes = {"project:read"}], org)
           \cup tool_list_projects([t EXCEPT !.scopes = {"project:read"}], org)
           \cup (tool_list_organizations([t EXCEPT !.scopes = {"org:read"}]) \cap {org}) = {}
<1>1. PICK p : p = [t EXCEPT !.scopes = {"project:read"}]
  OBVIOUS
<1>2. PICK o : o = [t EXCEPT !.scopes = {"org:read"}]
  OBVIOUS
<1>3. p.user = t.user /\ o.user = t.user
  BY <1>1, <1>2 DEF Tokens
<1>4. \A i \in IssueQueryset(t.user) : IssueOrg(i) # org
  BY OwnIssues
<1>5. rest_list_issues(t.user, org) = {} /\ mcp_get_issues(t.user, org) = {}
  BY <1>4 DEF rest_list_issues, mcp_get_issues
<1>6. _get_org_id(t.user, org) = {}
  BY OwnRows
<1>7. OrgProjects(t.user, org) = {} /\ mcp_get_transaction_groups(t.user, org) = {}
  BY <1>6 DEF OrgProjects, mcp_get_transaction_groups, RowsOfOrg
<1>8. org \notin mcp_get_organizations(t.user)
  BY DEF mcp_get_organizations
<1>9. /\ tool_list_issues(t, org) = {} /\ tool_list_transaction_groups(t, org) = {}
      /\ tool_list_alerts(p, org) = {} /\ tool_list_projects(p, org) = {} /\ org \notin tool_list_organizations(o)
  BY <1>3, <1>5, <1>7, <1>8 DEF tool_list_issues, tool_list_transaction_groups, tool_list_alerts, tool_list_projects,
       tool_list_organizations, _check_scopes
<1> QED
  BY <1>1, <1>2, <1>5, <1>9

\* A project's transactions, spans and logs, for a user outside its organization or
\* asked for under another one.
LEMMA RowsStayHome ==
  ASSUME NEW t \in Tokens, NEW org \in Orgs, NEW p \in Projects, ~(<<t.user, org>> \in member /\ OrgOf[p] = org)
  PROVE  get_transaction_group(t.user, org, p) \cup list_transaction_spans(t.user, org, p)
           \cup get_transaction_trend(t.user, org, p) \cup tool_list_transaction_spans(t, org, p)
           \cup tool_get_transaction_trend(t, org, p) \cup rest_get_log(t.user, org, p) = {}
<1>1. /\ p \notin RowsOfOrg(_get_org_id(t.user, org))
      /\ p \notin RowsOfOrg(get_organization_for_user(t.user, org))
  BY DEF RowsOfOrg, _get_org_id, get_organization_for_user
<1>2. /\ get_transaction_group(t.user, org, p) = {} /\ mcp_get_transaction_group(t.user, org, p) = {}
      /\ rest_get_log(t.user, org, p) = {}
  BY <1>1 DEF get_transaction_group, list_transaction_groups, mcp_get_transaction_group, mcp_get_transaction_groups,
       rest_get_log
<1>3. /\ list_transaction_spans(t.user, org, p) = {} /\ get_transaction_trend(t.user, org, p) = {}
      /\ mcp_get_transaction_spans(t.user, org, p) = {} /\ mcp_get_transaction_trend(t.user, org, p) = {}
  BY <1>2 DEF list_transaction_spans, get_transaction_trend, mcp_get_transaction_spans, mcp_get_transaction_trend
<1>4. tool_list_transaction_spans(t, org, p) = {} /\ tool_get_transaction_trend(t, org, p) = {}
  BY <1>3 DEF tool_list_transaction_spans, tool_get_transaction_trend, _check_scopes
<1> QED
  BY <1>2, <1>3, <1>4

\* What the endpoints and tools list of an organization is the organization's.
LEMMA ListedRowsAreOwn ==
  ASSUME NEW t \in Tokens, NEW org \in Orgs,
         NEW p \in list_span_groups(t.user, org) \cup list_n_plus_one_patterns(t.user, org)
           \cup list_log_resources(t.user, org) \cup list_transaction_groups(t.user, org)
           \cup tool_list_span_groups(t, org) \cup tool_detect_n_plus_one(t, org) \cup tool_list_logs(t, org)
  PROVE  OrgOf[p] = org /\ <<t.user, org>> \in member
<1>1. \/ p \in RowsOfOrg(get_organization_for_user(t.user, org)) \/ p \in RowsOfOrg(_get_org_id(t.user, org))
  BY DEF list_span_groups, list_n_plus_one_patterns, list_log_resources, list_transaction_groups, tool_list_span_groups,
       tool_detect_n_plus_one, tool_list_logs, mcp_get_span_groups, mcp_get_n_plus_one_patterns, mcp_get_logs, _check_scopes
<1> QED
  BY <1>1 DEF RowsOfOrg, get_organization_for_user, _get_org_id

\* No row of another organization is in a user's hot events.
LEMMA HotEventsAreOwn ==
  ASSUME ReadInv, NEW u, NEW issues, NEW e \in EventQueryset(u, issues)
  PROVE  e \in DOMAIN event /\ <<u, event[e].org>> \in member /\ event[e].issue \in issues
<1>1. e \in DOMAIN event /\ <<u, IssueOrg(event[e].issue)>> \in member /\ event[e].issue \in issues
  BY DEF EventQueryset, InTier, IssueOfUser
<1> QED
  BY <1>1 DEF ReadInv, HomeRows

\* A cold file is searched for one event of one organization.
LEMMA ColdEventIsOwn ==
  ASSUME NEW ref, NEW org
  PROVE  /\ _get_event_from_cold(ref, org) \subseteq {ref.e}
         /\ ref.e \in DOMAIN event /\ event[ref.e].org # org => _get_event_from_cold(ref, org) = {}
BY DEF _get_event_from_cold, get_event_from_cold, InTier

\* An event asked for by a user outside its organization.
LEMMA EventStaysHome ==
  ASSUME ReadInv, NEW t \in Tokens, NEW ref \in EventRefs, ref.e \in DOMAIN event,
         <<t.user, event[ref.e].org>> \notin member
  PROVE  /\ tool_get_event(t, ref, Orgs) = {}
         /\ \A i \in ReadIssues : get_issue_event(t.user, i, ref) \cup get_event_json(t.user, IssueOrg(i), i, ref) = {}
<1>1. PICK u, x : u = t.user /\ x = ref.e
  OBVIOUS
<1>2. x \in DOMAIN event /\ <<u, event[x].org>> \notin member
  BY <1>1
<1>3. \A issues : x \notin EventQueryset(u, issues)
  BY <1>2, HotEventsAreOwn
<1>4. \A org : <<u, org>> \in member => _get_event_from_cold(ref, org) = {}
  BY <1>1, <1>2, ColdEventIsOwn
<1>5. ASSUME NEW i \in ReadIssues PROVE get_issue_event(u, i, ref) \cup get_event_json(u, IssueOrg(i), i, ref) = {}
  <2>1. list_issue_event(u, i) \cap {x} = {}
    BY <1>3 DEF list_issue_event
  <2>2. EventQueryset(u, { y \in {i} : IssueOrg(y) = IssueOrg(i) }) \cap {x} = {}
    BY <1>3
  <2>3. IssueOfUser(u, i) => _get_event_from_cold(ref, IssueOrg(i)) = {}
    BY <1>4 DEF IssueOfUser
  <2>4. get_issue_event(u, i, ref) = {}
    BY <1>1, <2>1, <2>3 DEF get_issue_event, HotOr
  <2>5. get_event_json(u, IssueOrg(i), i, ref) = {}
    BY <1>1, <2>2, <2>3 DEF get_event_json, HotOr
  <2> QED
    BY <2>4, <2>5
<1>6. mcp_get_event(u, ref, Orgs) = {}
  <2>1. \A org : query_cold_events(org, today - ScanDays, today + 1, {x}) = {} \/ event[x].org = org
    <3> SUFFICES ASSUME NEW org, event[x].org # org
                 PROVE  query_cold_events(org, today - ScanDays, today + 1, {x}) = {}
      OBVIOUS
    <3>1. { e \in InTier({"cold"}) \cap {x} :
              event[e].org = org /\ event[e].day >= today - ScanDays /\ event[e].day < today + 1 } = {}
      OBVIOUS
    <3> QED
      BY <3>1, NewestOfNone DEF query_cold_events
  <2>2. { e \in InTier({"hot"}) : e = x /\ event[e].org \in { o \in Orgs : <<u, o>> \in member } } = {}
    BY <1>2
  <2>3. UNION { (IF ref.by = "id" THEN _get_event_from_cold(ref, o)
                 ELSE query_cold_events(o, today - ScanDays, today + 1, {x})) : o \in { o \in Orgs : <<u, o>> \in member } } = {}
    BY <1>2, <1>4, <2>1
  <2>4. _attach_issue({}, u) = {}
    BY DEF _attach_issue
  <2> QED
    BY <1>1, <2>2, <2>3, <2>4 DEF mcp_get_event, HotOr
<1>7. tool_get_event(t, ref, Orgs) = {}
  BY <1>1, <1>6 DEF tool_get_event, _check_scopes
<1> QED
  BY <1>1, <1>5, <1>7

\* A project's issues and events, for a user outside its organization.
LEMMA ProjectStaysHome ==
  ASSUME ReadInv, NEW u, NEW p \in Projects, NEW ref \in EventRefs, <<u, OrgOf[p]>> \notin member
  PROVE  get_project_issue_event(u, OrgOf[p], p, ref) \cup list_project_issue_event(u, OrgOf[p], p)
           \cup rest_list_project_issues(u, OrgOf[p], p) = {}
<1>1. list_project_issue_event(u, OrgOf[p], p) = {}
  BY DEF list_project_issue_event, EventQueryset, IssueOfUser, IssueOrg
<1>2. rest_list_project_issues(u, OrgOf[p], p) = {}
  BY DEF rest_list_project_issues, IssueQueryset, IssueOfUser, IssueOrg
<1>3. get_project_issue_event(u, OrgOf[p], p, ref) = {}
  BY <1>1 DEF get_project_issue_event, HotOr
<1> QED
  BY <1>1, <1>2, <1>3

\* No endpoint and no tool shows a user anything of an organization the user is not in.
THEOREM ReadsNeverLeaveHome == ReadSpec => []ReadsStayHome
<1>1. ReadInv => ReadsStayHome
  <2> SUFFICES ASSUME ReadInv, NEW t \in Tokens
      PROVE LET u == t.user IN
        /\ \A i \in ReadIssues : IssueOrg(i) \in { m[2] : m \in { x \in member : x[1] = u } }
             \/ rest_get_issue(u, i) \cup issue_stats(u, IssueOrg(i), {i}) \cup tool_get_issue(t, i)
                  \cup get_latest_issue_event(u, i) \cup tool_get_latest_event(t, i) = {}
        /\ \A org \in Orgs : <<u, org>> \in member
             \/ rest_list_issues(u, org) \cup tool_list_issues(t, org) \cup tool_list_transaction_groups(t, org)
                  \cup tool_list_alerts([t EXCEPT !.scopes = {"project:read"}], org)
                  \cup tool_list_projects([t EXCEPT !.scopes = {"project:read"}], org)
                  \cup (tool_list_organizations([t EXCEPT !.scopes = {"org:read"}]) \cap {org}) = {}
        /\ \A org \in Orgs, p \in Projects : (<<u, org>> \in member /\ OrgOf[p] = org)
             \/ get_transaction_group(u, org, p) \cup list_transaction_spans(u, org, p)
                  \cup get_transaction_trend(u, org, p) \cup tool_list_transaction_spans(t, org, p)
                  \cup tool_get_transaction_trend(t, org, p) \cup rest_get_log(u, org, p) = {}
        /\ \A org \in Orgs : \A p \in list_span_groups(u, org) \cup list_n_plus_one_patterns(u, org)
               \cup list_log_resources(u, org) \cup list_transaction_groups(u, org)
               \cup tool_list_span_groups(t, org) \cup tool_detect_n_plus_one(t, org) \cup tool_list_logs(t, org) :
             OrgOf[p] = org /\ <<u, org>> \in member
        /\ \A ref \in EventRefs : ref.e \in DOMAIN event /\ <<u, event[ref.e].org>> \notin member =>
             /\ tool_get_event(t, ref, Orgs) = {}
             /\ \A i \in ReadIssues : get_issue_event(u, i, ref) \cup get_event_json(u, IssueOrg(i), i, ref) = {}
             /\ \A p \in Projects : <<u, OrgOf[p]>> \in member
                  \/ get_project_issue_event(u, OrgOf[p], p, ref) \cup list_project_issue_event(u, OrgOf[p], p)
                       \cup rest_list_project_issues(u, OrgOf[p], p) = {}
    BY DEF ReadsStayHome
  <2>1. \A i \in ReadIssues : <<t.user, IssueOrg(i)>> \in member =>
          IssueOrg(i) \in { m[2] : m \in { x \in member : x[1] = t.user } }
    OBVIOUS
  <2> QED
    BY <2>1, IssueStaysHome, ListsStayHome, RowsStayHome, ListedRowsAreOwn, EventStaysHome, ProjectStaysHome
<1> QED
  BY <1>1, ReadInvHolds, PTL
--------------------------------------------------------------------------------
\* The newest of some events is the one none is newer than.
LEMMA NewestIs ==
  ASSUME NEW S, S \subseteq Nat, NEW m \in S, \A y \in S : y <= m
  PROVE  Newest(S) = {m}
<1>1. Max(S) \in S /\ \A y \in S : Max(S) >= y
  <2>1. \E x \in S : \A y \in S : x >= y
    <3>1. \A y \in S : m >= y
      OBVIOUS
    <3> QED
      BY <3>1
  <2> QED
    BY <2>1 DEF Max
<1>2. PICK x : x = Max(S)
  OBVIOUS
<1>3. x \in Nat /\ m \in Nat /\ x >= m /\ x <= m
  BY <1>1, <1>2
<1>4. x = m
  BY <1>3
<1> QED
  BY <1>2, <1>4 DEF Newest

\* One event is the newest of itself.
LEMMA NewestOfOne == ASSUME NEW e PROVE e \in Nat => Newest({e}) = {e}
BY NewestIs

\* Of some events one is the newest.
LEMMA SomeIsNewest ==
  ASSUME NEW n \in Nat, NEW S, S \subseteq 1..n, S # {}
  PROVE  \E m \in S : \A y \in S : y <= m
<1> DEFINE T == { k \in Nat : \E y \in S : k = n - y }
<1>1. \A y \in S : n - y \in T
  OBVIOUS
<1>2. T \subseteq Nat /\ T # {}
  BY <1>1
<1>3. PICK k \in T : \A j \in T : k <= j
  <2> HIDE DEF T
  <2> QED
    BY <1>2, LeastNatural
<1>4. PICK m \in S : k = n - m
  OBVIOUS
<1>5. ASSUME NEW y \in S PROVE y <= m
  <2>1. k <= n - y
    BY <1>1, <1>3
  <2>2. y \in Int /\ m \in Int
    OBVIOUS
  <2> QED
    BY <1>4, <2>1, <2>2
<1> QED
  BY <1>5

\* The case of both readability claims: a stored event of an issue that exists, and a
\* user in its organization.
Readable(u, e) ==
  /\ e \in InTier({"hot", "cold"}) /\ Exists(event[e].issue) /\ <<u, event[e].org>> \in member

\* What is known of such an event.
LEMMA ReadableFacts ==
  ASSUME ReadInv, NEW u, NEW e, Readable(u, e)
  PROVE  /\ e \in DOMAIN event /\ e \in Nat /\ event[e] \in EventRow /\ event[e].issue \in ReadIssues
         /\ event[e].org \in Orgs /\ event[e].day \in Nat /\ event[e].day <= today /\ today \in Nat
         /\ event[e].tier \in {"hot", "cold"} /\ event[e].org = IssueOrg(event[e].issue)
         /\ IssueOfUser(u, event[e].issue)
<1>1. e \in DOMAIN event /\ event[e].tier \in {"hot", "cold"}
  BY DEF Readable, InTier
<1>2. event \in Seq(EventRow) /\ today \in Nat
  BY DEF ReadInv, ReadTypes
<1>3. /\ e \in Nat /\ event[e] \in EventRow /\ event[e].issue \in ReadIssues /\ event[e].org \in Orgs
      /\ event[e].day \in Nat
  BY <1>1, <1>2, IdsAreNumbers
<1>4. event[e].org = IssueOrg(event[e].issue) /\ event[e].day <= today
  BY <1>1 DEF ReadInv, HomeRows, DaysInOrder
<1> QED
  BY <1>1, <1>2, <1>3, <1>4 DEF Readable, IssueOfUser

\* The hot events asked for have it when it is hot.
LEMMA HotById ==
  ASSUME ReadInv, NEW u, NEW e, Readable(u, e), NEW issues, event[e].issue \in issues
  PROVE  EventQueryset(u, issues) \cap {e} = IF event[e].tier = "hot" THEN {e} ELSE {}
BY ReadableFacts DEF EventQueryset, InTier

\* The file of its day has it when it is cold.
LEMMA ColdById ==
  ASSUME ReadInv, NEW u, NEW e, Readable(u, e), event[e].tier = "cold", duckdb # "off"
  PROVE  _get_event_from_cold([by |-> "id", e |-> e], event[e].org) = {e}
BY ReadableFacts DEF _get_event_from_cold, get_event_from_cold, InTier

\* By its id it is found at every endpoint.
LEMMA EndpointsFindIt ==
  ASSUME ReadInv, NEW u, NEW e, Readable(u, e), event[e].tier = "hot" \/ duckdb # "off"
  PROVE  /\ get_issue_event(u, event[e].issue, [by |-> "id", e |-> e]) = {e}
         /\ get_event_json(u, event[e].org, event[e].issue, [by |-> "id", e |-> e]) = {e}
         /\ get_project_issue_event(u, event[e].org, ProjectOf[event[e].issue], [by |-> "id", e |-> e]) = {e}
<1>1. PICK ref, i, org, p : /\ ref = [by |-> "id", e |-> e] /\ i = event[e].issue /\ org = event[e].org
                            /\ p = ProjectOf[event[e].issue]
  OBVIOUS
<1>2. /\ i \in ReadIssues /\ org = IssueOrg(i) /\ org = OrgOf[p] /\ IssueOfUser(u, i) /\ <<u, org>> \in member
      /\ event[e].tier \in {"hot", "cold"} /\ ref.e = e
  BY <1>1, ReadableFacts, OrgsAre DEF IssueOfUser
<1>3. event[e].tier = "cold" => _get_event_from_cold(ref, org) = {e}
  BY <1>1, <1>2, ColdById
<1>4. \A hot, cold : /\ hot = (IF event[e].tier = "hot" THEN {e} ELSE {})
                     /\ event[e].tier = "cold" => cold = {e}
                     => HotOr(hot, cold) = {e}
  BY <1>2 DEF HotOr
<1>5. get_issue_event(u, i, ref) = {e}
  <2>1. EventQueryset(u, {i}) \cap {e} = IF event[e].tier = "hot" THEN {e} ELSE {}
    BY <1>1, HotById
  <2> QED
    BY <1>2, <1>3, <1>4, <2>1 DEF get_issue_event, list_issue_event
<1>6. get_event_json(u, org, i, ref) = {e}
  <2>1. PICK issues : issues = { x \in {i} : IssueOrg(x) = org }
    OBVIOUS
  <2>2. EventQueryset(u, issues) \cap {e} = IF event[e].tier = "hot" THEN {e} ELSE {}
    BY <1>1, <1>2, <2>1, HotById
  <2> QED
    BY <1>2, <1>3, <1>4, <2>1, <2>2 DEF get_event_json
<1>7. get_project_issue_event(u, org, p, ref) = {e}
  <2>1. PICK issues : issues = { x \in ReadIssues : ProjectOf[x] = p /\ OrgOf[p] = org }
    OBVIOUS
  <2>2. EventQueryset(u, issues) \cap {e} = IF event[e].tier = "hot" THEN {e} ELSE {}
    BY <1>1, <1>2, <2>1, HotById
  <2> QED
    BY <1>2, <1>3, <1>4, <2>1, <2>2 DEF get_project_issue_event, list_project_issue_event
<1> QED
  BY <1>1, <1>5, <1>6, <1>7

\* The tool that looks in every organization of the user finds it by either id.
LEMMA ToolFindsIt ==
  ASSUME ReadInv, NEW u, NEW e, Readable(u, e), NEW by \in {"id", "sdk"}, NEW orgs, event[e].org \in orgs,
         /\ by = "id" => event[e].tier = "hot" \/ duckdb # "off"
         /\ by = "sdk" => event[e].tier = "hot" \/ (duckdb = "on" /\ event[e].day >= today - ScanDays)
  PROVE  mcp_get_event(u, [by |-> by, e |-> e], orgs) = {e}
<1>1. PICK ref, org : ref = [by |-> by, e |-> e] /\ org = event[e].org
  OBVIOUS
<1>2. /\ e \in DOMAIN event /\ e \in Nat /\ event[e].tier \in {"hot", "cold"} /\ IssueOfUser(u, event[e].issue)
      /\ event[e].day \in Nat /\ event[e].day <= today /\ today \in Nat
      /\ <<u, org>> \in member /\ ref.e = e /\ ref.by = by
  BY <1>1, ReadableFacts DEF Readable
<1> DEFINE mine == { o \in orgs : <<u, o>> \in member }
           Cold(o) == IF ref.by = "id" THEN _get_event_from_cold(ref, o)
                      ELSE query_cold_events(o, today - ScanDays, today + 1, {ref.e})
           Hot == { x \in InTier({"hot"}) : x = ref.e /\ event[x].org \in mine }
<1>3. Hot = IF event[e].tier = "hot" THEN {e} ELSE {}
  BY <1>1, <1>2 DEF InTier
<1>4. ASSUME event[e].tier = "cold" PROVE _attach_issue(UNION { Cold(o) : o \in mine }, u) = {e}
  <2>1. \A o : Cold(o) \subseteq {e}
    <3> SUFFICES ASSUME NEW o PROVE Cold(o) \subseteq {e}
      OBVIOUS
    <3>1. _get_event_from_cold(ref, o) \subseteq {e}
      BY <1>2, ColdEventIsOwn
    <3>2. query_cold_events(o, today - ScanDays, today + 1, {e}) \subseteq {e}
      <4>1. PICK S : S = { x \in InTier({"cold"}) \cap {e} :
                             event[x].org = o /\ event[x].day >= today - ScanDays /\ event[x].day < today + 1 }
        OBVIOUS
      <4>2. S = {} \/ S = {e}
        BY <4>1
      <4>3. Newest(S) \subseteq {e}
        BY <1>2, <4>2, NewestOfNone, NewestOfOne
      <4> QED
        BY <4>1, <4>3 DEF query_cold_events
    <3> QED
      BY <1>2, <3>1, <3>2
  <2>2. Cold(org) = {e}
    <3>1. CASE by = "id"
      BY <1>1, <1>2, <1>4, <3>1, ColdById
    <3>2. CASE by = "sdk"
      <4>1. duckdb = "on" /\ event[e].day >= today - ScanDays /\ event[e].day < today + 1
        BY <1>2, <1>4, <3>2
      <4>2. { x \in InTier({"cold"}) \cap {e} :
                event[x].org = org /\ event[x].day >= today - ScanDays /\ event[x].day < today + 1 } = {e}
        BY <1>1, <1>2, <1>4, <4>1 DEF InTier
      <4>3. query_cold_events(org, today - ScanDays, today + 1, {e}) = {e}
        BY <1>2, <4>1, <4>2, NewestOfOne DEF query_cold_events
      <4> QED
        BY <1>2, <3>2, <4>3
    <3> QED
      BY <3>1, <3>2
  <2>3. org \in mine
    BY <1>1, <1>2
  <2>4. UNION { Cold(o) : o \in mine } = {e}
    <3> HIDE DEF Cold, mine
    <3> QED
      BY <2>1, <2>2, <2>3
  <2>5. _attach_issue({e}, u) = {e}
    BY <1>2 DEF _attach_issue
  <2> QED
    BY <2>4, <2>5
<1>5. mcp_get_event(u, ref, orgs) = HotOr(Hot, _attach_issue(UNION { Cold(o) : o \in mine }, u))
  BY DEF mcp_get_event
<1>6. HotOr(Hot, _attach_issue(UNION { Cold(o) : o \in mine }, u)) = {e}
  <2> HIDE DEF Cold, mine, Hot
  <2> QED
    BY <1>2, <1>3, <1>4 DEF HotOr
<1> QED
  BY <1>1, <1>5, <1>6
--------------------------------------------------------------------------------
\* The newest stored event of an issue that exists is its newest event: those that
\* went are older.
LEMMA NewestIsStored ==
  ASSUME ReadInv, NEW i \in ReadIssues, Exists(i), i \notin mergedIssues,
         NEW m, m \in InTier({"hot", "cold"}), event[m].issue = i,
         \A y \in InTier({"hot", "cold"}) : event[y].issue = i => y <= m
  PROVE  last_seen[i] = event[m].day
<1>1. m \in DOMAIN event /\ event[m].tier # "gone"
  BY DEF InTier
<1>2. DOMAIN event \subseteq Nat /\ \A e \in DOMAIN event : event[e].tier \in {"hot", "cold", "gone"}
  BY IdsAreNumbers DEF ReadInv, ReadTypes
<1>3. ASSUME NEW f \in DOMAIN event, event[f].issue = i PROVE f <= m
  <2>1. CASE event[f].tier = "gone"
    <3>1. ~(m < f)
      BY <1>1, <1>3, <2>1 DEF ReadInv, GoneInOrder, Exists
    <3> QED
      BY <1>1, <1>2, <3>1
  <2>2. CASE event[f].tier # "gone"
    <3>1. f \in InTier({"hot", "cold"})
      BY <1>2, <2>2 DEF InTier
    <3> QED
      BY <1>3, <3>1
  <2> QED
    BY <2>1, <2>2
<1>4. IsNewest(event, i, m)
  BY <1>1, <1>3 DEF IsNewest
<1> QED
  BY <1>1, <1>4 DEF ReadInv, LeafIsNewest

\* The files of the days around last_seen have the newest event when it is cold.
LEMMA ColdFilesHaveNewest ==
  ASSUME ReadInv, NEW i \in ReadIssues, Exists(i), i \notin mergedIssues, duckdb = "on",
         NEW m, m \in InTier({"cold"}), event[m].issue = i,
         \A y \in InTier({"hot", "cold"}) : event[y].issue = i => y <= m
  PROVE  _get_cold_events_for_issue(i) = {m}
<1>1. PICK S : S = { e \in InTier({"cold"}) \cap EventsOfIssue(i) :
                       /\ event[e].org = IssueOrg(i) /\ event[e].day >= last_seen[i] - 1
                       /\ event[e].day < last_seen[i] + 1 }
  OBVIOUS
<1>2. m \in InTier({"hot", "cold"}) /\ m \in DOMAIN event /\ m \in EventsOfIssue(i)
  BY DEF InTier, EventsOfIssue
<1>3. last_seen[i] = event[m].day
  BY <1>2, NewestIsStored
<1>4. event[m].day \in Nat /\ event[m].org = IssueOrg(i)
  BY <1>2, IdsAreNumbers DEF ReadInv, ReadTypes, HomeRows
<1>5. m \in S
  BY <1>1, <1>2, <1>3, <1>4
<1>6. \A y \in S : y <= m
  BY <1>1 DEF InTier, EventsOfIssue
<1>7. S \subseteq Nat
  BY <1>1, IdsAreNumbers DEF InTier, ReadInv, ReadTypes
<1>8. Newest(S) = {m}
  BY <1>5, <1>6, <1>7, NewestIs
<1>9. query_cold_events(IssueOrg(i), last_seen[i] - 1, last_seen[i] + 1, EventsOfIssue(i)) = Newest(S)
  BY <1>1 DEF query_cold_events
<1> QED
  BY <1>8, <1>9 DEF _get_cold_events_for_issue

\* The latest event shown is the newest one stored.
LEMMA LatestIsNewest ==
  ASSUME ReadInv, NEW u, NEW e, Readable(u, e), duckdb = "on", event[e].issue \notin mergedIssues,
         ~LeftBehind(event[e].issue)
  PROVE  LET newest == Newest({ x \in InTier({"hot", "cold"}) : event[x].issue = event[e].issue }) IN
         /\ get_latest_issue_event(u, event[e].issue) = newest
         /\ mcp_get_latest_event(u, event[e].issue) = newest
<1>1. PICK i : i = event[e].issue
  OBVIOUS
<1>2. i \in ReadIssues /\ IssueOfUser(u, i) /\ Exists(i) /\ e \in InTier({"hot", "cold"}) /\ <<u, IssueOrg(i)>> \in member
  BY <1>1, ReadableFacts DEF Readable, IssueOfUser
<1>3. PICK S, H : /\ S = { x \in InTier({"hot", "cold"}) : event[x].issue = i }
                  /\ H = { x \in InTier({"hot"}) : event[x].issue = i }
  OBVIOUS
<1>4. DOMAIN event = 1..Len(event) /\ Len(event) \in Nat
  BY IdsAreNumbers DEF ReadInv, ReadTypes
<1>5. S \subseteq 1..Len(event) /\ H \subseteq S /\ e \in S
  BY <1>1, <1>2, <1>3, <1>4 DEF InTier
<1>6. PICK m \in S : \A y \in S : y <= m
  BY <1>4, <1>5, SomeIsNewest
<1>7. Newest(S) = {m}
  <2>1. S \subseteq Nat
    BY <1>4, <1>5
  <2> QED
    BY <1>6, <2>1, NewestIs
<1>8. list_issue_event(u, i) = H
  BY <1>2, <1>3 DEF list_issue_event, EventQueryset, InTier
<1>9. { x \in InTier({"hot"}) : event[x].issue = i /\ <<u, event[x].org>> \in member } = H
  BY <1>2, <1>3 DEF InTier, ReadInv, HomeRows
<1>10. HotOr(Newest(H), _get_cold_events_for_issue(i)) = {m}
  <2>1. CASE m \in H
    <3>1. H \subseteq Nat /\ \A y \in H : y <= m
      BY <1>4, <1>5, <1>6
    <3>2. Newest(H) = {m}
      BY <2>1, <3>1, NewestIs
    <3> QED
      BY <3>2 DEF HotOr
  <2>2. CASE m \notin H
    <3>1. m \in InTier({"cold"}) /\ event[m].issue = i
      BY <1>3, <1>6, <2>2 DEF InTier
    <3>2. H = {}
      <4> SUFFICES ASSUME NEW x \in H PROVE FALSE
        OBVIOUS
      <4>1. x \in InTier({"hot"}) /\ event[x].issue = i /\ x \in S
        BY <1>3, <1>5
      <4>2. ~(x < m)
        BY <1>1, <3>1, <4>1 DEF LeftBehind
      <4>3. x <= m /\ x # m
        BY <1>6, <2>2, <4>1
      <4> QED
        BY <1>4, <1>5, <4>1, <4>2, <4>3
    <3>3. \A y \in InTier({"hot", "cold"}) : event[y].issue = i => y <= m
      BY <1>3, <1>6
    <3>4. _get_cold_events_for_issue(i) = {m}
      BY <1>1, <1>2, <3>1, <3>3, ColdFilesHaveNewest
    <3> QED
      BY <3>2, <3>4, NewestOfNone DEF HotOr
  <2> QED
    BY <2>1, <2>2
<1>11. get_latest_issue_event(u, i) = {m} /\ mcp_get_latest_event(u, i) = {m}
  BY <1>2, <1>8, <1>9, <1>10 DEF get_latest_issue_event, mcp_get_latest_event
<1> QED
  BY <1>1, <1>3, <1>7, <1>11

\* A stored event of an issue that exists stays readable by its id at every endpoint
\* and tool when it is archived, and is the latest event on both when it is the newest.
THEOREM StoredEventsStayReadable == ReadSpec => []EventsStayReadable
<1>1. ReadInv => EventsStayReadable
  <2> SUFFICES ASSUME ReadInv, NEW u \in Users, NEW e \in InTier({"hot", "cold"}),
                      Exists(event[e].issue), <<u, event[e].org>> \in member
      PROVE
      /\ event[e].tier = "hot" \/ duckdb # "off" =>
           /\ get_issue_event(u, event[e].issue, [by |-> "id", e |-> e]) = {e}
           /\ get_event_json(u, event[e].org, event[e].issue, [by |-> "id", e |-> e]) = {e}
           /\ get_project_issue_event(u, event[e].org, ProjectOf[event[e].issue], [by |-> "id", e |-> e]) = {e}
           /\ mcp_get_event(u, [by |-> "id", e |-> e], Orgs) = {e}
      /\ event[e].tier = "hot" \/ (duckdb = "on" /\ event[e].day >= today - ScanDays) =>
           mcp_get_event(u, [by |-> "sdk", e |-> e], {event[e].org}) = {e}
      /\ duckdb = "on" /\ event[e].issue \notin mergedIssues /\ ~LeftBehind(event[e].issue) =>
           LET newest == Newest({ x \in InTier({"hot", "cold"}) : event[x].issue = event[e].issue }) IN
           get_latest_issue_event(u, event[e].issue) = newest /\ mcp_get_latest_event(u, event[e].issue) = newest
    BY DEF EventsStayReadable
  <2>1. Readable(u, e) /\ event[e].org \in Orgs
    BY ReadableFacts DEF Readable
  <2>2. PICK orgs : orgs = Orgs
    OBVIOUS
  <2>3. PICK own : own = {event[e].org}
    OBVIOUS
  <2>4. PICK id, sdk : id = "id" /\ sdk = "sdk"
    OBVIOUS
  <2>5. event[e].tier = "hot" \/ duckdb # "off" => mcp_get_event(u, [by |-> id, e |-> e], orgs) = {e}
    BY <2>1, <2>2, <2>4, ToolFindsIt
  <2>6. event[e].tier = "hot" \/ (duckdb = "on" /\ event[e].day >= today - ScanDays) =>
          mcp_get_event(u, [by |-> sdk, e |-> e], own) = {e}
    BY <2>1, <2>3, <2>4, ToolFindsIt
  <2>7. event[e].tier = "hot" \/ duckdb # "off" => mcp_get_event(u, [by |-> "id", e |-> e], Orgs) = {e}
    BY <2>2, <2>4, <2>5
  <2>8. event[e].tier = "hot" \/ (duckdb = "on" /\ event[e].day >= today - ScanDays) =>
          mcp_get_event(u, [by |-> "sdk", e |-> e], {event[e].org}) = {e}
    BY <2>3, <2>4, <2>6
  <2>9. event[e].tier = "hot" \/ duckdb # "off" =>
          /\ get_issue_event(u, event[e].issue, [by |-> "id", e |-> e]) = {e}
          /\ get_event_json(u, event[e].org, event[e].issue, [by |-> "id", e |-> e]) = {e}
          /\ get_project_issue_event(u, event[e].org, ProjectOf[event[e].issue], [by |-> "id", e |-> e]) = {e}
    BY <2>1, EndpointsFindIt
  <2>10. duckdb = "on" /\ event[e].issue \notin mergedIssues /\ ~LeftBehind(event[e].issue) =>
           LET newest == Newest({ x \in InTier({"hot", "cold"}) : event[x].issue = event[e].issue }) IN
           get_latest_issue_event(u, event[e].issue) = newest /\ mcp_get_latest_event(u, event[e].issue) = newest
    BY <2>1, LatestIsNewest
  <2> QED
    BY <2>7, <2>8, <2>9, <2>10
<1> QED
  BY <1>1, ReadInvHolds, PTL
================================================================================
