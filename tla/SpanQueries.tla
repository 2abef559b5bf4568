----------------------------- MODULE SpanQueries -----------------------------
(***************************************************************************)
(* Span and trend queries of Performance Monitoring while promotion and    *)
(* compaction (SpanCompaction) move the files they read.  A query lists    *)
(* the organization's directory, the date's, and each unsealed hour's, one *)
(* call after the other, and only then reads the files it listed; those    *)
(* that are gone by then are left out.                                     *)
(***************************************************************************)
EXTENDS SpanCompaction
LOCAL INSTANCE FiniteSetsExt

CONSTANTS
  NameOf,          \* of every span: the name of its transaction,
  OpOf,            \*   its operation and description,
  TraceOf,         \*   and its transaction_id
  Threshold,       \* spans per transaction that make an N+1 pattern
  MishapsQueried   \* bound: mishaps in a behaviour with a query under way

ASSUME QueryAssumption ==
  /\ DOMAIN NameOf = Spans /\ DOMAIN OpOf = Spans /\ DOMAIN TraceOf = Spans
  /\ Threshold \in Nat \ {0} /\ MishapsQueried \in Nat

VARIABLE query   \* the query being answered

Trees == {"raw", "rollup"}
NoQuery == [at |-> "none", tree |-> "raw", paths |-> {}, dirs |-> {}, rows |-> NoContents,
            still |-> {}, gaveUp |-> FALSE]
queryVars == <<vars, query>>

\* The files of the raw and of the rollup tree, and their rows; a file that was
\* cut short fails the statement as one that is gone does.
DayFileOf(tree) == IF tree = "raw" THEN dayFile ELSE rollupDay
HourFilesOf(tree) == IF tree = "raw" THEN hourFile ELSE rollup
OpenHours(tree) == IF tree = "raw" THEN {c.hour : c \in chunks} ELSE {}
Readable(tree, f) ==
  CASE f[1] = "day"   -> DayFileOf(tree) # {}
    [] f[1] = "hour"  -> f[2] \in {h \in DOMAIN HourFilesOf(tree) : HourFilesOf(tree)[h] # NoContents}
    [] f[1] = "chunk" -> \E c \in chunks \ Torn : c.n = f[2]
RowsIn(tree, f) ==
  CASE f[1] = "day"   -> Only(DayFileOf(tree))
    [] f[1] = "hour"  -> HourFilesOf(tree)[f[2]]
    [] f[1] = "chunk" -> [s \in Spans |-> IF \E c \in chunks : c.n = f[2] /\ s \in c.rows THEN 1 ELSE 0]
Scan(tree, paths) == [s \in Spans |-> MapThenSumSet(LAMBDA f : RowsIn(tree, f)[s], paths)]

\* Where the rows of a span are now; a query need not find rows that move.
PlaceOf(tree, s) ==
  CASE DayFileOf(tree) # {} -> {<<"day", 0>>}
    [] DayFileOf(tree) = {} /\ hourOf[s] \in DOMAIN HourFilesOf(tree) -> {<<"hour", hourOf[s]>>}
    [] OTHER -> IF tree = "raw" THEN {<<"chunk", c.n>> : c \in {x \in chunks : s \in x.rows}} ELSE {}
Places == [tree \in Trees |-> [s \in Spans |-> PlaceOf(tree, s)]]
SeenIn(tree, s) == IF tree = "raw" THEN Visible(s) > 0 ELSE RollupVisible(s) > 0
----------------------------------------------------------------------------
Answer(rows, gaveUp) ==
  query' = [query EXCEPT !.at = "answer", !.paths = {}, !.dirs = {}, !.rows = rows, !.gaveUp = gaveUp]
Listed(paths, dirs) ==
  IF dirs # {} THEN query' = [query EXCEPT !.at = "hours", !.paths = paths, !.dirs = dirs]
  ELSE IF paths # {} THEN query' = [query EXCEPT !.at = "execute", !.paths = paths, !.dirs = {}]
  ELSE Answer(NoContents, FALSE)

\* listdir of the organization: a sealed day shadows the date's directory.
ListOrg(tree) ==
  /\ query.at = "none" /\ mishaps <= MishapsQueried
  /\ query' = [NoQuery EXCEPT
       !.tree = tree, !.still = {s \in Spans : SeenIn(tree, s)},
       !.at = IF DayFileOf(tree) # {} THEN "execute" ELSE "date",
       !.paths = IF DayFileOf(tree) # {} THEN {<<"day", 0>>} ELSE {}]

\* Mutant of ListDate: a sealed hour does not shadow its chunks.
ListDateUnshadowed ==
  /\ query.at = "date"
  /\ Listed({<<"hour", h>> : h \in DOMAIN HourFilesOf(query.tree)}, OpenHours(query.tree))

\* listdir of the date, empty when the directory is gone: the sealed hours, and
\* the directories of the others.
ListDate ==
  /\ query.at = "date"
  /\ LET sealed == DOMAIN HourFilesOf(query.tree)
     IN Listed({<<"hour", h>> : h \in sealed}, OpenHours(query.tree) \ sealed)

\* listdir of an hour, in order; skipped when it is gone.
ListHour ==
  /\ query.at = "hours"
  /\ LET h == CHOOSE x \in query.dirs : \A y \in query.dirs : x <= y
     IN Listed(query.paths \cup {<<"chunk", c.n>> : c \in ChunksOf(h)}, query.dirs \ {h})

\* All files in one statement; it fails when one is gone, and each is then tried.
Execute ==
  /\ query.at = "execute"
  /\ IF \A f \in query.paths : Readable(query.tree, f)
     THEN Answer(Scan(query.tree, query.paths), FALSE)
     ELSE query' = [query EXCEPT !.at = "validate"]
\* No slot within the timeout: the answer is empty.
ExecuteRefused == query.at = "execute" /\ Answer(NoContents, TRUE)
Validate ==
  /\ query.at = "validate"
  /\ LET valid == {f \in query.paths : Readable(query.tree, f)}
     IN IF valid = {} THEN Answer(NoContents, FALSE)
        ELSE query' = [query EXCEPT !.at = "retry", !.paths = valid]
Retry ==
  /\ query.at = "retry"
  /\ IF \A f \in query.paths : Readable(query.tree, f)
     THEN Answer(Scan(query.tree, query.paths), FALSE)
     ELSE Answer(NoContents, TRUE)
Return == query.at = "answer" /\ query' = NoQuery

QueryStep ==
  \/ \E tree \in Trees : ListOrg(tree)
  \/ ListDate \/ ListHour \/ Execute \/ ExecuteRefused \/ Validate \/ Retry \/ Return

\* A step of promotion or compaction: rows that move are no longer promised.
TierStep ==
  /\ Next
  /\ query.at = "none" \/ mishaps' <= MishapsQueried
  /\ query' = [query EXCEPT !.still =
       {s \in @ : Places'[query.tree][s] = Places[query.tree][s]}]

QueriesInit == Init /\ query = NoQuery
QueriesNext == TierStep \/ (QueryStep /\ UNCHANGED vars)
QueriesSpec == QueriesInit /\ [][QueriesNext]_queryVars
\* The tasks are as fair as in SpanCompaction; queries may stop anywhere.
FairQueries == QueriesSpec /\ Fairness
----------------------------------------------------------------------------
(* What the endpoints make of the rows. *)

CountOf(rows, S) == MapThenSumSet(LAMBDA s : rows[s], S)
Grouped(rows, S) == [g \in {OpOf[s] : s \in {x \in S : rows[x] > 0}} |->
                       CountOf(rows, {s \in S : OpOf[s] = g})]
query_span_groups_for_transaction(rows, name) == Grouped(rows, {s \in Spans : NameOf[s] = name})
query_span_groups(rows) == Grouped(rows, Spans)
\* COUNT(*) / COUNT(DISTINCT transaction_id) above the threshold.
query_n_plus_one_patterns(rows) ==
  LET Of(g) == {s \in Spans : rows[s] > 0 /\ <<NameOf[s], OpOf[s]>> = g}
  IN {g \in {<<NameOf[s], OpOf[s]>> : s \in Spans} :
        Of(g) # {} /\ CountOf(rows, Of(g)) > Threshold * Cardinality({TraceOf[s] : s \in Of(g)})}
query_transaction_trend(rows, name) == CountOf(rows, {s \in Spans : NameOf[s] = name})

\* Whatever moves while a query lists and reads, it counts no span twice, finds
\* every span whose rows stayed where they were, unless it gave up, and reports
\* an N+1 pattern only where a transaction really repeats the span that often
\* (performance/cold_storage.py 45-93, cold_storage.py 517-584).
AnswersCountOnce ==
  query.at = "answer" /\ duplicated = {} =>
    LET found == query.rows
        Sent(S) == Cardinality(S \cap arrived)
        Sure(S) == IF query.gaveUp THEN 0 ELSE Cardinality(S \cap query.still)
    IN IF query.tree = "rollup"
       THEN \A name \in {NameOf[s] : s \in Spans} :
              LET S == {s \in Spans : NameOf[s] = name}
              IN query_transaction_trend(found, name) \in Sure(S)..Sent(S)
       ELSE /\ \A name \in {NameOf[s] : s \in Spans} :
                 LET groups == query_span_groups_for_transaction(found, name)
                 IN \A g \in DOMAIN groups :
                      LET S == {s \in Spans : NameOf[s] = name /\ OpOf[s] = g}
                      IN groups[g] \in Sure(S)..Sent(S)
            /\ \A s \in Spans : Sure({s}) > 0 => OpOf[s] \in DOMAIN query_span_groups(found)
            /\ \A g \in query_n_plus_one_patterns(found) : \E t \in {TraceOf[s] : s \in Spans} :
                 Sent({s \in Spans : TraceOf[s] = t /\ <<NameOf[s], OpOf[s]>> = g}) > Threshold

\* Readers find a promoted span exactly once while promotion and compaction move
\* its rows from chunk to hour to day: at any moment (AtMostOnce, NoSpanLost) and
\* in an answer put together over several of them (AnswersCountOnce).
SpansReadOnce == AtMostOnce /\ NoSpanLost /\ AnswersCountOnce
==============================================================================
