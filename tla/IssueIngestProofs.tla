--------------------------- MODULE IssueIngestProofs ---------------------------
(***************************************************************************)
(* TLAPS proofs about IssueIngest, for any number of workers, callers,     *)
(* hashes, releases, events and tasks that die: how events are filed; then *)
(* CountsHold, what the leaf rows, the statistics and the event rows of a  *)
(* project say of each other; then StatusKeepsUp, an issue's status under  *)
(* ingest, status calls and bulk edits.  Then Releases: what ingest        *)
(* batches, API requests and the cleanup leave of releases, ReleasesHold.  *)
(***************************************************************************)
EXTENDS IssueIngest, Releases, FiniteSetTheorems, WellFoundedInduction, TLAPS

USE DEF NoIssue

\* Among the down-sets of the members of a finite set of numbers one is least
\* for inclusion; its top is the least number.  First returns it.
LEMMA FirstExists ==
  ASSUME NEW n \in Nat, NEW S, S \subseteq 0..n, S # {}
  PROVE  First(S) \in S
<1> DEFINE Down(x) == {y \in S : y <= x}
           F == {Down(x) : x \in S}
<1>0. IsFiniteSet(0..n)
  BY FS_Interval
<1>1. IsFiniteSet(S)
  BY <1>0, FS_Subset
<1>2. F \subseteq SUBSET S /\ F # {}
  OBVIOUS
<1>3. IsWellFoundedOn(StrictSubsetOrdering(S), FiniteSubsetsOf(S))
  BY FS_StrictSubsetOrderingWellFounded
<1>4. F \subseteq FiniteSubsetsOf(S)
  BY <1>1, <1>2, FS_Subset DEF FiniteSubsetsOf
<1>5. PICK D \in F : \A E \in F : ~ (<<E, D>> \in StrictSubsetOrdering(S))
  BY <1>2, <1>3, <1>4, WFMin
<1>6. PICK m \in S : D = Down(m)
  BY <1>5
<1>7. \A y \in S : m <= y
  <2> SUFFICES ASSUME NEW y \in S, y < m PROVE FALSE
    OBVIOUS
  <2> m \in Int /\ y \in Int /\ S \subseteq Int
    OBVIOUS
  <2>1. Down(y) \subseteq Down(m)
    <3> SUFFICES ASSUME NEW z \in Down(y) PROVE z \in Down(m)
      OBVIOUS
    <3> z \in S /\ z \in Int
      OBVIOUS
    <3> QED
      OBVIOUS
  <2>3. m \in Down(m) /\ m \notin Down(y)
    OBVIOUS
  <2>2. <<Down(y), Down(m)>> \in StrictSubsetOrdering(S)
    BY <2>1, <2>3, <1>1, <1>4 DEF StrictSubsetOrdering
  <2> QED
    BY <2>2, <1>5, <1>6
<1> QED
  BY <1>7 DEF First

\* Among the up-sets of the members of a finite set of numbers one is least
\* for inclusion; its bottom is the greatest number.  Latest returns it.
LEMMA LatestExists ==
  ASSUME NEW n \in Nat, NEW S, S \subseteq 0..n, S # {}
  PROVE  Latest(S) \in S /\ \A f \in S : Latest(S) >= f
<1> DEFINE Up(x) == {y \in S : y >= x}
           F == {Up(x) : x \in S}
<1>0. IsFiniteSet(0..n)
  BY FS_Interval
<1>1. IsFiniteSet(S)
  BY <1>0, FS_Subset
<1>2. F \subseteq SUBSET S /\ F # {}
  OBVIOUS
<1>3. IsWellFoundedOn(StrictSubsetOrdering(S), FiniteSubsetsOf(S))
  BY FS_StrictSubsetOrderingWellFounded
<1>4. F \subseteq FiniteSubsetsOf(S)
  BY <1>1, <1>2, FS_Subset DEF FiniteSubsetsOf
<1>5. PICK D \in F : \A E \in F : ~ (<<E, D>> \in StrictSubsetOrdering(S))
  BY <1>2, <1>3, <1>4, WFMin
<1>6. PICK m \in S : D = Up(m)
  BY <1>5
<1>7. \A y \in S : m >= y
  <2> SUFFICES ASSUME NEW y \in S, y > m PROVE FALSE
    OBVIOUS
  <2> m \in Int /\ y \in Int /\ S \subseteq Int
    OBVIOUS
  <2>1. Up(y) \subseteq Up(m)
    <3> SUFFICES ASSUME NEW z \in Up(y) PROVE z \in Up(m)
      OBVIOUS
    <3> z \in S /\ z \in Int
      OBVIOUS
    <3> QED
      OBVIOUS
  <2>3. m \in Up(m) /\ m \notin Up(y)
    OBVIOUS
  <2>2. <<Up(y), Up(m)>> \in StrictSubsetOrdering(S)
    BY <2>1, <2>3, <1>1, <1>4 DEF StrictSubsetOrdering
  <2> QED
    BY <2>2, <1>5, <1>6
<1> QED
  BY <1>7 DEF Latest

\* Batches are finite, so what the counters add is a natural number.
LEMMA CardinalityOfEvents ==
  ASSUME NEW S, S \subseteq EventIds
  PROVE  Cardinality(S) \in Nat
<1>1. IsFiniteSet(1..MaxEvents)
  BY BoundsAssumption, FS_Interval
<1>2. IsFiniteSet(S)
  BY <1>1, FS_Subset DEF EventIds
<1> QED
  BY <1>2, FS_CardinalityType

\* The first unattributed event of a worker that is about to insert.
LEMMA FirstUnresolved ==
  ASSUME TypeOK, NEW w \in Workers, Unresolved(w) # {}
  PROVE  /\ First(Unresolved(w)) \in EventIds
         /\ First(Unresolved(w)) \in batch[w]
         /\ att[w][First(Unresolved(w))] = NoIssue
<1>1. Unresolved(w) \subseteq 0..MaxEvents
  BY BoundsAssumption DEF TypeOK, Unresolved, EventIds
<1>2. First(Unresolved(w)) \in Unresolved(w)
  BY <1>1, BoundsAssumption, FirstExists
<1> QED
  BY <1>2 DEF TypeOK, Unresolved

\* The joined row of a hash names the issue of that hash or none.
LEMMA JoinRowIssue ==
  ASSUME TypeOK, NEW h \in Hashes
  PROVE  JoinRow(h) \in JoinRows /\ JoinRow(h).issue \in {NoIssue, hash[h]}
<1>1. hash[h] \in 0..MaxIssues /\ 0 \in 0..MaxIssues
  BY BoundsAssumption DEF TypeOK
<1>2. ASSUME hash[h] \in issues, hash[h] \in leaves PROVE status[hash[h]] \in Statuses /\ resolvedIn[hash[h]] \in ReleaseIds
  BY <1>2 DEF TypeOK
<1> QED
  BY <1>1, <1>2 DEF JoinRow, JoinRows, Statuses, ReleaseIds

\* What a lookup may leave behind: attributions that agree with the hash rows,
\* issues to reopen, and the other workers untouched.
LookupResult(w) ==
  /\ att' \in [Workers -> [EventIds -> 0..MaxIssues]]
  /\ reopen' \in [Workers -> SUBSET IssueIds]
  /\ \A v \in Workers \ {w} : att'[v] = att[v]
  /\ \A v \in Workers, e \in EventIds :
       att'[v][e] # NoIssue => att'[v][e] = hash[ev[e].hash]

\* A lookup whose rows agree with the hash table attributes correctly.
LEMMA LookupCorrect ==
  ASSUME TypeOK, BeliefsMatchRows, NEW w \in Workers,
         NEW es, es \subseteq EventIds, NEW row \in [Hashes -> JoinRows],
         \A h \in Hashes : row[h].issue \in {NoIssue, hash[h]},
         Lookup(w, es, row)
  PROVE  LookupResult(w)
<1>1. \A e \in EventIds : ev[e].hash \in Hashes
  BY DEF TypeOK, ProcessingEvent
<1>2. \A h \in Hashes : row[h].issue \in 0..MaxIssues
  BY DEF JoinRows
<1>3. att' \in [Workers -> [EventIds -> 0..MaxIssues]]
  BY <1>1, <1>2 DEF Lookup, TypeOK
<1>4. reopen' \in [Workers -> SUBSET IssueIds]
  <2>1. \A e \in es : Regresses(row[ev[e].hash], ev[e].release) =>
                      row[ev[e].hash].issue \in IssueIds
    BY <1>1, <1>2, BoundsAssumption DEF Regresses, IssueIds
  <2> QED
    BY <2>1 DEF Lookup, TypeOK
<1>5. \A v \in Workers \ {w} : att'[v] = att[v]
  BY DEF Lookup, TypeOK
<1>6. \A e \in EventIds : att'[w][e] # NoIssue => att'[w][e] = hash[ev[e].hash]
  BY <1>1 DEF Lookup, TypeOK, BeliefsMatchRows
<1> QED
  BY <1>3, <1>4, <1>5, <1>6 DEF LookupResult, BeliefsMatchRows

--------------------------------------------------------------------------------
\* The invariant holds at the start.
LEMMA InitIInv == Init => IInv
<1> SUFFICES ASSUME Init PROVE IInv
  OBVIOUS
<1>1. TypeOK
  BY BoundsAssumption, LegacyAssumption
     DEF Init, TypeOK, EventIds, IssueIds, Statuses, Steps, ReleaseIds,
         JoinRows, ProcessingEvent
<1>2. BeliefsMatchRows /\ EventsFiledByHash /\ IdsFromSequence
  BY DEF Init, BeliefsMatchRows, EventsFiledByHash, IdsFromSequence
<1>3. OneIssuePerHash
  BY LegacyAssumption DEF Init, OneIssuePerHash
<1>4. ShortIdsHandedOut /\ ShortIdsDistinct
  BY BoundsAssumption, LegacyAssumption
     DEF Init, ShortIdsHandedOut, ShortIdsDistinct, Holds, IssueIds
<1>5. Progress
  BY DEF Init, Progress
<1> QED
  BY <1>1, <1>2, <1>3, <1>4, <1>5 DEF IInv

\* Every action preserves the inductive invariant.
LEMMA StepIInv == IInv /\ [Next]_vars => IInv'
<1> SUFFICES ASSUME IInv, [Next]_vars PROVE IInv'
  OBVIOUS
<1> USE BoundsAssumption
<1> TypeOK
  BY DEF IInv
<1>1. ASSUME NEW w \in Workers, NEW n \in 1..MaxBatch, TakeBatch(w, n)
      PROVE  IInv'
  <2>1. TypeOK'
    <3>a. taken \in 0..MaxEvents
      BY DEF TypeOK
    <3>b. taken + n <= MaxEvents /\ taken' = taken + n
      BY <1>1 DEF TakeBatch
    <3>1. taken' \in 0..MaxEvents /\ taken + 1 .. taken + n \subseteq EventIds
      BY <3>a, <3>b DEF EventIds
    <3>2. batch' \in [Workers -> SUBSET EventIds] /\ pc' \in [Workers -> Steps]
      BY <1>1, <3>1 DEF TakeBatch, TypeOK, Steps
    <3> QED
      BY <1>1, <3>1, <3>2 DEF TakeBatch, dbVars, TypeOK
  <2>2. BeliefsMatchRows' /\ EventsFiledByHash'
    BY <1>1 DEF IInv, TypeOK, BeliefsMatchRows, EventsFiledByHash, TakeBatch, dbVars, workerVars, histVars
  <2>3. IdsFromSequence' /\ OneIssuePerHash'
    BY <1>1 DEF IInv, TypeOK, IdsFromSequence, OneIssuePerHash, TakeBatch, dbVars, workerVars, histVars
  <2>4. ShortIdsHandedOut' /\ ShortIdsDistinct'
    BY <1>1 DEF IInv, TypeOK, ShortIdsHandedOut, ShortIdsDistinct, Holds, TakeBatch, dbVars, workerVars, histVars
  <2>5. Progress'
    BY <1>1 DEF IInv, TypeOK, Progress, Unresolved, TakeBatch, dbVars, workerVars, histVars
  <2> QED
    BY <2>1, <2>2, <2>3, <2>4, <2>5 DEF IInv
<1>2. ASSUME NEW w \in Workers, FetchHashes(w)
      PROVE  IInv'
  <2> DEFINE row == IF ReadReplica THEN replica ELSE [h \in Hashes |-> JoinRow(h)]
  <2>a. row \in [Hashes -> JoinRows]
    BY JoinRowIssue DEF TypeOK, JoinRows
  <2>b. \A h \in Hashes : row[h].issue \in {NoIssue, hash[h]}
    BY JoinRowIssue DEF IInv, BeliefsMatchRows
  <2>c. Lookup(w, batch[w], row) /\ batch[w] \subseteq EventIds
    BY <1>2 DEF FetchHashes, TypeOK
  <2>d. LookupResult(w)
    BY <2>a, <2>b, <2>c, LookupCorrect DEF IInv
  <2>1. TypeOK'
    BY <1>2, <2>d DEF FetchHashes, LookupResult, TypeOK, Steps, dbVars, histVars
  <2>2. BeliefsMatchRows' /\ EventsFiledByHash'
    BY <1>2, <2>d DEF FetchHashes, LookupResult, IInv, BeliefsMatchRows,
                     EventsFiledByHash, dbVars
  <2>3. IdsFromSequence' /\ OneIssuePerHash'
    BY <1>2 DEF IInv, TypeOK, IdsFromSequence, OneIssuePerHash, FetchHashes, dbVars, workerVars, histVars
  <2>4. ShortIdsHandedOut' /\ ShortIdsDistinct'
    BY <1>2 DEF IInv, TypeOK, ShortIdsHandedOut, ShortIdsDistinct, Holds, FetchHashes, dbVars, workerVars, histVars
  <2>5. Progress'
    BY <1>2, <2>d DEF FetchHashes, LookupResult, IInv, Progress, Unresolved, TypeOK
  <2> QED
    BY <2>1, <2>2, <2>3, <2>4, <2>5 DEF IInv
<1>3. ASSUME NEW w \in Workers, FetchMissing(w)
      PROVE  IInv'
  <2> DEFINE row == [h \in Hashes |-> JoinRow(h)]
  <2>a. row \in [Hashes -> JoinRows]
    BY JoinRowIssue DEF TypeOK, JoinRows
  <2>b. \A h \in Hashes : row[h].issue \in {NoIssue, hash[h]}
    BY JoinRowIssue
  <2>c. Lookup(w, Unresolved(w), row) /\ Unresolved(w) \subseteq EventIds
    BY <1>3 DEF FetchMissing, TypeOK, Unresolved
  <2>d. LookupResult(w)
    BY <2>a, <2>b, <2>c, LookupCorrect DEF IInv
  <2>1. TypeOK'
    BY <1>3, <2>d DEF FetchMissing, LookupResult, TypeOK, Steps, dbVars, histVars
  <2>2. BeliefsMatchRows' /\ EventsFiledByHash'
    BY <1>3, <2>d DEF FetchMissing, LookupResult, IInv, BeliefsMatchRows,
                     EventsFiledByHash, dbVars
  <2>3. IdsFromSequence' /\ OneIssuePerHash'
    BY <1>3 DEF IInv, TypeOK, IdsFromSequence, OneIssuePerHash, FetchMissing, dbVars, workerVars, histVars
  <2>4. ShortIdsHandedOut' /\ ShortIdsDistinct'
    BY <1>3 DEF IInv, TypeOK, ShortIdsHandedOut, ShortIdsDistinct, Holds, FetchMissing, dbVars, workerVars, histVars
  <2>5. Progress'
    BY <1>3, <2>d DEF FetchMissing, LookupResult, IInv, Progress, Unresolved, TypeOK
  <2> QED
    BY <2>1, <2>2, <2>3, <2>4, <2>5 DEF IInv
<1>4. ASSUME NEW w \in Workers, TakeShortId(w)
      PROVE  IInv'
  <2>1. TypeOK'
    BY <1>4 DEF TakeShortId, dbVars, workerVars, histVars, TypeOK, Steps, Statuses
  <2>2. BeliefsMatchRows' /\ EventsFiledByHash'
    BY <1>4 DEF IInv, TypeOK, BeliefsMatchRows, EventsFiledByHash, TakeShortId, dbVars, workerVars, histVars
  <2>3. IdsFromSequence' /\ OneIssuePerHash'
    BY <1>4 DEF IInv, TypeOK, IdsFromSequence, OneIssuePerHash, TakeShortId, dbVars, workerVars, histVars
  <2>4. ShortIdsHandedOut' /\ ShortIdsDistinct'
    BY <1>4 DEF IInv, TypeOK, ShortIdsHandedOut, ShortIdsDistinct, Holds, TakeShortId, dbVars, workerVars, histVars
  <2>5. Progress'
    BY <1>4 DEF IInv, TypeOK, Progress, Unresolved, TakeShortId, dbVars, workerVars, histVars
  <2> QED
    BY <2>1, <2>2, <2>3, <2>4, <2>5 DEF IInv
<1>5. ASSUME NEW w \in Workers, InsertIssue(w)
      PROVE  IInv'
  <2> DEFINE e == First(Unresolved(w))
             h == ev[e].hash
             i == issueSeq + 1
  <2>a. Unresolved(w) # {}
    BY <1>5 DEF InsertIssue, IInv, Progress
  <2>b. e \in EventIds /\ h \in Hashes
    BY <2>a, FirstUnresolved DEF TypeOK, ProcessingEvent
  <2>c. i \in IssueIds /\ i # NoIssue /\ i \notin issues
    BY <1>5 DEF InsertIssue, IInv, IdsFromSequence, TypeOK, IssueIds
  <2>d. \A g \in Hashes : hash[g] # i
    BY <2>c DEF IInv, OneIssuePerHash
  <2> HIDE DEF e, h, i
  <2>f. /\ hash[h] = NoIssue /\ hash' = [hash EXCEPT ![h] = i]
        /\ issues' = issues \cup {i} /\ issueSeq' = i
        /\ shortId' = [shortId EXCEPT ![i] = short[w]]
        /\ att' = [att EXCEPT ![w] = [f \in EventIds |->
               IF f \in FiledWith(w, h) THEN i ELSE att[w][f]]]
        /\ leaves' = leaves \cup {i} /\ count' = [count EXCEPT ![i] = 1]
        /\ lastSeen' = [lastSeen EXCEPT ![i] = e]
        /\ status' = [status EXCEPT ![i] = "unresolved"]
        /\ resolvedIn' = [resolvedIn EXCEPT ![i] = NoRelease]
        /\ created' = [created EXCEPT ![w] = @ \cup {e}]
        /\ pc[w] = "insert" /\ pc' = [pc EXCEPT ![w] = "create"]
        /\ UNCHANGED <<ev, taken, stored, projStat, aggr, counter, replica,
                       pending, batch, reopen, short, snap, api>>
    BY <1>5 DEF InsertIssue, e, h, i
  <2>1. TypeOK'
    <3>1. /\ issues' \subseteq IssueIds /\ leaves' \subseteq IssueIds
          /\ issueSeq' \in 0..MaxIssues
      BY <2>c, <2>f DEF TypeOK, IssueIds
    <3>4. hash' \in [Hashes -> 0..MaxIssues]
      <4>1. i \in 0..MaxIssues
        BY <2>c DEF IssueIds
      <4> QED
        BY <4>1, <2>f DEF TypeOK
    <3>5. shortId' \in [IssueIds -> Nat]
      <4>1. short[w] \in Nat
        BY DEF TypeOK
      <4> QED
        BY <4>1, <2>f DEF TypeOK
    <3>6. count' \in [IssueIds -> Nat]
      BY <2>f DEF TypeOK
    <3>7. lastSeen' \in [IssueIds -> 0..MaxEvents]
      <4>1. e \in 0..MaxEvents
        BY <2>b DEF EventIds
      <4> QED
        BY <4>1, <2>f DEF TypeOK
    <3>2. /\ status' \in [IssueIds -> Statuses]
          /\ resolvedIn' \in [IssueIds -> ReleaseIds]
      BY <2>f DEF TypeOK, Statuses, ReleaseIds
    <3>3. /\ att' \in [Workers -> [EventIds -> 0..MaxIssues]]
          /\ created' \in [Workers -> SUBSET EventIds]
          /\ pc' \in [Workers -> Steps]
      <4>1. /\ att \in [Workers -> [EventIds -> 0..MaxIssues]] /\ created \in [Workers -> SUBSET EventIds]
            /\ pc \in [Workers -> Steps]
        BY DEF TypeOK
      <4>2. i \in 0..MaxIssues /\ e \in EventIds
        BY <2>b, <2>c DEF IssueIds
      <4>3. att' \in [Workers -> [EventIds -> 0..MaxIssues]]
        BY <2>f, <4>1, <4>2
      <4>4. created' \in [Workers -> SUBSET EventIds] /\ pc' \in [Workers -> Steps]
        BY <2>f, <4>1, <4>2 DEF Steps
      <4> QED
        BY <4>3, <4>4
    <3> QED
      BY <2>f, <3>1, <3>2, <3>3, <3>4, <3>5, <3>6, <3>7 DEF TypeOK
  <2>2. BeliefsMatchRows' /\ EventsFiledByHash'
    <3>1. \A v \in Workers, f \in EventIds :
            att'[v][f] # NoIssue => att'[v][f] = hash'[ev[f].hash]
      <4> SUFFICES ASSUME NEW v \in Workers, NEW f \in EventIds, att'[v][f] # NoIssue
                   PROVE  att'[v][f] = hash'[ev[f].hash]
        OBVIOUS
      <4>1. ev[f].hash \in Hashes
        BY DEF TypeOK, ProcessingEvent
      <4>2. att[v][f] # NoIssue => att[v][f] = hash[ev[f].hash]
        BY DEF IInv, BeliefsMatchRows
      <4>3. CASE v = w /\ f \in FiledWith(w, h)
        BY <4>3, <2>b, <2>f DEF TypeOK, FiledWith
      <4>4. CASE ~(v = w /\ f \in FiledWith(w, h))
        <5>1. att'[v][f] = att[v][f]
          BY <4>4, <2>f DEF TypeOK
        <5> QED
          BY <5>1, <4>1, <4>2, <2>b, <2>f DEF TypeOK
      <4> QED
        BY <4>3, <4>4
    <3>2. \A g \in Hashes : replica'[g].issue # NoIssue => replica'[g].issue = hash'[g]
      BY <2>b, <2>f DEF IInv, BeliefsMatchRows, TypeOK
    <3>3. \A f \in EventIds : stored'[f] # NoIssue => stored'[f] = hash'[ev[f].hash]
      <4>1. \A f \in EventIds : ev[f].hash \in Hashes
        BY DEF TypeOK, ProcessingEvent
      <4> QED
        BY <4>1, <2>b, <2>f DEF IInv, EventsFiledByHash, TypeOK
    <3> QED
      BY <3>1, <3>2, <3>3, <2>f DEF BeliefsMatchRows, EventsFiledByHash
  <2>3. IdsFromSequence' /\ OneIssuePerHash'
    <3>1. IdsFromSequence'
      <4>1. \A j \in issues : j \in Int /\ j <= i
        BY DEF IInv, IdsFromSequence, TypeOK, IssueIds, i
      <4>2. i \in Int
        BY <2>c DEF IssueIds
      <4> QED
        BY <4>1, <4>2, <2>f DEF IdsFromSequence
    <3>2. OneIssuePerHash'
      <4>1. /\ hash'[h] = i
            /\ \A g \in Hashes \ {h} : hash'[g] = hash[g]
        BY <2>b, <2>f DEF TypeOK
      <4>2. \A g \in Hashes : hash'[g] # NoIssue => hash'[g] \in issues'
        BY <4>1, <2>f DEF IInv, OneIssuePerHash
      <4>3. \A g, k \in Hashes : g # k /\ hash'[g] # NoIssue => hash'[g] # hash'[k]
        BY <4>1, <2>d DEF IInv, OneIssuePerHash
      <4>4. \A j \in issues' : \E g \in Hashes : hash'[g] = j
        <5>1. \A j \in issues : \E g \in Hashes : hash[g] = j /\ g # h
          BY <2>f DEF IInv, OneIssuePerHash, TypeOK, IssueIds, NoIssue
        <5> QED
          BY <5>1, <4>1, <2>b, <2>f
      <4> QED
        BY <4>2, <4>3, <4>4 DEF OneIssuePerHash
    <3> QED
      BY <3>1, <3>2
  <2>4. ShortIdsHandedOut' /\ ShortIdsDistinct'
    BY <2>c, <2>f DEF IInv, TypeOK, ShortIdsHandedOut, ShortIdsDistinct, Holds
  <2>5. Progress'
    BY <1>5 DEF IInv, TypeOK, Progress, Unresolved, InsertIssue, dbVars, workerVars, histVars
  <2> QED
    BY <2>1, <2>2, <2>3, <2>4, <2>5 DEF IInv
<1>6. ASSUME NEW w \in Workers, LoseRace(w)
      PROVE  IInv'
  <2>1. TypeOK'
    BY <1>6 DEF LoseRace, dbVars, workerVars, histVars, TypeOK, Steps, Statuses
  <2>2. BeliefsMatchRows' /\ EventsFiledByHash'
    BY <1>6 DEF IInv, TypeOK, BeliefsMatchRows, EventsFiledByHash, LoseRace, dbVars, workerVars, histVars
  <2>3. IdsFromSequence' /\ OneIssuePerHash'
    BY <1>6 DEF IInv, TypeOK, IdsFromSequence, OneIssuePerHash, LoseRace, dbVars, workerVars, histVars
  <2>4. ShortIdsHandedOut' /\ ShortIdsDistinct'
    BY <1>6 DEF IInv, TypeOK, ShortIdsHandedOut, ShortIdsDistinct, Holds, LoseRace, dbVars, workerVars, histVars
  <2>5. Progress'
    BY <1>6 DEF IInv, TypeOK, Progress, Unresolved, LoseRace, dbVars, workerVars, histVars
  <2> QED
    BY <2>1, <2>2, <2>3, <2>4, <2>5 DEF IInv
<1>7. ASSUME NEW w \in Workers, ReadWinner(w)
      PROVE  IInv'
  <2>a. Unresolved(w) # {}
    BY <1>7 DEF ReadWinner, IInv, Progress
  <2>b. First(Unresolved(w)) \in EventIds
    BY <2>a, FirstUnresolved
  <2>c. ev[First(Unresolved(w))].hash \in Hashes
    BY <2>b DEF TypeOK, ProcessingEvent
  <2>1. TypeOK'
    BY <1>7, <2>b, <2>c DEF ReadWinner, TypeOK, Steps, dbVars, histVars
  <2>2. BeliefsMatchRows' /\ EventsFiledByHash'
    BY <1>7, <2>b, <2>c DEF ReadWinner, IInv, TypeOK, BeliefsMatchRows,
                          EventsFiledByHash, dbVars
  <2>3. IdsFromSequence' /\ OneIssuePerHash'
    BY <1>7 DEF IInv, TypeOK, IdsFromSequence, OneIssuePerHash, ReadWinner, dbVars, workerVars, histVars
  <2>4. ShortIdsHandedOut' /\ ShortIdsDistinct'
    BY <1>7 DEF IInv, TypeOK, ShortIdsHandedOut, ShortIdsDistinct, Holds, ReadWinner, dbVars, workerVars, histVars
  <2>5. Progress'
    BY <1>7 DEF IInv, TypeOK, Progress, Unresolved, ReadWinner, dbVars, workerVars, histVars
  <2> QED
    BY <2>1, <2>2, <2>3, <2>4, <2>5 DEF IInv
<1>8. ASSUME NEW w \in Workers, SnapshotLeaves(w)
      PROVE  IInv'
  <2>1. TypeOK'
    BY <1>8 DEF SnapshotLeaves, dbVars, workerVars, histVars, TypeOK, Steps, Statuses
  <2>2. BeliefsMatchRows' /\ EventsFiledByHash'
    BY <1>8 DEF IInv, TypeOK, BeliefsMatchRows, EventsFiledByHash, SnapshotLeaves, dbVars, workerVars, histVars
  <2>3. IdsFromSequence' /\ OneIssuePerHash'
    BY <1>8 DEF IInv, TypeOK, IdsFromSequence, OneIssuePerHash, SnapshotLeaves, dbVars, workerVars, histVars
  <2>4. ShortIdsHandedOut' /\ ShortIdsDistinct'
    BY <1>8 DEF IInv, TypeOK, ShortIdsHandedOut, ShortIdsDistinct, Holds, SnapshotLeaves, dbVars, workerVars, histVars
  <2>5. Progress'
    BY <1>8 DEF IInv, TypeOK, Progress, Unresolved, SnapshotLeaves, dbVars, workerVars, histVars
  <2> QED
    BY <2>1, <2>2, <2>3, <2>4, <2>5 DEF IInv
<1>9. ASSUME NEW w \in Workers, UpdateIssues(w)
      PROVE  IInv'
  <2>a. ToUpdate(w) \subseteq IssueIds
    BY <1>9 DEF UpdateIssues, IInv, Progress, Unresolved, TypeOK, ToUpdate, IssueIds
  <2>b. \A i \in IssueIds : Cardinality(Counted(w, i)) \in Nat
    BY CardinalityOfEvents DEF Counted, TypeOK
  <2>c. \A i \in ToUpdate(w) : Counted(w, i) # {} /\ Counted(w, i) \subseteq 0..MaxEvents
    BY DEF Counted, ToUpdate, TypeOK, EventIds
  <2>d. \A i \in ToUpdate(w) : Latest(Counted(w, i)) \in 0..MaxEvents
    BY <2>c, LatestExists
  <2>e. \A i \in ToUpdate(w) : Latest(Counted(w, i) \cup {lastSeen[i]}) \in 0..MaxEvents
    <3> SUFFICES ASSUME NEW i \in ToUpdate(w)
                 PROVE  Latest(Counted(w, i) \cup {lastSeen[i]}) \in 0..MaxEvents
      OBVIOUS
    <3>1. lastSeen[i] \in 0..MaxEvents
      BY <2>a DEF TypeOK
    <3>2. Counted(w, i) \cup {lastSeen[i]} \subseteq 0..MaxEvents
      BY <3>1, <2>c
    <3> QED
      BY <3>2, LatestExists
  <2>1. TypeOK'
    <3>1. leaves' \subseteq IssueIds
      BY <1>9, <2>a DEF UpdateIssues, MissingLeaves, TypeOK
    <3>2. count' \in [IssueIds -> Nat]
      BY <1>9, <2>b DEF UpdateIssues, TypeOK
    <3>3. lastSeen' \in [IssueIds -> 0..MaxEvents]
      BY <1>9, <2>d, <2>e DEF UpdateIssues, MissingLeaves, TypeOK
    <3>4. status' \in [IssueIds -> Statuses] /\ pc' \in [Workers -> Steps]
      BY <1>9 DEF UpdateIssues, TypeOK, Statuses, Steps
    <3> QED
      BY <1>9, <3>1, <3>2, <3>3, <3>4 DEF UpdateIssues, TypeOK
  <2>2. BeliefsMatchRows' /\ EventsFiledByHash'
    BY <1>9 DEF IInv, TypeOK, BeliefsMatchRows, EventsFiledByHash, UpdateIssues, dbVars, workerVars, histVars
  <2>3. IdsFromSequence' /\ OneIssuePerHash'
    BY <1>9 DEF IInv, TypeOK, IdsFromSequence, OneIssuePerHash, UpdateIssues, dbVars, workerVars, histVars
  <2>4. ShortIdsHandedOut' /\ ShortIdsDistinct'
    BY <1>9 DEF IInv, TypeOK, ShortIdsHandedOut, ShortIdsDistinct, Holds, UpdateIssues, dbVars, workerVars, histVars
  <2>5. Progress'
    BY <1>9 DEF IInv, TypeOK, Progress, Unresolved, UpdateIssues, dbVars, workerVars, histVars
  <2> QED
    BY <2>1, <2>2, <2>3, <2>4, <2>5 DEF IInv
<1>10. ASSUME NEW w \in Workers, AddPending(w)
      PROVE  IInv'
  <2>1. TypeOK'
    <3>1. \A e \in batch[w] : att[w][e] \in IssueIds
      BY <1>10 DEF AddPending, IInv, Progress, Unresolved, TypeOK, IssueIds
    <3> QED
      BY <1>10, <3>1 DEF AddPending, TypeOK, Steps, dbVars
  <2>2. BeliefsMatchRows' /\ EventsFiledByHash'
    BY <1>10 DEF IInv, TypeOK, BeliefsMatchRows, EventsFiledByHash, AddPending, dbVars, workerVars, histVars
  <2>3. IdsFromSequence' /\ OneIssuePerHash'
    BY <1>10 DEF IInv, TypeOK, IdsFromSequence, OneIssuePerHash, AddPending, dbVars, workerVars, histVars
  <2>4. ShortIdsHandedOut' /\ ShortIdsDistinct'
    BY <1>10 DEF IInv, TypeOK, ShortIdsHandedOut, ShortIdsDistinct, Holds, AddPending, dbVars, workerVars, histVars
  <2>5. Progress'
    BY <1>10 DEF IInv, TypeOK, Progress, Unresolved, AddPending, dbVars, workerVars, histVars
  <2> QED
    BY <2>1, <2>2, <2>3, <2>4, <2>5 DEF IInv
<1>11. ASSUME NEW w \in Workers, ReopenLeaf(w)
      PROVE  IInv'
  <2>1. TypeOK'
    BY <1>11 DEF ReopenLeaf, dbVars, workerVars, histVars, TypeOK, Steps, Statuses
  <2>2. BeliefsMatchRows' /\ EventsFiledByHash'
    BY <1>11 DEF IInv, TypeOK, BeliefsMatchRows, EventsFiledByHash, ReopenLeaf, dbVars, workerVars, histVars
  <2>3. IdsFromSequence' /\ OneIssuePerHash'
    BY <1>11 DEF IInv, TypeOK, IdsFromSequence, OneIssuePerHash, ReopenLeaf, dbVars, workerVars, histVars
  <2>4. ShortIdsHandedOut' /\ ShortIdsDistinct'
    BY <1>11 DEF IInv, TypeOK, ShortIdsHandedOut, ShortIdsDistinct, Holds, ReopenLeaf, dbVars, workerVars, histVars
  <2>5. Progress'
    BY <1>11 DEF IInv, TypeOK, Progress, Unresolved, ReopenLeaf, dbVars, workerVars, histVars
  <2> QED
    BY <2>1, <2>2, <2>3, <2>4, <2>5 DEF IInv
<1>12. ASSUME NEW w \in Workers, ReopenIssue(w)
      PROVE  IInv'
  <2>1. TypeOK'
    BY <1>12 DEF ReopenIssue, TypeOK, Steps, ReleaseIds
  <2>2. BeliefsMatchRows' /\ EventsFiledByHash'
    BY <1>12 DEF IInv, TypeOK, BeliefsMatchRows, EventsFiledByHash, ReopenIssue, dbVars, workerVars, histVars
  <2>3. IdsFromSequence' /\ OneIssuePerHash'
    BY <1>12 DEF IInv, TypeOK, IdsFromSequence, OneIssuePerHash, ReopenIssue, dbVars, workerVars, histVars
  <2>4. ShortIdsHandedOut' /\ ShortIdsDistinct'
    BY <1>12 DEF IInv, TypeOK, ShortIdsHandedOut, ShortIdsDistinct, Holds, ReopenIssue, dbVars, workerVars, histVars
  <2>5. Progress'
    BY <1>12 DEF IInv, TypeOK, Progress, Unresolved, ReopenIssue, dbVars, workerVars, histVars
  <2> QED
    BY <2>1, <2>2, <2>3, <2>4, <2>5 DEF IInv
<1>13. ASSUME NEW w \in Workers, CopyEvents(w)
      PROVE  IInv'
  <2>1. TypeOK'
    BY <1>13 DEF CopyEvents, dbVars, workerVars, histVars, TypeOK, Steps, Statuses
  <2>2. BeliefsMatchRows' /\ EventsFiledByHash'
    BY <1>13 DEF IInv, TypeOK, BeliefsMatchRows, EventsFiledByHash, CopyEvents, dbVars, workerVars, histVars
  <2>3. IdsFromSequence' /\ OneIssuePerHash'
    BY <1>13 DEF IInv, TypeOK, IdsFromSequence, OneIssuePerHash, CopyEvents, dbVars, workerVars, histVars
  <2>4. ShortIdsHandedOut' /\ ShortIdsDistinct'
    BY <1>13 DEF IInv, TypeOK, ShortIdsHandedOut, ShortIdsDistinct, Holds, CopyEvents, dbVars, workerVars, histVars
  <2>5. Progress'
    BY <1>13 DEF IInv, TypeOK, Progress, Unresolved, CopyEvents, dbVars, workerVars, histVars
  <2> QED
    BY <2>1, <2>2, <2>3, <2>4, <2>5 DEF IInv
<1>14. ASSUME NEW w \in Workers, UpdateStatistics(w)
      PROVE  IInv'
  <2>1. TypeOK'
    <3>1. Cardinality(batch[w]) \in Nat
      BY CardinalityOfEvents DEF TypeOK
    <3> QED
      BY <1>14, <3>1 DEF UpdateStatistics, TypeOK, Steps
  <2>2. BeliefsMatchRows' /\ EventsFiledByHash'
    BY <1>14 DEF IInv, TypeOK, BeliefsMatchRows, EventsFiledByHash, UpdateStatistics, dbVars, workerVars, histVars
  <2>3. IdsFromSequence' /\ OneIssuePerHash'
    BY <1>14 DEF IInv, TypeOK, IdsFromSequence, OneIssuePerHash, UpdateStatistics, dbVars, workerVars, histVars
  <2>4. ShortIdsHandedOut' /\ ShortIdsDistinct'
    BY <1>14 DEF IInv, TypeOK, ShortIdsHandedOut, ShortIdsDistinct, Holds, UpdateStatistics, dbVars, workerVars, histVars
  <2>5. Progress'
    BY <1>14 DEF IInv, TypeOK, Progress, Unresolved, UpdateStatistics, dbVars, workerVars, histVars
  <2> QED
    BY <2>1, <2>2, <2>3, <2>4, <2>5 DEF IInv
<1>15. ASSUME NEW w \in Workers, UpdateAggregates(w)
      PROVE  IInv'
  <2>1. TypeOK'
    <3>1. \A i \in IssueIds :
            Cardinality({e \in batch[w] : att[w][e] = i}) \in Nat
      BY CardinalityOfEvents DEF TypeOK
    <3>2. aggr' \in [IssueIds -> Nat]
      <4>1. \A i \in IssueIds : aggr[i] \in Nat
        BY DEF TypeOK
      <4> DEFINE more(i) == Cardinality({e \in batch[w] : att[w][e] = i})
      <4>2. aggr' = [i \in IssueIds |-> aggr[i] + more(i)]
        BY <1>15 DEF UpdateAggregates
      <4>3. \A i \in IssueIds : more(i) \in Nat
        BY <3>1
      <4> HIDE DEF more
      <4> QED
        BY <4>1, <4>2, <4>3
    <3> QED
      BY <1>15, <3>2 DEF UpdateAggregates, ResetWorker, TypeOK, Steps
  <2>2. BeliefsMatchRows' /\ EventsFiledByHash'
    BY <1>15 DEF IInv, TypeOK, BeliefsMatchRows, EventsFiledByHash, UpdateAggregates, ResetWorker, dbVars, workerVars, histVars
  <2>3. IdsFromSequence' /\ OneIssuePerHash'
    BY <1>15 DEF IInv, TypeOK, IdsFromSequence, OneIssuePerHash, UpdateAggregates, ResetWorker, dbVars, workerVars, histVars
  <2>4. ShortIdsHandedOut' /\ ShortIdsDistinct'
    BY <1>15 DEF IInv, TypeOK, ShortIdsHandedOut, ShortIdsDistinct, Holds, UpdateAggregates, ResetWorker, dbVars, workerVars, histVars
  <2>5. Progress'
    BY <1>15 DEF IInv, TypeOK, Progress, Unresolved, UpdateAggregates, ResetWorker, dbVars, workerVars, histVars
  <2> QED
    BY <2>1, <2>2, <2>3, <2>4, <2>5 DEF IInv
<1>16. ASSUME NEW w \in Workers, FailBatch(w)
      PROVE  IInv'
  <2>1. TypeOK'
    BY <1>16 DEF FailBatch, ResetWorker, dbVars, workerVars, histVars, TypeOK, Steps, Statuses
  <2>2. BeliefsMatchRows' /\ EventsFiledByHash'
    BY <1>16 DEF IInv, TypeOK, BeliefsMatchRows, EventsFiledByHash, FailBatch, ResetWorker, dbVars, workerVars, histVars
  <2>3. IdsFromSequence' /\ OneIssuePerHash'
    BY <1>16 DEF IInv, TypeOK, IdsFromSequence, OneIssuePerHash, FailBatch, ResetWorker, dbVars, workerVars, histVars
  <2>4. ShortIdsHandedOut' /\ ShortIdsDistinct'
    BY <1>16 DEF IInv, TypeOK, ShortIdsHandedOut, ShortIdsDistinct, Holds, FailBatch, ResetWorker, dbVars, workerVars, histVars
  <2>5. Progress'
    BY <1>16 DEF IInv, TypeOK, Progress, Unresolved, FailBatch, ResetWorker, dbVars, workerVars, histVars
  <2> QED
    BY <2>1, <2>2, <2>3, <2>4, <2>5 DEF IInv
<1>17. ASSUME NEW c \in Clients, NEW i \in IssueIds, NEW s \in Statuses,
             NEW r \in ReleaseIds, BeginUpdateStatus(c, i, s, r)
      PROVE  IInv'
  <2>1. TypeOK'
    <3>1. ReleaseAfter(resolvedIn[i], s, r) \in ReleaseIds
      BY DEF ReleaseAfter, TypeOK, ReleaseIds
    <3>2. resolvedIn' \in [IssueIds -> ReleaseIds]
      BY <1>17, <3>1 DEF BeginUpdateStatus, TypeOK
    <3>3. i \in 0..MaxIssues
      BY DEF IssueIds
    <3>4. api' \in [Clients -> [issue : 0..MaxIssues, status : Statuses]]
      BY <1>17, <3>3 DEF BeginUpdateStatus, TypeOK
    <3> QED
      BY <1>17, <3>2, <3>4 DEF BeginUpdateStatus, TypeOK, workerVars
  <2>2. BeliefsMatchRows' /\ EventsFiledByHash'
    BY <1>17 DEF IInv, TypeOK, BeliefsMatchRows, EventsFiledByHash, BeginUpdateStatus, dbVars, workerVars, histVars
  <2>3. IdsFromSequence' /\ OneIssuePerHash'
    BY <1>17 DEF IInv, TypeOK, IdsFromSequence, OneIssuePerHash, BeginUpdateStatus, dbVars, workerVars, histVars
  <2>4. ShortIdsHandedOut' /\ ShortIdsDistinct'
    BY <1>17 DEF IInv, TypeOK, ShortIdsHandedOut, ShortIdsDistinct, Holds, BeginUpdateStatus, dbVars, workerVars, histVars
  <2>5. Progress'
    BY <1>17 DEF IInv, TypeOK, Progress, Unresolved, BeginUpdateStatus, dbVars, workerVars, histVars
  <2> QED
    BY <2>1, <2>2, <2>3, <2>4, <2>5 DEF IInv
<1>18. ASSUME NEW c \in Clients, EndUpdateStatus(c)
      PROVE  IInv'
  <2>1. TypeOK'
    BY <1>18 DEF EndUpdateStatus, dbVars, workerVars, histVars, TypeOK, Steps, Statuses
  <2>2. BeliefsMatchRows' /\ EventsFiledByHash'
    BY <1>18 DEF IInv, TypeOK, BeliefsMatchRows, EventsFiledByHash, EndUpdateStatus, dbVars, workerVars, histVars
  <2>3. IdsFromSequence' /\ OneIssuePerHash'
    BY <1>18 DEF IInv, TypeOK, IdsFromSequence, OneIssuePerHash, EndUpdateStatus, dbVars, workerVars, histVars
  <2>4. ShortIdsHandedOut' /\ ShortIdsDistinct'
    BY <1>18 DEF IInv, TypeOK, ShortIdsHandedOut, ShortIdsDistinct, Holds, EndUpdateStatus, dbVars, workerVars, histVars
  <2>5. Progress'
    BY <1>18 DEF IInv, TypeOK, Progress, Unresolved, EndUpdateStatus, dbVars, workerVars, histVars
  <2> QED
    BY <2>1, <2>2, <2>3, <2>4, <2>5 DEF IInv
<1>19. ASSUME NEW S \in SUBSET issues, NEW s \in Statuses, BulkUpdateStatus(S, s)
      PROVE  IInv'
  <2>1. TypeOK'
    BY <1>19 DEF BulkUpdateStatus, dbVars, workerVars, histVars, TypeOK, Steps, Statuses
  <2>2. BeliefsMatchRows' /\ EventsFiledByHash'
    BY <1>19 DEF IInv, TypeOK, BeliefsMatchRows, EventsFiledByHash, BulkUpdateStatus, dbVars, workerVars, histVars
  <2>3. IdsFromSequence' /\ OneIssuePerHash'
    BY <1>19 DEF IInv, TypeOK, IdsFromSequence, OneIssuePerHash, BulkUpdateStatus, dbVars, workerVars, histVars
  <2>4. ShortIdsHandedOut' /\ ShortIdsDistinct'
    BY <1>19 DEF IInv, TypeOK, ShortIdsHandedOut, ShortIdsDistinct, Holds, BulkUpdateStatus, dbVars, workerVars, histVars
  <2>5. Progress'
    BY <1>19 DEF IInv, TypeOK, Progress, Unresolved, BulkUpdateStatus, dbVars, workerVars, histVars
  <2> QED
    BY <2>1, <2>2, <2>3, <2>4, <2>5 DEF IInv
<1>20. ASSUME ReplicaCatchUp PROVE IInv'
  <2>1. TypeOK'
    BY <1>20, JoinRowIssue DEF ReplicaCatchUp, JoinRows, TypeOK, dbVars, workerVars
  <2>2. BeliefsMatchRows' /\ EventsFiledByHash'
    BY <1>20, JoinRowIssue DEF ReplicaCatchUp, IInv, BeliefsMatchRows,
       EventsFiledByHash, dbVars, workerVars
  <2>3. IdsFromSequence' /\ OneIssuePerHash'
    BY <1>20 DEF IInv, TypeOK, IdsFromSequence, OneIssuePerHash, ReplicaCatchUp, dbVars, workerVars, histVars
  <2>4. ShortIdsHandedOut' /\ ShortIdsDistinct'
    BY <1>20 DEF IInv, TypeOK, ShortIdsHandedOut, ShortIdsDistinct, Holds, ReplicaCatchUp, dbVars, workerVars, histVars
  <2>5. Progress'
    BY <1>20 DEF IInv, TypeOK, Progress, Unresolved, ReplicaCatchUp, dbVars, workerVars, histVars
  <2> QED
    BY <2>1, <2>2, <2>3, <2>4, <2>5 DEF IInv
<1>21. ASSUME UNCHANGED vars PROVE IInv'
  <2>1. TypeOK'
    BY <1>21 DEF vars, dbVars, workerVars, histVars, TypeOK, Steps, Statuses
  <2>2. BeliefsMatchRows' /\ EventsFiledByHash'
    BY <1>21 DEF IInv, TypeOK, BeliefsMatchRows, EventsFiledByHash, vars, dbVars, workerVars, histVars
  <2>3. IdsFromSequence' /\ OneIssuePerHash'
    BY <1>21 DEF IInv, TypeOK, IdsFromSequence, OneIssuePerHash, vars, dbVars, workerVars, histVars
  <2>4. ShortIdsHandedOut' /\ ShortIdsDistinct'
    BY <1>21 DEF IInv, TypeOK, ShortIdsHandedOut, ShortIdsDistinct, Holds, vars, dbVars, workerVars, histVars
  <2>5. Progress'
    BY <1>21 DEF IInv, TypeOK, Progress, Unresolved, vars, dbVars, workerVars, histVars
  <2> QED
    BY <2>1, <2>2, <2>3, <2>4, <2>5 DEF IInv
<1> QED
  BY <1>1, <1>2, <1>3, <1>4, <1>5, <1>6, <1>7, <1>8, <1>9, <1>10, <1>11, <1>12, <1>13, <1>14, <1>15, <1>16, <1>17, <1>18, <1>19, <1>20, <1>21
     DEF Next, WorkerStep, ApiStep, StreamEnded

--------------------------------------------------------------------------------
\* The inductive invariant holds in every reachable state.
THEOREM IngestInvariant == Spec => []IInv
BY InitIInv, StepIInv, PTL DEF Spec

\* Type correctness of the ingest model: every column, local variable and
\* worker position keeps its type, whatever the number of workers.
THEOREM IngestTypeOK == Spec => []TypeOK
<1>1. IInv => TypeOK
  BY DEF IInv
<1> QED
  BY <1>1, IngestInvariant, PTL

\* Every stored event is filed under the issue of its hash, for any number of
\* workers racing through a replica that lags by any amount.
THEOREM IngestFilesByHash == Spec => []EventsFiledByHash
<1>1. IInv => EventsFiledByHash
  BY DEF IInv
<1> QED
  BY <1>1, IngestInvariant, PTL

\* Racing first events of a hash leave exactly one issue for it.
THEOREM IngestOneIssuePerHash == Spec => []OneIssuePerHash
<1>1. IInv => OneIssuePerHash
  BY DEF IInv
<1> QED
  BY <1>1, IngestInvariant, PTL

\* No two issues of a project carry the same short id.
THEOREM IngestShortIdsDistinct == Spec => []ShortIdsDistinct
<1>1. IInv => ShortIdsDistinct
  BY DEF IInv
<1> QED
  BY <1>1, IngestInvariant, PTL
--------------------------------------------------------------------------------
\* A step that changes neither the hash rows nor the event rows is a stutter of
\* the abstract specification.
RowsUnchanged == ev' = ev /\ hash' = hash /\ stored' = stored

\* Initial states map to initial states of the filing.
LEMMA FilingInit == Init => Filing!Init
<1> SUFFICES ASSUME Init PROVE Filing!Init
  OBVIOUS
<1>1. HashOfEvent \in [EventIds -> Hashes]
  BY DEF Init, HashOfEvent, ProcessingEvent
<1>2. \A g, h \in Hashes : g # h /\ hash[g] # NoIssue => hash[g] # hash[h]
  BY LegacyAssumption DEF Init
<1> QED
  BY <1>1, <1>2 DEF Filing!Init, Init

\* Every step of ingest is a step of the filing or changes nothing of it.
LEMMA FilingStep == IInv /\ [Next]_vars => [Filing!Next]_(Filing!vars)
<1> SUFFICES ASSUME IInv, [Next]_vars PROVE [Filing!Next]_(Filing!vars)
  OBVIOUS
<1> TypeOK
  BY DEF IInv
<1>0. RowsUnchanged => UNCHANGED Filing!vars
  BY DEF RowsUnchanged, Filing!vars, HashOfEvent
<1>1. ASSUME NEW w \in Workers, InsertIssue(w) PROVE Filing!Next
  <2> DEFINE e == First(Unresolved(w))
             h == ev[e].hash
             i == issueSeq + 1
  <2>1. e \in EventIds /\ h \in Hashes
    <3>1. Unresolved(w) # {}
      BY <1>1 DEF InsertIssue, IInv, Progress
    <3>2. e \in EventIds
      BY <3>1, FirstUnresolved
    <3> QED
      BY <3>2 DEF TypeOK, ProcessingEvent
  <2>2. hash[h] = NoIssue /\ hash' = [hash EXCEPT ![h] = i] /\ ev' = ev /\ stored' = stored
    BY <1>1 DEF InsertIssue
  <2>3. i \in IssueIds /\ i # NoIssue
    BY <1>1, BoundsAssumption DEF InsertIssue, TypeOK, IssueIds
  <2>4. \A g \in Hashes : hash[g] # i
    <3> SUFFICES ASSUME NEW g \in Hashes, hash[g] = i PROVE FALSE
      OBVIOUS
    <3>1. hash[g] \in issues
      BY <2>3 DEF IInv, OneIssuePerHash
    <3> QED
      BY <3>1, BoundsAssumption DEF IInv, IdsFromSequence, TypeOK
  <2>5. Filing!Open(h, i)
    BY <2>2, <2>3, <2>4 DEF Filing!Open, HashOfEvent
  <2> QED
    BY <2>1, <2>3, <2>5 DEF Filing!Next
<1>2. ASSUME NEW w \in Workers, CopyEvents(w) PROVE Filing!Next
  <2>1. batch[w] \in SUBSET EventIds /\ Unresolved(w) = {}
    BY <1>2 DEF CopyEvents, TypeOK, IInv, Progress
  <2>2. \A e \in batch[w] : att[w][e] # NoIssue /\ att[w][e] = hash[ev[e].hash]
    BY <2>1 DEF Unresolved, IInv, BeliefsMatchRows
  <2>3. /\ stored' = [e \in EventIds |-> IF e \in batch[w] THEN att[w][e] ELSE stored[e]]
        /\ hash' = hash /\ ev' = ev
    BY <1>2 DEF CopyEvents
  <2>4. \A e \in EventIds : HashOfEvent[e] = ev[e].hash
    BY DEF HashOfEvent
  <2>5. Filing!File(batch[w])
    <3>1. \A e \in batch[w] : hash[HashOfEvent[e]] # NoIssue
      BY <2>1, <2>2, <2>4
    <3>2. stored' = [e \in EventIds |-> IF e \in batch[w] THEN hash[HashOfEvent[e]] ELSE stored[e]]
      BY <2>1, <2>2, <2>3, <2>4
    <3>3. HashOfEvent' = HashOfEvent
      BY <2>3 DEF HashOfEvent
    <3> QED
      BY <3>1, <3>2, <3>3, <2>3 DEF Filing!File
  <2> QED
    BY <2>1, <2>5 DEF Filing!Next
<1>3. ASSUME NEW w \in Workers, NEW n \in 1..MaxBatch, TakeBatch(w, n) PROVE RowsUnchanged
  BY <1>3 DEF TakeBatch, dbVars, RowsUnchanged
<1>4. ASSUME NEW w \in Workers, FetchHashes(w) PROVE RowsUnchanged
  BY <1>4 DEF FetchHashes, dbVars, RowsUnchanged
<1>5. ASSUME NEW w \in Workers, FetchMissing(w) PROVE RowsUnchanged
  BY <1>5 DEF FetchMissing, dbVars, RowsUnchanged
<1>6. ASSUME NEW w \in Workers, TakeShortId(w) PROVE RowsUnchanged
  BY <1>6 DEF TakeShortId, dbVars, RowsUnchanged
<1>7. ASSUME NEW w \in Workers, LoseRace(w) PROVE RowsUnchanged
  BY <1>7 DEF LoseRace, dbVars, RowsUnchanged
<1>8. ASSUME NEW w \in Workers, ReadWinner(w) PROVE RowsUnchanged
  BY <1>8 DEF ReadWinner, dbVars, RowsUnchanged
<1>9. ASSUME NEW w \in Workers, SnapshotLeaves(w) PROVE RowsUnchanged
  BY <1>9 DEF SnapshotLeaves, dbVars, RowsUnchanged
<1>10. ASSUME NEW w \in Workers, UpdateIssues(w) PROVE RowsUnchanged
  BY <1>10 DEF UpdateIssues, dbVars, RowsUnchanged
<1>11. ASSUME NEW w \in Workers, AddPending(w) PROVE RowsUnchanged
  BY <1>11 DEF AddPending, dbVars, RowsUnchanged
<1>12. ASSUME NEW w \in Workers, ReopenLeaf(w) PROVE RowsUnchanged
  BY <1>12 DEF ReopenLeaf, dbVars, RowsUnchanged
<1>13. ASSUME NEW w \in Workers, ReopenIssue(w) PROVE RowsUnchanged
  BY <1>13 DEF ReopenIssue, dbVars, RowsUnchanged
<1>14. ASSUME NEW w \in Workers, UpdateStatistics(w) PROVE RowsUnchanged
  BY <1>14 DEF UpdateStatistics, dbVars, RowsUnchanged
<1>15. ASSUME NEW w \in Workers, UpdateAggregates(w) PROVE RowsUnchanged
  BY <1>15 DEF UpdateAggregates, dbVars, RowsUnchanged
<1>16. ASSUME NEW w \in Workers, FailBatch(w) PROVE RowsUnchanged
  BY <1>16 DEF FailBatch, dbVars, RowsUnchanged
<1>17. ASSUME ApiStep \/ ReplicaCatchUp \/ StreamEnded \/ UNCHANGED vars PROVE RowsUnchanged
  BY <1>17 DEF ApiStep, BeginUpdateStatus, EndUpdateStatus, BulkUpdateStatus, ReplicaCatchUp,
             StreamEnded, vars, dbVars, RowsUnchanged
<1> QED
  BY <1>0, <1>1, <1>2, <1>3, <1>4, <1>5, <1>6, <1>7, <1>8, <1>9, <1>10, <1>11, <1>12, <1>13, <1>14, <1>15, <1>16, <1>17 DEF Next, WorkerStep

\* Ingest implements the abstract filing of events, for any number of workers,
\* whatever dies half way and however far the replica lags.
THEOREM IngestImplementsFiling == Spec => ImplementsFiling
<1>1. Spec => Filing!Init /\ [][Filing!Next]_(Filing!vars)
  BY FilingInit, FilingStep, IngestInvariant, PTL DEF Spec
<1> QED
  BY <1>1 DEF ImplementsFiling, Filing!Spec
--------------------------------------------------------------------------------
(***************************************************************************)
(* Counts, rows and statistics                                             *)
(***************************************************************************)
\* Only the issue from before the leaf table can be without a leaf.
IsLegacy(i) == \E h \in LegacyHashes : hash[h] = i

\* Events a worker still has to count, and the others there are of issue i.
BeforeCount == {"fetch", "fallback", "create", "insert", "winner", "apply"}
Uncounted(e) == \E w \in Workers : pc[w] \in BeforeCount /\ e \in batch[w] \ created[w]
CountedEvents(i) == {e \in 1..taken : hash[ev[e].hash] = i /\ ~Uncounted(e)}

\* The events the hourly statistics, and the aggregate of issue i, include.
InStats == {e \in 1..taken : \A w \in Workers : e \in batch[w] => pc[w] = "aggregate"}
InAggregate(i) == {e \in 1..taken : hash[ev[e].hash] = i /\ \A w \in Workers : e \notin batch[w]}

\* What worker w is to count, has created, and is about to store.
WorkerInv(w) ==
  /\ batch[w] \subseteq 1..taken /\ created[w] \subseteq batch[w]
  /\ batch[w] = {} <=> pc[w] = "idle"
  /\ pc[w] \in {"fetch", "fallback"} => created[w] = {}
  /\ \A e \in created[w] : att[w][e] \in leaves
  /\ pc[w] \notin BeforeCount => \A e \in batch[w] : att[w][e] \in leaves
  /\ pc[w] = "apply" => \A i \in ToUpdate(w) : i \in snap[w] \/ IsLegacy(i)

\* As long as no task died, every event is in the rows or in somebody's hands,
\* and the numbers are those of the events that are through.
AllThere ==
  \A e \in 1..taken :
    stored[e] # NoIssue \/ \E w \in Workers : e \in batch[w] /\ pc[w] \notin {"stats", "aggregate"}
StatsExact == projStat = Cardinality(InStats)
AggregatesExact == \A i \in IssueIds : aggr[i] = Cardinality(InAggregate(i))
LeafExact(i) ==
  /\ CountedEvents(i) # {}
  /\ count[i] = Cardinality(CountedEvents(i))
  /\ lastSeen[i] = Latest(CountedEvents(i))
LeavesExact == \A i \in issues : ~IsLegacy(i) => LeafExact(i)
Exact == AllThere /\ StatsExact /\ AggregatesExact /\ LeavesExact

BatchesDisjoint == \A v, w \in Workers : v # w => batch[v] \cap batch[w] = {}
StoredAreTaken == \A e \in EventIds : stored[e] # NoIssue => e \in 1..taken
CountsBounded == \A i \in leaves : count[i] <= Cardinality(CountedEvents(i))

CountsInv ==
  /\ \A w \in Workers : WorkerInv(w)
  /\ BatchesDisjoint
  /\ leaves \subseteq issues
  /\ LeafForEveryIssue
  /\ StoredAreTaken
  /\ CountsBounded
  /\ lost = {} => Exact
--------------------------------------------------------------------------------
USE DEF NoIssue

\* A set of events is finite.
LEMMA EventsFinite ==
  ASSUME NEW S, S \subseteq EventIds
  PROVE  IsFiniteSet(S) /\ Cardinality(S) \in Nat
<1>1. IsFiniteSet(1..MaxEvents)
  BY BoundsAssumption, FS_Interval
<1> QED
  BY <1>1, FS_Subset, FS_CardinalityType DEF EventIds

\* More events count more.
LEMMA MoreEvents ==
  ASSUME NEW T, T \subseteq EventIds, NEW S, S \subseteq T
  PROVE  Cardinality(S) <= Cardinality(T)
BY EventsFinite, FS_Subset

\* Two sets of events that share none count together what each counts.
LEMMA DisjointEvents ==
  ASSUME NEW S, NEW T, S \subseteq EventIds, T \subseteq EventIds, S \cap T = {}
  PROVE  Cardinality(S \cup T) = Cardinality(S) + Cardinality(T)
<1>1. IsFiniteSet(S) /\ IsFiniteSet(T) /\ Cardinality(S) \in Nat /\ Cardinality(T) \in Nat
  BY EventsFinite
<1>2. Cardinality(S \cup T) = Cardinality(S) + Cardinality(T) - Cardinality(S \cap T)
  BY <1>1, FS_Union
<1>3. Cardinality(S \cap T) = 0
  BY FS_EmptySet
<1> QED
  BY <1>1, <1>2, <1>3

\* The latest of a set of epochs is its greatest.
LEMMA LatestIs ==
  ASSUME NEW n \in Nat, NEW S, S \subseteq 0..n, NEW m \in S, \A f \in S : f <= m
  PROVE  Latest(S) = m
<1>1. PICK x \in S : Latest(S) = x /\ x >= m
  BY LatestExists
<1>2. x <= m /\ m \in 0..n /\ x \in 0..n
  BY <1>1
<1> QED
  BY <1>1, <1>2

\* The latest of two sets of events is the latest of one and of the other's.
LEMMA LatestUnion ==
  ASSUME NEW n \in Nat, NEW S, NEW T, S \subseteq 0..n, T \subseteq 0..n, S # {}, T # {}
  PROVE  Latest(S \cup T) = Latest(T \cup {Latest(S)})
<1>1. Latest(S) \in S /\ (\A f \in S : Latest(S) >= f) /\ Latest(T) \in T /\ (\A f \in T : Latest(T) >= f)
  BY LatestExists
<1> DEFINE a == Latest(S)
           b == Latest(T)
<1>2. a \in 0..n /\ b \in 0..n /\ a \in S /\ b \in T /\ (\A f \in S : f <= a) /\ (\A f \in T : f <= b)
  BY <1>1
<1> HIDE DEF a, b
<1>3. CASE a <= b
  <2>1. \A f \in S \cup T : f <= b
    BY <1>2, <1>3
  <2>2. Latest(S \cup T) = b
    BY <1>2, <2>1, LatestIs
  <2>3. Latest(T \cup {a}) = b
    BY <1>2, <1>3, LatestIs
  <2> QED
    BY <2>2, <2>3 DEF a
<1>4. CASE b <= a
  <2>1. \A f \in S \cup T : f <= a
    BY <1>2, <1>4
  <2>2. Latest(S \cup T) = a
    BY <1>2, <2>1, LatestIs
  <2>3. \A f \in T \cup {a} : f <= a
    BY <1>2, <1>4
  <2>4. Latest(T \cup {a}) = a
    BY <1>2, <2>3, LatestIs
  <2> QED
    BY <2>2, <2>4 DEF a
<1> QED
  BY <1>2, <1>3, <1>4

\* The events counted are taken events.
LEMMA CountedAreTaken ==
  ASSUME TypeOK, NEW i
  PROVE  /\ CountedEvents(i) \subseteq EventIds /\ Received(i) \subseteq EventIds
         /\ CountedEvents(i) \subseteq Received(i)
         /\ InAggregate(i) \subseteq EventIds /\ InStats \subseteq EventIds
BY BoundsAssumption DEF TypeOK, EventIds, CountedEvents, Received, InAggregate, InStats

\* Only worker w's own state changes among the workers'.
OnlyWorker(w) ==
  \A v \in Workers \ {w} :
    /\ pc'[v] = pc[v] /\ batch'[v] = batch[v] /\ created'[v] = created[v]
    /\ att'[v] = att[v] /\ snap'[v] = snap[v]

\* What a worker relies on is not disturbed by the others.
LEMMA OthersWorkerInv ==
  ASSUME IInv, NEW w \in Workers, OnlyWorker(w), 1..taken \subseteq 1..taken', leaves \subseteq leaves',
         \A i \in IssueIds : IsLegacy(i) => IsLegacy(i)',
         NEW v \in Workers, v # w, WorkerInv(v)
  PROVE  WorkerInv(v)'
<1>1. /\ pc'[v] = pc[v] /\ batch'[v] = batch[v] /\ created'[v] = created[v]
      /\ att'[v] = att[v] /\ snap'[v] = snap[v]
  BY DEF OnlyWorker
<1>2. ToUpdate(v)' = ToUpdate(v)
  BY <1>1 DEF ToUpdate
<1>3. ASSUME pc[v] = "apply", NEW i \in ToUpdate(v) PROVE i \in snap[v] \/ IsLegacy(i)'
  <2>1. i \in IssueIds
    BY <1>3 DEF IInv, Progress, Unresolved, ToUpdate, TypeOK, IssueIds
  <2>2. i \in snap[v] \/ IsLegacy(i)
    BY <1>3 DEF WorkerInv
  <2> QED
    BY <2>1, <2>2
<1> QED
  BY <1>1, <1>2, <1>3 DEF WorkerInv

\* The rows that the numbers are about.
CountedRows == <<ev, taken, issues, leaves, hash, count, lastSeen, stored, projStat, aggr, lost>>

\* A step that writes none of these rows, of a worker that goes on counting,
\* storing or neither.
LEMMA QuietCounts ==
  ASSUME IInv, IInv', CountsInv, NEW w \in Workers, OnlyWorker(w), UNCHANGED CountedRows,
         UNCHANGED <<batch, created>>, WorkerInv(w)',
         (pc[w] \in BeforeCount <=> pc'[w] \in BeforeCount) \/ batch[w] = created[w],
         pc[w] \notin {"stats", "aggregate"}, pc'[w] \notin {"stats", "aggregate"}
  PROVE  CountsInv'
<1> USE DEF IInv, CountsInv, CountedRows
<1>1. \A e : Uncounted(e)' <=> Uncounted(e)
  BY DEF Uncounted, OnlyWorker
<1>2. \A i : CountedEvents(i)' = CountedEvents(i)
  BY <1>1 DEF CountedEvents
<1>3. InStats' = InStats /\ \A i : InAggregate(i)' = InAggregate(i)
  BY DEF InStats, InAggregate, OnlyWorker
<1>4. \A v \in Workers : WorkerInv(v)'
  BY OthersWorkerInv DEF IsLegacy
<1>5. LeafForEveryIssue' /\ CountsBounded'
  BY <1>2 DEF LeafForEveryIssue, CountsBounded, EventsOf
<1>6. ASSUME lost = {} PROVE Exact'
  <2>1. AllThere'
    BY <1>6 DEF Exact, AllThere, OnlyWorker
  <2>2. StatsExact' /\ AggregatesExact' /\ LeavesExact'
    BY <1>2, <1>3, <1>6 DEF Exact, StatsExact, AggregatesExact, LeavesExact, LeafExact, IsLegacy
  <2> QED
    BY <2>1, <2>2 DEF Exact
<1> QED
  BY <1>4, <1>5, <1>6 DEF BatchesDisjoint, StoredAreTaken

\* Lookups leave the created events alone: there are none yet, or they are
\* resolved already.
LEMMA CountsLookups ==
  ASSUME IInv, IInv', CountsInv, NEW w \in Workers, FetchHashes(w) \/ FetchMissing(w)
  PROVE  CountsInv'
<1> USE DEF IInv, CountsInv
<1>1. PICK f \in [EventIds -> 0..MaxIssues] : att' = [att EXCEPT ![w] = f]
  <2>1. att' \in [Workers -> [EventIds -> 0..MaxIssues]] /\ \A v \in Workers \ {w} : att'[v] = att[v]
    BY DEF FetchHashes, FetchMissing, Lookup, TypeOK
  <2> QED
    BY <2>1 DEF TypeOK
<1>2. /\ pc[w] \in {"fetch", "fallback"} /\ \E s \in {"fallback", "create"} : pc' = [pc EXCEPT ![w] = s]
      /\ UNCHANGED <<CountedRows, batch, created, snap>>
  BY DEF FetchHashes, FetchMissing, dbVars, histVars, CountedRows
<1>3. OnlyWorker(w)
  BY <1>1, <1>2 DEF OnlyWorker, TypeOK
<1>4. WorkerInv(w)
  OBVIOUS
<1>5. WorkerInv(w)'
  BY <1>2, <1>4 DEF WorkerInv, BeforeCount, CountedRows, TypeOK
<1> QED
  BY <1>2, <1>3, <1>5, QuietCounts DEF BeforeCount, TypeOK

\* The statements that write none of the counted rows and attribute nothing.
LEMMA CountsSilentWorker ==
  ASSUME IInv, IInv', CountsInv, NEW w \in Workers,
         \/ TakeShortId(w) \/ LoseRace(w) \/ AddPending(w) \/ ReopenLeaf(w) \/ ReopenIssue(w)
  PROVE  CountsInv'
<1> USE DEF IInv, CountsInv
<1>1. /\ UNCHANGED <<CountedRows, batch, created, snap, att>>
      /\ \E s \in Steps : pc' = [pc EXCEPT ![w] = s]
      /\ \/ pc[w] \in {"create", "insert"} /\ pc'[w] \in {"insert", "winner"}
         \/ pc[w] \in {"sadd", "reopen_leaf", "reopen_issue"} /\ pc'[w] \in {"reopen_leaf", "reopen_issue", "copy"}
  <2>1. CASE TakeShortId(w)
    BY <2>1 DEF TakeShortId, histVars, CountedRows, Steps, TypeOK
  <2>2. CASE LoseRace(w)
    BY <2>2 DEF LoseRace, histVars, CountedRows, Steps, TypeOK
  <2>3. CASE AddPending(w)
    BY <2>3 DEF AddPending, dbVars, histVars, CountedRows, Steps, TypeOK
  <2>4. CASE ReopenLeaf(w)
    BY <2>4 DEF ReopenLeaf, histVars, CountedRows, Steps, TypeOK
  <2>5. CASE ReopenIssue(w)
    BY <2>5 DEF ReopenIssue, histVars, CountedRows, Steps, TypeOK
  <2> QED
    BY <2>1, <2>2, <2>3, <2>4, <2>5
<1>2. OnlyWorker(w)
  BY <1>1 DEF OnlyWorker, TypeOK
<1>3. WorkerInv(w)
  OBVIOUS
<1>4. WorkerInv(w)'
  BY <1>1, <1>3 DEF WorkerInv, BeforeCount, CountedRows
<1> QED
  BY <1>1, <1>2, <1>4, QuietCounts DEF BeforeCount

\* The loser attributes an event it did not create.
LEMMA CountsReadWinner ==
  ASSUME IInv, IInv', CountsInv, NEW w \in Workers, ReadWinner(w)
  PROVE  CountsInv'
<1> USE BoundsAssumption DEF IInv, CountsInv
<1> DEFINE e == First(Unresolved(w))
<1>1. Unresolved(w) # {}
  BY DEF ReadWinner, Progress
<1>2. e \in EventIds /\ att[w][e] = NoIssue
  BY <1>1, FirstUnresolved
<1>3. /\ att' = [att EXCEPT ![w][e] = hash[ev[e].hash]] /\ pc[w] = "winner" /\ pc' = [pc EXCEPT ![w] = "create"]
      /\ UNCHANGED <<CountedRows, batch, created, snap>>
  BY DEF ReadWinner, dbVars, histVars, CountedRows
<1> HIDE DEF e
<1>4. OnlyWorker(w)
  BY <1>3 DEF OnlyWorker, TypeOK
<1>5. WorkerInv(w) /\ NoIssue \notin leaves
  BY DEF TypeOK, IssueIds
<1>6. \A f \in created[w] : f # e /\ att'[w][f] = att[w][f]
  BY <1>2, <1>3, <1>5 DEF WorkerInv, TypeOK
<1>7. WorkerInv(w)'
  BY <1>3, <1>5, <1>6 DEF WorkerInv, BeforeCount, CountedRows, TypeOK
<1> QED
  BY <1>3, <1>4, <1>7, QuietCounts DEF BeforeCount, TypeOK

\* The snapshot has every leaf to update but the legacy issue's, and with
\* nothing to update every event of the batch created its issue.
LEMMA CountsSnapshotLeaves ==
  ASSUME IInv, IInv', CountsInv, NEW w \in Workers, SnapshotLeaves(w)
  PROVE  CountsInv'
<1> USE DEF IInv, CountsInv
<1>1. /\ snap' = [snap EXCEPT ![w] = ToUpdate(w) \cap leaves] /\ Unresolved(w) = {} /\ pc[w] = "create"
      /\ pc' = [pc EXCEPT ![w] = IF ToUpdate(w) = {} THEN "sadd" ELSE "apply"]
      /\ UNCHANGED <<CountedRows, batch, created, att>>
  BY DEF SnapshotLeaves, dbVars, histVars, CountedRows
<1>2. OnlyWorker(w)
  BY <1>1 DEF OnlyWorker, TypeOK
<1>3. WorkerInv(w)
  OBVIOUS
<1>4. ToUpdate(w) = {} => batch[w] = created[w]
  BY <1>3 DEF ToUpdate, WorkerInv
<1>5. ASSUME NEW i \in ToUpdate(w) PROVE i \in leaves \/ IsLegacy(i)
  <2>1. PICK e \in batch[w] : i = att[w][e] /\ e \in EventIds
    BY DEF ToUpdate, TypeOK
  <2>2. i # NoIssue /\ i = hash[ev[e].hash] /\ ev[e].hash \in Hashes
    BY <1>1, <2>1 DEF Unresolved, BeliefsMatchRows, TypeOK, ProcessingEvent
  <2>3. i \in issues
    BY <2>2 DEF OneIssuePerHash
  <2> QED
    BY <2>3 DEF LeafForEveryIssue, IsLegacy
<1>6. ToUpdate(w)' = ToUpdate(w) /\ (\A i : IsLegacy(i)' <=> IsLegacy(i))
  BY <1>1 DEF ToUpdate, IsLegacy, CountedRows
<1>7. CASE ToUpdate(w) = {}
  <2>1. pc'[w] = "sadd"
    BY <1>1, <1>7 DEF TypeOK
  <2>2. WorkerInv(w)'
    BY <1>1, <1>3, <1>4, <1>7, <2>1 DEF WorkerInv, BeforeCount, CountedRows
  <2> QED
    BY <1>1, <1>2, <1>4, <1>7, <2>1, <2>2, QuietCounts
<1>8. CASE ToUpdate(w) # {}
  <2>1. pc'[w] = "apply" /\ snap'[w] = ToUpdate(w) \cap leaves
    BY <1>1, <1>8 DEF TypeOK
  <2>2. WorkerInv(w)'
    BY <1>1, <1>3, <1>5, <1>6, <2>1 DEF WorkerInv, BeforeCount, CountedRows
  <2> QED
    BY <1>1, <1>2, <2>1, <2>2, QuietCounts DEF BeforeCount
<1> QED
  BY <1>7, <1>8

\* Events handed to a worker are uncounted, and in nobody else's hands.
LEMMA CountsTakeBatch ==
  ASSUME IInv, IInv', CountsInv, NEW w \in Workers, NEW n \in 1..MaxBatch, TakeBatch(w, n)
  PROVE  CountsInv'
<1> USE BoundsAssumption DEF IInv, CountsInv
<1>1. PICK t \in 0..MaxEvents : t = taken
  BY DEF TypeOK
<1>2. PICK B : B = t + 1 .. t + n
  OBVIOUS
<1>3. /\ taken' = t + n /\ batch' = [batch EXCEPT ![w] = B] /\ pc' = [pc EXCEPT ![w] = "fetch"] /\ pc[w] = "idle"
      /\ UNCHANGED <<ev, issues, leaves, hash, count, lastSeen, stored, projStat, aggr, lost, created, att, snap>>
  BY <1>1, <1>2 DEF TakeBatch, dbVars
<1>4. /\ 1..t \subseteq 1..taken' /\ B \subseteq 1..taken' /\ B # {} /\ B \cap (1..t) = {}
      /\ \A e \in 1..taken' : e \in 1..t \/ e \in B
  <2>1. t \in Int /\ n \in Int /\ n >= 1 /\ taken' = t + n
    BY <1>3
  <2>2. t + 1 \in B
    BY <1>2, <2>1
  <2> QED
    BY <1>2, <2>1, <2>2
<1>5. OnlyWorker(w)
  BY <1>3 DEF OnlyWorker, TypeOK
<1>6. WorkerInv(w) /\ batch[w] = {} /\ created[w] = {}
  BY <1>3 DEF WorkerInv
<1>7. batch'[w] = B /\ pc'[w] = "fetch" /\ \A v \in Workers : batch[v] \subseteq 1..t
  BY <1>1, <1>3 DEF WorkerInv, TypeOK
<1>8. \A v \in Workers : WorkerInv(v)'
  <2>1. WorkerInv(w)'
    BY <1>3, <1>4, <1>6, <1>7 DEF WorkerInv, BeforeCount
  <2>2. \A i : IsLegacy(i) <=> IsLegacy(i)'
    BY <1>3 DEF IsLegacy
  <2> QED
    BY <1>1, <1>3, <1>4, <1>5, <2>1, <2>2, OthersWorkerInv
<1>9. BatchesDisjoint'
  BY <1>4, <1>5, <1>7 DEF BatchesDisjoint, OnlyWorker
<1>10. ASSUME NEW e \in 1..t
       PROVE  /\ Uncounted(e)' <=> Uncounted(e)
              /\ \A v \in Workers : e \in batch'[v] <=> e \in batch[v]
  BY <1>3, <1>4, <1>5, <1>6, <1>7 DEF Uncounted, OnlyWorker, BeforeCount
<1>11. ASSUME NEW e \in B PROVE Uncounted(e)' /\ e \in batch'[w]
  BY <1>3, <1>6, <1>7 DEF Uncounted, BeforeCount
<1>12. \A i : CountedEvents(i)' = CountedEvents(i)
  BY <1>1, <1>3, <1>4, <1>10, <1>11 DEF CountedEvents
<1>13. InStats' = InStats
  BY <1>1, <1>3, <1>4, <1>5, <1>7, <1>10, <1>11 DEF InStats, OnlyWorker
<1>14. \A i : InAggregate(i)' = InAggregate(i)
  BY <1>1, <1>3, <1>4, <1>10, <1>11 DEF InAggregate
<1>15. LeafForEveryIssue' /\ CountsBounded' /\ StoredAreTaken'
  BY <1>1, <1>3, <1>4, <1>12 DEF LeafForEveryIssue, EventsOf, CountsBounded, StoredAreTaken
<1>16. ASSUME lost = {} PROVE Exact'
  <2>1. AllThere'
    <3> SUFFICES ASSUME NEW e \in 1..taken'
                 PROVE  \/ stored'[e] # NoIssue
                        \/ \E v \in Workers : e \in batch'[v] /\ pc'[v] \notin {"stats", "aggregate"}
      BY DEF AllThere
    <3>1. CASE e \in B
      BY <1>7, <3>1
    <3>2. CASE e \in 1..t
      <4>1. \/ stored[e] # NoIssue
            \/ \E v \in Workers : e \in batch[v] /\ pc[v] \notin {"stats", "aggregate"}
        BY <1>1, <1>16, <3>2 DEF Exact, AllThere
      <4> QED
        BY <1>3, <1>5, <1>6, <4>1 DEF OnlyWorker
    <3> QED
      BY <1>4, <3>1, <3>2
  <2>2. StatsExact' /\ AggregatesExact' /\ LeavesExact'
    BY <1>3, <1>12, <1>13, <1>14, <1>16
       DEF Exact, StatsExact, AggregatesExact, LeavesExact, LeafExact, IsLegacy
  <2> QED
    BY <2>1, <2>2 DEF Exact
<1> QED
  BY <1>3, <1>8, <1>9, <1>15, <1>16

\* Without a dead task, an event whose hash has no issue yet is uncounted.
LEMMA NewHashUncounted ==
  ASSUME IInv, CountsInv, lost = {}, NEW e \in 1..taken, hash[ev[e].hash] = NoIssue
  PROVE  Uncounted(e)
<1> USE BoundsAssumption DEF IInv, CountsInv
<1>1. e \in EventIds /\ NoIssue \notin leaves
  BY DEF TypeOK, EventIds, IssueIds
<1>2. stored[e] = NoIssue
  BY <1>1 DEF EventsFiledByHash
<1>3. PICK w \in Workers : e \in batch[w] /\ pc[w] \notin {"stats", "aggregate"}
  BY <1>2 DEF Exact, AllThere
<1>4. att[w][e] = NoIssue
  BY <1>1 DEF BeliefsMatchRows
<1> QED
  BY <1>1, <1>3, <1>4 DEF WorkerInv, Uncounted

\* The new issue's leaf counts the one event it was created from, and no other
\* event of its hash has been counted before.
LEMMA CountsInsertIssue ==
  ASSUME IInv, IInv', CountsInv, NEW w \in Workers, InsertIssue(w)
  PROVE  CountsInv'
<1> USE BoundsAssumption DEF IInv, CountsInv
<1>1. Unresolved(w) # {}
  BY DEF InsertIssue, Progress
<1>2. PICK e \in EventIds : e = First(Unresolved(w)) /\ e \in batch[w] /\ att[w][e] = NoIssue
  BY <1>1, FirstUnresolved
<1>3. PICK h \in Hashes : h = ev[e].hash
  BY DEF TypeOK, ProcessingEvent
<1>4. PICK k \in IssueIds : k = issueSeq + 1
  BY DEF InsertIssue, TypeOK, IssueIds
<1>5. /\ issues' = issues \cup {k} /\ leaves' = leaves \cup {k} /\ hash' = [hash EXCEPT ![h] = k]
      /\ count' = [count EXCEPT ![k] = 1] /\ lastSeen' = [lastSeen EXCEPT ![k] = e]
      /\ att' = [att EXCEPT ![w] = [f \in EventIds |-> IF f \in FiledWith(w, h) THEN k ELSE att[w][f]]]
      /\ created' = [created EXCEPT ![w] = created[w] \cup {e}]
      /\ hash[h] = NoIssue /\ pc[w] = "insert" /\ pc' = [pc EXCEPT ![w] = "create"]
      /\ UNCHANGED <<ev, taken, stored, projStat, aggr, lost, batch, snap>>
  BY <1>2, <1>3, <1>4 DEF InsertIssue, histVars
<1>6. k \notin issues /\ k # NoIssue /\ NoIssue \notin leaves /\ NoIssue \notin issues
  BY <1>4 DEF IdsFromSequence, TypeOK, IssueIds
<1>7. OnlyWorker(w)
  BY <1>5 DEF OnlyWorker, TypeOK
<1>8. WorkerInv(w) /\ e \in 1..taken /\ e \notin created[w]
  BY <1>2, <1>6 DEF WorkerInv
<1>9. \A g \in Hashes : hash'[g] = IF g = h THEN k ELSE hash[g]
  BY <1>5 DEF TypeOK
<1>10. \A i \in IssueIds : IsLegacy(i) => IsLegacy(i)'
  BY <1>5, <1>9, LegacyAssumption DEF IsLegacy, IssueIds
<1>11. \A v \in Workers : WorkerInv(v)'
  <2>1. \A f \in EventIds : att'[w][f] = IF f \in FiledWith(w, h) THEN k ELSE att[w][f]
    BY <1>5 DEF TypeOK
  <2>2. e \in FiledWith(w, h) /\ created'[w] = created[w] \cup {e} /\ pc'[w] = "create"
    BY <1>2, <1>3, <1>5 DEF FiledWith, Unresolved, TypeOK
  <2>3. \A f \in created'[w] : att'[w][f] \in leaves'
    <3> SUFFICES ASSUME NEW f \in created'[w] PROVE att'[w][f] \in leaves'
      OBVIOUS
    <3>1. f \in EventIds
      BY DEF TypeOK
    <3> QED
      BY <1>5, <1>8, <2>1, <2>2, <3>1 DEF WorkerInv
  <2>4. WorkerInv(w)'
    BY <1>2, <1>5, <1>8, <2>2, <2>3 DEF WorkerInv, BeforeCount
  <2> QED
    BY <1>5, <1>7, <1>10, <2>4, OthersWorkerInv
<1>12. \A f : Uncounted(f)' <=> Uncounted(f) /\ f # e
  <2>1. created'[w] = created[w] \cup {e} /\ pc'[w] = "create"
    BY <1>5 DEF TypeOK
  <2>2. \A v \in Workers \ {w} : e \notin batch[v]
    BY <1>2 DEF BatchesDisjoint
  <2> QED
    BY <1>5, <1>7, <2>1, <2>2 DEF Uncounted, OnlyWorker, BeforeCount
<1>13. \A f \in 1..taken : ev[f].hash \in Hashes
  <2>1. ev \in [EventIds -> ProcessingEvent] /\ taken \in 0..MaxEvents /\ MaxEvents \in Nat
    BY BoundsAssumption DEF TypeOK
  <2>2. 1..taken \subseteq EventIds
    BY <2>1 DEF EventIds
  <2>3. \A r \in ProcessingEvent : r.hash \in Hashes
    BY DEF ProcessingEvent
  <2> QED
    BY <2>1, <2>2, <2>3
<1>14. ASSUME NEW i \in issues PROVE CountedEvents(i)' = CountedEvents(i)
  BY <1>3, <1>5, <1>6, <1>9, <1>12, <1>13 DEF CountedEvents
<1>15. {e} \subseteq CountedEvents(k)'
  BY <1>3, <1>5, <1>8, <1>9, <1>12 DEF CountedEvents
<1>16. LeafForEveryIssue' /\ StoredAreTaken'
  <2>1. ASSUME NEW i \in issues' \ leaves' PROVE IsLegacy(i)' /\ EventsOf(i)' = {}
    <3>1. i \in issues \ leaves /\ i \in IssueIds
      BY <1>5 DEF TypeOK
    <3>2. IsLegacy(i) /\ EventsOf(i) = {}
      BY <3>1 DEF LeafForEveryIssue, IsLegacy
    <3> QED
      BY <1>5, <1>10, <3>1, <3>2 DEF EventsOf
  <2>2. StoredAreTaken'
    BY <1>5 DEF StoredAreTaken
  <2> QED
    BY <2>1, <2>2 DEF LeafForEveryIssue, IsLegacy
<1>17. CountsBounded'
  <2> SUFFICES ASSUME NEW i \in leaves' PROVE count'[i] <= Cardinality(CountedEvents(i)')
    BY DEF CountsBounded
  <2>1. CASE i = k
    <3>1. CountedEvents(k)' \subseteq EventIds
      BY DEF CountedEvents, TypeOK, EventIds
    <3>2. Cardinality({e}) <= Cardinality(CountedEvents(k)') /\ Cardinality({e}) = 1
      BY <1>15, <3>1, MoreEvents, FS_Singleton
    <3>3. count'[k] = 1
      BY <1>5 DEF TypeOK
    <3> QED
      BY <2>1, <3>2, <3>3
  <2>2. CASE i # k
    BY <1>5, <1>14, <2>2 DEF CountsBounded, TypeOK
  <2> QED
    BY <2>1, <2>2
<1>18. ASSUME lost = {} PROVE Exact'
  <2>1. \A f \in 1..taken : hash[ev[f].hash] = NoIssue => Uncounted(f)
    BY <1>18, NewHashUncounted
  <2>2. AllThere'
    BY <1>5, <1>7, <1>18 DEF Exact, AllThere, OnlyWorker, TypeOK
  <2>3. InStats' = InStats
    BY <1>5, <1>7 DEF InStats, OnlyWorker, TypeOK
  <2>4. \A i \in IssueIds : InAggregate(i)' = InAggregate(i)
    BY <1>5, <1>9, <1>13, <2>1 DEF InAggregate, Uncounted, IssueIds
  <2>5. CountedEvents(k)' = {e}
    <3>1. ASSUME NEW f \in CountedEvents(k)', f # e PROVE FALSE
      <4>1. f \in 1..taken /\ hash'[ev[f].hash] = k /\ ~Uncounted(f)
        BY <1>5, <1>12, <3>1 DEF CountedEvents
      <4>2. hash[ev[f].hash] # NoIssue /\ ev[f].hash \in Hashes
        BY <1>13, <2>1, <4>1
      <4>3. hash[ev[f].hash] = k
        BY <1>5, <1>9, <4>1, <4>2
      <4> QED
        BY <1>6, <4>2, <4>3 DEF OneIssuePerHash
    <3> QED
      BY <1>15, <3>1
  <2>6. LeafExact(k)'
    <3>1. Latest({e}) = e
      BY LatestIs DEF EventIds
    <3>2. count'[k] = 1 /\ lastSeen'[k] = e
      BY <1>5 DEF TypeOK
    <3> QED
      BY <2>5, <3>1, <3>2, FS_Singleton DEF LeafExact
  <2>7. LeavesExact'
    <3> SUFFICES ASSUME NEW i \in issues', ~IsLegacy(i)' PROVE LeafExact(i)'
      BY DEF LeavesExact
    <3>1. CASE i = k
      BY <2>6, <3>1
    <3>2. CASE i # k
      <4>1. i \in issues /\ i \in IssueIds /\ LeafExact(i)
        BY <1>5, <1>10, <1>18, <3>2 DEF Exact, LeavesExact, TypeOK
      <4> QED
        BY <1>5, <1>14, <3>2, <4>1 DEF LeafExact, TypeOK
    <3> QED
      BY <3>1, <3>2
  <2>8. StatsExact' /\ AggregatesExact'
    BY <1>5, <1>18, <2>3, <2>4 DEF Exact, StatsExact, AggregatesExact
  <2> QED
    BY <2>2, <2>7, <2>8 DEF Exact
<1> QED
  BY <1>5, <1>11, <1>16, <1>17, <1>18 DEF BatchesDisjoint

\* The worker's events that created no issue are added to the leaves of their
\* issues; only the legacy issue's leaf is inserted or can be passed over.
LEMMA CountsUpdateIssues ==
  ASSUME IInv, IInv', CountsInv, NEW w \in Workers, UpdateIssues(w)
  PROVE  CountsInv'
<1> USE BoundsAssumption DEF IInv, CountsInv
<1> DEFINE rest == batch[w] \ created[w]
           missing == MissingLeaves(w)
           updated == ToUpdate(w) \cap snap[w] \cap leaves
<1>1. /\ leaves' = leaves \cup missing
      /\ count' = [i \in IssueIds |-> CASE i \in updated -> count[i] + Cardinality(Counted(w, i))
                                        [] i \in missing -> Cardinality(Counted(w, i))
                                        [] OTHER -> count[i]]
      /\ lastSeen' = [i \in IssueIds |-> CASE i \in updated -> Latest(Counted(w, i) \cup {lastSeen[i]})
                                           [] i \in missing -> Latest(Counted(w, i))
                                           [] OTHER -> lastSeen[i]]
      /\ pc[w] = "apply" /\ pc' = [pc EXCEPT ![w] = "sadd"]
      /\ UNCHANGED <<ev, taken, issues, hash, stored, projStat, aggr, lost, batch, att, created, snap>>
  BY DEF UpdateIssues, histVars
<1>2. WorkerInv(w) /\ Unresolved(w) = {} /\ NoIssue \notin issues
  BY <1>1 DEF Progress, TypeOK, IssueIds
<1>3. ASSUME NEW e \in batch[w]
      PROVE  e \in EventIds /\ e \in 1..taken /\ att[w][e] = hash[ev[e].hash] /\ att[w][e] \in issues
  <2>1. e \in EventIds /\ e \in 1..taken /\ att[w][e] # NoIssue
    BY <1>2 DEF WorkerInv, Unresolved, TypeOK
  <2>2. att[w][e] = hash[ev[e].hash] /\ ev[e].hash \in Hashes
    BY <2>1 DEF BeliefsMatchRows, TypeOK, ProcessingEvent
  <2> QED
    BY <2>1, <2>2 DEF OneIssuePerHash
<1>4. \A i : Counted(w, i) = {e \in rest : att[w][e] = i}
  BY DEF Counted
<1>5. ToUpdate(w) = {att[w][e] : e \in rest} /\ missing = ToUpdate(w) \ leaves
  BY DEF ToUpdate, MissingLeaves
<1>6. OnlyWorker(w) /\ pc'[w] = "sadd"
  BY <1>1 DEF OnlyWorker, TypeOK
<1>7. \A e : Uncounted(e)' <=> Uncounted(e) /\ e \notin rest
  <2>1. \A v \in Workers \ {w} : batch[v] \cap rest = {}
    BY DEF BatchesDisjoint
  <2> QED
    BY <1>1, <1>6, <2>1 DEF Uncounted, OnlyWorker, BeforeCount
<1>8. ASSUME NEW i \in IssueIds
      PROVE  /\ CountedEvents(i)' = CountedEvents(i) \cup Counted(w, i)
             /\ CountedEvents(i) \cap Counted(w, i) = {}
             /\ CountedEvents(i) \subseteq EventIds /\ Counted(w, i) \subseteq EventIds
             /\ Cardinality(CountedEvents(i)') = Cardinality(CountedEvents(i)) + Cardinality(Counted(w, i))
             /\ Cardinality(CountedEvents(i)) \in Nat /\ Cardinality(Counted(w, i)) \in Nat
  <2>1. \A e \in rest : Uncounted(e)
    BY <1>1 DEF Uncounted, BeforeCount
  <2>2. CountedEvents(i)' = CountedEvents(i) \cup Counted(w, i)
    BY <1>1, <1>3, <1>4, <1>7, <2>1 DEF CountedEvents
  <2>3. CountedEvents(i) \cap Counted(w, i) = {}
    BY <1>4, <2>1 DEF CountedEvents
  <2>4. CountedEvents(i) \subseteq EventIds /\ Counted(w, i) \subseteq EventIds
    BY <1>3, <1>4, CountedAreTaken
  <2> QED
    BY <2>2, <2>3, <2>4, DisjointEvents, EventsFinite
<1> HIDE DEF rest, missing, updated
<1>9. leaves' \subseteq issues' /\ missing \subseteq IssueIds
  BY <1>1, <1>3, <1>5 DEF TypeOK, rest
<1>10. \A v \in Workers : WorkerInv(v)'
  <2>1. ASSUME NEW e \in batch[w] PROVE att[w][e] \in leaves'
    BY <1>1, <1>2, <1>5 DEF WorkerInv, rest
  <2>2. WorkerInv(w)'
    BY <1>1, <1>2, <1>6, <2>1 DEF WorkerInv, BeforeCount
  <2> QED
    BY <1>1, <1>6, <2>2, OthersWorkerInv DEF IsLegacy
<1>11. LeafForEveryIssue' /\ StoredAreTaken' /\ BatchesDisjoint'
  BY <1>1 DEF LeafForEveryIssue, EventsOf, StoredAreTaken, BatchesDisjoint
<1>12. missing \cap leaves = {} /\ missing \cap updated = {}
  BY <1>5 DEF updated
<1>13. CountsBounded'
  <2> SUFFICES ASSUME NEW i \in leaves' PROVE count'[i] <= Cardinality(CountedEvents(i)')
    BY DEF CountsBounded
  <2>1. i \in IssueIds
    BY <1>9 DEF TypeOK
  <2>2. CASE i \in missing
    <3>1. count'[i] = Cardinality(Counted(w, i))
      BY <1>1, <1>12, <2>1, <2>2
    <3> QED
      BY <1>8, <2>1, <3>1
  <2>3. CASE i \notin missing
    <3>1. count[i] <= Cardinality(CountedEvents(i)) /\ count[i] \in Nat
      BY <1>1, <2>1, <2>3 DEF CountsBounded, TypeOK
    <3>2. count'[i] = count[i] + Cardinality(Counted(w, i)) \/ count'[i] = count[i]
      BY <1>1, <2>1, <2>3
    <3> QED
      BY <1>8, <2>1, <3>1, <3>2
  <2> QED
    BY <2>2, <2>3
<1>14. ASSUME lost = {} PROVE Exact'
  <2>1. AllThere'
    BY <1>1, <1>6, <1>14 DEF Exact, AllThere, OnlyWorker
  <2>2. InStats' = InStats /\ (\A i : InAggregate(i)' = InAggregate(i))
    BY <1>1, <1>6 DEF InStats, InAggregate, OnlyWorker
  <2>3. LeavesExact'
    <3> SUFFICES ASSUME NEW i \in issues, ~IsLegacy(i) PROVE LeafExact(i)'
      BY <1>1 DEF LeavesExact, IsLegacy
    <3>1. i \in IssueIds /\ i \in leaves /\ i \notin missing
      BY <1>12 DEF TypeOK, LeafForEveryIssue, IsLegacy
    <3>2. LeafExact(i)
      BY <1>14 DEF Exact, LeavesExact
    <3>3. CASE i \in ToUpdate(w)
      <4>1. i \in updated
        BY <1>1, <1>2, <3>1, <3>3 DEF WorkerInv, updated
      <4>2. Counted(w, i) # {}
        BY <1>4, <1>5, <3>3 DEF rest
      <4>3. count'[i] = count[i] + Cardinality(Counted(w, i))
        BY <1>1, <3>1, <4>1
      <4>4. lastSeen'[i] = Latest(Counted(w, i) \cup {lastSeen[i]})
        BY <1>1, <3>1, <4>1
      <4>5. Latest(CountedEvents(i) \cup Counted(w, i)) = Latest(Counted(w, i) \cup {Latest(CountedEvents(i))})
        <5>1. CountedEvents(i) # {}
          BY <3>2 DEF LeafExact
        <5>2. CountedEvents(i) \subseteq 0..MaxEvents /\ Counted(w, i) \subseteq 0..MaxEvents /\ MaxEvents \in Nat
          BY <1>8, <3>1 DEF EventIds
        <5> QED
          BY <4>2, <5>1, <5>2, LatestUnion
      <4>6. count[i] = Cardinality(CountedEvents(i)) /\ lastSeen[i] = Latest(CountedEvents(i))
        BY <3>2 DEF LeafExact
      <4>7. /\ CountedEvents(i)' = CountedEvents(i) \cup Counted(w, i)
            /\ Cardinality(CountedEvents(i)') = Cardinality(CountedEvents(i)) + Cardinality(Counted(w, i))
        BY <1>8, <3>1
      <4>8. lastSeen'[i] = Latest(CountedEvents(i)')
        BY <4>4, <4>5, <4>6, <4>7
      <4>9. count'[i] = Cardinality(CountedEvents(i)') /\ CountedEvents(i)' # {}
        BY <4>2, <4>3, <4>6, <4>7
      <4> QED
        BY <4>8, <4>9 DEF LeafExact
    <3>4. CASE i \notin ToUpdate(w)
      <4>1. Counted(w, i) = {} /\ i \notin updated
        BY <1>4, <1>5, <3>4 DEF rest, updated
      <4>2. count'[i] = count[i] /\ lastSeen'[i] = lastSeen[i]
        BY <1>1, <3>1, <4>1
      <4> QED
        BY <1>8, <3>1, <3>2, <4>1, <4>2 DEF LeafExact
    <3> QED
      BY <3>3, <3>4
  <2> QED
    BY <1>1, <1>14, <2>1, <2>2, <2>3 DEF Exact, StatsExact, AggregatesExact
<1> QED
  BY <1>1, <1>9, <1>10, <1>11, <1>13, <1>14

\* What is stored is in the leaf's issue already.
LEMMA CountsCopyEvents ==
  ASSUME IInv, IInv', CountsInv, NEW w \in Workers, CopyEvents(w)
  PROVE  CountsInv'
<1> USE BoundsAssumption DEF IInv, CountsInv
<1>1. /\ stored' = [e \in EventIds |-> IF e \in batch[w] THEN att[w][e] ELSE stored[e]]
      /\ pc[w] = "copy" /\ pc' = [pc EXCEPT ![w] = "stats"]
      /\ UNCHANGED <<ev, taken, issues, leaves, hash, count, lastSeen, projStat, aggr, lost, batch, att, created, snap>>
  BY DEF CopyEvents, histVars
<1>2. OnlyWorker(w) /\ pc'[w] = "stats"
  BY <1>1 DEF OnlyWorker, TypeOK
<1>3. WorkerInv(w) /\ NoIssue \notin leaves
  BY DEF TypeOK, IssueIds
<1>4. \A e \in batch[w] : e \in EventIds /\ e \in 1..taken /\ att[w][e] \in leaves
  BY <1>1, <1>3 DEF WorkerInv, BeforeCount, TypeOK
<1>5. \A v \in Workers : WorkerInv(v)'
  <2>1. WorkerInv(w)'
    BY <1>1, <1>2, <1>3 DEF WorkerInv, BeforeCount
  <2> QED
    BY <1>1, <1>2, <2>1, OthersWorkerInv DEF IsLegacy
<1>6. \A i : CountedEvents(i)' = CountedEvents(i)
  BY <1>1, <1>2 DEF CountedEvents, Uncounted, OnlyWorker, BeforeCount
<1>7. InStats' = InStats /\ \A i : InAggregate(i)' = InAggregate(i)
  BY <1>1, <1>2 DEF InStats, InAggregate, OnlyWorker
<1>8. LeafForEveryIssue' /\ StoredAreTaken' /\ CountsBounded' /\ BatchesDisjoint'
  <2>1. StoredAreTaken'
    BY <1>1, <1>4 DEF StoredAreTaken
  <2>2. \A i \in issues \ leaves : EventsOf(i) = {} => EventsOf(i)' = {}
    BY <1>1, <1>4 DEF EventsOf
  <2> QED
    BY <1>1, <1>6, <2>1, <2>2 DEF LeafForEveryIssue, CountsBounded, BatchesDisjoint
<1>9. ASSUME lost = {} PROVE Exact'
  <2>1. AllThere'
    <3> SUFFICES ASSUME NEW e \in 1..taken
                 PROVE  \/ stored'[e] # NoIssue
                        \/ \E v \in Workers : e \in batch'[v] /\ pc'[v] \notin {"stats", "aggregate"}
      BY <1>1 DEF AllThere
    <3>1. e \in EventIds
      BY DEF TypeOK, EventIds
    <3>2. CASE e \in batch[w]
      BY <1>1, <1>3, <1>4, <3>1, <3>2
    <3>3. CASE e \notin batch[w]
      BY <1>1, <1>2, <1>9, <3>1, <3>3 DEF Exact, AllThere, OnlyWorker
    <3> QED
      BY <3>2, <3>3
  <2> QED
    BY <1>1, <1>6, <1>7, <1>9, <2>1
       DEF Exact, StatsExact, AggregatesExact, LeavesExact, LeafExact, IsLegacy
<1> QED
  BY <1>1, <1>5, <1>8, <1>9

\* The statement that adds a batch to the rows keeps the counts.
LEMMA CountsUpdateStatistics ==
  ASSUME IInv, IInv', CountsInv, NEW w \in Workers, UpdateStatistics(w)
  PROVE  CountsInv'
<1> USE BoundsAssumption DEF IInv, CountsInv
<1>1. /\ projStat' = projStat + Cardinality(batch[w])
      /\ pc[w] = "stats" /\ pc' = [pc EXCEPT ![w] = "aggregate"]
      /\ UNCHANGED <<ev, taken, issues, leaves, hash, count, lastSeen, stored, aggr, lost, batch, att, created, snap>>
  BY DEF UpdateStatistics, histVars
<1>2. OnlyWorker(w) /\ pc'[w] = "aggregate"
  BY <1>1 DEF OnlyWorker, TypeOK
<1>3. WorkerInv(w)
  OBVIOUS
<1>4. \A v \in Workers : WorkerInv(v)'
  <2>1. WorkerInv(w)'
    BY <1>1, <1>2, <1>3 DEF WorkerInv, BeforeCount
  <2> QED
    BY <1>1, <1>2, <2>1, OthersWorkerInv DEF IsLegacy
<1>5. \A i : CountedEvents(i)' = CountedEvents(i) /\ InAggregate(i)' = InAggregate(i)
  BY <1>1, <1>2 DEF CountedEvents, InAggregate, Uncounted, OnlyWorker, BeforeCount
<1>6. Cardinality(InStats') = Cardinality(InStats) + Cardinality(batch[w])
  <2>1. InStats' = InStats \cup batch[w]
    BY <1>1, <1>2, <1>3 DEF InStats, OnlyWorker, WorkerInv, BatchesDisjoint
  <2>2. InStats \cap batch[w] = {}
    BY <1>1 DEF InStats
  <2>3. InStats \subseteq EventIds /\ batch[w] \subseteq EventIds
    BY CountedAreTaken DEF TypeOK
  <2> QED
    BY <2>1, <2>2, <2>3, DisjointEvents
<1>7. LeafForEveryIssue' /\ StoredAreTaken' /\ CountsBounded' /\ BatchesDisjoint'
  BY <1>1, <1>5 DEF LeafForEveryIssue, EventsOf, StoredAreTaken, CountsBounded, BatchesDisjoint
<1>8. ASSUME lost = {} PROVE Exact'
  <2>1. AllThere'
    BY <1>1, <1>2, <1>8 DEF Exact, AllThere, OnlyWorker
  <2>2. StatsExact'
    BY <1>1, <1>6, <1>8 DEF Exact, StatsExact
  <2> QED
    BY <1>1, <1>5, <1>8, <2>1, <2>2 DEF Exact, AggregatesExact, LeavesExact, LeafExact, IsLegacy
<1> QED
  BY <1>1, <1>4, <1>7, <1>8

\* The task's own state is dropped, the others' is not.
LEMMA ResetWorkerInv ==
  ASSUME IInv, CountsInv, NEW w \in Workers, ResetWorker(w), UNCHANGED <<taken, leaves, hash>>
  PROVE  /\ OnlyWorker(w) /\ pc'[w] = "idle" /\ batch'[w] = {} /\ created'[w] = {}
         /\ (\A v \in Workers : WorkerInv(v)') /\ BatchesDisjoint'
<1> USE DEF IInv, CountsInv
<1>1. /\ OnlyWorker(w) /\ pc'[w] = "idle" /\ batch'[w] = {} /\ created'[w] = {}
  BY DEF ResetWorker, OnlyWorker, TypeOK
<1>2. WorkerInv(w)'
  BY <1>1 DEF WorkerInv
<1>3. \A v \in Workers : WorkerInv(v)'
  BY <1>1, <1>2, OthersWorkerInv DEF IsLegacy
<1>4. BatchesDisjoint'
  BY <1>1 DEF BatchesDisjoint, OnlyWorker
<1> QED
  BY <1>1, <1>3, <1>4

\* The batch's events go into the aggregates and out of the worker's hands.
LEMMA CountsUpdateAggregates ==
  ASSUME IInv, IInv', CountsInv, NEW w \in Workers, UpdateAggregates(w)
  PROVE  CountsInv'
<1> USE BoundsAssumption DEF IInv, CountsInv
<1>1. /\ aggr' = [i \in IssueIds |-> aggr[i] + Cardinality({e \in batch[w] : att[w][e] = i})]
      /\ pc[w] = "aggregate" /\ ResetWorker(w)
      /\ UNCHANGED <<ev, taken, issues, leaves, hash, count, lastSeen, stored, projStat, lost>>
  BY DEF UpdateAggregates
<1>2. /\ OnlyWorker(w) /\ pc'[w] = "idle" /\ batch'[w] = {} /\ created'[w] = {}
      /\ (\A v \in Workers : WorkerInv(v)') /\ BatchesDisjoint'
  BY <1>1, ResetWorkerInv
<1>3. WorkerInv(w) /\ Unresolved(w) = {}
  BY <1>1 DEF Progress
<1>4. \A e \in batch[w] : e \in EventIds /\ e \in 1..taken /\ att[w][e] = hash[ev[e].hash]
  BY <1>3 DEF WorkerInv, Unresolved, BeliefsMatchRows, TypeOK
<1>5. \A i : CountedEvents(i)' = CountedEvents(i)
  BY <1>1, <1>2 DEF CountedEvents, Uncounted, OnlyWorker, BeforeCount
<1>6. InStats' = InStats
  BY <1>1, <1>2 DEF InStats, OnlyWorker
<1>7. ASSUME NEW i \in IssueIds
      PROVE  Cardinality(InAggregate(i)') = Cardinality(InAggregate(i)) + Cardinality({e \in batch[w] : att[w][e] = i})
  <2> DEFINE mine == {e \in batch[w] : att[w][e] = i}
  <2>1. InAggregate(i)' = InAggregate(i) \cup mine
    BY <1>1, <1>2, <1>4 DEF InAggregate, OnlyWorker, BatchesDisjoint
  <2>2. InAggregate(i) \cap mine = {}
    BY DEF InAggregate
  <2>3. InAggregate(i) \subseteq EventIds /\ mine \subseteq EventIds
    BY <1>4, CountedAreTaken
  <2> QED
    BY <2>1, <2>2, <2>3, DisjointEvents
<1>8. LeafForEveryIssue' /\ StoredAreTaken' /\ CountsBounded'
  BY <1>1, <1>5 DEF LeafForEveryIssue, EventsOf, StoredAreTaken, CountsBounded
<1>9. ASSUME lost = {} PROVE Exact'
  <2>1. AllThere'
    BY <1>1, <1>2, <1>9 DEF Exact, AllThere, OnlyWorker
  <2>2. AggregatesExact'
    BY <1>1, <1>7, <1>9 DEF Exact, AggregatesExact
  <2> QED
    BY <1>1, <1>5, <1>6, <1>9, <2>1, <2>2 DEF Exact, StatsExact, LeavesExact, LeafExact, IsLegacy
<1> QED
  BY <1>1, <1>2, <1>8, <1>9

\* A dead task's events stay uncounted, never counted twice.
LEMMA CountsFailBatch ==
  ASSUME IInv, IInv', CountsInv, NEW w \in Workers, FailBatch(w)
  PROVE  CountsInv'
<1> USE BoundsAssumption DEF IInv, CountsInv
<1>1. /\ pc[w] # "idle" /\ lost' = lost \cup batch[w] /\ ResetWorker(w)
      /\ UNCHANGED <<ev, taken, issues, leaves, hash, count, lastSeen, stored, projStat, aggr>>
  BY DEF FailBatch, IsBusy, dbVars
<1>2. /\ OnlyWorker(w) /\ pc'[w] = "idle" /\ batch'[w] = {} /\ created'[w] = {}
      /\ (\A v \in Workers : WorkerInv(v)') /\ BatchesDisjoint'
  BY <1>1, ResetWorkerInv
<1>3. lost' # {}
  BY <1>1 DEF WorkerInv
<1>4. ASSUME NEW i \in leaves PROVE count[i] <= Cardinality(CountedEvents(i)')
  <2>1. CountedEvents(i) \subseteq CountedEvents(i)'
    BY <1>1, <1>2 DEF CountedEvents, Uncounted, OnlyWorker
  <2>2. CountedEvents(i)' \subseteq EventIds
    BY DEF CountedEvents, TypeOK, EventIds
  <2>3. /\ Cardinality(CountedEvents(i)) <= Cardinality(CountedEvents(i)')
        /\ Cardinality(CountedEvents(i)) \in Nat /\ Cardinality(CountedEvents(i)') \in Nat
    BY <2>1, <2>2, MoreEvents, EventsFinite
  <2>4. count[i] <= Cardinality(CountedEvents(i)) /\ count[i] \in Nat
    BY DEF CountsBounded, TypeOK
  <2> QED
    BY <2>3, <2>4
<1>5. LeafForEveryIssue' /\ StoredAreTaken' /\ CountsBounded'
  BY <1>1, <1>4 DEF LeafForEveryIssue, EventsOf, StoredAreTaken, CountsBounded
<1> QED
  BY <1>1, <1>2, <1>3, <1>5

\* Steps of nobody's: status calls, the replica and stuttering.
LEMMA CountsAlone ==
  ASSUME CountsInv, UNCHANGED <<CountedRows, workerVars>>
  PROVE  CountsInv'
<1> USE DEF CountsInv, CountedRows, workerVars
<1>1. \A i : /\ CountedEvents(i)' = CountedEvents(i) /\ InAggregate(i)' = InAggregate(i)
             /\ EventsOf(i)' = EventsOf(i) /\ IsLegacy(i)' = IsLegacy(i)
  BY DEF CountedEvents, InAggregate, Uncounted, EventsOf, IsLegacy
<1>2. InStats' = InStats
  BY DEF InStats
<1>3. \A w \in Workers : WorkerInv(w)'
  BY <1>1 DEF WorkerInv, ToUpdate
<1>4. LeafForEveryIssue' /\ StoredAreTaken' /\ CountsBounded' /\ BatchesDisjoint'
  BY <1>1 DEF LeafForEveryIssue, StoredAreTaken, CountsBounded, BatchesDisjoint
<1>5. Exact => Exact'
  BY <1>1, <1>2 DEF Exact, AllThere, StatsExact, AggregatesExact, LeavesExact, LeafExact
<1> QED
  BY <1>3, <1>4, <1>5

\* The counts hold at the start.
LEMMA InitCountsInv == Init => CountsInv
<1> SUFFICES ASSUME Init PROVE CountsInv
  OBVIOUS
<1>1. 1..taken = {} /\ Cardinality({}) = 0
  BY FS_EmptySet DEF Init
<1>2. \A w \in Workers : WorkerInv(w)
  BY DEF Init, WorkerInv, BeforeCount
<1>3. BatchesDisjoint /\ StoredAreTaken /\ CountsBounded /\ leaves \subseteq issues
  BY DEF Init, BatchesDisjoint, StoredAreTaken, CountsBounded
<1>4. ASSUME NEW i \in issues PROVE IsLegacy(i)
  <2>1. i = 1 /\ LegacyHashes # {}
    BY <1>4 DEF Init
  <2>2. PICK h \in LegacyHashes : h \in Hashes
    BY <2>1, LegacyAssumption
  <2>3. hash[h] = 1
    BY <2>2 DEF Init
  <2> QED
    BY <2>1, <2>2, <2>3 DEF IsLegacy
<1>5. LeafForEveryIssue
  <2>1. ASSUME NEW i \in issues PROVE EventsOf(i) = {}
    <3>1. i # NoIssue /\ \A e \in EventIds : stored[e] = NoIssue
      BY <2>1 DEF Init
    <3> QED
      BY <3>1 DEF EventsOf
  <2> QED
    BY <1>4, <2>1 DEF LeafForEveryIssue, IsLegacy
<1>6. StatsExact /\ AggregatesExact /\ AllThere
  <2>1. InStats = {} /\ \A i : InAggregate(i) = {}
    BY <1>1 DEF InStats, InAggregate
  <2>2. projStat = 0 /\ \A i \in IssueIds : aggr[i] = 0
    BY DEF Init
  <2> QED
    BY <1>1, <2>1, <2>2 DEF StatsExact, AggregatesExact, AllThere
<1> QED
  BY <1>2, <1>3, <1>4, <1>5, <1>6 DEF CountsInv, Exact, LeavesExact

\* Every step keeps them.
LEMMA StepCountsInv == IInv /\ CountsInv /\ [Next]_vars => CountsInv'
<1> SUFFICES ASSUME IInv, CountsInv, [Next]_vars PROVE CountsInv'
  OBVIOUS
<1>0. IInv'
  BY StepIInv
<1>1. ASSUME NEW w \in Workers, NEW n \in 1..MaxBatch, TakeBatch(w, n) PROVE CountsInv'
  BY <1>0, <1>1, CountsTakeBatch
<1>2. ASSUME NEW w \in Workers, WorkerStep(w) \/ FailBatch(w) PROVE CountsInv'
  BY <1>0, <1>2, CountsLookups, CountsSilentWorker, CountsReadWinner, CountsSnapshotLeaves,
     CountsInsertIssue, CountsUpdateIssues, CountsCopyEvents, CountsUpdateStatistics,
     CountsUpdateAggregates, CountsFailBatch DEF WorkerStep
<1>3. ASSUME ApiStep \/ ReplicaCatchUp \/ UNCHANGED vars PROVE CountsInv'
  <2>1. UNCHANGED <<CountedRows, workerVars>>
    BY <1>3 DEF ApiStep, BeginUpdateStatus, EndUpdateStatus, BulkUpdateStatus, ReplicaCatchUp, vars,
                dbVars, histVars, CountedRows
  <2> QED
    BY <2>1, CountsAlone
<1> QED
  BY <1>1, <1>2, <1>3 DEF Next, StreamEnded

\* At every step the rows count the events that are through, and no others.
THEOREM CountsInvariant == Spec => []CountsInv
<1>1. Init => CountsInv
  BY InitCountsInv
<1>2. IInv /\ CountsInv /\ [Next]_vars => CountsInv'
  BY StepCountsInv
<1> QED
  BY <1>1, <1>2, IngestInvariant, PTL DEF Spec

\* The leaf, the event rows, the aggregate and the hourly statistics of a
\* project agree once no batch is under way, and a leaf never says more than was
\* received.
THEOREM IngestCountsHold == Spec => []CountsHold
<1>1. IInv /\ CountsInv => CountsHold
  <2> SUFFICES ASSUME IInv, CountsInv PROVE CountsHold
    OBVIOUS
  <2> USE BoundsAssumption DEF IInv, CountsInv
  <2>1. CountNeverExceedsReceived
    <3> SUFFICES ASSUME NEW i \in leaves PROVE count[i] <= Cardinality(Received(i))
      BY DEF CountNeverExceedsReceived
    <3>1. /\ CountedEvents(i) \subseteq Received(i)
          /\ Received(i) \subseteq EventIds /\ CountedEvents(i) \subseteq EventIds
      BY CountedAreTaken
    <3>2. /\ Cardinality(CountedEvents(i)) <= Cardinality(Received(i))
          /\ Cardinality(CountedEvents(i)) \in Nat /\ Cardinality(Received(i)) \in Nat
      BY <3>1, MoreEvents, EventsFinite
    <3>3. count[i] <= Cardinality(CountedEvents(i)) /\ count[i] \in Nat
      BY DEF CountsBounded, TypeOK
    <3> QED
      BY <3>2, <3>3
  <2>2. ASSUME AllIdle, lost = {}
        PROVE  /\ projStat = taken
               /\ \A i \in issues :
                    /\ aggr[i] = Cardinality(EventsOf(i))
                    /\ (\A h \in LegacyHashes : hash[h] # i) =>
                         /\ count[i] = Cardinality(EventsOf(i))
                         /\ lastSeen[i] = Latest(EventsOf(i))
    <3>1. \A w \in Workers : batch[w] = {}
      BY <2>2 DEF AllIdle, WorkerInv
    <3>2. Exact
      BY <2>2
    <3>3. InStats = 1..taken
      BY <3>1 DEF InStats
    <3>4. \A e \in 1..taken : e \in EventIds /\ stored[e] # NoIssue
      BY <3>1, <3>2 DEF Exact, AllThere, TypeOK, EventIds
    <3>5. ASSUME NEW i \in issues
          PROVE  EventsOf(i) = InAggregate(i) /\ EventsOf(i) = CountedEvents(i)
      <4>1. i # NoIssue
        BY DEF TypeOK, IssueIds
      <4>2. \A e \in EventIds : stored[e] = i <=> e \in 1..taken /\ hash[ev[e].hash] = i
        BY <3>4, <4>1 DEF StoredAreTaken, EventsFiledByHash
      <4> QED
        BY <3>1, <3>4, <4>2 DEF EventsOf, InAggregate, CountedEvents, Uncounted
    <3>6. projStat = taken
      <4>1. Cardinality(1..taken) = taken
        BY FS_Interval DEF TypeOK
      <4> QED
        BY <3>2, <3>3, <4>1 DEF Exact, StatsExact
    <3> QED
      BY <3>2, <3>5, <3>6 DEF Exact, AggregatesExact, LeavesExact, LeafExact, IsLegacy, TypeOK
  <2> QED
    BY <2>1, <2>2 DEF CountsHold, CountsAgreeWhenIdle
<1> QED
  BY <1>1, IngestInvariant, CountsInvariant, PTL
--------------------------------------------------------------------------------
(***************************************************************************)
(* The status of an issue                                                  *)
(***************************************************************************)
LeafUnlessLegacy == \A i \in issues \ leaves : IsLegacy(i)

\* With one caller at a time, a call that is about to write another status than
\* resolved has cleared the release.
OneCaller == \A c, d \in Clients : c = d
CallsCleared ==
  \A c \in Clients :
    api[c].issue # NoIssue /\ api[c].status # "resolved" => resolvedIn[api[c].issue] = NoRelease

\* Who may still clear the release of an issue that is not resolved any more.
Clearing(i) ==
  \/ i \in bulk
  \/ \E c \in Clients : api[c].issue = i
  \/ \E w \in Workers : pc[w] = "reopen_issue" /\ i \in reopen[w]
NoLeftover ==
  \A i \in issues : ~IsLegacy(i) /\ status[i] # "resolved" /\ resolvedIn[i] # NoRelease => Clearing(i)

\* Where worker w stands with a regression of issue i that is still resolved:
\* the lookup is going to find it, or the issue is on the list to reopen.
Found(w, i) == \E e \in batch[w] : hash[ev[e].hash] = i /\ Regresses(JoinRow(ev[e].hash), ev[e].release)
Listed == {"create", "insert", "winner", "apply", "sadd", "reopen_leaf"}
Handles(w, i) ==
  /\ pc[w] = "fetch" => Found(w, i)
  /\ pc[w] \in Listed => i \in reopen[w]
  /\ pc[w] \notin PastReopen \cup {"fallback"}

\* A regression seen when the batch was taken is handled as long as nobody has
\* touched the issue since and it is still resolved.
Untouched(i, n) == ~ReadReplica /\ epoch[i] = n /\ status[i] = "resolved"
Owing(w, i, n) ==
  /\ i \in issues \cap leaves /\ n <= epoch[i]
  /\ Untouched(i, n) => Handles(w, i)
OwedHandled(w) == \A o \in owed[w] : Owing(w, o[1], o[2])

StatusInv ==
  /\ epoch \in [IssueIds -> Nat]
  /\ owed \in [Workers -> SUBSET (IssueIds \X Nat)]
  /\ failures \in Nat
  /\ LeafUnlessLegacy
  /\ OneCaller /\ failures = 0 => CallsCleared /\ NoLeftover
  /\ \A w \in Workers : OwedHandled(w)
--------------------------------------------------------------------------------
\* What statements of others may do to the rows between two statements of a
\* worker: rows stay, and an issue nobody touched is not resolved anew, nor
\* resolved in another release.
Tolerable ==
  /\ issues \subseteq issues' /\ leaves \subseteq leaves'
  /\ \A h \in Hashes : hash[h] # NoIssue => hash'[h] = hash[h]
  /\ \A i \in issues \cap leaves :
       /\ epoch[i] <= epoch'[i]
       /\ epoch'[i] = epoch[i] /\ status'[i] = "resolved" =>
            status[i] = "resolved" /\ resolvedIn'[i] \in {resolvedIn[i], NoRelease}
  /\ UNCHANGED ev

\* What a worker owes does not change while it stands still.
LEMMA OthersOwing ==
  ASSUME TypeOK, TypeOK', epoch \in [IssueIds -> Nat], epoch' \in [IssueIds -> Nat], Tolerable,
         NEW v \in Workers, pc'[v] = pc[v], batch'[v] = batch[v], reopen'[v] = reopen[v],
         NEW i \in IssueIds, NEW n \in Nat, Owing(v, i, n)
  PROVE  Owing(v, i, n)'
<1>1. i \in issues \cap leaves /\ n <= epoch[i] /\ (Untouched(i, n) => Handles(v, i)) /\ i # NoIssue
  BY DEF Owing, IssueIds
<1>2. epoch[i] \in Nat /\ epoch'[i] \in Nat /\ epoch[i] <= epoch'[i]
  BY <1>1 DEF Tolerable
<1>3. ASSUME Untouched(i, n)' PROVE Handles(v, i)'
  <2>1. epoch'[i] = epoch[i]
    BY <1>1, <1>2, <1>3 DEF Untouched
  <2>2. status'[i] = "resolved"
    BY <1>3 DEF Untouched
  <2>3. status[i] = "resolved" /\ resolvedIn'[i] \in {resolvedIn[i], NoRelease}
    BY <1>1, <2>1, <2>2 DEF Tolerable
  <2>4. Handles(v, i)
    BY <1>1, <1>3, <2>1, <2>3 DEF Untouched
  <2>5. ASSUME pc[v] = "fetch" PROVE Found(v, i)'
    <3>1. PICK e \in batch[v] : hash[ev[e].hash] = i /\ Regresses(JoinRow(ev[e].hash), ev[e].release)
      BY <2>4, <2>5 DEF Handles, Found
    <3>2. e \in EventIds
      BY DEF TypeOK
    <3> DEFINE h == ev[e].hash
    <3>3. h \in Hashes /\ ev' = ev
      BY <3>2 DEF TypeOK, ProcessingEvent, Tolerable
    <3>4. hash[h] = i /\ hash'[h] = i
      BY <1>1, <3>1, <3>3 DEF Tolerable
    <3>5. JoinRow(h) = [issue |-> i, status |-> status[i], resolvedIn |-> resolvedIn[i]]
      BY <1>1, <3>4 DEF JoinRow
    <3>6. i \in issues' /\ i \in leaves'
      BY <1>1 DEF Tolerable
    <3>7. JoinRow(h)' = [issue |-> i, status |-> status'[i], resolvedIn |-> resolvedIn'[i]]
      BY <3>3, <3>4, <3>6 DEF JoinRow
    <3>8. Regresses(JoinRow(h), ev[e].release)
      BY <3>1
    <3>9. Regresses(JoinRow(h), ev[e].release)'
      BY <1>1, <2>2, <2>3, <3>3, <3>5, <3>7, <3>8 DEF Regresses
    <3> QED
      BY <3>1, <3>3, <3>4, <3>9 DEF Found
  <2> QED
    BY <2>4, <2>5 DEF Handles
<1>4. i \in issues' \cap leaves' /\ n <= epoch'[i]
  BY <1>1, <1>2 DEF Tolerable
<1> QED
  BY <1>3, <1>4 DEF Owing

\* An entry of owed names an issue and an epoch.
LEMMA OwedPairs ==
  ASSUME owed \in [Workers -> SUBSET (IssueIds \X Nat)], NEW w \in Workers, NEW o \in owed[w]
  PROVE  o[1] \in IssueIds /\ o[2] \in Nat
<1>1. o \in IssueIds \X Nat
  OBVIOUS
<1> QED
  BY <1>1

\* The statements of others leave a worker's regressions handled.
LEMMA OthersOwed ==
  ASSUME TypeOK, TypeOK', epoch \in [IssueIds -> Nat], epoch' \in [IssueIds -> Nat], Tolerable,
         owed \in [Workers -> SUBSET (IssueIds \X Nat)],
         NEW v \in Workers, OwedHandled(v),
         pc'[v] = pc[v], batch'[v] = batch[v], reopen'[v] = reopen[v], owed'[v] = owed[v]
  PROVE  OwedHandled(v)'
<1> SUFFICES ASSUME NEW o \in owed[v] PROVE Owing(v, o[1], o[2])'
  BY DEF OwedHandled
<1>1. o[1] \in IssueIds /\ o[2] \in Nat /\ Owing(v, o[1], o[2])
  BY OwedPairs DEF OwedHandled
<1> QED
  BY <1>1, OthersOwing

\* A worker's own statement: it handles what it handled before.
LEMMA OwnOwed ==
  ASSUME TypeOK, TypeOK', epoch \in [IssueIds -> Nat], epoch' \in [IssueIds -> Nat], Tolerable,
         owed \in [Workers -> SUBSET (IssueIds \X Nat)],
         NEW w \in Workers, OwedHandled(w), owed'[w] = owed[w],
         \A i \in issues \cap leaves :
           ~ReadReplica /\ status'[i] = "resolved" /\ Handles(w, i) => Handles(w, i)'
  PROVE  OwedHandled(w)'
<1> SUFFICES ASSUME NEW o \in owed[w] PROVE Owing(w, o[1], o[2])'
  BY DEF OwedHandled
<1> DEFINE i == o[1]
           n == o[2]
<1>1. i \in IssueIds /\ n \in Nat /\ Owing(w, i, n)
  BY OwedPairs DEF OwedHandled
<1> HIDE DEF i, n
<1>2. i \in issues \cap leaves /\ n <= epoch[i] /\ (Untouched(i, n) => Handles(w, i))
  BY <1>1 DEF Owing
<1>3. epoch[i] \in Nat /\ epoch'[i] \in Nat /\ epoch[i] <= epoch'[i]
  BY <1>1, <1>2 DEF Tolerable
<1>4. ASSUME Untouched(i, n)' PROVE Handles(w, i)'
  <2>1. epoch'[i] = epoch[i] /\ status'[i] = "resolved" /\ ~ReadReplica
    BY <1>1, <1>2, <1>3, <1>4 DEF Untouched
  <2>2. status[i] = "resolved"
    BY <1>2, <2>1 DEF Tolerable
  <2>3. Handles(w, i)
    BY <1>2, <1>4, <2>1, <2>2 DEF Untouched
  <2> QED
    BY <1>2, <2>1, <2>3
<1>5. i \in issues' \cap leaves' /\ n <= epoch'[i]
  BY <1>1, <1>2, <1>3 DEF Tolerable
<1>6. Owing(w, i, n)'
  BY <1>4, <1>5 DEF Owing
<1> QED
  BY <1>6 DEF i, n

\* The local state of the other workers.
OnlyWorkerOwes(w) ==
  \A v \in Workers \ {w} :
    pc'[v] = pc[v] /\ batch'[v] = batch[v] /\ reopen'[v] = reopen[v] /\ owed'[v] = owed[v]

RowsAlone == UNCHANGED <<issues, leaves, hash, status, resolvedIn, epoch, ev, api, bulk>>

\* A statement that writes none of the rows the status depends on, of a worker
\* that is not the one to clear a release.
LEMMA SilentStep ==
  ASSUME IInv, IInv', StatusInv, NEW w \in Workers, RowsAlone, OnlyWorkerOwes(w),
         owed' \in [Workers -> SUBSET (IssueIds \X Nat)], failures' \in Nat,
         failures' # 0 \/ (failures' = failures /\ pc[w] # "reopen_issue"),
         OwedHandled(w)'
  PROVE  StatusInv'
<1> USE DEF IInv, StatusInv
<1>1. Tolerable
  BY DEF Tolerable, RowsAlone, TypeOK
<1>2. \A v \in Workers : OwedHandled(v)'
  <2> SUFFICES ASSUME NEW v \in Workers, v # w PROVE OwedHandled(v)'
    OBVIOUS
  <2>1. /\ pc'[v] = pc[v] /\ batch'[v] = batch[v] /\ reopen'[v] = reopen[v] /\ owed'[v] = owed[v]
        /\ epoch' = epoch
    BY DEF OnlyWorkerOwes, RowsAlone
  <2> QED
    BY <1>1, <2>1, OthersOwed
<1>3. LeafUnlessLegacy'
  BY DEF RowsAlone, LeafUnlessLegacy, IsLegacy
<1>4. ASSUME OneCaller, failures' = 0 PROVE CallsCleared' /\ NoLeftover'
  <2>1. CallsCleared'
    BY <1>4 DEF RowsAlone, CallsCleared
  <2>2. \A i : Clearing(i) => Clearing(i)'
    BY <1>4 DEF Clearing, RowsAlone, OnlyWorkerOwes
  <2>3. NoLeftover'
    BY <1>4, <2>2 DEF RowsAlone, NoLeftover, IsLegacy
  <2> QED
    BY <2>1, <2>3
<1> QED
  BY <1>2, <1>3, <1>4 DEF OneCaller, RowsAlone

\* The new batch's regressions are about to be found by its lookup.
LEMMA StatusTakeBatch ==
  ASSUME IInv, IInv', StatusInv, NEW w \in Workers, NEW n \in 1..MaxBatch, TakeBatch(w, n)
  PROVE  StatusInv'
<1> USE BoundsAssumption DEF IInv, StatusInv
<1> DEFINE B == taken + 1 .. taken + n
           R == {f \in B : Regresses(JoinRow(ev[f].hash), ev[f].release)}
           new == {<<hash[ev[e].hash], epoch[hash[ev[e].hash]]>> : e \in R}
<1>1. /\ owed' = [owed EXCEPT ![w] = new] /\ batch' = [batch EXCEPT ![w] = B]
      /\ pc' = [pc EXCEPT ![w] = "fetch"] /\ UNCHANGED <<reopen, failures>> /\ RowsAlone
      /\ pc[w] = "idle"
  BY DEF TakeBatch, dbVars, RowsAlone
<1>2. B \subseteq EventIds
  BY DEF TakeBatch, TypeOK, EventIds
<1> HIDE DEF B
<1>3. ASSUME NEW e \in R
      PROVE  LET i == hash[ev[e].hash] IN
             /\ i \in issues \cap leaves /\ i \in IssueIds /\ epoch[i] \in Nat
             /\ e \in B /\ Regresses(JoinRow(ev[e].hash), ev[e].release)
  <2>1. ev[e].hash \in Hashes
    BY <1>2 DEF TypeOK, ProcessingEvent
  <2>2. hash[ev[e].hash] \in issues \cap leaves
    BY DEF Regresses, JoinRow
  <2> QED
    BY <2>1, <2>2 DEF TypeOK
<1>4. owed' \in [Workers -> SUBSET (IssueIds \X Nat)]
  BY <1>1, <1>3
<1>5. OnlyWorkerOwes(w)
  BY <1>1 DEF OnlyWorkerOwes, TypeOK
<1>6. OwedHandled(w)'
  <2> SUFFICES ASSUME NEW o \in new PROVE Owing(w, o[1], o[2])'
    BY <1>1 DEF OwedHandled
  <2>1. PICK e \in R : o = <<hash[ev[e].hash], epoch[hash[ev[e].hash]]>>
    OBVIOUS
  <2>2. PICK i \in IssueIds, m \in Nat : i = hash[ev[e].hash] /\ m = epoch[i] /\ o[1] = i /\ o[2] = m
    BY <1>3, <2>1
  <2>3. i \in issues \cap leaves /\ e \in B /\ Regresses(JoinRow(ev[e].hash), ev[e].release)
    BY <1>3, <2>2
  <2>4. pc'[w] = "fetch" /\ batch'[w] = B
    BY <1>1 DEF TypeOK
  <2>5. Found(w, i)'
    BY <1>1, <2>2, <2>3, <2>4 DEF Found, RowsAlone, JoinRow, Regresses
  <2>6. Handles(w, i)'
    BY <2>4, <2>5 DEF Handles, Listed, PastReopen
  <2>7. i \in issues' \cap leaves' /\ m <= epoch'[i]
    BY <1>1, <2>2, <2>3 DEF RowsAlone
  <2>8. Owing(w, i, m)'
    BY <2>6, <2>7 DEF Owing
  <2> QED
    BY <2>2, <2>8
<1> QED
  BY <1>1, <1>4, <1>5, <1>6, SilentStep

\* The lookup on the primary finds every regression that is still there.
LEMMA StatusFetchHashes ==
  ASSUME IInv, IInv', StatusInv, NEW w \in Workers, FetchHashes(w)
  PROVE  StatusInv'
<1> USE DEF IInv, StatusInv
<1>1. /\ UNCHANGED <<owed, failures, batch>> /\ RowsAlone /\ pc[w] = "fetch" /\ epoch' = epoch
      /\ reopen' = [reopen EXCEPT ![w] = reopen'[w]] /\ pc' = [pc EXCEPT ![w] = pc'[w]]
  <2>1. reopen \in [Workers -> SUBSET IssueIds] /\ pc \in [Workers -> Steps]
    BY DEF TypeOK
  <2>2. UNCHANGED <<owed, failures, batch>> /\ RowsAlone /\ pc[w] = "fetch" /\ epoch' = epoch
    BY DEF FetchHashes, dbVars, histVars, RowsAlone
  <2>3. PICK more : reopen' = [reopen EXCEPT ![w] = reopen[w] \cup more]
    BY DEF FetchHashes, Lookup
  <2>4. PICK next : pc' = [pc EXCEPT ![w] = next]
    BY DEF FetchHashes
  <2>5. reopen' = [reopen EXCEPT ![w] = reopen'[w]]
    BY <2>1, <2>3
  <2>6. pc' = [pc EXCEPT ![w] = pc'[w]]
    BY <2>1, <2>4
  <2> QED
    BY <2>2, <2>5, <2>6
<1>2. OnlyWorkerOwes(w)
  BY <1>1 DEF OnlyWorkerOwes, TypeOK
<1>3. Tolerable
  BY <1>1 DEF Tolerable, RowsAlone, TypeOK
<1>4. ASSUME NEW i \in issues \cap leaves, ~ReadReplica, Handles(w, i)
      PROVE  Handles(w, i)'
  <2>1. PICK e \in batch[w] : hash[ev[e].hash] = i /\ Regresses(JoinRow(ev[e].hash), ev[e].release)
    BY <1>1, <1>4 DEF Handles, Found
  <2>2. ev[e].hash \in Hashes
    BY DEF TypeOK, ProcessingEvent
  <2>3. JoinRow(ev[e].hash).issue = i
    BY <2>1 DEF JoinRow
  <2>4. Lookup(w, batch[w], [h \in Hashes |-> JoinRow(h)]) /\ pc'[w] = "create"
    BY <1>4 DEF FetchHashes, TypeOK
  <2>5. i \in reopen'[w]
    BY <2>1, <2>2, <2>3, <2>4 DEF Lookup, TypeOK
  <2> QED
    BY <2>4, <2>5 DEF Handles, PastReopen
<1>5. OwedHandled(w)'
  BY <1>1, <1>3, <1>4, OwnOwed
<1> QED
  BY <1>1, <1>2, <1>5, SilentStep

\* Statements of a worker that write no row the status depends on keep the
\* list of issues to reopen until the list has been worked through.
LEMMA StatusKeepList ==
  ASSUME IInv, IInv', StatusInv, NEW w \in Workers, RowsAlone, OnlyWorkerOwes(w),
         UNCHANGED <<owed, failures>>,
         \/ pc[w] \in {"fallback", "copy", "stats", "aggregate"}
         \/ /\ pc[w] \in Listed /\ reopen'[w] = reopen[w]
            /\ pc'[w] \in Listed \/ reopen[w] = {}
  PROVE  StatusInv'
<1> USE DEF IInv, StatusInv
<1>1. Tolerable /\ epoch' = epoch
  BY DEF Tolerable, RowsAlone, TypeOK
<1>2. \A i \in issues \cap leaves : Handles(w, i) => Handles(w, i)'
  BY DEF Handles, Listed, PastReopen
<1>3. OwedHandled(w)'
  BY <1>1, <1>2, OwnOwed
<1>4. pc[w] # "reopen_issue"
  BY DEF Listed
<1> QED
  BY <1>3, <1>4, SilentStep

\* The steps of a worker that write no status keep the invariant.
LEMMA StatusSilentWorker ==
  ASSUME IInv, IInv', StatusInv, NEW w \in Workers,
         \/ FetchMissing(w) \/ TakeShortId(w) \/ LoseRace(w) \/ ReadWinner(w)
         \/ SnapshotLeaves(w) \/ AddPending(w) \/ CopyEvents(w) \/ UpdateStatistics(w)
  PROVE  StatusInv'
<1> USE DEF RowsAlone, OnlyWorkerOwes, Listed, TypeOK
<1> TypeOK
  BY DEF IInv
<1>1. CASE FetchMissing(w)
  BY <1>1, StatusKeepList DEF FetchMissing, Lookup, dbVars, histVars
<1>2. CASE TakeShortId(w)
  BY <1>2, StatusKeepList DEF TakeShortId, histVars
<1>3. CASE LoseRace(w)
  BY <1>3, StatusKeepList DEF LoseRace, histVars
<1>4. CASE ReadWinner(w)
  BY <1>4, StatusKeepList DEF ReadWinner, dbVars, histVars
<1>5. CASE SnapshotLeaves(w)
  BY <1>5, StatusKeepList DEF SnapshotLeaves, dbVars, histVars
<1>6. CASE AddPending(w)
  BY <1>6, StatusKeepList DEF AddPending, dbVars, histVars
<1>7. CASE CopyEvents(w)
  BY <1>7, StatusKeepList DEF CopyEvents, histVars
<1>8. CASE UpdateStatistics(w)
  BY <1>8, StatusKeepList DEF UpdateStatistics, histVars
<1> QED
  BY <1>1, <1>2, <1>3, <1>4, <1>5, <1>6, <1>7, <1>8

\* A task that ends owes nothing any more.
LEMMA StatusReset ==
  ASSUME IInv, IInv', StatusInv, NEW w \in Workers, UpdateAggregates(w) \/ FailBatch(w)
  PROVE  StatusInv'
<1> USE DEF IInv, StatusInv
<1>1. /\ RowsAlone /\ ResetWorker(w) /\ failures' \in Nat
      /\ failures' # 0 \/ (failures' = failures /\ pc[w] # "reopen_issue")
  <2>1. CASE UpdateAggregates(w)
    BY <2>1 DEF UpdateAggregates, RowsAlone
  <2>2. CASE FailBatch(w)
    BY <2>2 DEF FailBatch, dbVars, RowsAlone
  <2> QED
    BY <2>1, <2>2
<1>2. OnlyWorkerOwes(w)
  BY <1>1 DEF OnlyWorkerOwes, ResetWorker, TypeOK
<1>3. owed' \in [Workers -> SUBSET (IssueIds \X Nat)] /\ owed'[w] = {}
  BY <1>1 DEF ResetWorker
<1>4. OwedHandled(w)'
  BY <1>3 DEF OwedHandled
<1> QED
  BY <1>1, <1>2, <1>3, <1>4, SilentStep

\* A worker's statement that does write rows: what is left to show.
LEMMA RowStep ==
  ASSUME IInv, IInv', StatusInv, NEW w \in Workers, OnlyWorkerOwes(w), Tolerable,
         UNCHANGED <<owed, epoch, failures>>,
         \A i \in issues \cap leaves :
           ~ReadReplica /\ status'[i] = "resolved" /\ Handles(w, i) => Handles(w, i)',
         LeafUnlessLegacy',
         OneCaller /\ failures = 0 => CallsCleared' /\ NoLeftover'
  PROVE  StatusInv'
<1> USE DEF IInv, StatusInv
<1>1. OwedHandled(w)'
  BY OwnOwed
<1>2. ASSUME NEW v \in Workers, v # w PROVE OwedHandled(v)'
  BY <1>2, OthersOwed DEF OnlyWorkerOwes
<1> QED
  BY <1>1, <1>2 DEF OneCaller

\* The new issue has a new id, a leaf and no release.
LEMMA StatusInsertIssue ==
  ASSUME IInv, IInv', StatusInv, NEW w \in Workers, InsertIssue(w)
  PROVE  StatusInv'
<1> USE BoundsAssumption DEF IInv, StatusInv
<1> DEFINE e == First(Unresolved(w))
           h == ev[e].hash
<1>1. Unresolved(w) # {}
  BY DEF InsertIssue, Progress
<1>2. e \in EventIds /\ h \in Hashes
  BY <1>1, FirstUnresolved DEF TypeOK, ProcessingEvent
<1>3. PICK k \in IssueIds : k = issueSeq + 1
  BY DEF InsertIssue, TypeOK, IssueIds
<1>4. /\ issues' = issues \cup {k} /\ leaves' = leaves \cup {k} /\ hash' = [hash EXCEPT ![h] = k]
      /\ status' = [status EXCEPT ![k] = "unresolved"] /\ hash[h] = NoIssue
      /\ resolvedIn' = [resolvedIn EXCEPT ![k] = NoRelease]
      /\ pc[w] = "insert" /\ pc' = [pc EXCEPT ![w] = "create"]
      /\ UNCHANGED <<ev, batch, reopen, api, bulk, epoch, owed, failures>>
  BY <1>3 DEF InsertIssue, histVars
<1> HIDE DEF e, h
<1>5. k \notin issues
  BY <1>3 DEF IdsFromSequence, TypeOK, IssueIds
<1>6. Tolerable
  BY <1>2, <1>4, <1>5 DEF Tolerable, TypeOK
<1>7. OnlyWorkerOwes(w)
  BY <1>4 DEF OnlyWorkerOwes, TypeOK
<1>8. \A i \in issues \cap leaves : Handles(w, i) => Handles(w, i)'
  BY <1>4 DEF Handles, Listed, PastReopen, TypeOK
<1>9. \A i \in issues : IsLegacy(i) => IsLegacy(i)'
  BY <1>2, <1>4, LegacyAssumption DEF IsLegacy, TypeOK, IssueIds
<1>10. LeafUnlessLegacy'
  BY <1>4, <1>9 DEF LeafUnlessLegacy
<1>11. ASSUME OneCaller, failures = 0 PROVE CallsCleared' /\ NoLeftover'
  <2>1. CallsCleared'
    <3>1. \A i \in IssueIds : resolvedIn'[i] = resolvedIn[i] \/ resolvedIn'[i] = NoRelease
      BY <1>4 DEF TypeOK
    <3>2. \A c \in Clients : api[c].issue # NoIssue => api[c].issue \in IssueIds
      BY DEF TypeOK, IssueIds
    <3> QED
      BY <1>4, <1>11, <3>1, <3>2 DEF CallsCleared
  <2>2. \A i \in issues : Clearing(i) => Clearing(i)'
    BY <1>4 DEF Clearing, TypeOK
  <2>3. NoLeftover'
    <3> SUFFICES ASSUME NEW i \in issues', ~IsLegacy(i)', status'[i] # "resolved", resolvedIn'[i] # NoRelease
                 PROVE  Clearing(i)'
      BY DEF NoLeftover
    <3>1. i \in IssueIds /\ i # k
      BY <1>4 DEF TypeOK
    <3>2. i \in issues /\ status[i] # "resolved" /\ resolvedIn[i] # NoRelease
      BY <1>4, <3>1 DEF TypeOK
    <3> QED
      BY <1>9, <1>11, <2>2, <3>2 DEF NoLeftover
  <2> QED
    BY <2>1, <2>3
<1> QED
  BY <1>4, <1>6, <1>7, <1>8, <1>10, <1>11, RowStep

\* A leaf is inserted only for the issue that had none.
LEMMA StatusUpdateIssues ==
  ASSUME IInv, IInv', StatusInv, NEW w \in Workers, UpdateIssues(w)
  PROVE  StatusInv'
<1> USE DEF IInv, StatusInv
<1> DEFINE inserted == MissingLeaves(w)
<1>1. /\ leaves' = leaves \cup inserted
      /\ status' = [i \in IssueIds |-> IF i \in inserted THEN "unresolved" ELSE status[i]]
      /\ pc[w] = "apply" /\ pc' = [pc EXCEPT ![w] = "sadd"]
      /\ UNCHANGED <<issues, resolvedIn, hash, ev, batch, reopen, api, bulk, epoch, owed, failures>>
  BY DEF UpdateIssues, histVars
<1>2. inserted \cap leaves = {}
  BY DEF MissingLeaves
<1> HIDE DEF inserted
<1>3. Tolerable
  BY <1>1, <1>2 DEF Tolerable, TypeOK
<1>4. OnlyWorkerOwes(w)
  BY <1>1 DEF OnlyWorkerOwes, TypeOK
<1>5. \A i \in issues \cap leaves : Handles(w, i) => Handles(w, i)'
  BY <1>1 DEF Handles, Listed, PastReopen, TypeOK
<1>6. LeafUnlessLegacy'
  BY <1>1 DEF LeafUnlessLegacy, IsLegacy
<1>7. ASSUME OneCaller, failures = 0 PROVE CallsCleared' /\ NoLeftover'
  <2>1. CallsCleared'
    BY <1>1, <1>7 DEF CallsCleared
  <2>2. \A i \in issues : Clearing(i) => Clearing(i)'
    BY <1>1 DEF Clearing, TypeOK
  <2>3. NoLeftover'
    <3> SUFFICES ASSUME NEW i \in issues, ~IsLegacy(i), status'[i] # "resolved", resolvedIn[i] # NoRelease
                 PROVE  Clearing(i)'
      BY <1>1 DEF NoLeftover, IsLegacy
    <3>1. i \in leaves /\ i \in IssueIds
      BY DEF LeafUnlessLegacy, TypeOK
    <3>2. status[i] # "resolved"
      BY <1>1, <1>2, <3>1
    <3> QED
      BY <1>7, <2>2, <3>2 DEF NoLeftover
  <2> QED
    BY <2>1, <2>3
<1> QED
  BY <1>1, <1>3, <1>4, <1>5, <1>6, <1>7, RowStep

\* Every issue the worker was to reopen is not resolved any more, and the worker
\* is about to clear its release.
LEMMA StatusReopenLeaf ==
  ASSUME IInv, IInv', StatusInv, NEW w \in Workers, ReopenLeaf(w)
  PROVE  StatusInv'
<1> USE DEF IInv, StatusInv
<1>1. /\ status' = [i \in IssueIds |-> IF i \in reopen[w] \cap leaves THEN "unresolved" ELSE status[i]]
      /\ pc[w] = "reopen_leaf" /\ pc' = [pc EXCEPT ![w] = "reopen_issue"]
      /\ UNCHANGED <<issues, leaves, resolvedIn, hash, ev, batch, reopen, api, bulk, epoch, owed, failures>>
  BY DEF ReopenLeaf, histVars
<1>3. Tolerable
  BY <1>1 DEF Tolerable, TypeOK
<1>4. OnlyWorkerOwes(w)
  BY <1>1 DEF OnlyWorkerOwes, TypeOK
<1>5. \A i \in issues \cap leaves : status'[i] = "resolved" /\ Handles(w, i) => Handles(w, i)'
  BY <1>1 DEF Handles, Listed, TypeOK
<1>6. LeafUnlessLegacy'
  BY <1>1 DEF LeafUnlessLegacy, IsLegacy
<1>7. ASSUME OneCaller, failures = 0 PROVE CallsCleared' /\ NoLeftover'
  <2>1. CallsCleared'
    BY <1>1, <1>7 DEF CallsCleared
  <2>2. \A i \in issues : Clearing(i) => Clearing(i)'
    BY <1>1 DEF Clearing, TypeOK
  <2>3. NoLeftover'
    <3> SUFFICES ASSUME NEW i \in issues, ~IsLegacy(i), status'[i] # "resolved", resolvedIn[i] # NoRelease
                 PROVE  Clearing(i)'
      BY <1>1 DEF NoLeftover, IsLegacy
    <3>1. CASE i \in reopen[w]
      BY <1>1, <3>1 DEF Clearing, TypeOK
    <3>2. CASE i \notin reopen[w]
      BY <1>1, <1>7, <2>2, <3>2 DEF NoLeftover, TypeOK
    <3> QED
      BY <3>1, <3>2
  <2> QED
    BY <2>1, <2>3
<1> QED
  BY <1>1, <1>3, <1>4, <1>5, <1>6, <1>7, RowStep

\* Clearing the release ends the worker's part in the regression.
LEMMA StatusReopenIssue ==
  ASSUME IInv, IInv', StatusInv, NEW w \in Workers, ReopenIssue(w)
  PROVE  StatusInv'
<1> USE DEF IInv, StatusInv
<1>1. /\ resolvedIn' = [i \in IssueIds |-> IF i \in reopen[w] THEN NoRelease ELSE resolvedIn[i]]
      /\ pc[w] = "reopen_issue" /\ pc' = [pc EXCEPT ![w] = "copy"]
      /\ UNCHANGED <<issues, leaves, status, hash, ev, batch, reopen, api, bulk, epoch, owed, failures>>
  BY DEF ReopenIssue, histVars
<1>2. \A i \in IssueIds : resolvedIn'[i] = resolvedIn[i] \/ resolvedIn'[i] = NoRelease
  BY <1>1
<1>3. Tolerable
  BY <1>1, <1>2 DEF Tolerable, TypeOK
<1>4. OnlyWorkerOwes(w)
  BY <1>1 DEF OnlyWorkerOwes, TypeOK
<1>5. \A i \in issues \cap leaves : Handles(w, i) => Handles(w, i)'
  BY <1>1 DEF Handles, PastReopen
<1>6. LeafUnlessLegacy'
  BY <1>1 DEF LeafUnlessLegacy, IsLegacy
<1>7. ASSUME OneCaller, failures = 0 PROVE CallsCleared' /\ NoLeftover'
  <2>1. CallsCleared'
    <3>1. \A c \in Clients : api[c].issue # NoIssue => api[c].issue \in IssueIds
      BY DEF TypeOK, IssueIds
    <3> QED
      BY <1>1, <1>2, <1>7, <3>1 DEF CallsCleared
  <2>2. NoLeftover'
    <3> SUFFICES ASSUME NEW i \in issues, ~IsLegacy(i), status[i] # "resolved", resolvedIn'[i] # NoRelease
                 PROVE  Clearing(i)'
      BY <1>1 DEF NoLeftover, IsLegacy
    <3>1. i \in IssueIds /\ i \notin reopen[w] /\ resolvedIn[i] # NoRelease
      BY <1>1 DEF TypeOK
    <3>2. Clearing(i)
      BY <1>7, <3>1 DEF NoLeftover
    <3> QED
      BY <1>1, <3>1, <3>2 DEF Clearing, TypeOK
  <2> QED
    BY <2>1, <2>2
<1> QED
  BY <1>1, <1>3, <1>4, <1>5, <1>6, <1>7, RowStep

--------------------------------------------------------------------------------
\* A status call's statement, of whatever kind: what is left to show.
LEMMA CallStep ==
  ASSUME IInv, IInv', StatusInv, UNCHANGED <<workerVars, issues, leaves, hash, ev, owed, failures>>,
         epoch' \in [IssueIds -> Nat],
         \A i \in IssueIds :
           \/ epoch'[i] = epoch[i] + 1
           \/ epoch'[i] = epoch[i] /\ status'[i] = status[i] /\ resolvedIn'[i] = resolvedIn[i],
         OneCaller /\ failures = 0 => CallsCleared' /\ NoLeftover'
  PROVE  StatusInv'
<1> USE DEF IInv, StatusInv
<1>1. Tolerable
  <2>1. ASSUME NEW i \in issues \cap leaves
        PROVE  /\ epoch[i] <= epoch'[i]
               /\ epoch'[i] = epoch[i] => status'[i] = status[i] /\ resolvedIn'[i] = resolvedIn[i]
    <3>1. i \in IssueIds
      BY DEF TypeOK
    <3>2. epoch[i] \in Nat
      BY <3>1
    <3> QED
      BY <3>1, <3>2
  <2> QED
    BY <2>1 DEF Tolerable
<1>2. \A v \in Workers : OwedHandled(v)'
  BY <1>1, OthersOwed DEF workerVars
<1>3. LeafUnlessLegacy'
  BY DEF LeafUnlessLegacy, IsLegacy
<1> QED
  BY <1>2, <1>3 DEF OneCaller

\* A status call that reads its row keeps it,
LEMMA StatusBeginUpdateStatus ==
  ASSUME IInv, IInv', StatusInv, NEW c \in Clients, NEW i \in IssueIds, NEW s \in Statuses,
         NEW r \in ReleaseIds, BeginUpdateStatus(c, i, s, r)
  PROVE  StatusInv'
<1> USE DEF IInv, StatusInv
<1>1. /\ resolvedIn' = [resolvedIn EXCEPT ![i] = ReleaseAfter(resolvedIn[i], s, r)]
      /\ api' = [api EXCEPT ![c] = [issue |-> i, status |-> s]] /\ api[c].issue = NoIssue
      /\ epoch' = [epoch EXCEPT ![i] = epoch[i] + 1]
      /\ UNCHANGED <<workerVars, issues, leaves, hash, ev, status, bulk, owed, failures>>
  BY DEF BeginUpdateStatus
<1>2. /\ epoch' \in [IssueIds -> Nat]
      /\ \A j \in IssueIds : epoch'[j] = epoch[j] + 1 \/ (epoch'[j] = epoch[j] /\ resolvedIn'[j] = resolvedIn[j])
  BY <1>1 DEF TypeOK
<1>3. ASSUME OneCaller, failures = 0 PROVE CallsCleared' /\ NoLeftover'
  <2>1. Clients = {c} /\ api'[c].issue = i /\ api'[c].status = s
    BY <1>1, <1>3 DEF OneCaller, TypeOK
  <2>2. s # "resolved" => resolvedIn'[i] = NoRelease
    BY <1>1 DEF ReleaseAfter, TypeOK
  <2>3. CallsCleared'
    BY <2>1, <2>2 DEF CallsCleared
  <2>4. NoLeftover'
    <3> SUFFICES ASSUME NEW j \in issues, ~IsLegacy(j), status[j] # "resolved", resolvedIn'[j] # NoRelease
                 PROVE  Clearing(j)'
      BY <1>1 DEF NoLeftover, IsLegacy
    <3>1. CASE j = i
      BY <2>1, <3>1 DEF Clearing
    <3>2. CASE j # i
      <4>1. resolvedIn'[j] = resolvedIn[j]
        BY <1>1, <3>2 DEF TypeOK
      <4>2. Clearing(j) /\ j # NoIssue
        BY <1>3, <4>1 DEF NoLeftover, TypeOK, IssueIds
      <4> QED
        BY <1>1, <2>1, <4>2 DEF Clearing, workerVars
    <3> QED
      BY <3>1, <3>2
  <2> QED
    BY <2>3, <2>4
<1> QED
  BY <1>1, <1>2, <1>3, CallStep

\* a status call that writes its row,
LEMMA StatusEndUpdateStatus ==
  ASSUME IInv, IInv', StatusInv, NEW c \in Clients, EndUpdateStatus(c)
  PROVE  StatusInv'
<1> USE DEF IInv, StatusInv
<1>1. PICK i \in IssueIds : i = api[c].issue
  BY DEF EndUpdateStatus, TypeOK, IssueIds
<1>2. /\ status' = [j \in IssueIds |-> IF j = i /\ i \in leaves THEN api[c].status ELSE status[j]]
      /\ api' = [api EXCEPT ![c] = [issue |-> NoIssue, status |-> "unresolved"]]
      /\ epoch' = [epoch EXCEPT ![i] = epoch[i] + 1]
      /\ UNCHANGED <<workerVars, issues, leaves, hash, ev, resolvedIn, bulk, owed, failures>>
  BY <1>1 DEF EndUpdateStatus
<1>3. /\ epoch' \in [IssueIds -> Nat]
      /\ \A j \in IssueIds : epoch'[j] = epoch[j] + 1 \/ (epoch'[j] = epoch[j] /\ status'[j] = status[j])
  BY <1>2 DEF TypeOK
<1>4. ASSUME OneCaller, failures = 0 PROVE CallsCleared' /\ NoLeftover'
  <2>1. Clients = {c} /\ api'[c].issue = NoIssue
    BY <1>2, <1>4 DEF OneCaller, TypeOK
  <2>2. CallsCleared'
    BY <2>1 DEF CallsCleared
  <2>3. NoLeftover'
    <3> SUFFICES ASSUME NEW j \in issues, ~IsLegacy(j), status'[j] # "resolved", resolvedIn[j] # NoRelease
                 PROVE  Clearing(j)'
      BY <1>2 DEF NoLeftover, IsLegacy
    <3>1. j \in leaves /\ j \in IssueIds
      BY DEF LeafUnlessLegacy, TypeOK
    <3>2. j # i
      BY <1>1, <1>2, <1>4, <3>1 DEF CallsCleared, IssueIds
    <3>3. Clearing(j)
      BY <1>2, <1>4, <3>1, <3>2 DEF NoLeftover
    <3> QED
      BY <1>1, <1>2, <2>1, <3>2, <3>3 DEF Clearing, workerVars
  <2> QED
    BY <2>2, <2>3
<1> QED
  BY <1>2, <1>3, <1>4, CallStep

\* and a bulk update of the status.
LEMMA StatusBulkUpdateStatus ==
  ASSUME IInv, IInv', StatusInv, NEW S \in SUBSET issues, NEW s \in Statuses, BulkUpdateStatus(S, s)
  PROVE  StatusInv'
<1> USE DEF IInv, StatusInv
<1>1. /\ status' = [i \in IssueIds |-> IF i \in S \cap leaves THEN s ELSE status[i]]
      /\ bulk' = bulk \cup S
      /\ epoch' = [i \in IssueIds |-> IF i \in S THEN epoch[i] + 1 ELSE epoch[i]]
      /\ UNCHANGED <<workerVars, issues, leaves, hash, ev, resolvedIn, api, owed, failures>>
  BY DEF BulkUpdateStatus
<1>2. /\ epoch' \in [IssueIds -> Nat]
      /\ \A j \in IssueIds : epoch'[j] = epoch[j] + 1 \/ (epoch'[j] = epoch[j] /\ status'[j] = status[j])
  BY <1>1
<1>3. ASSUME OneCaller, failures = 0 PROVE CallsCleared' /\ NoLeftover'
  <2>1. CallsCleared'
    BY <1>1, <1>3 DEF CallsCleared
  <2>2. NoLeftover'
    <3> SUFFICES ASSUME NEW j \in issues, ~IsLegacy(j), status'[j] # "resolved", resolvedIn[j] # NoRelease
                 PROVE  Clearing(j)'
      BY <1>1 DEF NoLeftover, IsLegacy
    <3>1. CASE j \in S
      BY <1>1, <3>1 DEF Clearing
    <3>2. CASE j \notin S
      <4>1. Clearing(j)
        BY <1>1, <1>3, <3>2 DEF NoLeftover, TypeOK
      <4> QED
        BY <1>1, <4>1 DEF Clearing, workerVars
    <3> QED
      BY <3>1, <3>2
  <2> QED
    BY <2>1, <2>2
<1> QED
  BY <1>1, <1>2, <1>3, CallStep

--------------------------------------------------------------------------------
\* The invariant holds at the start.
LEMMA InitStatusInv == Init => StatusInv
BY LegacyAssumption
   DEF Init, StatusInv, LeafUnlessLegacy, IsLegacy, CallsCleared, NoLeftover, OwedHandled, IssueIds

\* Every step keeps it.
LEMMA StepStatusInv == IInv /\ StatusInv /\ [Next]_vars => StatusInv'
<1> SUFFICES ASSUME IInv, StatusInv, [Next]_vars PROVE StatusInv'
  OBVIOUS
<1>0. IInv'
  BY StepIInv
<1>1. ASSUME NEW w \in Workers, NEW n \in 1..MaxBatch, TakeBatch(w, n) PROVE StatusInv'
  BY <1>0, <1>1, StatusTakeBatch
<1>2. ASSUME NEW w \in Workers, WorkerStep(w) \/ FailBatch(w) PROVE StatusInv'
  BY <1>0, <1>2, StatusFetchHashes, StatusSilentWorker, StatusReset, StatusInsertIssue,
     StatusUpdateIssues, StatusReopenLeaf, StatusReopenIssue DEF WorkerStep
<1>3. ASSUME ApiStep PROVE StatusInv'
  BY <1>0, <1>3, StatusBeginUpdateStatus, StatusEndUpdateStatus, StatusBulkUpdateStatus DEF ApiStep
<1>4. ASSUME ReplicaCatchUp \/ UNCHANGED vars PROVE StatusInv'
  <2>1. UNCHANGED <<ev, dbVars, workerVars, api, histVars>>
    BY <1>4 DEF ReplicaCatchUp, vars, dbVars, workerVars, histVars
  <2>2. UNCHANGED <<workerVars, issues, leaves, hash, ev, owed, failures, epoch, status, resolvedIn, api, bulk>>
    BY <2>1 DEF dbVars, histVars
  <2>3. OneCaller /\ failures = 0 => CallsCleared' /\ NoLeftover'
    BY <2>2 DEF StatusInv, CallsCleared, NoLeftover, Clearing, IsLegacy, workerVars
  <2> QED
    BY <1>0, <2>2, <2>3, CallStep DEF StatusInv
<1> QED
  BY <1>1, <1>2, <1>3, <1>4 DEF Next, StreamEnded

\* The columns a status is kept in, and the regressions under way, are as the
\* strengthening says at every step.
THEOREM StatusInvariant == Spec => []StatusInv
<1>1. Init => StatusInv
  BY InitStatusInv
<1>2. IInv /\ StatusInv /\ [Next]_vars => StatusInv'
  BY StepStatusInv
<1> QED
  BY <1>1, <1>2, IngestInvariant, PTL DEF Spec

\* An issue that is not resolved keeps no resolved_in_release, and a regression
\* is acted on, however workers and status calls interleave.
THEOREM IngestStatusKeepsUp == Spec => []StatusKeepsUp
<1>1. IInv /\ StatusInv => StatusKeepsUp
  <2> SUFFICES ASSUME IInv, StatusInv PROVE StatusKeepsUp
    OBVIOUS
  <2>1. ReleaseClearedWithStatus
    <3>1. Cardinality(Clients) <= 1 => OneCaller
      <4> SUFFICES ASSUME Cardinality(Clients) <= 1, NEW c \in Clients, NEW d \in Clients, c # d
                   PROVE  FALSE
        BY DEF OneCaller
      <4>1. Cardinality({c, d}) = 2
        <5>1. IsFiniteSet({c}) /\ Cardinality({c}) = 1 /\ d \notin {c} /\ {c} \cup {d} = {c, d}
          BY FS_Singleton
        <5>2. Cardinality({c} \cup {d}) = Cardinality({c}) + 1
          BY <5>1, FS_AddElement
        <5> QED
          BY <5>1, <5>2
      <4>2. {c, d} \subseteq Clients /\ IsFiniteSet(Clients) /\ Cardinality({c, d}) <= Cardinality(Clients)
        BY WorkersAssumption, FS_Subset
      <4> QED
        BY <4>1, <4>2, FS_CardinalityType
    <3> QED
      BY <3>1 DEF ReleaseClearedWithStatus, StatusInv, NoLeftover, IsLegacy, Clearing
  <2>2. RegressionReopens
    <3> SUFFICES ASSUME ~ReadReplica, NEW w \in Workers, pc[w] \in PastReopen, NEW o \in owed[w],
                        epoch[o[1]] = o[2]
                 PROVE  status[o[1]] # "resolved"
      BY DEF RegressionReopens
    <3>1. Owing(w, o[1], o[2])
      BY DEF StatusInv, OwedHandled
    <3> QED
      BY <3>1 DEF Owing, Untouched, Handles
  <2> QED
    BY <2>1, <2>2 DEF StatusKeepsUp
<1> QED
  BY <1>1, IngestInvariant, StatusInvariant, PTL

--------------------------------------------------------------------------------
(***************************************************************************)
(* Releases, for any batches, projects, organizations, requests and        *)
(* cleanup runs.                                                           *)
(***************************************************************************)

\* A release keeps its id, organization and version for good: whoever holds the id
\* holds them too.  A name gives, of each id given out, the two.
Names == [ReleaseKeys -> (ReleaseOrgs \X Versions) \cup {NULL}]
ReadOps == {"put", "deploy", "commits", "count"}
CallShape(c) ==
  /\ c.at \in {"idle", "add"} \cup ReadOps
  /\ c.at \in ReadOps => c \in [at : ReadOps, id : ReleaseKeys, row : ReleaseRows]
  /\ c.at = "add" => c.id \in ReleaseKeys /\ c.projects \subseteq SDKProjects
FeedShape ==
  [at : {"new", "create", "select", "link", "envs", "store", "done", "failed"},
   seen : SUBSET [project : SDKProjects, release : ReleaseKeys, version : Versions, env : EnvNames \cup {NULL}],
   rows : SUBSET [id : ReleaseKeys, org : ReleaseOrgs, version : Versions]]
BatchShape(b) == b.releases \subseteq Versions \X SDKProjects /\ b.envs \subseteq EnvNames \X SDKProjects
TagShape == [version : Versions, project : SDKProjects, release : ReleaseKeys \cup {NULL}, shared : BOOLEAN]
CleanShape ==
  [at : {"idle", "pick", "unref", "files", "deploys", "drop"}, ids : SUBSET ReleaseKeys, tried : SUBSET ReleaseKeys]
ReleaseShape ==
  /\ release \in [ReleaseKeys -> ReleaseRows \cup {NULL}] /\ given \subseteq ReleaseKeys
  /\ Stored \subseteq given /\ deploy \in [ReleaseKeys -> Nat]
  /\ linked \subseteq Stored \X SDKProjects /\ tagged \subseteq TagShape
  /\ feed \in [DOMAIN feed -> FeedShape] /\ \A b \in DOMAIN feed : BatchShape(b)
  /\ call = [q \in Requests |-> call[q]] /\ \A q \in Requests : CallShape(call[q])
  /\ clean \in CleanShape

\* A release a batch found linked to a project, or linked itself, is so still
\* while it is stored, unless a stale save brought it back.
ListedFor(id, p) == id \notin Stored \/ id \in clobbered \/ <<id, p>> \in linked
SharedIn(b, x) == \E y \in b.releases \ {x} : y[1] = x[1] /\ OrgOf[y[2]] = OrgOf[x[2]]
RowsNamed(name) == \A id \in Stored : name[id] = <<release[id].org, release[id].version>>
LinksNamed(name) == \A x \in linked : \E v \in Versions : name[x[1]] = <<OrgOf[x[2]], v>>
TagNamed(t, name) ==
  t.release # NULL =>
    /\ t.release \in Stored /\ name[t.release] = <<OrgOf[t.project], t.version>>
    /\ t.shared \/ ListedFor(t.release, t.project)
TagsNamed(name) == \A t \in tagged : TagNamed(t, name)
CallNamed(c, name) ==
  /\ c.at # "idle" => c.id \in given
  /\ c.at = "add" => \A p \in c.projects : \E v \in Versions : name[c.id] = <<OrgOf[p], v>>
  /\ c.at \in ReadOps => name[c.id] = <<c.row.org, c.row.version>>
CallsNamed(name) == \A q \in Requests : CallNamed(call[q], name)
FeedNamed(b, f, name) ==
  /\ f.at = "new" => f.seen = {}
  /\ f.at \in {"new", "create", "select"} => f.rows = {}
  /\ \A s \in f.seen :
       s.release \in given /\ name[s.release] = <<OrgOf[s.project], s.version>> /\ ListedFor(s.release, s.project)
  /\ \A r \in f.rows : r.id \in given /\ name[r.id] = <<r.org, r.version>>
  /\ f.at \in {"envs", "store"} => \A r \in f.rows : \A x \in b.releases :
       x[1] = r.version /\ OrgOf[x[2]] = r.org => SharedIn(b, x) \/ ListedFor(r.id, x[2])
FeedsNamed(name) == \A b \in DOMAIN feed : FeedNamed(b, feed[b], name)
AllNamed(name) == RowsNamed(name) /\ LinksNamed(name) /\ TagsNamed(name) /\ CallsNamed(name) /\ FeedsNamed(name)

\* Deploys are counted, of an id not given out there are none, and what the cleanup
\* removed does not come back but by a stale save.
NewIdsBare == \A id \in ReleaseKeys \ given : deploy[id] = 0
CleanSound ==
  /\ clean.ids \subseteq given \cap aged /\ clean.tried \subseteq given
  /\ clean.tried \cap Stored \subseteq clobbered
  /\ clean.at = "pick" => clean.ids \cap Stored \subseteq clobbered
  /\ CleanupMovesOn
EnvsHome == \A x \in DOMAIN envproject : x[1] \in environs /\ x[1][1] = OrgOf[x[2]]

ReleaseInv ==
  /\ ReleaseShape /\ NewIdsBare /\ DeploysCounted /\ CleanSound /\ EnvsHome
  /\ \E name \in Names : AllNamed(name)

\* What every step does: ids given out stay so, a release that was deleted comes back
\* by a stale save only, and links go with their release only.
Carried ==
  /\ given \subseteq given' /\ clobbered \subseteq clobbered' /\ aged \subseteq aged'
  /\ \A id \in given : id \in Stored' => id \in Stored \/ id \in clobbered'
  /\ \A x \in linked : x \in linked' \/ x[1] \notin Stored'

LEMMA StillListed ==
  ASSUME Carried, NEW id \in given, NEW p, ListedFor(id, p) PROVE ListedFor(id, p)'
<1>1. CASE <<id, p>> \in linked
  <2>1. <<id, p>>[1] = id
    OBVIOUS
  <2>2. <<id, p>> \in linked' \/ id \notin Stored'
    BY <1>1, <2>1 DEF Carried
  <2> QED
    BY <2>2 DEF ListedFor
<1> QED
  BY <1>1 DEF Carried, ListedFor

LEMMA StillNamed1 ==
  ASSUME Carried, NEW name, NEW more, \A id \in given : more[id] = name[id]
  PROVE  /\ \A c : CallNamed(c, name) => CallNamed(c, more)'
         /\ \A b, f : FeedNamed(b, f, name) => FeedNamed(b, f, more)'
<1>1. given \subseteq given'
  BY DEF Carried
<1>2. ASSUME NEW c, CallNamed(c, name) PROVE CallNamed(c, more)'
  <2>1. c.at # "idle" => c.id \in given /\ more[c.id] = name[c.id]
    BY <1>2 DEF CallNamed
  <2>2. c.at \in ReadOps \/ c.at = "add" => c.at # "idle"
    BY DEF ReadOps
  <2> QED
    BY <1>1, <1>2, <2>1, <2>2 DEF CallNamed
<1>3. ASSUME NEW b, NEW f, FeedNamed(b, f, name) PROVE FeedNamed(b, f, more)'
  <2>1. ASSUME NEW s \in f.seen
        PROVE  s.release \in given' /\ more[s.release] = <<OrgOf[s.project], s.version>> /\ ListedFor(s.release, s.project)'
    <3>1. s.release \in given /\ name[s.release] = <<OrgOf[s.project], s.version>> /\ ListedFor(s.release, s.project)
      BY <1>3, <2>1 DEF FeedNamed
    <3> QED
      BY <1>1, <3>1, StillListed
  <2>2. ASSUME NEW r \in f.rows PROVE r.id \in given /\ r.id \in given' /\ more[r.id] = <<r.org, r.version>>
    BY <1>1, <1>3, <2>2 DEF FeedNamed
  <2>3. ASSUME f.at \in {"envs", "store"}, NEW r \in f.rows, NEW x \in b.releases, x[1] = r.version, OrgOf[x[2]] = r.org
        PROVE  SharedIn(b, x) \/ ListedFor(r.id, x[2])'
    <3>1. SharedIn(b, x) \/ ListedFor(r.id, x[2])
      BY <1>3, <2>3 DEF FeedNamed
    <3> QED
      BY <2>2, <3>1, StillListed
  <2>4. /\ f.at = "new" => f.seen = {}
        /\ f.at \in {"new", "create", "select"} => f.rows = {}
    BY <1>3 DEF FeedNamed
  <2> QED
    BY <2>1, <2>2, <2>3, <2>4 DEF FeedNamed, SharedIn
<1> QED
  BY <1>2, <1>3

\* The names after a step: those before it, and of a release that is new its own.
LEMMA NamesCarried ==
  ASSUME Carried, ReleaseShape, NEW name \in Names, AllNamed(name),
         NEW more \in Names, \A id \in given : more[id] = name[id],
         \A id \in Stored' : more[id] = <<release'[id].org, release'[id].version>>,
         \A x \in linked' : x \in linked \/ \E v \in Versions : more[x[1]] = <<OrgOf[x[2]], v>>,
         \A t \in tagged' : t.release # NULL => (t \in tagged /\ t.release \in Stored') \/ TagNamed(t, more)',
         \A q \in Requests : call'[q] = call[q] \/ CallNamed(call[q], more)',
         \A b \in DOMAIN feed' : b \in DOMAIN feed /\ (feed'[b] = feed[b] \/ FeedNamed(b, feed[b], more)')
  PROVE  \E n \in Names : AllNamed(n)'
<1>1. RowsNamed(more)'
  BY DEF RowsNamed
<1>2. LinksNamed(more)'
  <2>1. ASSUME NEW x \in linked PROVE \E v \in Versions : more[x[1]] = <<OrgOf[x[2]], v>>
    <3>1. x[1] \in given
      BY <2>1 DEF ReleaseShape
    <3>2. \E v \in Versions : name[x[1]] = <<OrgOf[x[2]], v>>
      BY <2>1 DEF AllNamed, LinksNamed
    <3>3. more[x[1]] = name[x[1]]
      BY <3>1
    <3> QED
      BY <3>2, <3>3
  <2> QED
    BY <2>1 DEF LinksNamed
<1>3. TagsNamed(more)'
  <2>1. ASSUME NEW t \in tagged, t.release # NULL, t.release \in Stored' PROVE TagNamed(t, more)'
    <3>1. /\ t.release \in Stored /\ name[t.release] = <<OrgOf[t.project], t.version>>
          /\ t.shared \/ ListedFor(t.release, t.project)
      BY <2>1 DEF AllNamed, TagsNamed, TagNamed
    <3>2. t.release \in given
      BY <3>1 DEF ReleaseShape
    <3> QED
      BY <2>1, <3>1, <3>2, StillListed DEF TagNamed
  <2>2. \A t : t.release = NULL => TagNamed(t, more)'
    BY DEF TagNamed
  <2> QED
    BY <2>1, <2>2 DEF TagsNamed
<1>4. CallsNamed(more)'
  <2>1. ASSUME NEW q \in Requests, call'[q] = call[q] PROVE CallNamed(call[q], more)'
    <3>1. PICK c : c = call[q]
      OBVIOUS
    <3>2. CallNamed(c, more)'
      BY <3>1, StillNamed1 DEF AllNamed, CallsNamed
    <3> QED
      BY <2>1, <3>1, <3>2 DEF CallNamed
  <2> QED
    BY <2>1 DEF CallsNamed
<1>5. FeedsNamed(more)'
  <2>1. ASSUME NEW b \in DOMAIN feed, feed'[b] = feed[b] PROVE FeedNamed(b, feed[b], more)'
    <3>1. PICK f : f = feed[b]
      OBVIOUS
    <3>2. FeedNamed(b, f, more)'
      BY <3>1, StillNamed1 DEF AllNamed, FeedsNamed
    <3> QED
      BY <2>1, <3>1, <3>2 DEF FeedNamed
  <2> QED
    BY <2>1 DEF FeedsNamed
<1> QED
  BY <1>1, <1>2, <1>3, <1>4, <1>5 DEF AllNamed

LEMMA CleanCarried == ASSUME Carried, CleanSound, UNCHANGED clean PROVE CleanSound'
BY DEF Carried, CleanSound, CleanupMovesOn

Counting(id) == {q \in Requests : call[q].at = "count" /\ call[q].id = id}
LEMMA CountsCarried ==
  ASSUME DeploysCounted, clobbered \subseteq clobbered', aged \subseteq aged',
         \A id \in Stored' \ clobbered' : (id \in aged') \/
           (/\ id \in Stored /\ release'[id].deploys = release[id].deploys
            /\ deploy'[id] = deploy[id] /\ Counting(id)' = Counting(id))
  PROVE  DeploysCounted'
BY DEF DeploysCounted, Counting
\* A request that does not count a deploy, before and after.
LEMMA NotCounting ==
  ASSUME ReleaseShape, NEW q \in Requests, NEW c, call[q].at # "count", c.at # "count", call' = [call EXCEPT ![q] = c]
  PROVE  \A id : Counting(id)' = Counting(id)
<1>1. \A k \in Requests : call'[k] = IF k = q THEN c ELSE call[k]
  BY DEF ReleaseShape
<1> QED
  BY <1>1 DEF Counting

(* Ingest batches. *)
LEMMA FeedsAre ==
  ASSUME ReleaseShape, NEW b \in DOMAIN feed
  PROVE  /\ feed[b] \in FeedShape /\ feed[b] = [at |-> feed[b].at, seen |-> feed[b].seen, rows |-> feed[b].rows]
         /\ b.releases \subseteq Versions \X SDKProjects /\ b.envs \subseteq EnvNames \X SDKProjects
BY DEF ReleaseShape, FeedShape, BatchShape

LEMMA FeedExcept ==
  ASSUME NEW f \in FeedShape, NEW a, NEW s, NEW r
  PROVE  /\ [f EXCEPT !.at = a] = [at |-> a, seen |-> f.seen, rows |-> f.rows]
         /\ [f EXCEPT !.at = a, !.seen = s] = [at |-> a, seen |-> s, rows |-> f.rows]
         /\ [f EXCEPT !.at = a, !.rows = r] = [at |-> a, seen |-> f.seen, rows |-> r]
<1>1. \A x, y : \A h \in [at : {a}, seen : {x}, rows : {y}] : h = [at |-> a, seen |-> x, rows |-> y]
  OBVIOUS
<1>2. PICK g : g = [f EXCEPT !.at = a, !.seen = s]
  OBVIOUS
<1>3. PICK h : h = [f EXCEPT !.at = a, !.rows = r]
  OBVIOUS
<1>4. g \in [at : {a}, seen : {s}, rows : {f.rows}] /\ h \in [at : {a}, seen : {f.seen}, rows : {r}]
  BY <1>2, <1>3 DEF FeedShape
<1>5. [f EXCEPT !.at = a] = [at |-> a, seen |-> f.seen, rows |-> f.rows]
  BY DEF FeedShape
<1>6. g = [at |-> a, seen |-> s, rows |-> f.rows] /\ h = [at |-> a, seen |-> f.seen, rows |-> r]
  BY <1>1, <1>4
<1> QED
  BY <1>2, <1>3, <1>5, <1>6

\* A step of a batch that changes no release.
LEMMA FeedStep ==
  ASSUME ReleaseInv, UNCHANGED <<release, given, deploy, aged, call, clean, clobbered>>,
         linked \subseteq linked', linked' \subseteq Stored \X SDKProjects, tagged' \subseteq TagShape, EnvsHome',
         NEW b \in DOMAIN feed, NEW f \in FeedShape, feed' = [feed EXCEPT ![b] = f],
         \A name \in Names : AllNamed(name) =>
           /\ FeedNamed(b, f, name)'
           /\ \A x \in linked' : x \in linked \/ \E v \in Versions : name[x[1]] = <<OrgOf[x[2]], v>>
           /\ \A t \in tagged' : t \in tagged \/ TagNamed(t, name)'
  PROVE  ReleaseInv'
<1> USE DEF ReleaseInv
<1>1. Stored' = Stored
  BY DEF Stored
<1>2. Carried
  BY <1>1 DEF Carried
<1>3. DOMAIN feed' = DOMAIN feed /\ feed'[b] = f /\ \A c \in DOMAIN feed : c # b => feed'[c] = feed[c]
  OBVIOUS
<1>4. ReleaseShape'
  <2>1. feed' \in [DOMAIN feed' -> FeedShape] /\ \A c \in DOMAIN feed' : BatchShape(c)
    BY <1>3 DEF ReleaseShape
  <2> QED
    BY <1>1, <2>1 DEF ReleaseShape
<1>5. NewIdsBare' /\ CleanSound'
  BY <1>2, CleanCarried DEF NewIdsBare
<1>6. DeploysCounted'
  BY <1>1 DEF DeploysCounted
<1>7. PICK name \in Names : AllNamed(name)
  OBVIOUS
<1>8. ASSUME NEW t \in tagged', t.release # NULL PROVE (t \in tagged /\ t.release \in Stored') \/ TagNamed(t, name)'
  BY <1>1, <1>7, <1>8 DEF AllNamed, TagsNamed, TagNamed
<1>9. FeedNamed(b, feed[b], name)'
  BY <1>3, <1>7 DEF FeedNamed
<1>10. \E n \in Names : AllNamed(n)'
  <2>1. \A id \in Stored' : name[id] = <<release'[id].org, release'[id].version>>
    BY <1>1, <1>7 DEF AllNamed, RowsNamed
  <2>2. \A c \in DOMAIN feed' : c \in DOMAIN feed /\ (feed'[c] = feed[c] \/ FeedNamed(c, feed[c], name)')
    BY <1>3, <1>9
  <2>3. \A x \in linked' : x \in linked \/ \E v \in Versions : name[x[1]] = <<OrgOf[x[2]], v>>
    BY <1>7
  <2>4. \A q \in Requests : call'[q] = call[q]
    OBVIOUS
  <2> QED
    BY <1>2, <1>7, <1>8, <2>1, <2>2, <2>3, <2>4, NamesCarried
<1> QED
  BY <1>4, <1>5, <1>6, <1>10

LEMMA RelatedLookedUp == ASSUME ReleaseInv, NEW b \in DOMAIN feed, LookRelated(b) PROVE ReleaseInv'
<1> USE DEF ReleaseInv
<1>1. UNCHANGED <<release, given, linked, deploy, aged, environs, envproject, tagged, call, clean, clobbered>>
      /\ feed[b].at = "new"
  BY DEF LookRelated
<1> DEFINE Z == { y \in Of(b) \X Stored \X (NamesOf(b) \cup {NULL}) :
                    /\ <<y[2], y[1]>> \in linked
                    /\ \E x \in b.releases : x[1] = release[y[2]].version
                    /\ IF y[3] = NULL THEN Hosted(y[1]) = {}
                       ELSE \E e \in Hosted(y[1]) : e[1][2] = y[3] }
           Seen(z) == [project |-> z[1], release |-> z[2], version |-> release[z[2]].version, env |-> z[3]]
<1>2. PICK S : S \subseteq {Seen(z) : z \in Z} /\ feed' = [feed EXCEPT ![b] = [@ EXCEPT !.at = "create", !.seen = S]]
  <2>1. PICK S : S = IF b.releases = {} \/ b.envs = {} THEN {} ELSE {Seen(z) : z \in Z}
    OBVIOUS
  <2>2. feed' = [feed EXCEPT ![b] = [@ EXCEPT !.at = "create", !.seen = S]]
    BY <2>1 DEF LookRelated
  <2> QED
    BY <2>1, <2>2
<1>3. PICK f : f = [at |-> "create", seen |-> S, rows |-> feed[b].rows]
  OBVIOUS
<1>4. feed[b] \in FeedShape /\ b.releases \subseteq Versions \X SDKProjects /\ b.envs \subseteq EnvNames \X SDKProjects
  BY FeedsAre
<1>5. feed' = [feed EXCEPT ![b] = f]
  <2>1. PICK g : g = feed[b]
    OBVIOUS
  <2>2. PICK h : h = [g EXCEPT !.at = "create", !.seen = S]
    OBVIOUS
  <2>3. h = f
    BY <1>3, <1>4, <2>1, <2>2, FeedExcept
  <2> QED
    BY <1>2, <2>1, <2>2, <2>3
<1>6. ASSUME NEW z \in Z
      PROVE  /\ z[1] \in SDKProjects /\ z[2] \in Stored /\ z[3] \in EnvNames \cup {NULL} /\ <<z[2], z[1]>> \in linked
             /\ release[z[2]] \in ReleaseRows
  <2>1. z \in Of(b) \X Stored \X (NamesOf(b) \cup {NULL}) /\ <<z[2], z[1]>> \in linked
    OBVIOUS
  <2>2. Of(b) \subseteq SDKProjects /\ NamesOf(b) \subseteq EnvNames
    BY <1>4 DEF Of, NamesOf
  <2> QED
    BY <2>1, <2>2 DEF Stored, ReleaseShape
<1> HIDE DEF Z
<1>7. ASSUME NEW s \in S
      PROVE  \E z \in Z : /\ s = Seen(z) /\ s.project = z[1] /\ s.release = z[2] /\ s.version = release[z[2]].version
                          /\ s \in [project : SDKProjects, release : ReleaseKeys, version : Versions, env : EnvNames \cup {NULL}]
  <2>1. PICK z \in Z : s = Seen(z)
    BY <1>2, <1>7
  <2>2. release[z[2]].version \in Versions /\ z[2] \in ReleaseKeys
    BY <1>6 DEF ReleaseRows, Stored
  <2> QED
    BY <1>6, <2>1, <2>2
<1>8. f \in FeedShape
  BY <1>3, <1>4, <1>7 DEF FeedShape
<1>9. ASSUME NEW name \in Names, AllNamed(name) PROVE FeedNamed(b, f, name)'
  <2>1. feed[b].rows = {}
    BY <1>1, <1>9 DEF AllNamed, FeedsNamed, FeedNamed
  <2>2. f.at = "create" /\ f.seen = S /\ f.rows = {}
    BY <1>3, <2>1
  <2>3. ASSUME NEW s \in S
        PROVE  s.release \in given' /\ name[s.release] = <<OrgOf[s.project], s.version>> /\ ListedFor(s.release, s.project)'
    <3>1. PICK z \in Z : s = Seen(z) /\ s.project = z[1] /\ s.release = z[2] /\ s.version = release[z[2]].version
      BY <1>7
    <3>2. name[z[2]] = <<release[z[2]].org, release[z[2]].version>>
      BY <1>6, <1>9 DEF AllNamed, RowsNamed
    <3>3. \E v \in Versions : name[z[2]] = <<OrgOf[z[1]], v>>
      BY <1>6, <1>9 DEF AllNamed, LinksNamed
    <3>4. z[2] \in given
      BY <1>6 DEF ReleaseShape
    <3> QED
      BY <1>1, <1>6, <3>1, <3>2, <3>3, <3>4 DEF ListedFor
  <2> QED
    BY <2>2, <2>3 DEF FeedNamed
<1> QED
  BY <1>1, <1>5, <1>8, <1>9, FeedStep DEF EnvsHome, ReleaseShape

LEMMA RowsReadBack == ASSUME ReleaseInv, NEW b \in DOMAIN feed, SelectReleases(b) PROVE ReleaseInv'
<1> USE DEF ReleaseInv
<1>1. UNCHANGED <<release, given, linked, deploy, aged, environs, envproject, tagged, call, clean, clobbered>>
  BY DEF SelectReleases
<1> DEFINE I == { i \in Stored : \E x \in Wanted(b) : release[i].version = x[1] /\ release[i].org = OrgOf[x[2]] }
           RowOf(id) == [id |-> id, org |-> release[id].org, version |-> release[id].version]
<1>2. PICK R : R = {RowOf(id) : id \in I}
  OBVIOUS
<1>3. feed' = [feed EXCEPT ![b] = [@ EXCEPT !.at = "link", !.rows = R]]
  BY <1>2 DEF SelectReleases
<1>4. feed[b] \in FeedShape
  BY FeedsAre
<1>5. PICK f : f = [at |-> "link", seen |-> feed[b].seen, rows |-> R]
  OBVIOUS
<1>6. feed' = [feed EXCEPT ![b] = f]
  <2>1. PICK g : g = feed[b]
    OBVIOUS
  <2>2. PICK h : h = [g EXCEPT !.at = "link", !.rows = R]
    OBVIOUS
  <2>3. g \in FeedShape /\ f = [at |-> "link", seen |-> g.seen, rows |-> R]
    BY <1>4, <1>5, <2>1
  <2>4. h = [at |-> "link", seen |-> g.seen, rows |-> R]
    BY <2>2, <2>3, FeedExcept
  <2> QED
    BY <1>3, <2>1, <2>2, <2>3, <2>4
<1>7. I \subseteq Stored
  OBVIOUS
<1> HIDE DEF I
<1>8. ASSUME NEW r \in R
      PROVE  r \in [id : ReleaseKeys, org : ReleaseOrgs, version : Versions] /\ \E id \in Stored : r = RowOf(id)
  <2>1. PICK id \in Stored : r = RowOf(id)
    BY <1>2, <1>7, <1>8
  <2>2. id \in ReleaseKeys /\ release[id].org \in ReleaseOrgs /\ release[id].version \in Versions
    BY <2>1 DEF Stored, ReleaseShape, ReleaseRows, ReleaseOrgs
  <2> QED
    BY <2>1, <2>2
<1>9. f \in FeedShape
  BY <1>4, <1>5, <1>8 DEF FeedShape
<1>10. ASSUME NEW name \in Names, AllNamed(name) PROVE FeedNamed(b, f, name)'
  <2>1. f.at = "link" /\ f.seen = feed[b].seen /\ f.rows = R
    BY <1>5
  <2>2. \A s \in feed[b].seen : s.release \in given' /\ name[s.release] = <<OrgOf[s.project], s.version>>
                                /\ ListedFor(s.release, s.project)'
    BY <1>1, <1>10 DEF AllNamed, FeedsNamed, FeedNamed, ListedFor, Stored
  <2>3. \A r \in R : r.id \in given' /\ name[r.id] = <<r.org, r.version>>
    BY <1>1, <1>8, <1>10 DEF AllNamed, RowsNamed, ReleaseShape
  <2> QED
    BY <2>1, <2>2, <2>3 DEF FeedNamed
<1> QED
  BY <1>1, <1>6, <1>9, <1>10, FeedStep DEF EnvsHome, ReleaseShape

LEMMA NewFeedIs == NewFeed \in FeedShape /\ NewFeed.seen = {} /\ NewFeed.rows = {}
BY DEF NewFeed, FeedShape

\* A batch that ends, failed or done.
LEMMA BatchEnds ==
  ASSUME ReleaseInv, UNCHANGED <<release, given, linked, deploy, aged, environs, envproject, call, clean, clobbered>>,
         tagged' \subseteq TagShape, NEW b \in DOMAIN feed, NEW a \in {"failed", "done"},
         feed' = [feed EXCEPT ![b] = [NewFeed EXCEPT !.at = a]],
         \A name \in Names : AllNamed(name) => \A t \in tagged' : t \in tagged \/ TagNamed(t, name)'
  PROVE  ReleaseInv'
<1>1. PICK f : f = [NewFeed EXCEPT !.at = a]
  OBVIOUS
<1>2. f = [at |-> a, seen |-> {}, rows |-> {}]
  BY <1>1, NewFeedIs, FeedExcept
<1>3. f \in FeedShape /\ f.at = a /\ f.seen = {} /\ f.rows = {}
  BY <1>2 DEF FeedShape
<1>4. feed' = [feed EXCEPT ![b] = f]
  BY <1>1
<1>5. ASSUME NEW name PROVE FeedNamed(b, f, name)'
  BY <1>3 DEF FeedNamed
<1>6. linked' \subseteq Stored \X SDKProjects /\ EnvsHome' /\ linked \subseteq linked'
  BY DEF ReleaseInv, ReleaseShape, EnvsHome
<1> QED
  BY <1>3, <1>4, <1>5, <1>6, FeedStep

LEMMA ReleasesLinked == ASSUME ReleaseInv, NEW b \in DOMAIN feed, LinkReleases(b) PROVE ReleaseInv'
<1> USE DEF ReleaseInv
<1>1. UNCHANGED <<release, given, deploy, aged, environs, envproject, tagged, call, clean, clobbered>>
      /\ feed[b].at = "link"
  BY DEF LinkReleases
<1>2. CASE \E r \in feed[b].rows : release[r.id] = NULL
  <2>1. feed' = [feed EXCEPT ![b] = [NewFeed EXCEPT !.at = "failed"]] /\ UNCHANGED linked
    BY <1>2 DEF LinkReleases
  <2> QED
    BY <1>1, <2>1, BatchEnds DEF ReleaseShape
<1>3. CASE ~\E r \in feed[b].rows : release[r.id] = NULL
  <2>1. PICK taker \in [feed[b].rows -> SDKProjects] :
          (\A r \in feed[b].rows : taker[r] \in Takers(b, r)) /\ linked' = linked \cup {<<r.id, taker[r]>> : r \in feed[b].rows}
    BY <1>3 DEF LinkReleases
  <2>2. feed' = [feed EXCEPT ![b].at = "envs"]
    BY <1>3 DEF LinkReleases
  <2>3. PICK f : f = [at |-> "envs", seen |-> feed[b].seen, rows |-> feed[b].rows]
    OBVIOUS
  <2>4. feed[b] \in FeedShape
    BY FeedsAre
  <2>5. feed' = [feed EXCEPT ![b] = f] /\ f \in FeedShape
    <3>1. [feed[b] EXCEPT !.at = "envs"] = f
      BY <2>3, <2>4, FeedExcept
    <3>2. f \in FeedShape
      BY <2>3, <2>4 DEF FeedShape
    <3> QED
      BY <2>2, <3>1, <3>2
  <2>6. ASSUME NEW r \in feed[b].rows
        PROVE  /\ r.id \in Stored /\ taker[r] \in SDKProjects
               /\ \E y \in b.releases : taker[r] = y[2] /\ y[1] = r.version /\ OrgOf[y[2]] = r.org
               /\ r.version \in Versions
    <3>1. r.id \in ReleaseKeys /\ r.version \in Versions
      BY <2>4 DEF FeedShape
    <3>2. taker[r] \in Takers(b, r)
      BY <2>1
    <3> QED
      BY <1>3, <2>1, <3>1, <3>2 DEF Stored, Takers
  <2>7. linked \subseteq linked' /\ linked' \subseteq Stored \X SDKProjects
    BY <2>1, <2>6 DEF ReleaseShape
  <2>8. ASSUME NEW name \in Names, AllNamed(name)
        PROVE  FeedNamed(b, f, name)' /\ \A x \in linked' : x \in linked \/ \E v \in Versions : name[x[1]] = <<OrgOf[x[2]], v>>
    <3>1. f.at = "envs" /\ f.seen = feed[b].seen /\ f.rows = feed[b].rows
      BY <2>3
    <3>2. FeedNamed(b, feed[b], name)
      BY <2>8 DEF AllNamed, FeedsNamed
    <3>3. \A s \in f.seen : s.release \in given' /\ name[s.release] = <<OrgOf[s.project], s.version>>
                            /\ ListedFor(s.release, s.project)'
      BY <1>1, <2>7, <3>1, <3>2 DEF FeedNamed, ListedFor, Stored
    <3>4. \A r \in f.rows : r.id \in given' /\ name[r.id] = <<r.org, r.version>>
      BY <1>1, <3>1, <3>2 DEF FeedNamed
    <3>5. ASSUME NEW r \in f.rows, NEW x \in b.releases, x[1] = r.version, OrgOf[x[2]] = r.org
          PROVE  SharedIn(b, x) \/ ListedFor(r.id, x[2])'
      <4>1. PICK y \in b.releases : taker[r] = y[2] /\ y[1] = r.version /\ OrgOf[y[2]] = r.org
        BY <2>6, <3>1
      <4>2. CASE y = x
        BY <2>1, <3>1, <4>1, <4>2 DEF ListedFor
      <4>3. CASE y # x
        BY <3>5, <4>1, <4>3 DEF SharedIn
      <4> QED
        BY <4>2, <4>3
    <3>6. ASSUME NEW r \in feed[b].rows PROVE \E v \in Versions : name[r.id] = <<OrgOf[taker[r]], v>>
      BY <2>6, <3>1, <3>4
    <3>7. ASSUME NEW x \in linked', x \notin linked PROVE \E v \in Versions : name[x[1]] = <<OrgOf[x[2]], v>>
      <4>1. PICK r \in feed[b].rows : x = <<r.id, taker[r]>>
        BY <2>1, <3>7
      <4> QED
        BY <3>6, <4>1
    <3> QED
      BY <3>1, <3>3, <3>4, <3>5, <3>7 DEF FeedNamed, SharedIn
  <2> QED
    BY <1>1, <2>5, <2>7, <2>8, FeedStep DEF EnvsHome, ReleaseShape
<1> QED
  BY <1>2, <1>3

LEMMA EnvironmentsCreated == ASSUME ReleaseInv, NEW b \in DOMAIN feed, CreateEnvironments(b) PROVE ReleaseInv'
<1> USE DEF ReleaseInv
<1>1. UNCHANGED <<release, given, linked, deploy, aged, tagged, call, clean, clobbered>>
      /\ feed[b].at = "envs" /\ feed' = [feed EXCEPT ![b].at = "store"]
  BY DEF CreateEnvironments
<1>2. EnvsHome'
  <2> DEFINE wanted == { x \in b.envs : ~\E s \in feed[b].seen : s.env = x[1] /\ s.project = x[2] }
  <2>1. PICK new : new = { <<OrgOf[x[2]], x[1]>> : x \in wanted }
    OBVIOUS
  <2>2. /\ environs' = environs \cup new
        /\ \E taker \in [new -> SDKProjects] :
             /\ \A e \in new : <<e[2], taker[e]>> \in b.envs /\ OrgOf[taker[e]] = e[1]
             /\ DOMAIN envproject' = DOMAIN envproject \cup { <<e, taker[e]>> : e \in new }
    BY <2>1 DEF CreateEnvironments
  <2>3. PICK taker \in [new -> SDKProjects] :
          /\ \A e \in new : OrgOf[taker[e]] = e[1]
          /\ DOMAIN envproject' = DOMAIN envproject \cup { <<e, taker[e]>> : e \in new }
    BY <2>2
  <2>4. ASSUME NEW x \in DOMAIN envproject', x \notin DOMAIN envproject
        PROVE  x[1] \in environs' /\ x[1][1] = OrgOf[x[2]]
    <3>1. PICK e \in new : x = <<e, taker[e]>>
      BY <2>3, <2>4
    <3>2. x[1] = e /\ x[2] = taker[e]
      BY <3>1
    <3> QED
      BY <2>2, <2>3, <3>1, <3>2
  <2> QED
    BY <2>2, <2>4 DEF EnvsHome
<1>3. PICK f : f = [at |-> "store", seen |-> feed[b].seen, rows |-> feed[b].rows]
  OBVIOUS
<1>4. feed[b] \in FeedShape
  BY FeedsAre
<1>5. feed' = [feed EXCEPT ![b] = f] /\ f \in FeedShape
  <2>1. [feed[b] EXCEPT !.at = "store"] = f
    BY <1>3, <1>4, FeedExcept
  <2>2. f \in FeedShape
    BY <1>3, <1>4 DEF FeedShape
  <2> QED
    BY <1>1, <2>1, <2>2
<1>6. ASSUME NEW name \in Names, AllNamed(name) PROVE FeedNamed(b, f, name)'
  <2>1. f.at = "store" /\ f.seen = feed[b].seen /\ f.rows = feed[b].rows
    BY <1>3
  <2>2. FeedNamed(b, feed[b], name)
    BY <1>6 DEF AllNamed, FeedsNamed
  <2> QED
    BY <1>1, <2>1, <2>2 DEF FeedNamed, SharedIn, ListedFor, Stored
<1> QED
  BY <1>1, <1>2, <1>5, <1>6, FeedStep DEF ReleaseShape

LEMMA EventsTagged == ASSUME ReleaseInv, NEW b \in DOMAIN feed, StoreTagged(b) PROVE ReleaseInv'
<1> USE DEF ReleaseInv
<1>1. UNCHANGED <<release, given, linked, deploy, aged, environs, envproject, call, clean, clobbered>>
      /\ feed[b].at = "store"
  BY DEF StoreTagged
<1>2. PICK id \in [b.releases -> ReleaseKeys \cup {0}] :
       /\ \A x \in b.releases : IF ReleaseFor(b, x[1], x[2]) = {} THEN id[x] = 0 ELSE id[x] \in ReleaseFor(b, x[1], x[2])
       /\ \/ /\ \A x \in b.releases : id[x] \in Stored
             /\ tagged' = tagged \cup
                    { [version |-> x[1], project |-> x[2], release |-> id[x],
                       shared |-> \E y \in b.releases \ {x} : y[1] = x[1] /\ OrgOf[y[2]] = OrgOf[x[2]]]
                      : x \in b.releases }
             /\ feed' = [feed EXCEPT ![b] = [NewFeed EXCEPT !.at = "done"]]
          \/ feed' = [feed EXCEPT ![b] = [NewFeed EXCEPT !.at = "failed"]] /\ UNCHANGED tagged
  BY DEF StoreTagged
<1>3. CASE feed' = [feed EXCEPT ![b] = [NewFeed EXCEPT !.at = "failed"]] /\ UNCHANGED tagged
  BY <1>1, <1>3, BatchEnds DEF ReleaseShape
<1>4. ASSUME \A x \in b.releases : id[x] \in Stored, feed' = [feed EXCEPT ![b] = [NewFeed EXCEPT !.at = "done"]],
             tagged' = tagged \cup
                    { [version |-> x[1], project |-> x[2], release |-> id[x],
                       shared |-> \E y \in b.releases \ {x} : y[1] = x[1] /\ OrgOf[y[2]] = OrgOf[x[2]]]
                      : x \in b.releases }
      PROVE  ReleaseInv'
  <2>1. ASSUME NEW t \in tagged', t \notin tagged
        PROVE  \E x \in b.releases :
                 /\ t \in TagShape /\ t.version = x[1] /\ t.project = x[2] /\ t.release = id[x] /\ t.shared = SharedIn(b, x)
    <3>1. PICK x \in b.releases : t = [version |-> x[1], project |-> x[2], release |-> id[x], shared |-> SharedIn(b, x)]
      BY <1>4, <2>1 DEF SharedIn
    <3>2. x[1] \in Versions /\ x[2] \in SDKProjects /\ id[x] \in ReleaseKeys /\ SharedIn(b, x) \in BOOLEAN
      BY <1>4, FeedsAre DEF Stored, SharedIn
    <3> QED
      BY <3>1, <3>2 DEF TagShape
  <2>2. tagged' \subseteq TagShape
    BY <2>1 DEF ReleaseShape
  <2>3. ASSUME NEW name \in Names, AllNamed(name), NEW t \in tagged', t \notin tagged PROVE TagNamed(t, name)'
    <3>1. PICK x \in b.releases : t.version = x[1] /\ t.project = x[2] /\ t.release = id[x] /\ t.shared = SharedIn(b, x)
      BY <2>1, <2>3
    <3>2. id[x] \in Stored /\ id[x] \in ReleaseFor(b, x[1], x[2])
      BY <1>2, <1>4, ReleaseConstants DEF Stored
    <3>3. FeedNamed(b, feed[b], name)
      BY <2>3 DEF AllNamed, FeedsNamed
    <3>4. name[id[x]] = <<OrgOf[x[2]], x[1]>> /\ (SharedIn(b, x) \/ ListedFor(id[x], x[2]))
      <4>1. CASE \E s \in feed[b].seen : s.version = x[1] /\ s.project = x[2] /\ s.release = id[x]
        BY <3>3, <4>1 DEF FeedNamed
      <4>2. CASE \E r \in feed[b].rows : r.version = x[1] /\ r.org = OrgOf[x[2]] /\ r.id = id[x]
        BY <1>1, <3>3, <4>2 DEF FeedNamed
      <4> QED
        BY <3>2, <4>1, <4>2 DEF ReleaseFor
    <3> QED
      BY <1>1, <3>1, <3>2, <3>4 DEF TagNamed, ListedFor, Stored
  <2> QED
    BY <1>1, <1>4, <2>2, <2>3, BatchEnds
<1> QED
  BY <1>2, <1>3, <1>4

(* New releases. *)

\* The least id not given out.
LEMMA NextIdIs == ASSUME Unused # {} PROVE NextId \in Unused
<1>1. Unused \subseteq Nat
  BY ReleaseConstants DEF Unused
<1>2. \A x, y \in Nat : <<y, x>> \in OpToRel(<, Nat) <=> y < x
  BY DEF OpToRel
<1>3. PICK x \in Unused : \A y \in Unused : ~(<<y, x>> \in OpToRel(<, Nat))
  BY <1>1, NatLessThanWellFounded, WFMin
<1>4. ASSUME NEW y \in Unused PROVE x <= y
  <2>1. x \in Nat /\ y \in Nat /\ ~(y < x)
    BY <1>1, <1>2, <1>3
  <2> QED
    BY <2>1
<1> QED
  BY <1>4 DEF NextId

\* Rows inserted under unused ids: what they leave as it was.
Inserted(ids) ==
  /\ ids \subseteq Unused /\ given' = given \cup ids
  /\ release' \in [ReleaseKeys -> ReleaseRows \cup {NULL}]
  /\ \A id \in ids : release'[id] \in ReleaseRows /\ release'[id].deploys = 0
  /\ \A id \in ReleaseKeys \ ids : release'[id] = release[id]
  /\ UNCHANGED <<linked, deploy, bundle, aged, environs, envproject, tagged, clean, clobbered>>

LEMMA RowIs == ASSUME NEW o \in ReleaseOrgs, NEW v \in Versions
               PROVE Row(o, v) \in ReleaseRows /\ Row(o, v).org = o /\ Row(o, v).version = v /\ Row(o, v).deploys = 0
BY DEF Row, ReleaseRows, ReleaseOrgs

LEMMA InsertedKeeps ==
  ASSUME ReleaseInv, NEW ids, Inserted(ids), \A id : Counting(id)' = Counting(id)
  PROVE  /\ Stored' = Stored \cup ids /\ Carried /\ DeploysCounted' /\ NewIdsBare' /\ EnvsHome'
         /\ given' \subseteq ReleaseKeys /\ Stored' \subseteq given'
<1> USE DEF ReleaseInv
<1>1. /\ given \subseteq ReleaseKeys /\ Stored \subseteq given /\ ids \subseteq ReleaseKeys \ given
  BY DEF ReleaseShape, Inserted, Unused
<1>2. Stored' = Stored \cup ids
  <2>1. ASSUME NEW id \in ids PROVE id \in ReleaseKeys /\ release'[id] # NULL
    BY <1>1, ReleaseConstants DEF Inserted
  <2>2. ASSUME NEW id \in ReleaseKeys, id \notin ids PROVE release'[id] = release[id]
    BY <2>2 DEF Inserted
  <2> QED
    BY <2>1, <2>2 DEF Stored
<1>3. Carried
  BY <1>1, <1>2 DEF Carried, Inserted
<1>4. ASSUME NEW id \in Stored' \ clobbered'
      PROVE  deploy'[id] = release'[id].deploys + Cardinality(Counting(id)') \/ id \in aged'
  <2>1. CASE id \in ids
    <3>1. id \notin given
      BY <1>1, <2>1
    <3>2. PICK name \in Names : AllNamed(name)
      OBVIOUS
    <3>3. \A q \in Requests : call[q].at = "count" => call[q].id \in given
      BY <3>2 DEF AllNamed, CallsNamed, CallNamed
    <3>4. Counting(id) = {}
      BY <3>1, <3>3 DEF Counting
    <3>5. Cardinality(Counting(id)') = 0
      BY <3>4, FS_EmptySet
    <3>6. deploy'[id] = 0 /\ release'[id].deploys = 0
      BY <1>1, <2>1, <3>1 DEF NewIdsBare, Inserted
    <3> QED
      BY <3>5, <3>6
  <2>2. CASE id \notin ids
    <3>1. id \in Stored \ clobbered /\ release'[id] = release[id] /\ deploy' = deploy /\ aged' = aged
      BY <1>2, <1>4, <2>2 DEF Inserted, Stored
    <3>2. Counting(id)' = Counting(id)
      OBVIOUS
    <3> QED
      BY <3>1, <3>2 DEF DeploysCounted, Counting
  <2> QED
    BY <2>1, <2>2
<1>5. DeploysCounted'
  BY <1>4 DEF DeploysCounted, Counting
<1>6. NewIdsBare' /\ EnvsHome'
  BY <1>1 DEF NewIdsBare, EnvsHome, Inserted
<1> QED
  BY <1>1, <1>2, <1>3, <1>5, <1>6 DEF Inserted

\* The names with those of the new releases.
LEMMA NamesInserted ==
  ASSUME ReleaseInv, NEW ids, Inserted(ids), NEW name \in Names, AllNamed(name)
  PROVE  \E more \in Names :
           /\ \A id \in given : more[id] = name[id]
           /\ \A id \in Stored' : more[id] = <<release'[id].org, release'[id].version>>
<1> USE DEF ReleaseInv
<1>1. PICK more : more = [id \in ReleaseKeys |-> IF id \in ids THEN <<release'[id].org, release'[id].version>> ELSE name[id]]
  OBVIOUS
<1>2. \A id \in ids : release'[id].org \in ReleaseOrgs /\ release'[id].version \in Versions
  BY DEF Inserted, ReleaseRows, ReleaseOrgs
<1>3. \A id \in ids : <<release'[id].org, release'[id].version>> \in ReleaseOrgs \X Versions
  BY <1>2
<1>4. more \in Names
  BY <1>1, <1>3 DEF Names
<1>5. given \subseteq ReleaseKeys /\ ids \subseteq ReleaseKeys \ given
  BY DEF ReleaseShape, Inserted, Unused
<1>6. \A id \in given : more[id] = name[id]
  BY <1>1, <1>5
<1>7. ASSUME NEW id \in Stored' PROVE more[id] = <<release'[id].org, release'[id].version>>
  <2>1. CASE id \in ids
    BY <1>1, <1>5, <2>1
  <2>2. CASE id \notin ids
    <3>1. id \in Stored /\ release'[id] = release[id]
      BY <2>2 DEF Stored, Inserted
    <3> QED
      BY <1>1, <2>2, <3>1 DEF AllNamed, RowsNamed, Stored
  <2> QED
    BY <2>1, <2>2
<1> QED
  BY <1>4, <1>6, <1>7

LEMMA ReleasesCreated == ASSUME ReleaseInv, NEW b \in DOMAIN feed, CreateReleases(b) PROVE ReleaseInv'
<1> USE DEF ReleaseInv
<1>1. /\ feed[b].at = "create" /\ call' = call
      /\ UNCHANGED <<linked, deploy, bundle, aged, environs, envproject, tagged, clean, clobbered>>
  BY DEF CreateReleases
<1> DEFINE keys == { <<OrgOf[x[2]], x[1]>> : x \in Wanted(b) }
           missing == { k \in keys : get_release(k[1], k[2]) = {} }
<1>2. PICK new \in [missing -> Unused] :
        /\ \A j, k \in missing : new[j] = new[k] => j = k
        /\ given' = given \cup { new[k] : k \in missing }
        /\ release' = [id \in ReleaseKeys |->
             IF \E k \in missing : new[k] = id
             THEN LET k == CHOOSE k \in missing : new[k] = id IN Row(k[1], k[2])
             ELSE release[id]]
  BY DEF CreateReleases
<1>20. missing \subseteq keys
  OBVIOUS
<1> HIDE DEF missing
<1>3. feed[b] \in FeedShape /\ b.releases \subseteq Versions \X SDKProjects
  BY FeedsAre
<1>4. ASSUME NEW k \in missing PROVE k[1] \in ReleaseOrgs /\ k[2] \in Versions
  <2>1. PICK x \in b.releases : k = <<OrgOf[x[2]], x[1]>>
    BY <1>20, <1>4 DEF Wanted
  <2>2. OrgOf[x[2]] \in ReleaseOrgs /\ x[1] \in Versions
    BY <1>3 DEF ReleaseOrgs
  <2> QED
    BY <2>1, <2>2
<1>5. PICK ids : ids = { new[k] : k \in missing }
  OBVIOUS
<1>6. ASSUME NEW id \in ids PROVE id \in ReleaseKeys /\ release'[id] \in ReleaseRows /\ release'[id].deploys = 0
  <2>1. PICK k \in missing : k = CHOOSE j \in missing : new[j] = id
    BY <1>5, <1>6
  <2>2. id \in ReleaseKeys /\ release'[id] = Row(k[1], k[2])
    BY <1>2, <1>5, <1>6, <2>1 DEF Unused
  <2> QED
    BY <1>4, <2>2, RowIs
<1>7. \A id \in ReleaseKeys \ ids : release'[id] = release[id]
  BY <1>2, <1>5
<1>8. Inserted(ids)
  <2>1. release' \in [ReleaseKeys -> ReleaseRows \cup {NULL}]
    <3>1. \A id \in ReleaseKeys : release'[id] \in ReleaseRows \cup {NULL}
      BY <1>6, <1>7 DEF ReleaseShape
    <3>2. release' = [id \in ReleaseKeys |-> release'[id]]
      BY <1>2
    <3> QED
      BY <3>1, <3>2
  <2>2. ids \subseteq Unused /\ given' = given \cup ids
    BY <1>2, <1>5
  <2> QED
    BY <1>1, <1>6, <1>7, <2>1, <2>2 DEF Inserted
<1>9. PICK f \in FeedShape : feed' = [feed EXCEPT ![b] = f] /\ f.at \in {"envs", "select"} /\ f.seen = feed[b].seen /\ f.rows = feed[b].rows
  <2>1. PICK a \in {"envs", "select"} : feed' = [feed EXCEPT ![b].at = a]
    BY DEF CreateReleases
  <2>2. PICK f : f = [at |-> a, seen |-> feed[b].seen, rows |-> feed[b].rows]
    OBVIOUS
  <2>3. [feed[b] EXCEPT !.at = a] = f
    BY <1>3, <2>2, FeedExcept
  <2>4. f \in FeedShape
    BY <1>3, <2>2 DEF FeedShape
  <2> QED
    BY <2>1, <2>2, <2>3, <2>4
<1>10. \A id : Counting(id)' = Counting(id)
  BY <1>1 DEF Counting
<1>11. /\ Stored' = Stored \cup ids /\ Carried /\ DeploysCounted' /\ NewIdsBare' /\ EnvsHome'
       /\ given' \subseteq ReleaseKeys /\ Stored' \subseteq given'
  BY <1>8, <1>10, InsertedKeeps
<1>12. DOMAIN feed' = DOMAIN feed /\ feed'[b] = f /\ \A c \in DOMAIN feed : c # b => feed'[c] = feed[c]
  BY <1>9
<1>13. ReleaseShape'
  <2>1. feed' \in [DOMAIN feed' -> FeedShape] /\ \A c \in DOMAIN feed' : BatchShape(c)
    BY <1>9, <1>12 DEF ReleaseShape
  <2> QED
    BY <1>1, <1>8, <1>11, <2>1 DEF ReleaseShape, Inserted
<1>14. CleanSound'
  BY <1>8, <1>11, CleanCarried DEF Inserted
<1>15. PICK name \in Names : AllNamed(name)
  OBVIOUS
<1>16. PICK more \in Names :
           /\ \A id \in given : more[id] = name[id]
           /\ \A id \in Stored' : more[id] = <<release'[id].org, release'[id].version>>
  BY <1>8, <1>15, NamesInserted
<1>17. FeedNamed(b, f, more)'
  <2>1. FeedNamed(b, f, name)
    BY <1>1, <1>9, <1>15 DEF AllNamed, FeedsNamed, FeedNamed
  <2> QED
    BY <1>11, <1>16, <2>1, StillNamed1
<1>18. \E n \in Names : AllNamed(n)'
  <2>1. FeedNamed(b, feed[b], more)'
    BY <1>12, <1>17 DEF FeedNamed
  <2>2. \A c \in DOMAIN feed' : c \in DOMAIN feed /\ (feed'[c] = feed[c] \/ FeedNamed(c, feed[c], more)')
    BY <1>12, <2>1
  <2>3. linked' = linked /\ tagged' = tagged /\ \A q \in Requests : call'[q] = call[q]
    BY <1>1, <1>8 DEF Inserted
  <2>4. ASSUME NEW t \in tagged', t.release # NULL PROVE t \in tagged /\ t.release \in Stored'
    BY <1>11, <1>15, <2>3, <2>4 DEF AllNamed, TagsNamed, TagNamed
  <2> QED
    BY <1>11, <1>15, <1>16, <2>2, <2>3, <2>4, NamesCarried
<1> QED
  BY <1>11, <1>13, <1>14, <1>18

(* API requests. *)
LEMMA CallsAre ==
  ASSUME ReleaseShape, NEW q \in Requests
  PROVE  /\ CallShape(call[q])
         /\ \A c : call' = [call EXCEPT ![q] = c] =>
              /\ call' = [k \in Requests |-> call'[k]]
              /\ \A k \in Requests : call'[k] = IF k = q THEN c ELSE call[k]
BY DEF ReleaseShape

LEMMA NoCallIs == CallShape(NoCall) /\ NoCall.at = "idle"
BY DEF CallShape, NoCall, ReadOps

LEMMA RequestStep ==
  ASSUME ReleaseInv, Carried, UNCHANGED <<feed, clean>>,
         NEW q \in Requests, NEW c, CallShape(c), call' = [call EXCEPT ![q] = c],
         release' \in [ReleaseKeys -> ReleaseRows \cup {NULL}], given' \subseteq ReleaseKeys, Stored' \subseteq given',
         deploy' \in [ReleaseKeys -> Nat], linked' \subseteq Stored' \X SDKProjects, tagged' \subseteq TagShape,
         NewIdsBare', DeploysCounted', EnvsHome',
         NEW name \in Names, AllNamed(name), NEW more \in Names, \A id \in given : more[id] = name[id],
         \A id \in Stored' : more[id] = <<release'[id].org, release'[id].version>>,
         \A x \in linked' : x \in linked \/ \E v \in Versions : more[x[1]] = <<OrgOf[x[2]], v>>,
         \A t \in tagged' : t.release # NULL => t \in tagged /\ t.release \in Stored',
         CallNamed(c, more)'
  PROVE  ReleaseInv'
<1> USE DEF ReleaseInv
<1>1. call' = [k \in Requests |-> call'[k]] /\ \A k \in Requests : call'[k] = IF k = q THEN c ELSE call[k]
  BY CallsAre
<1>2. CleanSound'
  BY CleanCarried
<1>3. ReleaseShape'
  <2>1. \A k \in Requests : CallShape(call'[k])
    BY <1>1 DEF ReleaseShape
  <2>2. feed' \in [DOMAIN feed' -> FeedShape] /\ \A b \in DOMAIN feed' : BatchShape(b)
    BY DEF ReleaseShape
  <2> QED
    BY <1>1, <2>1, <2>2 DEF ReleaseShape
<1>4. \A k \in Requests : call'[k] = call[k] \/ CallNamed(call[k], more)'
  <2>1. ASSUME NEW k \in Requests, call'[k] # call[k] PROVE CallNamed(call[k], more)'
    <3>1. call'[k] = c
      BY <1>1, <2>1
    <3> QED
      BY <3>1 DEF CallNamed
  <2> QED
    BY <2>1
<1>5. \A b \in DOMAIN feed' : b \in DOMAIN feed /\ feed'[b] = feed[b]
  OBVIOUS
<1>6. \E n \in Names : AllNamed(n)'
  BY <1>4, <1>5, NamesCarried
<1> QED
  BY <1>2, <1>3, <1>6

\* A request that gives out no id.
LEMMA ApiKeeps ==
  ASSUME ReleaseInv, UNCHANGED <<feed, clean, given, aged>>, clobbered \subseteq clobbered',
         NEW q \in Requests, NEW c, CallShape(c), call' = [call EXCEPT ![q] = c],
         release' \in [ReleaseKeys -> ReleaseRows \cup {NULL}], Stored' \subseteq given, deploy' \in [ReleaseKeys -> Nat],
         \A id \in Stored' : id \in Stored \/ id \in clobbered',
         \A x \in linked : x \in linked' \/ x[1] \notin Stored',
         linked' \subseteq Stored' \X SDKProjects, tagged' \subseteq TagShape,
         \A t \in tagged' : t.release # NULL => t \in tagged /\ t.release \in Stored',
         NewIdsBare', DeploysCounted', EnvsHome',
         \A name \in Names : AllNamed(name) =>
           /\ \A id \in Stored' : name[id] = <<release'[id].org, release'[id].version>>
           /\ \A x \in linked' : x \in linked \/ \E v \in Versions : name[x[1]] = <<OrgOf[x[2]], v>>
           /\ CallNamed(c, name)'
  PROVE  ReleaseInv'
<1>1. Carried
  BY DEF Carried
<1>2. PICK name \in Names : AllNamed(name)
  BY DEF ReleaseInv
<1>3. given' \subseteq ReleaseKeys /\ Stored' \subseteq given'
  BY DEF ReleaseInv, ReleaseShape
<1> QED
  BY <1>1, <1>2, <1>3, RequestStep

\* One that changes nothing but files, and goes on to a call that does not count.
LEMMA ApiQuiet ==
  ASSUME ReleaseInv, UNCHANGED <<feed, clean, given, aged, clobbered, release, deploy, linked, tagged>>, EnvsHome',
         NEW q \in Requests, NEW c, CallShape(c), call' = [call EXCEPT ![q] = c], call[q].at # "count", c.at # "count",
         \A name \in Names : AllNamed(name) => CallNamed(c, name)
  PROVE  ReleaseInv'
<1> USE DEF ReleaseInv
<1>1. Stored' = Stored
  BY DEF Stored
<1>2. \A id : Counting(id)' = Counting(id)
  BY NotCounting
<1>3. DeploysCounted' /\ NewIdsBare'
  BY <1>1, <1>2, CountsCarried DEF NewIdsBare
<1>4. /\ release' \in [ReleaseKeys -> ReleaseRows \cup {NULL}] /\ Stored' \subseteq given /\ deploy' \in [ReleaseKeys -> Nat]
      /\ linked' \subseteq Stored' \X SDKProjects /\ tagged' \subseteq TagShape
  BY <1>1 DEF ReleaseShape
<1>5. PICK n \in Names : AllNamed(n)
  OBVIOUS
<1>6. \A t \in tagged' : t.release # NULL => t \in tagged /\ t.release \in Stored'
  BY <1>1, <1>5 DEF AllNamed, TagsNamed, TagNamed
<1>7. ASSUME NEW name \in Names, AllNamed(name)
      PROVE  /\ \A id \in Stored' : name[id] = <<release'[id].org, release'[id].version>>
             /\ CallNamed(c, name)'
  BY <1>1, <1>7 DEF AllNamed, RowsNamed, CallNamed
<1> QED
  BY <1>1, <1>3, <1>4, <1>6, <1>7, ApiKeeps

LEMMA ApiAnswers ==
  ASSUME ReleaseInv, UNCHANGED <<feed, clean, given, aged, clobbered, release, deploy, linked, tagged>>, EnvsHome',
         NEW q \in Requests, call' = [call EXCEPT ![q] = NoCall], call[q].at # "count"
  PROVE  ReleaseInv'
<1>1. \A name : CallNamed(NoCall, name)
  BY NoCallIs DEF CallNamed, ReadOps
<1> QED
  BY <1>1, NoCallIs, ApiQuiet

LEMMA ReleaseAdded ==
  ASSUME ReleaseInv, NEW q \in Requests, NEW o \in ReleaseOrgs, NEW v \in Versions,
         NEW ps \in SUBSET {p \in SDKProjects : OrgOf[p] = o}, get_release(o, v) = {} => Unused # {}, create_release(q, o, v, ps)
  PROVE  ReleaseInv'
<1> USE DEF ReleaseInv
<1>1. PICK i : i = IF get_release(o, v) = {} THEN NextId ELSE CHOOSE id \in get_release(o, v) : TRUE
  OBVIOUS
<1>2. PICK c : c = [at |-> "add", id |-> i, projects |-> ps]
  OBVIOUS
<1>3. c.at = "add" /\ c.id = i /\ c.projects = ps
  BY <1>2
<1>4. /\ call[q].at = "idle" /\ call' = [call EXCEPT ![q] = c]
      /\ UNCHANGED <<linked, deploy, bundle, tagged, clobbered, aged, environs, envproject, feed, clean, nightsLeft>>
      /\ IF get_release(o, v) = {}
         THEN given' = given \cup {NextId} /\ release' = [release EXCEPT ![NextId] = Row(o, v)]
         ELSE UNCHANGED <<given, release>>
  BY <1>1, <1>2 DEF create_release, Serve, UNCHANGEDByApi
<1>5. PICK ids : ids = IF get_release(o, v) = {} THEN {i} ELSE {}
  OBVIOUS
<1>6. Row(o, v) \in ReleaseRows /\ Row(o, v).org = o /\ Row(o, v).version = v /\ Row(o, v).deploys = 0
  BY RowIs
<1>7. Inserted(ids) /\ i \in Stored' /\ release'[i].org = o /\ release'[i].version = v
  <2>1. CASE get_release(o, v) = {}
    <3>1. ids = {i} /\ i \in Unused /\ given' = given \cup {i} /\ release' = [release EXCEPT ![i] = Row(o, v)]
      BY <1>1, <1>4, <1>5, <2>1, NextIdIs
    <3>2. i \in ReleaseKeys /\ release \in [ReleaseKeys -> ReleaseRows \cup {NULL}]
      BY <3>1 DEF Unused, ReleaseShape
    <3>3. /\ release'[i] = Row(o, v) /\ \A id \in ReleaseKeys \ ids : release'[id] = release[id]
          /\ release' \in [ReleaseKeys -> ReleaseRows \cup {NULL}]
      BY <1>6, <3>1, <3>2
    <3>4. Inserted(ids)
      BY <1>4, <1>6, <3>1, <3>3 DEF Inserted
    <3> QED
      BY <1>6, <3>2, <3>3, <3>4, ReleaseConstants DEF Stored
  <2>2. CASE get_release(o, v) # {}
    <3>1. ids = {} /\ i \in get_release(o, v) /\ given' = given /\ release' = release
      BY <1>1, <1>4, <1>5, <2>2
    <3>2. Inserted(ids)
      BY <1>4, <3>1 DEF Inserted, ReleaseShape
    <3> QED
      BY <3>1, <3>2 DEF get_release, get_releases_queryset, Stored
  <2> QED
    BY <2>1, <2>2
<1>8. \A id : Counting(id)' = Counting(id)
  <2>1. call[q].at # "count" /\ c.at # "count"
    BY <1>3, <1>4
  <2> QED
    BY <1>4, <2>1, NotCounting
<1>9. /\ Stored' = Stored \cup ids /\ Carried /\ DeploysCounted' /\ NewIdsBare' /\ EnvsHome'
      /\ given' \subseteq ReleaseKeys /\ Stored' \subseteq given'
  BY <1>7, <1>8, InsertedKeeps
<1>10. CallShape(c)
  BY <1>3, <1>7 DEF CallShape, ReadOps, Stored
<1>11. PICK name \in Names : AllNamed(name)
  OBVIOUS
<1>12. PICK more \in Names : (\A id \in given : more[id] = name[id])
                             /\ \A id \in Stored' : more[id] = <<release'[id].org, release'[id].version>>
  BY <1>7, <1>11, NamesInserted
<1>13. CallNamed(c, more)'
  <2>1. i \in given' /\ more[i] = <<o, v>>
    BY <1>7, <1>9, <1>12
  <2>2. \A p \in ps : OrgOf[p] = o
    OBVIOUS
  <2> QED
    BY <1>3, <2>1, <2>2 DEF CallNamed, ReadOps
<1>14. ASSUME NEW t \in tagged', t.release # NULL PROVE t \in tagged /\ t.release \in Stored'
  BY <1>4, <1>9, <1>11, <1>14 DEF AllNamed, TagsNamed, TagNamed
<1>15. /\ release' \in [ReleaseKeys -> ReleaseRows \cup {NULL}] /\ deploy' \in [ReleaseKeys -> Nat]
       /\ linked' \subseteq Stored' \X SDKProjects /\ tagged' \subseteq TagShape /\ linked' = linked
  BY <1>4, <1>7, <1>9 DEF Inserted, ReleaseShape
<1> QED
  BY <1>4, <1>9, <1>10, <1>11, <1>12, <1>13, <1>14, <1>15, RequestStep

LEMMA ProjectsAdded == ASSUME ReleaseInv, NEW q \in Requests, AddProjects(q) PROVE ReleaseInv'
<1> USE DEF ReleaseInv
<1>1. /\ call[q].at = "add" /\ call' = [call EXCEPT ![q] = NoCall]
      /\ UNCHANGED <<release, given, deploy, bundle, tagged, clobbered, aged, environs, envproject, feed, clean>>
      /\ linked' = IF call[q].id \in Stored THEN linked \cup ({call[q].id} \X call[q].projects) ELSE linked
  BY DEF AddProjects, Answer, UNCHANGEDByApi
<1>2. call[q].id \in ReleaseKeys /\ call[q].projects \subseteq SDKProjects
  BY <1>1, CallsAre DEF CallShape
<1>3. Stored' = Stored
  BY <1>1 DEF Stored
<1>4. linked \subseteq linked' /\ linked' \subseteq Stored' \X SDKProjects
  BY <1>1, <1>2, <1>3 DEF ReleaseShape
<1>5. NoCall.at # "count" /\ CallShape(NoCall) /\ call[q].at # "count"
  BY <1>1, NoCallIs
<1>6. \A id : Counting(id)' = Counting(id)
  BY <1>1, <1>5, NotCounting
<1>7. DeploysCounted' /\ NewIdsBare' /\ EnvsHome'
  BY <1>1, <1>3, <1>6, CountsCarried DEF NewIdsBare, EnvsHome
<1>8. PICK n \in Names : AllNamed(n)
  OBVIOUS
<1>9. \A t \in tagged' : t.release # NULL => t \in tagged /\ t.release \in Stored'
  BY <1>1, <1>3, <1>8 DEF AllNamed, TagsNamed, TagNamed
<1>10. ASSUME NEW name \in Names, AllNamed(name)
       PROVE  /\ \A id \in Stored' : name[id] = <<release'[id].org, release'[id].version>>
              /\ \A x \in linked' : x \in linked \/ \E v \in Versions : name[x[1]] = <<OrgOf[x[2]], v>>
              /\ CallNamed(NoCall, name)'
  <2>1. \A p \in call[q].projects : \E v \in Versions : name[call[q].id] = <<OrgOf[p], v>>
    BY <1>1, <1>10 DEF AllNamed, CallsNamed, CallNamed
  <2>2. \A x \in {call[q].id} \X call[q].projects : \E v \in Versions : name[x[1]] = <<OrgOf[x[2]], v>>
    BY <2>1
  <2>3. \A x \in linked' : x \in linked \/ \E v \in Versions : name[x[1]] = <<OrgOf[x[2]], v>>
    BY <1>1, <2>2
  <2>4. CallNamed(NoCall, name)'
    BY NoCallIs DEF CallNamed, ReadOps
  <2>5. \A id \in Stored' : name[id] = <<release'[id].org, release'[id].version>>
    BY <1>1, <1>3, <1>10 DEF AllNamed, RowsNamed
  <2> QED
    BY <2>3, <2>4, <2>5
<1>11. release' \in [ReleaseKeys -> ReleaseRows \cup {NULL}] /\ Stored' \subseteq given /\ deploy' \in [ReleaseKeys -> Nat]
       /\ tagged' \subseteq TagShape
  BY <1>1, <1>3 DEF ReleaseShape
<1> QED
  BY <1>1, <1>3, <1>4, <1>5, <1>7, <1>9, <1>10, <1>11, ApiKeeps

LEMMA ReleaseRead ==
  ASSUME ReleaseInv, NEW q \in Requests, NEW ids \in SUBSET Stored, NEW op \in {"put", "deploy", "commits"}, ReadRelease(q, ids, op)
  PROVE  ReleaseInv'
<1> USE DEF ReleaseInv
<1>1. PICK id \in ids : Serve(q, [at |-> op, id |-> id, row |-> release[id]])
  BY DEF ReadRelease
<1>2. UNCHANGED <<release, given, linked, deploy, bundle, tagged, clobbered, aged, environs, envproject, feed, clean>>
  BY DEF ReadRelease, UNCHANGEDByApi
<1>3. PICK c : c = [at |-> op, id |-> id, row |-> release[id]]
  OBVIOUS
<1>4. call[q].at = "idle" /\ call' = [call EXCEPT ![q] = c]
  BY <1>1, <1>3 DEF Serve
<1>5. c.at = op /\ c.id = id /\ c.row = release[id] /\ id \in Stored /\ id \in given /\ id \in ReleaseKeys /\ release[id] \in ReleaseRows
  BY <1>3 DEF Stored, ReleaseShape
<1>6. CallShape(c)
  <2>1. c \in [at : ReadOps, id : ReleaseKeys, row : ReleaseRows]
    BY <1>3, <1>5 DEF ReadOps
  <2> QED
    BY <1>5, <2>1 DEF CallShape, ReadOps
<1>7. ASSUME NEW name \in Names, AllNamed(name) PROVE CallNamed(c, name)
  BY <1>5, <1>7 DEF AllNamed, RowsNamed, CallNamed, ReadOps
<1>8. EnvsHome'
  BY <1>2 DEF EnvsHome
<1> QED
  BY <1>2, <1>4, <1>5, <1>6, <1>7, <1>8, ApiQuiet

\* What a request that has read a release holds.
LEMMA HeldRow ==
  ASSUME ReleaseInv, NEW q \in Requests, call[q].at \in ReadOps
  PROVE  /\ call[q] \in [at : ReadOps, id : ReleaseKeys, row : ReleaseRows] /\ call[q].id \in ReleaseKeys
         /\ call[q].row \in ReleaseRows /\ call[q].id \in given
         /\ \A name : AllNamed(name) => name[call[q].id] = <<call[q].row.org, call[q].row.version>>
<1>1. CallShape(call[q])
  BY CallsAre DEF ReleaseInv
<1>2. \A name : AllNamed(name) => CallNamed(call[q], name)
  BY DEF AllNamed, CallsNamed
<1>3. call[q].id \in given
  BY <1>2 DEF ReleaseInv, CallNamed, ReadOps
<1> QED
  BY <1>1, <1>2, <1>3 DEF CallShape, CallNamed

\* A request that writes one row, of an id given out, and keeps its name.
LEMMA RowWritten ==
  ASSUME ReleaseInv, UNCHANGED <<feed, clean, given, aged, linked, tagged, environs, envproject>>, clobbered \subseteq clobbered',
         NEW q \in Requests, NEW c, CallShape(c), call' = [call EXCEPT ![q] = c], NewIdsBare', DeploysCounted',
         deploy' \in [ReleaseKeys -> Nat], NEW i \in given, NEW row \in ReleaseRows, release' = [release EXCEPT ![i] = row],
         i \in Stored \/ i \in clobbered',
         \A name : AllNamed(name) => name[i] = <<row.org, row.version>> /\ CallNamed(c, name)
  PROVE  ReleaseInv'
<1> USE DEF ReleaseInv
<1>1. i \in ReleaseKeys /\ Stored \subseteq given /\ release \in [ReleaseKeys -> ReleaseRows \cup {NULL}]
  BY DEF ReleaseShape
<1>2. Stored' = Stored \cup {i} /\ release'[i] = row /\ \A id \in ReleaseKeys : id # i => release'[id] = release[id]
  BY <1>1, ReleaseConstants DEF Stored
<1>3. /\ release' \in [ReleaseKeys -> ReleaseRows \cup {NULL}] /\ Stored' \subseteq given
      /\ linked' \subseteq Stored' \X SDKProjects /\ tagged' \subseteq TagShape /\ EnvsHome'
  BY <1>1, <1>2 DEF ReleaseShape, EnvsHome
<1>4. PICK n \in Names : AllNamed(n)
  OBVIOUS
<1>5. \A t \in tagged' : t.release # NULL => t \in tagged /\ t.release \in Stored'
  BY <1>2, <1>4 DEF AllNamed, TagsNamed, TagNamed
<1>6. ASSUME NEW name \in Names, AllNamed(name)
      PROVE  (\A id \in Stored' : name[id] = <<release'[id].org, release'[id].version>>) /\ CallNamed(c, name)'
  <2>1. \A id \in Stored' : id = i \/ id \in Stored
    BY <1>2
  <2>2. \A id \in Stored : name[id] = <<release[id].org, release[id].version>> /\ id \in ReleaseKeys
    BY <1>6 DEF AllNamed, RowsNamed, Stored
  <2>3. CallNamed(c, name)'
    BY <1>6 DEF CallNamed
  <2> QED
    BY <1>2, <1>6, <2>1, <2>2, <2>3
<1> QED
  BY <1>2, <1>3, <1>5, <1>6, ApiKeeps

LEMMA NoCallNamed == \A name : CallNamed(NoCall, name)
BY NoCallIs DEF CallNamed, ReadOps

LEMMA ReleaseUpdated == ASSUME ReleaseInv, NEW q \in Requests, update_release(q) PROVE ReleaseInv'
<1> USE DEF ReleaseInv
<1>1. /\ call[q].at = "put" /\ call' = [call EXCEPT ![q] = NoCall]
      /\ UNCHANGED <<given, linked, deploy, bundle, tagged, aged, environs, envproject, feed, clean>>
  BY DEF update_release, Answer, UNCHANGEDByApi
<1>2. PICK i, old : i = call[q].id /\ old = call[q].row
  OBVIOUS
<1>3. i \in given /\ i \in ReleaseKeys /\ old \in ReleaseRows /\ \A name : AllNamed(name) => name[i] = <<old.org, old.version>>
  BY <1>1, <1>2, HeldRow DEF ReadOps
<1>4. NoCall.at # "count" /\ CallShape(NoCall) /\ call[q].at # "count"
  BY <1>1, NoCallIs
<1>5. \A id : Counting(id)' = Counting(id)
  BY <1>1, <1>4, NotCounting
<1>6. CASE UNCHANGED <<release, clobbered>>
  BY <1>1, <1>4, <1>6, ApiAnswers DEF EnvsHome
<1>7. CASE ~UNCHANGED <<release, clobbered>>
  <2>1. PICK row : row = [old EXCEPT !.ref = "edited"]
    OBVIOUS
  <2>2. row \in ReleaseRows /\ row.org = old.org /\ row.version = old.version /\ row.deploys = old.deploys
    BY <1>3, <2>1 DEF ReleaseRows
  <2>3. /\ release' = [release EXCEPT ![i] = row]
        /\ clobbered' = IF i \in Stored /\ release[i].deploys = old.deploys THEN clobbered ELSE clobbered \cup {i}
    BY <1>2, <1>7, <2>1 DEF update_release
  <2>4. release'[i] = row /\ \A id \in ReleaseKeys : id # i => release'[id] = release[id]
    BY <1>3, <2>3 DEF ReleaseShape
  <2>5. i \in Stored \/ i \in clobbered'
    BY <2>3
  <2>6. ASSUME NEW id \in Stored' \ clobbered'
        PROVE  id \in Stored /\ release'[id].deploys = release[id].deploys /\ deploy'[id] = deploy[id]
    <3>1. CASE id = i
      BY <1>1, <2>2, <2>3, <2>4, <2>6, <3>1
    <3>2. CASE id # i
      BY <1>1, <2>4, <2>6, <3>2 DEF Stored
    <3> QED
      BY <3>1, <3>2
  <2>7. DeploysCounted'
    BY <1>1, <1>5, <2>3, <2>6, CountsCarried
  <2>8. NewIdsBare' /\ deploy' \in [ReleaseKeys -> Nat]
    BY <1>1 DEF NewIdsBare, ReleaseShape
  <2>9. \A name : AllNamed(name) => name[i] = <<row.org, row.version>> /\ CallNamed(NoCall, name)
    BY <1>3, <2>2, NoCallNamed
  <2> QED
    BY <1>1, <1>3, <1>4, <2>2, <2>3, <2>5, <2>7, <2>8, <2>9, RowWritten
<1> QED
  BY <1>6, <1>7

LEMMA CommitsCreated == ASSUME ReleaseInv, NEW q \in Requests, create_commits(q) PROVE ReleaseInv'
<1> USE DEF ReleaseInv
<1>1. /\ call[q].at = "commits" /\ call' = [call EXCEPT ![q] = NoCall]
      /\ UNCHANGED <<given, linked, deploy, bundle, tagged, aged, environs, envproject, feed, clean, clobbered>>
  BY DEF create_commits, Answer, UNCHANGEDByApi
<1>2. PICK i : i = call[q].id
  OBVIOUS
<1>3. i \in given /\ i \in ReleaseKeys
  BY <1>1, <1>2, HeldRow DEF ReadOps
<1>4. NoCall.at # "count" /\ CallShape(NoCall) /\ call[q].at # "count"
  BY <1>1, NoCallIs
<1>5. \A id : Counting(id)' = Counting(id)
  BY <1>1, <1>4, NotCounting
<1>6. CASE i \notin Stored
  BY <1>1, <1>2, <1>4, <1>6, ApiAnswers DEF create_commits, EnvsHome
<1>7. CASE i \in Stored
  <2>1. PICK old : old = release[i]
    OBVIOUS
  <2>2. PICK row : row = [old EXCEPT !.commits = 1]
    OBVIOUS
  <2>3. old \in ReleaseRows
    BY <1>7, <2>1 DEF ReleaseShape, Stored
  <2>4. row \in ReleaseRows /\ row.org = old.org /\ row.version = old.version /\ row.deploys = old.deploys
    BY <2>2, <2>3 DEF ReleaseRows
  <2>5. release' = [release EXCEPT ![i] = row]
    BY <1>2, <1>7, <2>1, <2>2 DEF create_commits
  <2>6. release'[i] = row /\ \A id \in ReleaseKeys : id # i => release'[id] = release[id]
    BY <1>3, <2>5 DEF ReleaseShape
  <2>7. ASSUME NEW id \in Stored' \ clobbered'
        PROVE  id \in Stored /\ release'[id].deploys = release[id].deploys /\ deploy'[id] = deploy[id]
    <3>1. CASE id = i
      BY <1>1, <1>7, <2>1, <2>4, <2>6, <3>1
    <3>2. CASE id # i
      BY <1>1, <2>6, <2>7, <3>2 DEF Stored
    <3> QED
      BY <3>1, <3>2
  <2>8. DeploysCounted'
    BY <1>1, <1>5, <2>7, CountsCarried
  <2>9. NewIdsBare' /\ deploy' \in [ReleaseKeys -> Nat] /\ clobbered \subseteq clobbered'
    BY <1>1 DEF NewIdsBare, ReleaseShape
  <2>10. \A name : AllNamed(name) => name[i] = <<row.org, row.version>> /\ CallNamed(NoCall, name)
    BY <1>7, <2>1, <2>4, NoCallNamed DEF AllNamed, RowsNamed
  <2> QED
    BY <1>1, <1>3, <1>4, <1>7, <2>4, <2>5, <2>8, <2>9, <2>10, RowWritten
<1> QED
  BY <1>6, <1>7

\* Finite counts go up and down by one.
LEMMA CountingFinite == ASSUME NEW id PROVE IsFiniteSet(Counting(id)) /\ Cardinality(Counting(id)) \in Nat
<1>1. Counting(id) \subseteq Requests
  BY DEF Counting
<1> QED
  BY <1>1, ReleaseConstants, FS_Subset, FS_CardinalityType

LEMMA DeployCreated == ASSUME ReleaseInv, NEW q \in Requests, create_deploy(q) PROVE ReleaseInv'
<1> USE DEF ReleaseInv
<1>1. /\ call[q].at = "deploy"
      /\ UNCHANGED <<release, given, linked, bundle, tagged, aged, environs, envproject, feed, clean, clobbered>>
  BY DEF create_deploy, UNCHANGEDByApi
<1>2. PICK i, g : i = call[q].id /\ g = call[q]
  OBVIOUS
<1>3. /\ i \in given /\ i \in ReleaseKeys /\ g \in [at : ReadOps, id : ReleaseKeys, row : ReleaseRows]
      /\ \A name : AllNamed(name) => name[i] = <<g.row.org, g.row.version>>
  BY <1>1, <1>2, HeldRow DEF ReadOps
<1>4. CASE i \notin Stored
  <2>1. call' = [call EXCEPT ![q] = NoCall] /\ UNCHANGED deploy /\ call[q].at # "count"
    BY <1>1, <1>2, <1>4 DEF create_deploy, Answer
  <2> QED
    BY <1>1, <2>1, ApiAnswers DEF EnvsHome
<1>5. CASE i \in Stored
  <2>1. deploy' = [deploy EXCEPT ![i] = @ + 1] /\ call' = [call EXCEPT ![q] = [g EXCEPT !.at = "count"]]
    BY <1>2, <1>5 DEF create_deploy
  <2>2. PICK c : c = [g EXCEPT !.at = "count"]
    OBVIOUS
  <2>3. c \in [at : ReadOps, id : ReleaseKeys, row : ReleaseRows] /\ c.at = "count" /\ c.id = g.id /\ c.row = g.row
    BY <1>3, <2>2 DEF ReadOps
  <2>4. CallShape(c)
    BY <2>3 DEF CallShape, ReadOps
  <2>5. \A k \in Requests : call'[k] = IF k = q THEN c ELSE call[k]
    BY <2>1, <2>2, CallsAre
  <2>6. Stored' = Stored
    BY <1>1 DEF Stored
  <2>7. Counting(i)' = Counting(i) \cup {q} /\ q \notin Counting(i)
    BY <1>1, <1>2, <2>3, <2>5 DEF Counting
  <2>8. \A id : id # i => Counting(id)' = Counting(id)
    BY <1>1, <1>2, <2>3, <2>5 DEF Counting
  <2>9. deploy'[i] = deploy[i] + 1 /\ deploy' \in [ReleaseKeys -> Nat] /\ \A id \in ReleaseKeys : id # i => deploy'[id] = deploy[id]
    BY <1>3, <2>1 DEF ReleaseShape
  <2>10. Cardinality(Counting(i)') = Cardinality(Counting(i)) + 1
    BY <2>7, CountingFinite, FS_AddElement
  <2>11. DeploysCounted'
    <3>1. ASSUME NEW id \in Stored' \ clobbered'
          PROVE  deploy'[id] = release'[id].deploys + Cardinality(Counting(id)') \/ id \in aged'
      <4>1. deploy[id] = release[id].deploys + Cardinality(Counting(id)) \/ id \in aged
        BY <1>1, <2>6 DEF DeploysCounted, Counting
      <4>2. CASE id = i
        <5>1. release[i].deploys \in Nat /\ Cardinality(Counting(i)) \in Nat
          BY <1>5, CountingFinite DEF ReleaseShape, Stored, ReleaseRows
        <5> QED
          BY <1>1, <2>9, <2>10, <4>1, <4>2, <5>1
      <4>3. CASE id # i
        <5>1. id \in ReleaseKeys /\ Counting(id)' = Counting(id) /\ release' = release /\ aged' = aged
          BY <1>1, <2>6, <2>8, <4>3 DEF Stored
        <5> QED
          BY <2>9, <4>1, <4>3, <5>1
      <4> QED
        BY <4>2, <4>3
    <3> QED
      BY <3>1 DEF DeploysCounted, Counting
  <2>12. NewIdsBare'
    BY <1>1, <1>3, <2>9 DEF NewIdsBare
  <2>13. EnvsHome' /\ release' \in [ReleaseKeys -> ReleaseRows \cup {NULL}] /\ Stored' \subseteq given
         /\ linked' \subseteq Stored' \X SDKProjects /\ tagged' \subseteq TagShape
    BY <1>1, <2>6 DEF EnvsHome, ReleaseShape
  <2>14. PICK n \in Names : AllNamed(n)
    OBVIOUS
  <2>15. \A t \in tagged' : t.release # NULL => t \in tagged /\ t.release \in Stored'
    BY <1>1, <2>6, <2>14 DEF AllNamed, TagsNamed, TagNamed
  <2>16. ASSUME NEW name \in Names, AllNamed(name)
         PROVE  /\ \A id \in Stored' : name[id] = <<release'[id].org, release'[id].version>>
                /\ CallNamed(c, name)'
    <3>1. CallNamed(c, name)'
      BY <1>1, <1>2, <1>3, <2>3, <2>16 DEF CallNamed, ReadOps
    <3>2. \A id \in Stored' : name[id] = <<release'[id].org, release'[id].version>>
      BY <1>1, <2>6, <2>16 DEF AllNamed, RowsNamed
    <3> QED
      BY <3>1, <3>2
  <2> QED
    BY <1>1, <2>1, <2>2, <2>4, <2>6, <2>9, <2>11, <2>12, <2>13, <2>15, <2>16, ApiKeeps
<1> QED
  BY <1>4, <1>5

LEMMA DeployCounted == ASSUME ReleaseInv, NEW q \in Requests, CountDeploy(q) PROVE ReleaseInv'
<1> USE DEF ReleaseInv
<1>1. /\ call[q].at = "count" /\ call' = [call EXCEPT ![q] = NoCall]
      /\ UNCHANGED <<given, linked, deploy, bundle, tagged, aged, environs, envproject, feed, clean, clobbered>>
  BY DEF CountDeploy, Answer, UNCHANGEDByApi
<1>2. PICK i : i = call[q].id
  OBVIOUS
<1>3. i \in given /\ i \in ReleaseKeys
  BY <1>1, <1>2, HeldRow DEF ReadOps
<1>4. \A k \in Requests : call'[k] = IF k = q THEN NoCall ELSE call[k]
  BY <1>1, CallsAre
<1>5. Counting(i)' = Counting(i) \ {q} /\ q \in Counting(i)
  BY <1>1, <1>2, <1>4, NoCallIs DEF Counting
<1>6. \A id : id # i => Counting(id)' = Counting(id)
  BY <1>1, <1>2, <1>4, NoCallIs DEF Counting
<1>7. Cardinality(Counting(i)') = Cardinality(Counting(i)) - 1 /\ Cardinality(Counting(i)) \in Nat
  BY <1>5, CountingFinite, FS_RemoveElement
<1>8. NewIdsBare' /\ deploy' \in [ReleaseKeys -> Nat] /\ clobbered \subseteq clobbered' /\ CallShape(NoCall)
  BY <1>1, NoCallIs DEF NewIdsBare, ReleaseShape
<1>9. CASE i \notin Stored
  <2>1. release' = release
    BY <1>2, <1>9 DEF CountDeploy
  <2>2. Stored' = Stored
    BY <2>1 DEF Stored
  <2>3. DeploysCounted'
    BY <1>1, <1>6, <1>9, <2>1, <2>2, CountsCarried
  <2>4. EnvsHome' /\ release' \in [ReleaseKeys -> ReleaseRows \cup {NULL}] /\ Stored' \subseteq given
         /\ linked' \subseteq Stored' \X SDKProjects /\ tagged' \subseteq TagShape
    BY <1>1, <2>1, <2>2 DEF EnvsHome, ReleaseShape
  <2>5. PICK n \in Names : AllNamed(n)
    OBVIOUS
  <2>6. \A t \in tagged' : t.release # NULL => t \in tagged /\ t.release \in Stored'
    BY <1>1, <2>2, <2>5 DEF AllNamed, TagsNamed, TagNamed
  <2>7. ASSUME NEW name \in Names, AllNamed(name)
        PROVE  /\ \A id \in Stored' : name[id] = <<release'[id].org, release'[id].version>>
               /\ CallNamed(NoCall, name)'
    <3>1. CallNamed(NoCall, name)'
      BY NoCallIs DEF CallNamed, ReadOps
    <3>2. \A id \in Stored' : name[id] = <<release'[id].org, release'[id].version>>
      BY <2>1, <2>2, <2>7 DEF AllNamed, RowsNamed
    <3> QED
      BY <3>1, <3>2
  <2> QED
    BY <1>1, <1>8, <2>2, <2>3, <2>4, <2>6, <2>7, ApiKeeps
<1>10. CASE i \in Stored
  <2>1. PICK old : old = release[i]
    OBVIOUS
  <2>2. PICK row : row = [old EXCEPT !.deploys = @ + 1]
    OBVIOUS
  <2>3. old \in ReleaseRows
    BY <1>10, <2>1 DEF ReleaseShape, Stored
  <2>4. row \in ReleaseRows /\ row.org = old.org /\ row.version = old.version /\ row.deploys = old.deploys + 1 /\ old.deploys \in Nat
    BY <2>2, <2>3 DEF ReleaseRows
  <2>5. release' = [release EXCEPT ![i] = row]
    BY <1>2, <1>10, <2>1, <2>2 DEF CountDeploy
  <2>6. release'[i] = row /\ \A id \in ReleaseKeys : id # i => release'[id] = release[id]
    BY <1>3, <2>5 DEF ReleaseShape
  <2>7. DeploysCounted'
    <3>1. ASSUME NEW id \in Stored' \ clobbered'
          PROVE  deploy'[id] = release'[id].deploys + Cardinality(Counting(id)') \/ id \in aged'
      <4>1. id \in Stored \ clobbered /\ id \in ReleaseKeys
        BY <1>1, <1>10, <2>6 DEF Stored
      <4>2. deploy[id] = release[id].deploys + Cardinality(Counting(id)) \/ id \in aged
        BY <4>1 DEF DeploysCounted, Counting
      <4>3. CASE id = i
        BY <1>1, <1>7, <2>1, <2>4, <2>6, <4>2, <4>3
      <4>4. CASE id # i
        <5>1. Counting(id)' = Counting(id) /\ release'[id] = release[id] /\ aged' = aged /\ deploy' = deploy
          BY <1>1, <1>6, <2>6, <4>1, <4>4
        <5> QED
          BY <4>2, <5>1
      <4> QED
        BY <4>3, <4>4
    <3> QED
      BY <3>1 DEF DeploysCounted, Counting
  <2>8. \A name : AllNamed(name) => name[i] = <<row.org, row.version>> /\ CallNamed(NoCall, name)
    BY <1>10, <2>1, <2>4, NoCallNamed DEF AllNamed, RowsNamed
  <2> QED
    BY <1>1, <1>3, <1>8, <1>10, <2>4, <2>5, <2>7, <2>8, RowWritten
<1> QED
  BY <1>9, <1>10

LEMMA RequestDied == ASSUME ReleaseInv, NEW q \in Requests, RequestDies(q) PROVE ReleaseInv'
<1> USE DEF ReleaseInv
<1>1. /\ call' = [call EXCEPT ![q] = NoCall]
      /\ UNCHANGED <<release, given, linked, deploy, bundle, tagged, aged, environs, envproject, feed, clean>>
      /\ clobbered' = IF call[q].at = "count" THEN clobbered \cup {call[q].id} ELSE clobbered
  BY DEF RequestDies, Answer, UNCHANGEDByApi
<1>2. CASE call[q].at # "count"
  BY <1>1, <1>2, ApiAnswers DEF EnvsHome
<1>3. CASE call[q].at = "count"
  <2>1. PICK i : i = call[q].id
    OBVIOUS
  <2>2. PICK row : row = release[i]
    OBVIOUS
  <2>3. \A k \in Requests : call'[k] = IF k = q THEN NoCall ELSE call[k]
    BY <1>1, CallsAre
  <2>4. \A id : id # i => Counting(id)' = Counting(id)
    BY <1>3, <2>1, <2>3, NoCallIs DEF Counting
  <2>5. Stored' = Stored /\ clobbered' = clobbered \cup {i}
    BY <1>1, <1>3, <2>1 DEF Stored
  <2>6. DeploysCounted' /\ NewIdsBare' /\ EnvsHome'
    BY <1>1, <2>4, <2>5, CountsCarried DEF NewIdsBare, EnvsHome
  <2>7. release' \in [ReleaseKeys -> ReleaseRows \cup {NULL}] /\ Stored' \subseteq given /\ deploy' \in [ReleaseKeys -> Nat]
        /\ linked' \subseteq Stored' \X SDKProjects /\ tagged' \subseteq TagShape /\ CallShape(NoCall)
    BY <1>1, <2>5, NoCallIs DEF ReleaseShape
  <2>8. PICK n \in Names : AllNamed(n)
    OBVIOUS
  <2>9. \A t \in tagged' : t.release # NULL => t \in tagged /\ t.release \in Stored'
    BY <1>1, <2>5, <2>8 DEF AllNamed, TagsNamed, TagNamed
  <2>10. ASSUME NEW name \in Names, AllNamed(name)
         PROVE  /\ \A id \in Stored' : name[id] = <<release'[id].org, release'[id].version>>
                /\ CallNamed(NoCall, name)'
    <3>1. CallNamed(NoCall, name)'
      BY NoCallIs DEF CallNamed, ReadOps
    <3>2. \A id \in Stored' : name[id] = <<release'[id].org, release'[id].version>>
      BY <1>1, <2>5, <2>10 DEF AllNamed, RowsNamed
    <3> QED
      BY <3>1, <3>2
  <2> QED
    BY <1>1, <2>5, <2>6, <2>7, <2>9, <2>10, ApiKeeps
<1> QED
  BY <1>2, <1>3

\* Releases that are deleted, with their links and deploys.
LEMMA ReleasesDeleted ==
  ASSUME ReleaseInv, NEW q \in Requests, NEW ids \in SUBSET Stored, delete_organization_release(q, ids) PROVE ReleaseInv'
<1> USE DEF ReleaseInv
<1>1. /\ call[q].at = "idle" /\ call' = [call EXCEPT ![q] = NoCall]
      /\ UNCHANGED <<given, clobbered, aged, environs, envproject, feed, clean>>
      /\ release' = [id \in ReleaseKeys |-> IF id \in ids THEN NULL ELSE release[id]]
      /\ deploy' = [id \in ReleaseKeys |-> IF id \in ids THEN 0 ELSE deploy[id]]
      /\ linked' = { x \in linked : x[1] \notin ids }
      /\ tagged' = Untagged(ids)
  BY DEF delete_organization_release, Serve, UNCHANGEDByApi
<1>2. Stored' = Stored \ ids
  BY <1>1 DEF Stored
<1>3. release' \in [ReleaseKeys -> ReleaseRows \cup {NULL}] /\ deploy' \in [ReleaseKeys -> Nat] /\ Stored' \subseteq given
  BY <1>1, <1>2 DEF ReleaseShape
<1>4. linked' \subseteq Stored' \X SDKProjects /\ linked' \subseteq linked /\ \A x \in linked : x \in linked' \/ x[1] \notin Stored'
  <2>1. \A x \in linked : x \in Stored \X SDKProjects
    BY DEF ReleaseShape
  <2> QED
    BY <1>1, <1>2, <2>1
<1>5. PICK n \in Names : AllNamed(n)
  OBVIOUS
<1>6. ASSUME NEW t \in tagged' PROVE t \in TagShape /\ (t.release # NULL => t \in tagged /\ t.release \in Stored')
  <2>1. PICK u \in tagged : t = IF u.release \in ids THEN [u EXCEPT !.release = NULL] ELSE u
    BY <1>1, <1>6 DEF Untagged
  <2>2. u \in TagShape
    BY DEF ReleaseShape
  <2>3. CASE u.release \in ids
    BY <2>1, <2>2, <2>3 DEF TagShape
  <2>4. CASE u.release \notin ids
    BY <1>2, <1>5, <2>1, <2>2, <2>4 DEF AllNamed, TagsNamed, TagNamed
  <2> QED
    BY <2>3, <2>4
<1>7. NoCall.at # "count" /\ CallShape(NoCall) /\ call[q].at # "count"
  BY <1>1, NoCallIs
<1>8. \A id : Counting(id)' = Counting(id)
  BY <1>1, <1>7, NotCounting
<1>9. \A id \in Stored' : id \in ReleaseKeys /\ id \in Stored /\ release'[id] = release[id] /\ deploy'[id] = deploy[id]
  BY <1>1, <1>2 DEF Stored
<1>10. DeploysCounted' /\ EnvsHome'
  BY <1>1, <1>8, <1>9, CountsCarried DEF EnvsHome
<1>11. NewIdsBare'
  BY <1>1 DEF NewIdsBare
<1>12. ASSUME NEW name \in Names, AllNamed(name)
       PROVE  /\ \A id \in Stored' : name[id] = <<release'[id].org, release'[id].version>>
              /\ CallNamed(NoCall, name)'
  <2>1. CallNamed(NoCall, name)'
    BY NoCallIs DEF CallNamed, ReadOps
  <2>2. \A id \in Stored' : name[id] = <<release'[id].org, release'[id].version>>
    BY <1>9, <1>12 DEF AllNamed, RowsNamed
  <2> QED
    BY <2>1, <2>2
<1>13. tagged' \subseteq TagShape /\ \A t \in tagged' : t.release # NULL => t \in tagged /\ t.release \in Stored'
  BY <1>6
<1> QED
  BY <1>1, <1>3, <1>4, <1>7, <1>9, <1>10, <1>11, <1>12, <1>13, ApiKeeps

LEMMA FileUploaded ==
  ASSUME ReleaseInv, NEW q \in Requests, NEW id, NEW f, NEW debug, UploadFile(q, id, f, debug) PROVE ReleaseInv'
<1>1. /\ call[q].at = "idle" /\ call' = [call EXCEPT ![q] = NoCall]
      /\ UNCHANGED <<release, given, linked, deploy, tagged, clobbered, aged, environs, envproject, feed, clean>>
  BY DEF UploadFile, Serve, UNCHANGEDByApi
<1> QED
  BY <1>1, ApiAnswers DEF EnvsHome, ReleaseInv

LEMMA FileDeleted ==
  ASSUME ReleaseInv, NEW q \in Requests, NEW ids, NEW f, delete_organization_release_file(q, ids, f) PROVE ReleaseInv'
<1>1. /\ call[q].at = "idle" /\ call' = [call EXCEPT ![q] = NoCall]
      /\ UNCHANGED <<release, given, linked, deploy, tagged, clobbered, aged, environs, envproject, feed, clean>>
  BY DEF delete_organization_release_file, Serve, UNCHANGEDByApi
<1> QED
  BY <1>1, ApiAnswers DEF EnvsHome, ReleaseInv

LEMMA EnvironmentUpdated ==
  ASSUME ReleaseInv, NEW q \in Requests, NEW e, NEW hidden, update_environment_project(q, e, hidden) PROVE ReleaseInv'
<1>1. /\ call[q].at = "idle" /\ call' = [call EXCEPT ![q] = NoCall] /\ DOMAIN envproject' = DOMAIN envproject
      /\ UNCHANGED <<release, given, linked, deploy, tagged, clobbered, aged, environs, feed, clean>>
  BY DEF update_environment_project, Serve
<1>2. EnvsHome'
  BY <1>1 DEF EnvsHome, ReleaseInv
<1> QED
  BY <1>1, <1>2, ApiAnswers

LEMMA QuerysetsStored ==
  /\ \A o, v : get_release(o, v) \subseteq Stored
  /\ \A p, v : get_project_release(p, v) \subseteq Stored
BY DEF get_release, get_project_release, list_project_releases, get_releases_queryset

LEMMA ApiStepInv == ReleaseInv /\ ApiNext => ReleaseInv'
<1> SUFFICES ASSUME ReleaseInv, ApiNext PROVE ReleaseInv'
  OBVIOUS
<1>1. PICK q \in Requests :
  \/ \E v \in Versions :
       \/ \E o \in ReleaseOrgs : \E ps \in SUBSET { p \in SDKProjects : OrgOf[p] = o } \ {{}} :
            (get_release(o, v) = {} => Unused # {}) /\ create_release(q, o, v, ps)
       \/ \E o \in ReleaseOrgs, op \in {"put", "deploy", "commits"} : ReadRelease(q, get_release(o, v), op)
       \/ \E p \in SDKProjects : ReadProjectRelease(q, p, v)
       \/ \E o \in ReleaseOrgs : delete_organization_release(q, get_release(o, v))
       \/ \E p \in SDKProjects : delete_project_release(q, p, v)
       \/ \E f \in Bundles :
            \/ \E o \in ReleaseOrgs : delete_organization_release_file(q, get_release(o, v), f)
            \/ \E p \in SDKProjects : delete_project_release_file(q, p, v, f)
  \/ AddProjects(q) \/ update_release(q) \/ create_deploy(q) \/ CountDeploy(q) \/ create_commits(q)
  \/ RequestDies(q)
  \/ \E id \in ReleaseKeys, f \in Bundles, debug \in BOOLEAN : UploadFile(q, id, f, debug)
  \/ \E e \in ReleaseOrgs \X EnvNames, p \in SDKProjects, hidden \in BOOLEAN :
       update_environment_project(q, <<e, p>>, hidden)
  BY DEF ApiNext
<1>2. ASSUME NEW v \in Versions, NEW o \in ReleaseOrgs, NEW ps \in SUBSET { p \in SDKProjects : OrgOf[p] = o } \ {{}},
             get_release(o, v) = {} => Unused # {}, create_release(q, o, v, ps)
      PROVE  ReleaseInv'
  <2>1. ps \in SUBSET {p \in SDKProjects : OrgOf[p] = o}
    OBVIOUS
  <2> QED
    BY <1>2, <2>1, ReleaseAdded
<1>3. ASSUME NEW v \in Versions, NEW o \in ReleaseOrgs, NEW op \in {"put", "deploy", "commits"}, ReadRelease(q, get_release(o, v), op)
      PROVE  ReleaseInv'
  BY <1>3, QuerysetsStored, ReleaseRead
<1>4. ASSUME NEW v \in Versions, NEW p \in SDKProjects, ReadProjectRelease(q, p, v) PROVE ReleaseInv'
  BY <1>4, QuerysetsStored, ReleaseRead DEF ReadProjectRelease
<1>5. ASSUME NEW v \in Versions, NEW o \in ReleaseOrgs, delete_organization_release(q, get_release(o, v)) PROVE ReleaseInv'
  BY <1>5, QuerysetsStored, ReleasesDeleted
<1>6. ASSUME NEW v \in Versions, NEW p \in SDKProjects, delete_project_release(q, p, v) PROVE ReleaseInv'
  BY <1>6, QuerysetsStored, ReleasesDeleted DEF delete_project_release
<1>7. ASSUME NEW v \in Versions, NEW o \in ReleaseOrgs, NEW f, delete_organization_release_file(q, get_release(o, v), f) PROVE ReleaseInv'
  BY <1>7, FileDeleted
<1>8. ASSUME NEW v \in Versions, NEW p \in SDKProjects, NEW f, delete_project_release_file(q, p, v, f) PROVE ReleaseInv'
  BY <1>8, FileDeleted DEF delete_project_release_file
<1>9. CASE AddProjects(q) \/ update_release(q) \/ create_deploy(q) \/ CountDeploy(q) \/ create_commits(q) \/ RequestDies(q)
  BY <1>9, ProjectsAdded, ReleaseUpdated, DeployCreated, DeployCounted, CommitsCreated, RequestDied
<1>10. ASSUME NEW id, NEW f, NEW debug, UploadFile(q, id, f, debug) PROVE ReleaseInv'
  BY <1>10, FileUploaded
<1>11. ASSUME NEW e, NEW hidden, update_environment_project(q, e, hidden) PROVE ReleaseInv'
  BY <1>11, EnvironmentUpdated
<1> QED
  BY <1>1, <1>2, <1>3, <1>4, <1>5, <1>6, <1>7, <1>8, <1>9, <1>10, <1>11

LEMMA IngestStepInv == ReleaseInv /\ IngestNext => ReleaseInv'
BY RelatedLookedUp, ReleasesCreated, RowsReadBack, ReleasesLinked, EnvironmentsCreated, EventsTagged DEF IngestNext

(* The cleanup. *)
LEMMA CleanupKeeps ==
  ASSUME ReleaseInv, UNCHANGED <<given, linked, environs, envproject, feed, call, clobbered>>, aged \subseteq aged',
         clean' \in CleanShape, CleanSound', release' \in [ReleaseKeys -> ReleaseRows \cup {NULL}],
         Stored' \subseteq Stored, \A id \in Stored' : release'[id] = release[id], linked \subseteq Stored' \X SDKProjects,
         deploy' \in [ReleaseKeys -> Nat], tagged' \subseteq TagShape, NewIdsBare',
         \A t \in tagged' : t.release # NULL => t \in tagged /\ t.release \in Stored',
         \A id \in Stored' : id \in aged' \/ deploy'[id] = deploy[id]
  PROVE  ReleaseInv'
<1> USE DEF ReleaseInv
<1>1. Carried
  BY DEF Carried
<1>2. DeploysCounted'
  <2>1. \A id : Counting(id)' = Counting(id)
    BY DEF Counting
  <2> QED
    BY <2>1, CountsCarried
<1>3. ReleaseShape'
  <2>1. Stored' \subseteq given'
    BY DEF ReleaseShape
  <2> QED
    BY <2>1 DEF ReleaseShape
<1>4. EnvsHome'
  BY DEF EnvsHome
<1>5. PICK name \in Names : AllNamed(name)
  OBVIOUS
<1>6. \A id \in Stored' : name[id] = <<release'[id].org, release'[id].version>>
  BY <1>5 DEF AllNamed, RowsNamed
<1>7. \E n \in Names : AllNamed(n)'
  <2>1. \A q \in Requests : call'[q] = call[q]
    OBVIOUS
  <2>2. \A b \in DOMAIN feed' : b \in DOMAIN feed /\ feed'[b] = feed[b]
    OBVIOUS
  <2>3. \A x \in linked' : x \in linked
    OBVIOUS
  <2> QED
    BY <1>1, <1>5, <1>6, <2>1, <2>2, <2>3, NamesCarried
<1> QED
  BY <1>2, <1>3, <1>4, <1>7

\* One that leaves the tables alone.
LEMMA CleanupQuiet ==
  ASSUME ReleaseInv, UNCHANGED <<release, deploy, tagged, given, linked, environs, envproject, feed, call, clobbered>>,
         aged \subseteq aged', clean' \in CleanShape, CleanSound'
  PROVE  ReleaseInv'
<1> USE DEF ReleaseInv
<1>1. Stored' = Stored /\ linked \subseteq Stored' \X SDKProjects
  BY DEF Stored, ReleaseShape
<1>2. /\ release' \in [ReleaseKeys -> ReleaseRows \cup {NULL}] /\ deploy' \in [ReleaseKeys -> Nat] /\ tagged' \subseteq TagShape
      /\ NewIdsBare'
  BY DEF ReleaseShape, NewIdsBare
<1>3. PICK n \in Names : AllNamed(n)
  OBVIOUS
<1>4. \A t \in tagged' : t.release # NULL => t \in tagged /\ t.release \in Stored'
  BY <1>1, <1>3 DEF AllNamed, TagsNamed, TagNamed
<1> QED
  BY <1>1, <1>2, <1>4, CleanupKeeps

LEMMA NoCleanIs == NoClean \in CleanShape /\ NoClean.at = "idle" /\ NoClean.ids = {} /\ NoClean.tried = {}
BY DEF NoClean, CleanShape

\* A run that moves on to another statement, with the releases it has picked.
LEMMA CleanAt ==
  ASSUME ReleaseShape, NEW a \in {"files", "deploys", "drop", "pick"}, clean' = [clean EXCEPT !.at = a]
  PROVE  clean' \in CleanShape /\ clean'.at = a /\ clean'.ids = clean.ids /\ clean'.tried = clean.tried
BY DEF ReleaseShape, CleanShape

LEMMA CleanupStepInv == ReleaseInv /\ CleanupNext => ReleaseInv'
<1> SUFFICES ASSUME ReleaseInv, CleanupNext PROVE ReleaseInv'
  OBVIOUS
<1> USE DEF ReleaseInv, CleanSound
<1>0. clean \in CleanShape /\ clean.ids \subseteq ReleaseKeys /\ clean.tried \subseteq ReleaseKeys /\ Stored \subseteq given
  BY DEF ReleaseShape, CleanShape
<1>1. ASSUME NEW id, Age(id) PROVE ReleaseInv'
  <2>1. /\ UNCHANGED <<release, deploy, tagged, given, linked, environs, envproject, feed, call, clean, clobbered>>
        /\ aged \subseteq aged'
    BY <1>1 DEF Age
  <2>2. CleanSound'
    BY <2>1 DEF CleanupMovesOn, Stored
  <2> QED
    BY <1>0, <2>1, <2>2, CleanupQuiet
<1>2. CASE StartCleanup
  <2>1. /\ UNCHANGED <<release, deploy, tagged, given, aged, linked, environs, envproject, feed, call, clobbered>>
        /\ clean' = [NoClean EXCEPT !.at = "pick"]
    BY <1>2 DEF StartCleanup, UNCHANGEDByCleanup
  <2>2. clean' \in CleanShape /\ clean'.ids = {} /\ clean'.tried = {}
    BY <2>1, NoCleanIs DEF CleanShape
  <2>3. CleanSound'
    BY <2>2 DEF CleanupMovesOn
  <2> QED
    BY <2>1, <2>2, <2>3, CleanupQuiet
<1>3. CASE PickBatch
  <2>1. /\ UNCHANGED <<release, deploy, tagged, given, aged, linked, environs, envproject, feed, call, clobbered>>
        /\ clean.at = "pick"
        /\ \/ clean' = NoClean
           \/ clean' = [at |-> "unref", ids |-> Stored \cap aged, tried |-> clean.tried \cup clean.ids]
    BY <1>3 DEF PickBatch, UNCHANGEDByCleanup
  <2>2. Stored' = Stored /\ Stored \subseteq ReleaseKeys
    BY <2>1 DEF Stored
  <2>3. CASE clean' = NoClean
    BY <2>1, <2>3, NoCleanIs, CleanupQuiet DEF CleanupMovesOn
  <2>4. CASE clean' = [at |-> "unref", ids |-> Stored \cap aged, tried |-> clean.tried \cup clean.ids]
    <3>1. clean'.at = "unref" /\ clean'.ids = Stored \cap aged /\ clean'.tried = clean.tried \cup clean.ids
      BY <2>4
    <3>2. clean' \in CleanShape
      BY <1>0, <2>2, <2>4 DEF CleanShape
    <3>3. CleanSound'
      BY <1>0, <2>1, <2>2, <3>1 DEF CleanupMovesOn
    <3> QED
      BY <2>1, <3>2, <3>3, CleanupQuiet
  <2> QED
    BY <2>1, <2>3, <2>4
<1>4. CASE NullifyEvents
  <2>1. /\ UNCHANGED <<release, deploy, given, aged, linked, environs, envproject, feed, call, clobbered>>
        /\ clean' = [clean EXCEPT !.at = "files"] /\ tagged' = Untagged(clean.ids)
    BY <1>4 DEF NullifyEvents, UNCHANGEDByCleanup
  <2>2. Stored' = Stored
    BY <2>1 DEF Stored
  <2>3. clean' \in CleanShape /\ clean'.at = "files" /\ clean'.ids = clean.ids /\ clean'.tried = clean.tried
    BY <2>1, CleanAt
  <2>4. CleanSound'
    BY <2>1, <2>2, <2>3 DEF CleanupMovesOn
  <2>5. PICK n \in Names : AllNamed(n)
    OBVIOUS
  <2>6. ASSUME NEW t \in tagged' PROVE t \in TagShape /\ (t.release # NULL => t \in tagged /\ t.release \in Stored')
    <3>1. PICK u \in tagged : t = IF u.release \in clean.ids THEN [u EXCEPT !.release = NULL] ELSE u
      BY <2>1, <2>6 DEF Untagged
    <3>2. u \in TagShape
      BY DEF ReleaseShape
    <3>3. CASE u.release \in clean.ids
      BY <3>1, <3>2, <3>3 DEF TagShape
    <3>4. CASE u.release \notin clean.ids
      BY <2>2, <2>5, <3>1, <3>2, <3>4 DEF AllNamed, TagsNamed, TagNamed
    <3> QED
      BY <3>3, <3>4
  <2>7. /\ release' \in [ReleaseKeys -> ReleaseRows \cup {NULL}] /\ deploy' \in [ReleaseKeys -> Nat] /\ NewIdsBare'
        /\ linked \subseteq Stored' \X SDKProjects
    BY <2>1, <2>2 DEF ReleaseShape, NewIdsBare
  <2>8. tagged' \subseteq TagShape /\ \A t \in tagged' : t.release # NULL => t \in tagged /\ t.release \in Stored'
    BY <2>6
  <2> QED
    BY <2>1, <2>2, <2>3, <2>4, <2>7, <2>8, CleanupKeeps
<1>5. CASE NullifyFiles
  <2>1. /\ UNCHANGED <<release, deploy, tagged, given, aged, linked, environs, envproject, feed, call, clobbered>>
        /\ clean' = NoClean \/ clean' = [clean EXCEPT !.at = "deploys"]
    BY <1>5 DEF NullifyFiles, UNCHANGEDByCleanup
  <2>2. Stored' = Stored
    BY <2>1 DEF Stored
  <2>3. CASE clean' = NoClean
    BY <2>1, <2>3, NoCleanIs, CleanupQuiet DEF CleanupMovesOn
  <2>4. CASE clean' = [clean EXCEPT !.at = "deploys"]
    <3>1. clean' \in CleanShape /\ clean'.at = "deploys" /\ clean'.ids = clean.ids /\ clean'.tried = clean.tried
      BY <2>4, CleanAt
    <3>2. CleanSound'
      BY <2>1, <2>2, <3>1 DEF CleanupMovesOn
    <3> QED
      BY <2>1, <3>1, <3>2, CleanupQuiet
  <2> QED
    BY <2>1, <2>3, <2>4
<1>6. CASE DeleteDeploys
  <2>1. /\ UNCHANGED <<release, tagged, given, aged, linked, environs, envproject, feed, call, clobbered>>
        /\ clean' = [clean EXCEPT !.at = "drop"]
        /\ deploy' = [id \in ReleaseKeys |-> IF id \in clean.ids THEN 0 ELSE deploy[id]]
    BY <1>6 DEF DeleteDeploys, UNCHANGEDByCleanup
  <2>2. Stored' = Stored
    BY <2>1 DEF Stored
  <2>3. clean' \in CleanShape /\ clean'.at = "drop" /\ clean'.ids = clean.ids /\ clean'.tried = clean.tried
    BY <2>1, CleanAt
  <2>4. CleanSound'
    BY <2>1, <2>2, <2>3 DEF CleanupMovesOn
  <2>5. PICK n \in Names : AllNamed(n)
    OBVIOUS
  <2>6. \A t \in tagged' : t.release # NULL => t \in tagged /\ t.release \in Stored'
    BY <2>1, <2>2, <2>5 DEF AllNamed, TagsNamed, TagNamed
  <2>7. /\ release' \in [ReleaseKeys -> ReleaseRows \cup {NULL}] /\ deploy' \in [ReleaseKeys -> Nat] /\ NewIdsBare'
        /\ linked \subseteq Stored' \X SDKProjects /\ tagged' \subseteq TagShape
    BY <2>1, <2>2 DEF ReleaseShape, NewIdsBare
  <2>8. \A id \in Stored' : id \in aged' \/ deploy'[id] = deploy[id]
    <3>1. clean.ids \subseteq aged /\ Stored \subseteq ReleaseKeys
      BY DEF Stored
    <3> QED
      BY <2>1, <2>2, <3>1
  <2> QED
    BY <2>1, <2>2, <2>3, <2>4, <2>6, <2>7, <2>8, CleanupKeeps
<1>7. CASE DropBatch
  <2>1. UNCHANGED <<deploy, tagged, given, aged, linked, environs, envproject, feed, call, clobbered>>
    BY <1>7 DEF DropBatch, UNCHANGEDByCleanup
  <2>2. CASE StillNamed(clean.ids)
    <3>1. UNCHANGED release /\ clean' = NoClean
      BY <1>7, <2>2 DEF DropBatch
    <3> QED
      BY <2>1, <3>1, NoCleanIs, CleanupQuiet DEF CleanupMovesOn
  <2>3. CASE ~StillNamed(clean.ids)
    <3>1. /\ clean' = [clean EXCEPT !.at = "pick"]
          /\ release' = [id \in ReleaseKeys |-> IF id \in clean.ids THEN NULL ELSE release[id]]
      BY <1>7, <2>3 DEF DropBatch
    <3>2. Stored' = Stored \ clean.ids /\ \A id \in Stored' : release'[id] = release[id]
      BY <3>1 DEF Stored
    <3>3. clean' \in CleanShape /\ clean'.at = "pick" /\ clean'.ids = clean.ids /\ clean'.tried = clean.tried
      BY <3>1, CleanAt
    <3>4. CleanSound'
      BY <2>1, <3>2, <3>3 DEF CleanupMovesOn
    <3>5. ASSUME NEW x \in linked PROVE x \in Stored' \X SDKProjects
      <4>1. x \in Stored \X SDKProjects
        BY DEF ReleaseShape
      <4>2. x[1] \in Stored /\ x[2] \in SDKProjects /\ x = <<x[1], x[2]>>
        BY <4>1
      <4>3. x[1] \notin clean.ids
        BY <2>3, <4>2 DEF StillNamed
      <4> QED
        BY <3>2, <4>2, <4>3
    <3>6. PICK n \in Names : AllNamed(n)
      OBVIOUS
    <3>7. ASSUME NEW t \in tagged', t.release # NULL PROVE t \in tagged /\ t.release \in Stored'
      <4>1. t \in tagged /\ t.release \in Stored
        BY <2>1, <3>6, <3>7 DEF AllNamed, TagsNamed, TagNamed
      <4>2. t.release \notin clean.ids
        BY <2>3, <4>1 DEF StillNamed
      <4> QED
        BY <3>2, <4>1, <4>2
    <3>8. release' \in [ReleaseKeys -> ReleaseRows \cup {NULL}] /\ deploy' \in [ReleaseKeys -> Nat] /\ NewIdsBare'
          /\ tagged' \subseteq TagShape
      BY <2>1, <3>1 DEF ReleaseShape, NewIdsBare
    <3>9. \A id \in Stored' : deploy'[id] = deploy[id]
      BY <2>1
    <3> QED
      BY <2>1, <3>2, <3>3, <3>4, <3>5, <3>7, <3>8, <3>9, CleanupKeeps
  <2> QED
    BY <2>2, <2>3
<1> QED
  BY <1>1, <1>2, <1>3, <1>4, <1>5, <1>6, <1>7 DEF CleanupNext, CleanupStep

LEMMA ReleaseStepInv == ReleaseInv /\ [ReleasesNext]_releaseVars => ReleaseInv'
<1> SUFFICES ASSUME ReleaseInv, [ReleasesNext]_releaseVars PROVE ReleaseInv'
  OBVIOUS
<1>1. CASE UNCHANGED releaseVars
  <2>1. UNCHANGED <<release, deploy, tagged, given, linked, environs, envproject, feed, call, clobbered, aged, clean>>
    BY <1>1 DEF releaseVars
  <2>2. CleanSound' /\ clean' \in CleanShape
    BY <2>1 DEF ReleaseInv, ReleaseShape, CleanSound, CleanupMovesOn, Stored
  <2> QED
    BY <2>1, <2>2, CleanupQuiet
<1> QED
  BY <1>1, IngestStepInv, ApiStepInv, CleanupStepInv DEF ReleasesNext

LEMMA InitReleaseInv == ReleasesInit => ReleaseInv
<1> SUFFICES ASSUME ReleasesInit PROVE ReleaseInv
  OBVIOUS
<1>1. /\ release = [id \in ReleaseKeys |-> NULL] /\ given = {} /\ linked = {} /\ aged = {}
      /\ deploy = [id \in ReleaseKeys |-> 0] /\ environs = {} /\ envproject = << >> /\ tagged = {}
      /\ call = [q \in Requests |-> NoCall] /\ clean = NoClean /\ clobbered = {}
  BY DEF ReleasesInit
<1>2. PICK s \in Scenarios : feed = [b \in s.batches |-> NewFeed]
  BY DEF ReleasesInit
<1>3. Stored = {}
  BY <1>1 DEF Stored
<1>4. ReleaseShape
  <2>1. feed \in [DOMAIN feed -> FeedShape] /\ \A b \in DOMAIN feed : BatchShape(b)
    BY <1>2, NewFeedIs, ReleaseConstants DEF BatchShape
  <2>2. call = [q \in Requests |-> call[q]] /\ \A q \in Requests : CallShape(call[q])
    BY <1>1, NoCallIs
  <2> QED
    BY <1>1, <1>3, <2>1, <2>2, NoCleanIs DEF ReleaseShape
<1>5. NewIdsBare /\ DeploysCounted /\ CleanSound
  BY <1>1, <1>3, NoCleanIs DEF NewIdsBare, DeploysCounted, CleanSound, CleanupMovesOn
<1>6. EnvsHome
  BY <1>1 DEF EnvsHome
<1>7. PICK name : name = [id \in ReleaseKeys |-> NULL]
  OBVIOUS
<1>8. name \in Names /\ AllNamed(name)
  <2>1. FeedsNamed(name)
    BY <1>2, NewFeedIs DEF FeedsNamed, FeedNamed, NewFeed
  <2>2. CallsNamed(name)
    BY <1>1, NoCallNamed DEF CallsNamed
  <2> QED
    BY <1>1, <1>3, <1>7, <2>1, <2>2 DEF Names, AllNamed, RowsNamed, LinksNamed, TagsNamed
<1> QED
  BY <1>4, <1>5, <1>6, <1>8 DEF ReleaseInv

LEMMA ReleaseInvHolds == ReleaseInv => ReleasesHold
<1> SUFFICES ASSUME ReleaseInv PROVE ReleasesHold
  OBVIOUS
<1> USE DEF ReleaseInv
<1>1. PICK name \in Names : AllNamed(name)
  OBVIOUS
<1>2. LinksWithinOrg
  <2>1. ASSUME NEW x \in linked PROVE x[1] \in Stored /\ release[x[1]].org = OrgOf[x[2]]
    <3>1. x[1] \in Stored
      BY DEF ReleaseShape
    <3>2. name[x[1]] = <<release[x[1]].org, release[x[1]].version>> /\ \E v \in Versions : name[x[1]] = <<OrgOf[x[2]], v>>
      BY <1>1, <3>1 DEF AllNamed, RowsNamed, LinksNamed
    <3> QED
      BY <3>1, <3>2
  <2> QED
    BY <2>1 DEF LinksWithinOrg, EnvsHome
<1>3. EventsUnderTheirRelease
  <2>1. ASSUME NEW t \in tagged, t.release # NULL
        PROVE  /\ t.release \in Stored
               /\ release[t.release].version = t.version /\ release[t.release].org = OrgOf[t.project]
               /\ t.shared \/ t.release \in clobbered \/ t.release \in list_project_releases(t.project)
    <3>1. t.release \in Stored /\ name[t.release] = <<OrgOf[t.project], t.version>> /\ (t.shared \/ ListedFor(t.release, t.project))
      BY <1>1, <2>1 DEF AllNamed, TagsNamed, TagNamed
    <3>2. name[t.release] = <<release[t.release].org, release[t.release].version>>
      BY <1>1, <3>1 DEF AllNamed, RowsNamed
    <3>3. release[t.release].version = t.version /\ release[t.release].org = OrgOf[t.project]
      BY <3>1, <3>2
    <3> QED
      BY <3>1, <3>3 DEF ListedFor, list_project_releases, get_releases_queryset
  <2> QED
    BY <2>1 DEF EventsUnderTheirRelease
<1> QED
  BY <1>2, <1>3 DEF ReleasesHold, CleanSound

\* The parts of ReleaseInv hold in every state: the invariant the other theorem rests on
\* (releases/api.py, process_event.py 417-564, releases/maintenance.py).
THEOREM ReleasesInvariant == ReleasesSpec => []ReleaseInv
BY InitReleaseInv, ReleaseStepInv, PTL DEF ReleasesSpec

\* Releases, their links, their events and their counters agree however API calls,
\* ingest batches and the cleanup overlap.
THEOREM ReleasesStay == ReleasesSpec => []ReleasesHold
BY ReleasesInvariant, ReleaseInvHolds, PTL
==============================================================================
