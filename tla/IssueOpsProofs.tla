----------------------------- MODULE IssueOpsProofs -----------------------------
(***************************************************************************)
(* Proofs of two properties of the operations on issues.                   *)
(* EditsTheFrozenSet: for any number of issues and events, any limits of the *)
(* handler and chunks of the task, and any events and edits by users       *)
(* meanwhile, whatever the payload asks for.                               *)
(* DeletionsLeaveNoDebris: for any numbers of issues, events, hashes, of   *)
(* workers that store events and of runs of the deletion, whatever users ask *)
(* to delete.                                                              *)
(***************************************************************************)
EXTENDS BulkIssueUpdate, IssueLifecycle, FiniteSetTheorems, WellFoundedInduction, TLAPS

ApiPlaces == {"max", "first", "write", "target", "soft", "hashes", "events", "move", "count", "enqueue", "done"}
TaskPlaces == {"idle", "status", "set", "assign", "own", "merge", "soft", "hashes", "events", "move"}
Requested == [pc : ApiPlaces, op : {"status", "assign", "merge"}, filter : {"all", "unresolved"}, max : Nat,
              ids : SUBSET BulkIssues, target : BulkIssues \cup {NoRow}, evs : SUBSET BulkEvents]
Arriving == [pc : {"idle", "count", "reopen", "copy"}, ev : BulkEvents \cup {NoRow},
             issue : BulkIssues \cup {NoRow}, reopen : BOOLEAN]
Chunks == [pc : TaskPlaces, batch : SUBSET BulkIssues, evs : SUBSET BulkEvents, moved : Nat]
BulkTypeOK ==
  /\ last \in 0..MaxBulkIssues
  /\ status \in [BulkIssues -> Statuses] /\ count \in [BulkIssues -> Nat]
  /\ hashTarget \in [BulkIssues -> BulkIssues]
  /\ eventIssue \in [BulkEvents -> BulkIssues \cup {NoRow}]
  /\ soft \subseteq BulkIssues /\ matched \subseteq BulkIssues
  /\ edited \subseteq BulkIssues /\ written \subseteq BulkIssues
  /\ api \in Requested /\ ingest \in Arriving /\ task \in Chunks
  /\ bulkQueue \subseteq {"update_issues_task"}

\* Nothing is about an issue that is not there yet.
NothingAhead ==
  /\ api.max <= last /\ (api.target # NoRow => api.target <= last)
  /\ \A i \in BulkIssues : hashTarget[i] <= last \/ hashTarget[i] = i
  /\ \A e \in BulkEvents : eventIssue[e] # NoRow => eventIssue[e] <= last
  /\ \A i \in soft : i <= last
  /\ ingest.pc # "idle" => /\ ingest.ev \in BulkEvents /\ eventIssue[ingest.ev] = NoRow
                           /\ ingest.issue \in BulkIssues /\ ingest.issue <= last

\* What the handler holds: ids it froze, a target of a merge that is never its own
\* source, sources that are soft-deleted before their events are read.
Merging == {"soft", "hashes", "events", "move", "count"}
HandlerOK ==
  /\ api.pc # "max" => \A i \in matched \cup written \cup api.ids : i <= api.max
  /\ api.pc \in {"max", "first"} => written = {} /\ api.ids = {}
  /\ api.pc \in {"max", "first", "write", "target"} => soft = {}
  /\ api.pc = "write" => api.op # "merge"
  /\ api.pc \in Merging \cup {"target"} => api.op = "merge"
  /\ api.pc \in Merging \/ (api.pc = "enqueue" /\ api.op = "merge") => api.target \in 1..api.max
  /\ api.pc \in {"hashes", "events", "move"} => Sources \subseteq soft
  /\ api.pc = "move" => \A e \in api.evs : eventIssue[e] \in Sources
  /\ api.target \notin soft
  /\ api.op # "merge" => api.target = NoRow

\* What the task holds; it runs after the handler, for the same payload.
TaskBusy == bulkQueue # {} \/ task.pc # "idle"
TaskOK ==
  /\ TaskBusy => api.pc = "done" /\ (api.op = "merge" => api.target \in 1..api.max)
  /\ task.pc = "idle" => task = IdleTask
  /\ api.op # "merge" => task.moved = 0
  /\ task.pc \in {"status", "set"} => api.op = "status"
  /\ task.pc \in {"assign", "own"} => api.op = "assign"
  /\ task.pc \in {"merge", "soft", "hashes", "events", "move"} => api.op = "merge"
  /\ \A i \in task.batch : i <= api.max /\ i # api.target
  /\ task.pc \in {"hashes", "events", "move"} => task.batch \subseteq soft
  /\ task.pc = "move" => \A e \in task.evs : eventIssue[e] \in task.batch

\* The count of a visible issue, with the moved events that are not counted yet, is
\* the number of its events, with the one that is counted and not stored yet.
EventsAt(i) == {e \in BulkEvents : eventIssue[e] = i}
Uncounted(i) == (IF i = api.target /\ api.pc = "count" THEN Cardinality(api.evs) ELSE 0)
                + (IF i = api.target THEN task.moved ELSE 0)
Unstored(i) == IF ingest.pc \in {"reopen", "copy"} /\ ingest.issue = i THEN 1 ELSE 0
CountsOK == \A i \in Live : count[i] + Uncounted(i) = Cardinality(EventsAt(i)) + Unstored(i)

\* What became of a selected issue, and the issues that are still to be reached.
Reached(i) == \/ i \in written \cup edited \/ i = api.target
              \/ api.op = "status" /\ status[i] = "resolved"
Untouched(i) == i \notin written \cup edited
ReachOK ==
  /\ api.pc = "max" => matched = {}
  /\ api.pc # "max" => \A i \in matched : Untouched(i) => i \in Matching(api.filter)
  /\ api.pc \in {"write", "target"} \cup Merging \cup {"enqueue"} =>
       Cardinality(api.ids) = Limit \/ \A i \in matched : Untouched(i) => i \in api.ids
  /\ api.pc \in {"hashes", "events", "move", "count", "enqueue"} \/ TaskBusy =>
       \A i \in api.ids : i \in written \/ i = api.target
  /\ api.pc = "done" => TaskBusy \/ \A i \in matched : Reached(i)

BulkInv == BulkTypeOK /\ NothingAhead /\ HandlerOK /\ TaskOK /\ CountsOK /\ ReachOK
--------------------------------------------------------------------------------
\* Every inhabited set of naturals has a least member.
LEMMA LeastNatural == ASSUME NEW S, S \subseteq Nat, S # {} PROVE \E x \in S : \A y \in S : x <= y
<1>1. \A x, y \in Nat : <<y, x>> \in OpToRel(<, Nat) <=> y < x
  BY DEF OpToRel
<1>2. PICK x \in S : \A y \in S : ~(<<y, x>> \in OpToRel(<, Nat))
  BY NatLessThanWellFounded, WFMin
<1>3. ASSUME NEW y \in S PROVE x <= y
  <2>1. x \in Nat /\ y \in Nat /\ ~(y < x)
    BY <1>1, <1>2
  <2> QED
    BY <2>1
<1> QED
  BY <1>3

\* The highest id of a selection.
LEMMA MaxIs ==
  ASSUME NEW n \in Nat, NEW S, S \subseteq 1..n, S # {}
  PROVE  Max(S) \in S /\ \A x \in S : x <= Max(S)
<1>0. PICK T : T = {n - x : x \in S}
  OBVIOUS
<1>1. \A x \in S : x \in Nat /\ n - x \in Nat /\ n - x \in T
  BY <1>0
<1>2. T \subseteq Nat /\ T # {}
  BY <1>0, <1>1
<1>3. PICK m \in T : \A y \in T : m <= y
  BY <1>2, LeastNatural
<1>4. PICK k \in S : m = n - k
  BY <1>0
<1>5. ASSUME NEW x \in S PROVE k >= x /\ k \in Nat /\ x \in Nat
  <2>1. n - x \in T /\ x \in 1..n /\ k \in 1..n
    BY <1>1
  <2>2. n - k <= n - x
    BY <1>3, <1>4, <2>1
  <2> QED
    BY <2>1, <2>2
<1>6. \E x \in S : \A y \in S : x >= y
  BY <1>5
<1>7. Max(S) \in S /\ \A x \in S : Max(S) >= x
  BY <1>6 DEF Max
<1> QED
  BY <1>5, <1>7

\* What a LIMIT returns: as many rows as it allows, or all of them.
LEMMA FirstOfSome ==
  ASSUME NEW S, IsFiniteSet(S), NEW n \in Nat \ {0}, NEW T \in FirstOf(S, n)
  PROVE  T \subseteq S /\ IsFiniteSet(T) /\ (Cardinality(T) = n \/ T = S) /\ (T = {} => S = {})
<1>1. T \in SUBSET S /\ Cardinality(T) = IF Cardinality(S) < n THEN Cardinality(S) ELSE n
  BY DEF FirstOf
<1>2. IsFiniteSet(T) /\ (Cardinality(S) = Cardinality(T) => S = T) /\ Cardinality(S) \in Nat
  BY <1>1, FS_Subset, FS_CardinalityType
<1>3. T = {} => Cardinality(T) = 0
  BY FS_EmptySet
<1> QED
  BY <1>1, <1>2, <1>3

\* Selections of issues and of events are finite.
LEMMA SelectionsFinite ==
  /\ \A S \in SUBSET BulkIssues : IsFiniteSet(S) /\ Cardinality(S) \in Nat
  /\ \A S \in SUBSET BulkEvents : IsFiniteSet(S) /\ Cardinality(S) \in Nat
<1>1. IsFiniteSet(BulkIssues) /\ IsFiniteSet(BulkEvents)
  <2>1. MaxBulkIssues \in Int /\ 1 \in Int
    BY BulkAssumption
  <2> QED
    BY <2>1, FS_Interval, BulkAssumption DEF BulkIssues
<1>2. ASSUME NEW X, IsFiniteSet(X), NEW S \in SUBSET X PROVE IsFiniteSet(S) /\ Cardinality(S) \in Nat
  BY <1>2, FS_Subset, FS_CardinalityType
<1> QED
  BY <1>1, <1>2
--------------------------------------------------------------------------------
\* A request of the handler, and a chunk of the task, with their fields named.
Handler(pc, op, filter, max, ids, target, evs) ==
  [pc |-> pc, op |-> op, filter |-> filter, max |-> max, ids |-> ids, target |-> target, evs |-> evs]
ApiFields == {"pc", "op", "filter", "max", "ids", "target", "evs"}
\* The fields of a request.
LEMMA HandlerFields ==
  ASSUME NEW q \in Requested
  PROVE  /\ DOMAIN q = ApiFields /\ q.pc \in ApiPlaces /\ q.op \in {"status", "assign", "merge"}
         /\ q.filter \in {"all", "unresolved"} /\ q.max \in Nat /\ q.ids \in SUBSET BulkIssues
         /\ q.target \in BulkIssues \cup {NoRow} /\ q.evs \in SUBSET BulkEvents
BY DEF Requested, ApiFields

\* A step of the handler changes its place and at most one more field.
LEMMA ApiMax ==
  ASSUME NEW q, DOMAIN q = ApiFields, NEW x, NEW y
  PROVE  [q EXCEPT !.pc = x, !.max = y] = Handler(x, q.op, q.filter, y, q.ids, q.target, q.evs)
<1>1. [f \in DOMAIN q |-> IF f = "max" THEN y ELSE IF f = "pc" THEN x ELSE q[f]]
        = Handler(x, q.op, q.filter, y, q.ids, q.target, q.evs)
  BY DEF Handler, ApiFields
<1>2. [q EXCEPT !.pc = x, !.max = y] = [f \in DOMAIN q |-> IF f = "max" THEN y ELSE IF f = "pc" THEN x ELSE q[f]]
  BY Zenon DEF ApiFields
<1> QED
  BY <1>1, <1>2, Zenon
\* EXCEPT on a request, as the record it makes: its ids,
LEMMA ApiIds ==
  ASSUME NEW q, DOMAIN q = ApiFields, NEW x, NEW y
  PROVE  [q EXCEPT !.pc = x, !.ids = y] = Handler(x, q.op, q.filter, q.max, y, q.target, q.evs)
<1>1. [f \in DOMAIN q |-> IF f = "ids" THEN y ELSE IF f = "pc" THEN x ELSE q[f]]
        = Handler(x, q.op, q.filter, q.max, y, q.target, q.evs)
  BY DEF Handler, ApiFields
<1>2. [q EXCEPT !.pc = x, !.ids = y] = [f \in DOMAIN q |-> IF f = "ids" THEN y ELSE IF f = "pc" THEN x ELSE q[f]]
  BY Zenon DEF ApiFields
<1> QED
  BY <1>1, <1>2, Zenon
\* its target,
LEMMA ApiTarget ==
  ASSUME NEW q, DOMAIN q = ApiFields, NEW x, NEW y
  PROVE  [q EXCEPT !.pc = x, !.target = y] = Handler(x, q.op, q.filter, q.max, q.ids, y, q.evs)
<1>1. [f \in DOMAIN q |-> IF f = "target" THEN y ELSE IF f = "pc" THEN x ELSE q[f]]
        = Handler(x, q.op, q.filter, q.max, q.ids, y, q.evs)
  BY DEF Handler, ApiFields
<1>2. [q EXCEPT !.pc = x, !.target = y] = [f \in DOMAIN q |-> IF f = "target" THEN y ELSE IF f = "pc" THEN x ELSE q[f]]
  BY Zenon DEF ApiFields
<1> QED
  BY <1>1, <1>2, Zenon
\* its events,
LEMMA ApiEvs ==
  ASSUME NEW q, DOMAIN q = ApiFields, NEW x, NEW y
  PROVE  [q EXCEPT !.pc = x, !.evs = y] = Handler(x, q.op, q.filter, q.max, q.ids, q.target, y)
<1>1. [f \in DOMAIN q |-> IF f = "evs" THEN y ELSE IF f = "pc" THEN x ELSE q[f]]
        = Handler(x, q.op, q.filter, q.max, q.ids, q.target, y)
  BY DEF Handler, ApiFields
<1>2. [q EXCEPT !.pc = x, !.evs = y] = [f \in DOMAIN q |-> IF f = "evs" THEN y ELSE IF f = "pc" THEN x ELSE q[f]]
  BY Zenon DEF ApiFields
<1> QED
  BY <1>1, <1>2, Zenon
\* or its place alone.
LEMMA ApiPlace ==
  ASSUME NEW q, DOMAIN q = ApiFields, NEW x
  PROVE  [q EXCEPT !.pc = x] = Handler(x, q.op, q.filter, q.max, q.ids, q.target, q.evs)
<1>1. [f \in DOMAIN q |-> IF f = "pc" THEN x ELSE q[f]] = Handler(x, q.op, q.filter, q.max, q.ids, q.target, q.evs)
  BY DEF Handler, ApiFields
<1>2. [q EXCEPT !.pc = x] = [f \in DOMAIN q |-> IF f = "pc" THEN x ELSE q[f]]
  BY Zenon DEF ApiFields
<1> QED
  BY <1>1, <1>2, Zenon

Chunk(pc, batch, evs, moved) == [pc |-> pc, batch |-> batch, evs |-> evs, moved |-> moved]
ChunkFields == {"pc", "batch", "evs", "moved"}
\* The fields of a task.
LEMMA TaskFields ==
  ASSUME NEW t \in Chunks
  PROVE  /\ DOMAIN t = ChunkFields /\ t.pc \in TaskPlaces /\ t.batch \in SUBSET BulkIssues
         /\ t.evs \in SUBSET BulkEvents /\ t.moved \in Nat
BY DEF Chunks, ChunkFields
\* EXCEPT on a task, as the record it makes: its batch,
LEMMA TaskBatch ==
  ASSUME NEW q, DOMAIN q = ChunkFields, NEW x, NEW y
  PROVE  [q EXCEPT !.pc = x, !.batch = y] = Chunk(x, y, q.evs, q.moved)
<1>1. [f \in DOMAIN q |-> IF f = "batch" THEN y ELSE IF f = "pc" THEN x ELSE q[f]] = Chunk(x, y, q.evs, q.moved)
  BY DEF Chunk, ChunkFields
<1>2. [q EXCEPT !.pc = x, !.batch = y] = [f \in DOMAIN q |-> IF f = "batch" THEN y ELSE IF f = "pc" THEN x ELSE q[f]]
  BY Zenon DEF ChunkFields
<1> QED
  BY <1>1, <1>2, Zenon
\* its events,
LEMMA TaskEvs ==
  ASSUME NEW q, DOMAIN q = ChunkFields, NEW x, NEW y
  PROVE  [q EXCEPT !.pc = x, !.evs = y] = Chunk(x, q.batch, y, q.moved)
<1>1. [f \in DOMAIN q |-> IF f = "evs" THEN y ELSE IF f = "pc" THEN x ELSE q[f]] = Chunk(x, q.batch, y, q.moved)
  BY DEF Chunk, ChunkFields
<1>2. [q EXCEPT !.pc = x, !.evs = y] = [f \in DOMAIN q |-> IF f = "evs" THEN y ELSE IF f = "pc" THEN x ELSE q[f]]
  BY Zenon DEF ChunkFields
<1> QED
  BY <1>1, <1>2, Zenon
\* or its place alone.
LEMMA TaskPlace ==
  ASSUME NEW q, DOMAIN q = ChunkFields, NEW x
  PROVE  [q EXCEPT !.pc = x] = Chunk(x, q.batch, q.evs, q.moved)
<1>1. [f \in DOMAIN q |-> IF f = "pc" THEN x ELSE q[f]] = Chunk(x, q.batch, q.evs, q.moved)
  BY DEF Chunk, ChunkFields
<1>2. [q EXCEPT !.pc = x] = [f \in DOMAIN q |-> IF f = "pc" THEN x ELSE q[f]]
  BY Zenon DEF ChunkFields
<1> QED
  BY <1>1, <1>2, Zenon
--------------------------------------------------------------------------------
\* The handler's record after a step, by its fields.
ApiGoes(pc, max, ids, target, evs) == api' = Handler(pc, api.op, api.filter, max, ids, target, evs)
\* What a request holds after it went on.
LEMMA ApiAfter ==
  ASSUME api \in Requested, NEW pc \in ApiPlaces, NEW max \in Nat, NEW ids \in SUBSET BulkIssues,
         NEW target \in BulkIssues \cup {NoRow}, NEW evs \in SUBSET BulkEvents, ApiGoes(pc, max, ids, target, evs)
  PROVE  /\ api' \in Requested /\ api'.pc = pc /\ api'.op = api.op /\ api'.filter = api.filter
         /\ api'.max = max /\ api'.ids = ids /\ api'.target = target /\ api'.evs = evs
BY DEF ApiGoes, Handler, Requested
TaskGoes(pc, batch, evs, moved) == task' = Chunk(pc, batch, evs, moved)
\* What a task holds after it went on.
LEMMA TaskAfter ==
  ASSUME NEW pc \in TaskPlaces, NEW batch \in SUBSET BulkIssues, NEW evs \in SUBSET BulkEvents, NEW moved \in Nat,
         TaskGoes(pc, batch, evs, moved)
  PROVE  /\ task' \in Chunks /\ task'.pc = pc /\ task'.batch = batch /\ task'.evs = evs /\ task'.moved = moved
BY DEF TaskGoes, Chunk, Chunks

\* What holds of an idle task.
LEMMA IdleTaskIs ==
  /\ IdleTask \in Chunks /\ IdleTask.pc = "idle" /\ IdleTask.batch = {} /\ IdleTask.evs = {} /\ IdleTask.moved = 0
BY DEF IdleTask, Chunks, TaskPlaces

\* The types, by the fields of the records.
LEMMA BulkTypes ==
  ASSUME BulkTypeOK
  PROVE  /\ last \in Nat /\ 1..last \subseteq BulkIssues /\ Live \subseteq BulkIssues
         /\ api \in Requested /\ ingest \in Arriving /\ task \in Chunks
         /\ api.max \in Nat /\ api.ids \in SUBSET BulkIssues /\ api.target \in BulkIssues \cup {NoRow}
         /\ api.evs \in SUBSET BulkEvents /\ task.batch \in SUBSET BulkIssues /\ task.evs \in SUBSET BulkEvents
         /\ task.moved \in Nat /\ api.pc \in ApiPlaces /\ task.pc \in TaskPlaces
         /\ DOMAIN api = ApiFields /\ DOMAIN task = ChunkFields
         /\ api.op \in {"status", "assign", "merge"} /\ api.filter \in {"all", "unresolved"}
<1>1. last \in Nat /\ 1..last \subseteq BulkIssues
  BY BulkAssumption DEF BulkTypeOK, BulkIssues
<1> QED
  BY <1>1, HandlerFields, TaskFields DEF BulkTypeOK, Live

\* The counts agree as before when nothing is stored, counted or in flight anew.
LEMMA CountsKept ==
  ASSUME CountsOK, UNCHANGED <<count, eventIssue, ingest, last>>, soft \subseteq soft',
         \A i \in Live : Uncounted(i)' = Uncounted(i)
  PROVE  CountsOK'
<1>1. ASSUME NEW i \in Live' PROVE count'[i] + Uncounted(i)' = Cardinality(EventsAt(i)') + Unstored(i)'
  <2>1. i \in Live
    BY DEF Live
  <2>2. EventsAt(i)' = EventsAt(i) /\ Unstored(i)' = Unstored(i) /\ count'[i] = count[i]
    BY DEF EventsAt, Unstored
  <2> QED
    BY <2>1, <2>2 DEF CountsOK
<1> QED
  BY <1>1 DEF CountsOK

\* The set is frozen: what the request selected when it read the highest id.
LEMMA DoesReadMaxId == ASSUME BulkInv, ReadMaxId PROVE BulkInv'
<1> DEFINE ids == Matching(api.filter)
<1>0. BulkTypeOK /\ NothingAhead /\ HandlerOK /\ TaskOK /\ CountsOK /\ ReachOK
  BY DEF BulkInv
<1>1. /\ api.pc = "max" /\ matched' = ids
      /\ UNCHANGED <<last, status, count, assigned, soft, hashTarget, eventIssue, ingest, bulkQueue, task, edited, written, userEdits>>
  BY DEF ReadMaxId, issueTables
<1>2. ids \subseteq 1..last /\ ids \subseteq BulkIssues
  BY <1>0, BulkTypes DEF Matching
<1>3. \/ ids = {} /\ ApiGoes("done", api.max, api.ids, api.target, api.evs)
      \/ ids # {} /\ ApiGoes("first", Max(ids), api.ids, api.target, api.evs)
  <2>1. /\ ids = {} => api' = [api EXCEPT !.pc = "done"]
        /\ ids # {} => api' = [api EXCEPT !.pc = "first", !.max = Max(ids)]
    BY Zenon DEF ReadMaxId
  <2> QED
    BY <1>0, <2>1, BulkTypes, ApiMax, ApiPlace, Zenon DEF ApiGoes
<1>4. PICK pc \in {"done", "first"}, max \in Nat :
        /\ ApiGoes(pc, max, api.ids, api.target, api.evs) /\ max <= last
        /\ pc = "done" => ids = {} /\ max = api.max
        /\ pc = "first" => \A i \in ids : i <= max
  <2>1. api.max <= last /\ api.max \in Nat
    BY <1>0, BulkTypes DEF NothingAhead
  <2>2. ids # {} => Max(ids) \in 1..last /\ \A i \in ids : i <= Max(ids)
    BY <1>0, <1>2, BulkTypes, MaxIs
  <2> QED
    BY <1>3, <2>1, <2>2
<1>5. /\ api' \in Requested /\ api'.pc = pc /\ api'.op = api.op /\ api'.filter = api.filter
      /\ api'.max = max /\ api'.ids = api.ids /\ api'.target = api.target /\ api'.evs = api.evs
  <2>1. pc \in ApiPlaces
    BY DEF ApiPlaces
  <2> QED
    BY <1>0, <1>4, <2>1, BulkTypes, ApiAfter
<1>t. BulkTypeOK'
  BY <1>0, <1>1, <1>2, <1>5 DEF BulkTypeOK
<1>n. NothingAhead'
  BY <1>0, <1>1, <1>4, <1>5 DEF NothingAhead
<1>h. HandlerOK'
  BY <1>0, <1>1, <1>4, <1>5 DEF HandlerOK, Merging
<1>k. TaskOK'
  BY <1>0, <1>1, <1>4, <1>5, IdleTaskIs DEF TaskOK, TaskBusy
<1>c. CountsOK'
  <2>1. \A i \in Live : Uncounted(i)' = Uncounted(i)
    BY <1>1, <1>5 DEF Uncounted
  <2> QED
    BY <1>0, <1>1, <2>1, CountsKept
<1>r. ReachOK'
  BY <1>0, <1>1, <1>4, <1>5 DEF ReachOK, Merging, TaskBusy, Matching, Untouched
<1> QED
  BY <1>t, <1>n, <1>h, <1>k, <1>c, <1>r DEF BulkInv

\* The handler reads the issues it edits itself.
LEMMA DoesReadFirst == ASSUME BulkInv, ReadFirst PROVE BulkInv'
<1> DEFINE S == {i \in Matching(api.filter) : i <= api.max}
<1>0. BulkTypeOK /\ NothingAhead /\ HandlerOK /\ TaskOK /\ CountsOK /\ ReachOK
  BY DEF BulkInv
<1>1. /\ api.pc = "first"
      /\ UNCHANGED <<last, status, count, assigned, soft, hashTarget, eventIssue, ingest, bulkQueue, task, matched, edited, written, userEdits>>
  BY DEF ReadFirst, issueTables, history
<1>2. IsFiniteSet(S) /\ S \subseteq BulkIssues
  BY <1>0, BulkTypes, SelectionsFinite DEF Matching
<1>3. PICK ids \in FirstOf(S, Limit), pc \in {"target", "write"} :
        /\ ApiGoes(pc, api.max, ids, api.target, api.evs) /\ (pc = "target" <=> api.op = "merge")
  <2>1. PICK ids \in FirstOf(S, Limit) :
          api' = [api EXCEPT !.pc = IF api.op = "merge" THEN "target" ELSE "write", !.ids = ids]
    BY Zenon DEF ReadFirst
  <2>2. PICK pc \in {"target", "write"} : pc = (IF api.op = "merge" THEN "target" ELSE "write") /\ (pc = "target" <=> api.op = "merge")
    OBVIOUS
  <2>3. api' = [api EXCEPT !.pc = pc, !.ids = ids]
    BY <2>1, <2>2, Zenon
  <2>4. ApiGoes(pc, api.max, ids, api.target, api.evs)
    BY <1>0, <2>3, BulkTypes, ApiIds, Zenon DEF ApiGoes
  <2> QED
    BY <2>2, <2>4
<1>4. ids \subseteq S /\ ids \subseteq BulkIssues /\ (Cardinality(ids) = Limit \/ ids = S)
  BY <1>2, BulkAssumption, FirstOfSome
<1>5. /\ api'.pc = pc /\ api'.max = api.max /\ api'.ids = ids /\ api'.target = api.target /\ api'.evs = api.evs
      /\ api'.op = api.op /\ api'.filter = api.filter /\ api' \in Requested
  <2>1. pc \in ApiPlaces
    BY DEF ApiPlaces
  <2> QED
    BY <1>0, <1>3, <1>4, <2>1, BulkTypes, ApiAfter
<1>t. BulkTypeOK'
  BY <1>0, <1>1, <1>5 DEF BulkTypeOK
<1>n. NothingAhead'
  BY <1>0, <1>1, <1>5 DEF NothingAhead
<1>h. HandlerOK'
  BY <1>0, <1>1, <1>3, <1>4, <1>5 DEF HandlerOK, Merging
<1>k. TaskOK'
  BY <1>0, <1>1, <1>5, IdleTaskIs DEF TaskOK, TaskBusy
<1>c. CountsOK'
  <2>1. \A i \in Live : Uncounted(i)' = Uncounted(i)
    BY <1>1, <1>3, <1>5 DEF Uncounted
  <2> QED
    BY <1>0, <1>1, <2>1, CountsKept
<1>r. ReachOK'
  <2>1. \A i \in matched : Untouched(i) => i \in Matching(api.filter) /\ i <= api.max
    BY <1>0, <1>1 DEF ReachOK, HandlerOK
  <2>2. \A i : (Untouched(i) <=> Untouched(i)') /\ (i \in Matching(api.filter) <=> i \in Matching(api.filter)')
    BY <1>1, <1>5 DEF Untouched, Matching
  <2> QED
    BY <1>0, <1>1, <1>3, <1>4, <1>5, <2>1, <2>2 DEF ReachOK, Merging, TaskBusy, TaskOK
<1> QED
  BY <1>t, <1>n, <1>h, <1>k, <1>c, <1>r DEF BulkInv

\* The handler sets the status, or the assignee, on them.
LEMMA DoesWriteFirst == ASSUME BulkInv, WriteFirst PROVE BulkInv'
<1>0. BulkTypeOK /\ NothingAhead /\ HandlerOK /\ TaskOK /\ CountsOK /\ ReachOK
  BY DEF BulkInv
<1>1. /\ api.pc = "write" /\ ApiGoes("enqueue", api.max, api.ids, api.target, api.evs)
      /\ written' = written \cup api.ids
      /\ UNCHANGED <<last, count, soft, hashTarget, eventIssue, ingest, bulkQueue, task, matched, edited, userEdits>>
  <2>1. api' = [api EXCEPT !.pc = "enqueue"]
    BY DEF WriteFirst
  <2>2. ApiGoes("enqueue", api.max, api.ids, api.target, api.evs)
    BY <1>0, <2>1, BulkTypes, ApiPlace, Zenon DEF ApiGoes
  <2> QED
    BY <2>2 DEF WriteFirst
<1>2. status' \in [BulkIssues -> Statuses] /\ \A i \in BulkIssues : i \in api.ids \/ status'[i] = status[i]
  BY <1>0 DEF WriteFirst, BulkTypeOK, Statuses
<1>5. /\ api'.pc = "enqueue" /\ api'.max = api.max /\ api'.ids = api.ids /\ api'.target = api.target /\ api'.evs = api.evs
      /\ api'.op = api.op /\ api'.filter = api.filter /\ api' \in Requested
  <2>1. "enqueue" \in ApiPlaces
    BY DEF ApiPlaces
  <2> QED
    BY <1>0, <1>1, <2>1, BulkTypes, ApiAfter
<1>t. BulkTypeOK'
  BY <1>0, <1>1, <1>2, <1>5, BulkTypes DEF BulkTypeOK
<1>n. NothingAhead'
  BY <1>0, <1>1, <1>5 DEF NothingAhead
<1>h. HandlerOK'
  BY <1>0, <1>1, <1>5 DEF HandlerOK, Merging
<1>k. TaskOK'
  BY <1>0, <1>1, <1>5, IdleTaskIs DEF TaskOK, TaskBusy
<1>c. CountsOK'
  <2>1. \A i \in Live : Uncounted(i)' = Uncounted(i)
    BY <1>1, <1>5 DEF Uncounted
  <2> QED
    BY <1>0, <1>1, <2>1, CountsKept
<1>r. ReachOK'
  <2>1. \A i \in matched : Untouched(i)' => Untouched(i) /\ i \notin api.ids
    BY <1>1 DEF Untouched
  <2>2. ASSUME NEW i \in matched, Untouched(i)', i \in Matching(api.filter) PROVE i \in Matching(api.filter)'
    BY <1>0, <1>1, <1>2, <1>5, <2>1, <2>2, BulkTypes DEF Matching
  <2> QED
    BY <1>0, <1>1, <1>5, <2>1, <2>2 DEF ReachOK, Merging, TaskBusy, TaskOK
<1> QED
  BY <1>t, <1>n, <1>h, <1>k, <1>c, <1>r DEF BulkInv

\* The merge target is the highest issue that still matches.
LEMMA DoesPickTarget == ASSUME BulkInv, PickTarget PROVE BulkInv'
<1> DEFINE S == {i \in Matching(api.filter) : i <= api.max}
<1>0. BulkTypeOK /\ NothingAhead /\ HandlerOK /\ TaskOK /\ CountsOK /\ ReachOK
  BY DEF BulkInv
<1>1. /\ api.pc = "target"
      /\ UNCHANGED <<last, status, count, assigned, soft, hashTarget, eventIssue, ingest, bulkQueue, task, matched, edited, written, userEdits>>
  BY DEF PickTarget, issueTables, history
<1>2. S \subseteq 1..last /\ S \subseteq BulkIssues /\ last \in Nat
  BY <1>0, BulkTypes DEF Matching
<1>3. PICK pc \in {"done", "soft"}, target \in BulkIssues \cup {NoRow} :
        /\ ApiGoes(pc, api.max, api.ids, target, api.evs)
        /\ pc = "done" => S = {} /\ target = api.target
        /\ pc = "soft" => target \in S
  <2>1. /\ S = {} => api' = [api EXCEPT !.pc = "done"]
        /\ S # {} => api' = [api EXCEPT !.pc = "soft", !.target = Max(S)]
    BY Zenon DEF PickTarget
  <2>2. /\ S = {} => ApiGoes("done", api.max, api.ids, api.target, api.evs)
        /\ S # {} => ApiGoes("soft", api.max, api.ids, Max(S), api.evs)
    BY <1>0, <2>1, BulkTypes, ApiTarget, ApiPlace, Zenon DEF ApiGoes
  <2>3. S # {} => Max(S) \in S
    BY <1>2, MaxIs
  <2>4. api.target \in BulkIssues \cup {NoRow}
    BY <1>0, BulkTypes
  <2> QED
    BY <1>2, <2>2, <2>3, <2>4
<1>5. /\ api'.pc = pc /\ api'.max = api.max /\ api'.ids = api.ids /\ api'.target = target /\ api'.evs = api.evs
      /\ api'.op = api.op /\ api'.filter = api.filter /\ api' \in Requested
  <2>1. pc \in ApiPlaces
    BY DEF ApiPlaces
  <2> QED
    BY <1>0, <1>3, <2>1, BulkTypes, ApiAfter
<1>6. pc = "soft" => target \in 1..api.max /\ target <= last
  BY <1>2, <1>3 DEF Matching
<1>7. task = IdleTask /\ bulkQueue = {} /\ task.pc = "idle" /\ task.moved = 0 /\ task.batch = {}
  BY <1>0, <1>1, IdleTaskIs DEF TaskOK, TaskBusy
<1>8. NoRow \notin BulkIssues
  BY BulkAssumption DEF BulkIssues
<1>t. BulkTypeOK'
  BY <1>0, <1>1, <1>5 DEF BulkTypeOK
<1>n. NothingAhead'
  BY <1>0, <1>1, <1>3, <1>5, <1>6 DEF NothingAhead
<1>h. HandlerOK'
  BY <1>0, <1>1, <1>3, <1>5, <1>6, <1>8 DEF HandlerOK, Merging
<1>k. TaskOK'
  BY <1>0, <1>1, <1>5, <1>7 DEF TaskOK, TaskBusy
<1>c. CountsOK'
  <2>1. \A i \in Live : Uncounted(i)' = Uncounted(i)
    BY <1>1, <1>3, <1>5, <1>7 DEF Uncounted
  <2> QED
    BY <1>0, <1>1, <2>1, CountsKept
<1>r. ReachOK'
  <2>1. \A i \in matched : Untouched(i) => i \in Matching(api.filter) /\ i <= api.max
    BY <1>0, <1>1 DEF ReachOK, HandlerOK
  <2>2. \A i : (Untouched(i) <=> Untouched(i)') /\ (i \in Matching(api.filter) <=> i \in Matching(api.filter)')
    BY <1>1, <1>5 DEF Untouched, Matching
  <2>3. pc = "done" => \A i \in matched : Reached(i)'
    BY <1>1, <1>3, <2>1 DEF Reached, Untouched
  <2> QED
    BY <1>0, <1>1, <1>3, <1>5, <1>7, <2>1, <2>2, <2>3 DEF ReachOK, Merging, TaskBusy
<1> QED
  BY <1>t, <1>n, <1>h, <1>k, <1>c, <1>r DEF BulkInv

\* The sources of the merge are soft-deleted.
LEMMA DoesSoftDeleteFirst == ASSUME BulkInv, SoftDeleteFirst PROVE BulkInv'
<1>0. BulkTypeOK /\ NothingAhead /\ HandlerOK /\ TaskOK /\ CountsOK /\ ReachOK
  BY DEF BulkInv
<1>1. /\ api.pc = "soft" /\ ApiGoes("hashes", api.max, api.ids, api.target, api.evs)
      /\ soft' = soft \cup Sources /\ written' = written \cup Sources
      /\ UNCHANGED <<last, status, count, assigned, hashTarget, eventIssue, ingest, bulkQueue, task, matched, edited, userEdits>>
  <2>1. api' = [api EXCEPT !.pc = "hashes"]
    BY DEF SoftDeleteFirst
  <2>2. ApiGoes("hashes", api.max, api.ids, api.target, api.evs)
    BY <1>0, <2>1, BulkTypes, ApiPlace, Zenon DEF ApiGoes
  <2> QED
    BY <2>2 DEF SoftDeleteFirst
<1>5. /\ api'.pc = "hashes" /\ api'.max = api.max /\ api'.ids = api.ids /\ api'.target = api.target /\ api'.evs = api.evs
      /\ api'.op = api.op /\ api'.filter = api.filter /\ api' \in Requested
  <2>1. "hashes" \in ApiPlaces
    BY DEF ApiPlaces
  <2> QED
    BY <1>0, <1>1, <2>1, BulkTypes, ApiAfter
<1>6. /\ Sources' = Sources /\ Sources \subseteq BulkIssues /\ api.target \notin Sources
      /\ \A i \in Sources : i <= api.max /\ i <= last
  <2>1. \A i \in api.ids : i \in Nat /\ i <= api.max
    BY <1>0, <1>1, BulkTypes DEF HandlerOK, BulkIssues
  <2>2. api.max <= last /\ api.max \in Nat /\ last \in Nat /\ api.ids \subseteq BulkIssues
    BY <1>0, BulkTypes DEF NothingAhead
  <2> QED
    BY <1>5, <2>1, <2>2 DEF Sources
<1>t. BulkTypeOK'
  BY <1>0, <1>1, <1>5, <1>6 DEF BulkTypeOK
<1>n. NothingAhead'
  BY <1>0, <1>1, <1>5, <1>6 DEF NothingAhead
<1>h. HandlerOK'
  BY <1>0, <1>1, <1>5, <1>6 DEF HandlerOK, Merging
<1>k. TaskOK'
  BY <1>0, <1>1, <1>5, IdleTaskIs DEF TaskOK, TaskBusy
<1>c. CountsOK'
  <2>1. \A i \in Live : Uncounted(i)' = Uncounted(i)
    BY <1>1, <1>5 DEF Uncounted
  <2> QED
    BY <1>0, <1>1, <2>1, CountsKept
<1>r. ReachOK'
  <2>1. \A i \in matched : Untouched(i)' => Untouched(i)
    BY <1>1 DEF Untouched
  <2>2. \A i : i \in Matching(api.filter) => i \in Matching(api.filter)'
    BY <1>1, <1>5 DEF Matching
  <2>3. \A i \in api.ids : i \in written' \/ i = api.target
    BY <1>1 DEF Sources
  <2> QED
    BY <1>0, <1>1, <1>5, <2>1, <2>2, <2>3 DEF ReachOK, Merging, TaskBusy, TaskOK
<1> QED
  BY <1>t, <1>n, <1>h, <1>k, <1>c, <1>r DEF BulkInv

\* Hashes of merged issues point at the target.
LEMMA HashesMove ==
  ASSUME BulkTypeOK, NothingAhead, NEW S, NEW t \in BulkIssues, t <= last
  PROVE  /\ Repointed(S, t) \in [BulkIssues -> BulkIssues]
         /\ \A i \in BulkIssues : Repointed(S, t)[i] <= last \/ Repointed(S, t)[i] = i
BY BulkTypes DEF Repointed, BulkTypeOK, NothingAhead

\* The request moves the hashes of the first chunk of a merge.
LEMMA DoesMoveFirstHashes == ASSUME BulkInv, MoveFirstHashes PROVE BulkInv'
<1>0. BulkTypeOK /\ NothingAhead /\ HandlerOK /\ TaskOK /\ CountsOK /\ ReachOK
  BY DEF BulkInv
<1>1. /\ api.pc = "hashes" /\ ApiGoes("events", api.max, api.ids, api.target, api.evs)
      /\ hashTarget' = Repointed(Sources, api.target)
      /\ UNCHANGED <<last, status, count, assigned, soft, eventIssue, ingest, bulkQueue, task, matched, edited, written, userEdits>>
  <2>1. api' = [api EXCEPT !.pc = "events"]
    BY DEF MoveFirstHashes
  <2>2. ApiGoes("events", api.max, api.ids, api.target, api.evs)
    BY <1>0, <2>1, BulkTypes, ApiPlace, Zenon DEF ApiGoes
  <2> QED
    BY <2>2 DEF MoveFirstHashes, issueTables, history
<1>5. /\ api'.pc = "events" /\ api'.max = api.max /\ api'.ids = api.ids /\ api'.target = api.target /\ api'.evs = api.evs
      /\ api'.op = api.op /\ api'.filter = api.filter /\ api' \in Requested
  <2>1. "events" \in ApiPlaces
    BY DEF ApiPlaces
  <2> QED
    BY <1>0, <1>1, <2>1, BulkTypes, ApiAfter
<1>6. Sources' = Sources
  BY <1>5 DEF Sources
<1>7. /\ hashTarget' \in [BulkIssues -> BulkIssues] /\ \A i \in BulkIssues : hashTarget'[i] <= last \/ hashTarget'[i] = i
  <2>1. api.target \in 1..api.max /\ api.max <= last
    BY <1>0, <1>1 DEF HandlerOK, NothingAhead, Merging
  <2>2. api.target \in BulkIssues /\ api.target <= last
    BY <1>0, <2>1, BulkTypes
  <2> QED
    BY <1>0, <1>1, <2>2, HashesMove
<1>t. BulkTypeOK'
  BY <1>0, <1>1, <1>5, <1>7 DEF BulkTypeOK
<1>n. NothingAhead'
  BY <1>0, <1>1, <1>5, <1>7 DEF NothingAhead
<1>h. HandlerOK'
  BY <1>0, <1>1, <1>5, <1>6 DEF HandlerOK, Merging
<1>k. TaskOK'
  BY <1>0, <1>1, <1>5, IdleTaskIs DEF TaskOK, TaskBusy
<1>c. CountsOK'
  <2>1. \A i \in Live : Uncounted(i)' = Uncounted(i)
    BY <1>1, <1>5 DEF Uncounted
  <2> QED
    BY <1>0, <1>1, <2>1, CountsKept
<1>r. ReachOK'
  <2>1. \A i : (Untouched(i) <=> Untouched(i)') /\ (i \in Matching(api.filter) <=> i \in Matching(api.filter)')
    BY <1>1, <1>5 DEF Untouched, Matching
  <2> QED
    BY <1>0, <1>1, <1>5, <2>1 DEF ReachOK, Merging, TaskBusy, TaskOK
<1> QED
  BY <1>t, <1>n, <1>h, <1>k, <1>c, <1>r DEF BulkInv

\* The events the merge moves are read.
LEMMA DoesReadFirstEvents == ASSUME BulkInv, ReadFirstEvents PROVE BulkInv'
<1>0. BulkTypeOK /\ NothingAhead /\ HandlerOK /\ TaskOK /\ CountsOK /\ ReachOK
  BY DEF BulkInv
<1>1. /\ api.pc = "events"
      /\ UNCHANGED <<last, status, count, assigned, soft, hashTarget, eventIssue, ingest, bulkQueue, task, matched, edited, written, userEdits>>
  BY DEF ReadFirstEvents, issueTables, history
<1>2. PICK evs \in SUBSET BulkEvents :
        ApiGoes("move", api.max, api.ids, api.target, evs) /\ \A e \in evs : eventIssue[e] \in Sources
  <2>1. PICK evs \in EventsOf(Sources) : api' = [api EXCEPT !.pc = "move", !.evs = evs]
    BY Zenon DEF ReadFirstEvents
  <2>2. evs \in SUBSET BulkEvents /\ \A e \in evs : eventIssue[e] \in Sources
    BY <2>1 DEF EventsOf, FirstOf
  <2>0. DOMAIN api = ApiFields
    BY <1>0, BulkTypes
  <2>3. ApiGoes("move", api.max, api.ids, api.target, evs)
    BY <2>0, <2>1, ApiEvs, Zenon DEF ApiGoes
  <2> QED
    BY <2>2, <2>3
<1>5. /\ api'.pc = "move" /\ api'.max = api.max /\ api'.ids = api.ids /\ api'.target = api.target /\ api'.evs = evs
      /\ api'.op = api.op /\ api'.filter = api.filter /\ api' \in Requested
  <2>1. "move" \in ApiPlaces
    BY DEF ApiPlaces
  <2> QED
    BY <1>0, <1>2, <2>1, BulkTypes, ApiAfter
<1>6. Sources' = Sources
  BY <1>5 DEF Sources
<1>t. BulkTypeOK'
  BY <1>0, <1>1, <1>5 DEF BulkTypeOK
<1>n. NothingAhead'
  BY <1>0, <1>1, <1>5 DEF NothingAhead
<1>h. HandlerOK'
  BY <1>0, <1>1, <1>2, <1>5, <1>6 DEF HandlerOK, Merging
<1>k. TaskOK'
  BY <1>0, <1>1, <1>5, IdleTaskIs DEF TaskOK, TaskBusy
<1>c. CountsOK'
  <2>1. \A i \in Live : Uncounted(i)' = Uncounted(i)
    BY <1>1, <1>5 DEF Uncounted
  <2> QED
    BY <1>0, <1>1, <2>1, CountsKept
<1>r. ReachOK'
  <2>1. \A i : (Untouched(i) <=> Untouched(i)') /\ (i \in Matching(api.filter) <=> i \in Matching(api.filter)')
    BY <1>1, <1>5 DEF Untouched, Matching
  <2> QED
    BY <1>0, <1>1, <1>5, <2>1 DEF ReachOK, Merging, TaskBusy, TaskOK
<1> QED
  BY <1>t, <1>n, <1>h, <1>k, <1>c, <1>r DEF BulkInv

\* Events move from soft-deleted issues S to the target t: no visible issue but t gains or
\* loses one.
LEMMA EventsMove ==
  ASSUME BulkTypeOK, NothingAhead, NEW S, S \subseteq soft, NEW t \in BulkIssues, t \notin soft, t <= last,
         NEW evs \in SUBSET BulkEvents, \A e \in evs : eventIssue[e] \in S,
         eventIssue' = [e \in BulkEvents |-> IF e \in evs THEN t ELSE eventIssue[e]]
  PROVE  /\ eventIssue' \in [BulkEvents -> BulkIssues \cup {NoRow}]
         /\ last' = last => \A e \in BulkEvents : eventIssue'[e] # NoRow => eventIssue'[e] <= last'
         /\ \A e \in BulkEvents : eventIssue[e] = NoRow => eventIssue'[e] = NoRow
         /\ \A i \in Live : i # t => EventsAt(i)' = EventsAt(i)
         /\ Cardinality(EventsAt(t)') = Cardinality(EventsAt(t)) + Cardinality(evs)
<1>1. eventIssue \in [BulkEvents -> BulkIssues \cup {NoRow}] /\ soft \subseteq BulkIssues /\ NoRow \notin BulkIssues
  BY BulkAssumption DEF BulkTypeOK, BulkIssues
<1>2. ASSUME NEW i \in Live, i # t PROVE EventsAt(i)' = EventsAt(i)
  <2>1. i \notin S
    BY <1>2 DEF Live
  <2> QED
    BY <1>2, <2>1 DEF EventsAt
<1>3. EventsAt(t)' = EventsAt(t) \cup evs /\ EventsAt(t) \cap evs = {}
  BY DEF EventsAt
<1>4. EventsAt(t) \in SUBSET BulkEvents
  BY DEF EventsAt
<1>5. /\ IsFiniteSet(EventsAt(t)) /\ IsFiniteSet(evs)
      /\ Cardinality(EventsAt(t)) \in Nat /\ Cardinality(evs) \in Nat
  BY <1>4, SelectionsFinite
<1>6. Cardinality(EventsAt(t)') = Cardinality(EventsAt(t)) + Cardinality(evs)
  <2>1. Cardinality(EventsAt(t) \cup evs) = Cardinality(EventsAt(t)) + Cardinality(evs) - Cardinality({})
    BY <1>3, <1>5, FS_Union
  <2> QED
    BY <1>3, <1>5, <2>1, FS_EmptySet
<1> QED
  BY <1>1, <1>2, <1>6 DEF NothingAhead

\* It moves their events.
LEMMA DoesMoveFirstEvents == ASSUME BulkInv, MoveFirstEvents PROVE BulkInv'
<1>0. BulkTypeOK /\ NothingAhead /\ HandlerOK /\ TaskOK /\ CountsOK /\ ReachOK
  BY DEF BulkInv
<1>1. /\ api.pc = "move" /\ ApiGoes("count", api.max, api.ids, api.target, api.evs)
      /\ eventIssue' = [e \in BulkEvents |-> IF e \in api.evs THEN api.target ELSE eventIssue[e]]
      /\ UNCHANGED <<last, status, count, assigned, soft, hashTarget, ingest, bulkQueue, task, matched, edited, written, userEdits>>
  <2>1. api' = [api EXCEPT !.pc = "count"]
    BY DEF MoveFirstEvents
  <2>2. ApiGoes("count", api.max, api.ids, api.target, api.evs)
    BY <1>0, <2>1, BulkTypes, ApiPlace, Zenon DEF ApiGoes
  <2> QED
    BY <2>2 DEF MoveFirstEvents, issueTables, history
<1>5. /\ api'.pc = "count" /\ api'.max = api.max /\ api'.ids = api.ids /\ api'.target = api.target /\ api'.evs = api.evs
      /\ api'.op = api.op /\ api'.filter = api.filter /\ api' \in Requested
  <2>1. "count" \in ApiPlaces
    BY DEF ApiPlaces
  <2> QED
    BY <1>0, <1>1, <2>1, BulkTypes, ApiAfter
<1>6. PICK S \in SUBSET soft, t \in BulkIssues, evs \in SUBSET BulkEvents :
        /\ t = api.target /\ evs = api.evs /\ t <= last /\ t \notin soft
        /\ \A e \in evs : eventIssue[e] \in S
  <2>1. api.target \in 1..api.max /\ api.max <= last
    BY <1>0, <1>1 DEF HandlerOK, NothingAhead, Merging
  <2> QED
    BY <1>0, <1>1, <2>1, BulkTypes DEF HandlerOK
<1>7. /\ eventIssue' \in [BulkEvents -> BulkIssues \cup {NoRow}]
      /\ \A e \in BulkEvents : eventIssue'[e] # NoRow => eventIssue'[e] <= last'
      /\ \A e \in BulkEvents : eventIssue[e] = NoRow => eventIssue'[e] = NoRow
      /\ \A i \in Live : i # t => EventsAt(i)' = EventsAt(i)
      /\ Cardinality(EventsAt(t)') = Cardinality(EventsAt(t)) + Cardinality(evs)
  <2>1. eventIssue' = [e \in BulkEvents |-> IF e \in evs THEN t ELSE eventIssue[e]]
    BY <1>1, <1>6
  <2>2. S \subseteq soft /\ last' = last
    BY <1>1, <1>6
  <2> QED
    BY <1>0, <1>6, <2>1, <2>2, EventsMove
<1>t. BulkTypeOK'
  BY <1>0, <1>1, <1>5, <1>7 DEF BulkTypeOK
<1>n. NothingAhead'
  BY <1>0, <1>1, <1>5, <1>7 DEF NothingAhead
<1>h. HandlerOK'
  BY <1>0, <1>1, <1>5 DEF HandlerOK, Merging
<1>k. TaskOK'
  BY <1>0, <1>1, <1>5, IdleTaskIs DEF TaskOK, TaskBusy
<1>c. CountsOK'
  <2>1. ASSUME NEW i \in Live PROVE count[i] + Uncounted(i)' = Cardinality(EventsAt(i)') + Unstored(i)
    <3>1. CASE i # t
      BY <1>0, <1>5, <1>6, <1>7, <2>1, <3>1 DEF CountsOK, Uncounted
    <3>2. CASE i = t
      <4>1. count[i] + Uncounted(i) = Cardinality(EventsAt(i)) + Unstored(i)
        BY <1>0, <2>1 DEF CountsOK
      <4>2. Uncounted(i) = task.moved /\ Uncounted(i)' = Cardinality(evs) + task.moved
        BY <1>1, <1>5, <1>6, <3>2, BulkTypes, <1>0, SelectionsFinite DEF Uncounted
      <4>3. count[i] \in Nat /\ task.moved \in Nat /\ Cardinality(evs) \in Nat /\ Unstored(i) \in Nat
        BY <1>0, <2>1, BulkTypes, SelectionsFinite DEF BulkTypeOK, Unstored
      <4>4. EventsAt(i) \in SUBSET BulkEvents
        BY DEF EventsAt
      <4>5. Cardinality(EventsAt(i)) \in Nat
        BY <4>4, SelectionsFinite
      <4> QED
        BY <1>7, <3>2, <4>1, <4>2, <4>3, <4>5
    <3> QED
      BY <3>1, <3>2
  <2>2. Live' = Live /\ count' = count /\ \A i : Unstored(i)' = Unstored(i)
    BY <1>1 DEF Live, Unstored
  <2> QED
    BY <2>1, <2>2 DEF CountsOK
<1>r. ReachOK'
  <2>1. \A i : (Untouched(i) <=> Untouched(i)') /\ (i \in Matching(api.filter) <=> i \in Matching(api.filter)')
    BY <1>1, <1>5 DEF Untouched, Matching
  <2> QED
    BY <1>0, <1>1, <1>5, <2>1 DEF ReachOK, Merging, TaskBusy, TaskOK
<1> QED
  BY <1>t, <1>n, <1>h, <1>k, <1>c, <1>r DEF BulkInv

\* The events that were moved are counted.
LEMMA DoesCountFirstEvents == ASSUME BulkInv, CountFirstEvents PROVE BulkInv'
<1>0. BulkTypeOK /\ NothingAhead /\ HandlerOK /\ TaskOK /\ CountsOK /\ ReachOK
  BY DEF BulkInv
<1>1. /\ api.pc = "count" /\ ApiGoes("enqueue", api.max, api.ids, api.target, api.evs)
      /\ count' = [count EXCEPT ![api.target] = @ + Cardinality(api.evs)]
      /\ UNCHANGED <<last, status, assigned, soft, hashTarget, eventIssue, ingest, bulkQueue, task, matched, edited, written, userEdits>>
  <2>1. api' = [api EXCEPT !.pc = "enqueue"]
    BY DEF CountFirstEvents
  <2>2. ApiGoes("enqueue", api.max, api.ids, api.target, api.evs)
    BY <1>0, <2>1, BulkTypes, ApiPlace, Zenon DEF ApiGoes
  <2> QED
    BY <2>2 DEF CountFirstEvents, issueTables, history
<1>5. /\ api'.pc = "enqueue" /\ api'.max = api.max /\ api'.ids = api.ids /\ api'.target = api.target /\ api'.evs = api.evs
      /\ api'.op = api.op /\ api'.filter = api.filter /\ api' \in Requested
  <2>1. "enqueue" \in ApiPlaces
    BY DEF ApiPlaces
  <2> QED
    BY <1>0, <1>1, <2>1, BulkTypes, ApiAfter
<1>6. api.target \in BulkIssues /\ Cardinality(api.evs) \in Nat
  <2>1. api.target \in 1..api.max /\ api.max <= last
    BY <1>0, <1>1 DEF HandlerOK, NothingAhead, Merging
  <2> QED
    BY <1>0, <2>1, BulkTypes, SelectionsFinite
<1>7. /\ count' \in [BulkIssues -> Nat] /\ count'[api.target] = count[api.target] + Cardinality(api.evs)
      /\ \A i \in BulkIssues : i # api.target => count'[i] = count[i]
  BY <1>0, <1>1, <1>6 DEF BulkTypeOK
<1>t. BulkTypeOK'
  BY <1>0, <1>1, <1>5, <1>7 DEF BulkTypeOK
<1>n. NothingAhead'
  BY <1>0, <1>1, <1>5 DEF NothingAhead
<1>h. HandlerOK'
  BY <1>0, <1>1, <1>5 DEF HandlerOK, Merging
<1>k. TaskOK'
  BY <1>0, <1>1, <1>5, IdleTaskIs DEF TaskOK, TaskBusy
<1>c. CountsOK'
  <2>1. ASSUME NEW i \in Live PROVE count'[i] + Uncounted(i)' = count[i] + Uncounted(i)
    <3>1. i \in BulkIssues /\ count[i] \in Nat /\ task.moved \in Nat
      BY <1>0, <2>1, BulkTypes DEF BulkTypeOK
    <3> QED
      BY <1>1, <1>5, <1>6, <1>7, <3>1 DEF Uncounted
  <2>2. Live' = Live /\ \A i : Unstored(i)' = Unstored(i) /\ EventsAt(i)' = EventsAt(i)
    BY <1>1 DEF Live, Unstored, EventsAt
  <2> QED
    BY <1>0, <2>1, <2>2 DEF CountsOK
<1>r. ReachOK'
  <2>1. \A i : (Untouched(i) <=> Untouched(i)') /\ (i \in Matching(api.filter) <=> i \in Matching(api.filter)')
    BY <1>1, <1>5 DEF Untouched, Matching
  <2> QED
    BY <1>0, <1>1, <1>5, <2>1 DEF ReachOK, Merging, TaskBusy, TaskOK
<1> QED
  BY <1>t, <1>n, <1>h, <1>k, <1>c, <1>r DEF BulkInv

\* The handler is through; what it could not edit is left to the task.
LEMMA DoesEnqueueTask == ASSUME BulkInv, EnqueueTask PROVE BulkInv'
<1>0. BulkTypeOK /\ NothingAhead /\ HandlerOK /\ TaskOK /\ CountsOK /\ ReachOK
  BY DEF BulkInv
<1>1. /\ api.pc = "enqueue" /\ ApiGoes("done", api.max, api.ids, api.target, api.evs)
      /\ bulkQueue' = (IF ShouldEnqueue THEN {"update_issues_task"} ELSE bulkQueue)
      /\ UNCHANGED <<last, status, count, assigned, soft, hashTarget, eventIssue, ingest, task, matched, edited, written, userEdits>>
  <2>1. api' = [api EXCEPT !.pc = "done"]
    BY DEF EnqueueTask
  <2>2. ApiGoes("done", api.max, api.ids, api.target, api.evs)
    BY <1>0, <2>1, BulkTypes, ApiPlace, Zenon DEF ApiGoes
  <2> QED
    BY <2>2 DEF EnqueueTask, issueTables, history
<1>5. /\ api'.pc = "done" /\ api'.max = api.max /\ api'.ids = api.ids /\ api'.target = api.target /\ api'.evs = api.evs
      /\ api'.op = api.op /\ api'.filter = api.filter /\ api' \in Requested
  <2>1. "done" \in ApiPlaces
    BY DEF ApiPlaces
  <2> QED
    BY <1>0, <1>1, <2>1, BulkTypes, ApiAfter
<1>6. task = IdleTask /\ bulkQueue = {} /\ task.pc = "idle" /\ task.moved = 0 /\ task.batch = {}
  BY <1>0, <1>1, IdleTaskIs DEF TaskOK, TaskBusy
<1>t. BulkTypeOK'
  BY <1>0, <1>1, <1>5 DEF BulkTypeOK
<1>n. NothingAhead'
  BY <1>0, <1>1, <1>5 DEF NothingAhead
<1>h. HandlerOK'
  BY <1>0, <1>1, <1>5 DEF HandlerOK, Merging
<1>k. TaskOK'
  BY <1>0, <1>1, <1>5, <1>6, IdleTaskIs DEF TaskOK, TaskBusy, HandlerOK
<1>c. CountsOK'
  <2>1. \A i \in Live : Uncounted(i)' = Uncounted(i)
    BY <1>1, <1>5 DEF Uncounted
  <2> QED
    BY <1>0, <1>1, <2>1, CountsKept
<1>r. ReachOK'
  <2>1. \A i : (Untouched(i) <=> Untouched(i)') /\ (i \in Matching(api.filter) <=> i \in Matching(api.filter)')
    BY <1>1, <1>5 DEF Untouched, Matching
  <2>2. Cardinality(api.ids) # Limit => \A i \in matched : Reached(i)'
    BY <1>0, <1>1, <1>5 DEF ReachOK, Reached, Untouched, Merging
  <2>3. Cardinality(api.ids) = Limit => TaskBusy'
    BY <1>1 DEF TaskBusy, ShouldEnqueue
  <2> QED
    BY <1>0, <1>1, <1>5, <2>1, <2>2, <2>3 DEF ReachOK, Merging, TaskBusy
<1> QED
  BY <1>t, <1>n, <1>h, <1>k, <1>c, <1>r DEF BulkInv

--------------------------------------------------------------------------------
\* update_issues_task begins, after the handler and for the same payload.
LEMMA DoesBeginTask == ASSUME BulkInv, BeginTask PROVE BulkInv'
<1>0. BulkTypeOK /\ NothingAhead /\ HandlerOK /\ TaskOK /\ CountsOK /\ ReachOK
  BY DEF BulkInv
<1>1. /\ task.pc = "idle" /\ bulkQueue # {} /\ bulkQueue' = {} /\ TaskGoes(api.op, task.batch, task.evs, task.moved)
      /\ UNCHANGED <<last, status, count, assigned, soft, hashTarget, eventIssue, ingest, api, matched, edited, written, userEdits>>
  <2>1. task' = [task EXCEPT !.pc = api.op]
    BY DEF BeginTask
  <2>2. TaskGoes(api.op, task.batch, task.evs, task.moved)
    BY <1>0, <2>1, BulkTypes, TaskPlace, Zenon DEF TaskGoes
  <2> QED
    BY <2>2 DEF BeginTask, issueTables, history
<1>d. api.pc = "done" /\ TaskBusy /\ api.max \in Nat /\ api.op \in {"status", "assign", "merge"}
  BY <1>0, <1>1, BulkTypes DEF TaskOK, TaskBusy
<1>5. task' \in Chunks /\ task'.pc = api.op /\ task'.batch = task.batch /\ task'.evs = task.evs /\ task'.moved = task.moved
  <2>1. api.op \in TaskPlaces
    BY <1>d DEF TaskPlaces
  <2> QED
    BY <1>0, <1>1, <2>1, BulkTypes, TaskAfter
<1>t. BulkTypeOK'
  BY <1>0, <1>1, <1>5 DEF BulkTypeOK
<1>n. NothingAhead'
  BY <1>0, <1>1, <1>5 DEF NothingAhead
<1>h. HandlerOK'
  BY <1>0, <1>1, <1>d DEF HandlerOK, Merging
<1>k. TaskOK'
  BY <1>0, <1>1, <1>5, <1>d, IdleTaskIs DEF TaskOK, TaskBusy
<1>c. CountsOK'
  <2>1. \A i \in Live : Uncounted(i)' = Uncounted(i)
    BY <1>1, <1>5 DEF Uncounted
  <2> QED
    BY <1>0, <1>1, <2>1, CountsKept
<1>r. ReachOK'
  <2>1. \A i : (Untouched(i) <=> Untouched(i)') /\ (i \in Matching(api.filter) <=> i \in Matching(api.filter)')
    BY <1>1 DEF Untouched, Matching
  <2> QED
    BY <1>0, <1>1, <1>5, <1>d, <2>1 DEF ReachOK, Merging, TaskBusy
<1> QED
  BY <1>t, <1>n, <1>h, <1>k, <1>c, <1>r DEF BulkInv

\* The ids of the next chunk: when there are none the task is through.
LEMMA NextChunk ==
  ASSUME BulkTypeOK, NEW S, S \subseteq BulkIssues, NEW ids \in FirstOf(S, ChunkSize)
  PROVE  ids \in SUBSET BulkIssues /\ ids \subseteq S /\ (ids = {} => S = {})
<1>1. IsFiniteSet(S)
  BY SelectionsFinite
<1> QED
  BY <1>1, BulkAssumption, FirstOfSome

\* The issues the task has to edit still.
LEMMA TaskIssuesAre ==
  ASSUME BulkTypeOK, NothingAhead
  PROVE  TaskIssues \subseteq BulkIssues /\ \A i \in TaskIssues : i <= api.max
BY BulkTypes DEF TaskIssues, Matching

\* The loops take a chunk: issues the request selected, and not the merge target.
LEMMA TakesChunk ==
  ASSUME BulkInv, NEW pc, (task.pc = "status" /\ pc = "set") \/ (task.pc = "assign" /\ pc = "own") \/ (task.pc = "merge" /\ pc = "soft"),
         NEW ids \in SUBSET BulkIssues, \A i \in ids : i <= api.max /\ i # api.target,
         task' = [task EXCEPT !.pc = pc, !.batch = ids],
         UNCHANGED <<last, status, count, assigned, soft, hashTarget, eventIssue, ingest, api, bulkQueue, matched, edited, written, userEdits>>
  PROVE  BulkInv'
<1>0. BulkTypeOK /\ NothingAhead /\ HandlerOK /\ TaskOK /\ CountsOK /\ ReachOK
  BY DEF BulkInv
<1>1. /\ (task.pc = "status" /\ pc = "set") \/ (task.pc = "assign" /\ pc = "own") \/ (task.pc = "merge" /\ pc = "soft")
      /\ UNCHANGED <<last, status, count, assigned, soft, hashTarget, eventIssue, ingest, api, bulkQueue, matched, edited, written, userEdits>>
  OBVIOUS
<1>d. api.pc = "done" /\ TaskBusy /\ api.max \in Nat /\ api.op \in {"status", "assign", "merge"}
  BY <1>0, <1>1, BulkTypes DEF TaskOK, TaskBusy
<1>2. TaskGoes(pc, ids, task.evs, task.moved)
  <2>1. DOMAIN task = ChunkFields
    BY <1>0, BulkTypes
  <2> QED
    BY <2>1, TaskBatch, Zenon DEF TaskGoes
<1>5. task' \in Chunks /\ task'.pc = pc /\ task'.batch = ids /\ task'.evs = task.evs /\ task'.moved = task.moved
  <2>1. pc \in TaskPlaces
    BY <1>1 DEF TaskPlaces
  <2> QED
    BY <1>0, <1>2, <2>1, BulkTypes, TaskAfter
<1>t. BulkTypeOK'
  BY <1>0, <1>1, <1>5 DEF BulkTypeOK
<1>n. NothingAhead'
  BY <1>0, <1>1, <1>5 DEF NothingAhead
<1>h. HandlerOK'
  BY <1>0, <1>1, <1>d DEF HandlerOK, Merging
<1>k. TaskOK'
  BY <1>0, <1>1, <1>5, <1>d DEF TaskOK, TaskBusy
<1>c. CountsOK'
  <2>1. \A i \in Live : Uncounted(i)' = Uncounted(i)
    BY <1>1, <1>5 DEF Uncounted
  <2> QED
    BY <1>0, <1>1, <2>1, CountsKept
<1>r. ReachOK'
  <2>1. \A i : (Untouched(i) <=> Untouched(i)') /\ (i \in Matching(api.filter) <=> i \in Matching(api.filter)')
    BY <1>1 DEF Untouched, Matching
  <2> QED
    BY <1>0, <1>1, <1>5, <1>d, <2>1 DEF ReachOK, Merging, TaskBusy
<1> QED
  BY <1>t, <1>n, <1>h, <1>k, <1>c, <1>r DEF BulkInv

\* The loops leave out the issues that the handler wrote, that are the merge target or that
\* have the status: when there are no others, every selected issue was reached.
LEMMA AllReached ==
  ASSUME BulkInv, \/ task.pc = "status" /\ StatusIssues = {}
                  \/ task.pc = "assign" /\ TaskIssues = {}
                  \/ task.pc = "merge" /\ TaskIssues \ {api.target} = {}
  PROVE  \A i \in matched : Reached(i)
<1>0. HandlerOK /\ TaskOK /\ ReachOK
  BY DEF BulkInv
<1>1. TaskBusy /\ api.pc = "done"
  BY <1>0 DEF TaskOK, TaskBusy
<1>2. ASSUME NEW i \in matched, Untouched(i) PROVE i = api.target \/ i \in TaskIssues
  <2>1. i \in api.ids => i \in written \/ i = api.target
    BY <1>0, <1>1 DEF ReachOK
  <2>2. i \in Matching(api.filter) /\ i <= api.max
    BY <1>0, <1>1, <1>2 DEF ReachOK, HandlerOK
  <2> QED
    BY <1>2, <2>1, <2>2 DEF TaskIssues, Untouched
<1>3. task.pc = "status" => api.op = "status"
  BY <1>0 DEF TaskOK
<1> QED
  BY <1>2, <1>3 DEF Reached, Untouched, StatusIssues

\* The task is through: nothing it moved is left to be counted, and nothing to be reached.
LEMMA LoopEnds ==
  ASSUME BulkInv, TaskBusy, \A i \in matched : Reached(i), task' = IdleTask,
         UNCHANGED <<last, status, assigned, soft, hashTarget, eventIssue, ingest, api, bulkQueue, matched, edited, written, userEdits>>,
         count' \in [BulkIssues -> Nat], \A i \in Live : count'[i] + Uncounted(i)' = count[i] + Uncounted(i)
  PROVE  BulkInv'
<1>0. BulkTypeOK /\ NothingAhead /\ HandlerOK /\ TaskOK /\ CountsOK /\ ReachOK
  BY DEF BulkInv
<1>1. UNCHANGED <<last, status, assigned, soft, hashTarget, eventIssue, ingest, api, bulkQueue, matched, edited, written, userEdits>>
  OBVIOUS
<1>d. api.pc = "done"
  BY <1>0 DEF TaskOK
<1>5. task' \in Chunks /\ task'.pc = "idle" /\ task'.batch = {} /\ task'.evs = {} /\ task'.moved = 0
  BY IdleTaskIs
<1>t. BulkTypeOK'
  BY <1>0, <1>1, <1>5 DEF BulkTypeOK
<1>n. NothingAhead'
  BY <1>0, <1>1, <1>5 DEF NothingAhead
<1>h. HandlerOK'
  BY <1>0, <1>1, <1>d DEF HandlerOK, Merging
<1>k. TaskOK'
  BY <1>0, <1>1, <1>5, <1>d, IdleTaskIs DEF TaskOK, TaskBusy
<1>c. CountsOK'
  <2>1. Live' = Live /\ \A i : Unstored(i)' = Unstored(i) /\ EventsAt(i)' = EventsAt(i)
    BY <1>1 DEF Live, Unstored, EventsAt
  <2> QED
    BY <1>0, <2>1 DEF CountsOK
<1>r. ReachOK'
  <2>1. \A i : (Untouched(i) <=> Untouched(i)') /\ (i \in Matching(api.filter) <=> i \in Matching(api.filter)') /\ (Reached(i) <=> Reached(i)')
    BY <1>1 DEF Untouched, Matching, Reached
  <2> QED
    BY <1>0, <1>1, <1>5, <1>d, <2>1 DEF ReachOK, Merging, TaskBusy
<1> QED
  BY <1>t, <1>n, <1>h, <1>k, <1>c, <1>r DEF BulkInv

\* The status loop reads a chunk; the issues it leaves have the status.
LEMMA DoesReadStatusChunk == ASSUME BulkInv, ReadStatusChunk PROVE BulkInv'
<1>0. BulkTypeOK /\ NothingAhead /\ HandlerOK /\ TaskOK /\ CountsOK /\ ReachOK
  BY DEF BulkInv
<1>1. /\ task.pc = "status" /\ UNCHANGED <<last, status, count, assigned, soft, hashTarget, eventIssue, ingest, api, bulkQueue, matched, edited, written, userEdits>>
  BY DEF ReadStatusChunk, issueTables, history
<1>d. api.pc = "done" /\ TaskBusy /\ api.max \in Nat /\ api.op \in {"status", "assign", "merge"}
  BY <1>0, <1>1, BulkTypes DEF TaskOK, TaskBusy
<1>2. StatusIssues \subseteq BulkIssues /\ \A i \in StatusIssues : i <= api.max /\ i # api.target
  <2>1. NoRow \notin BulkIssues
    BY BulkAssumption DEF BulkIssues
  <2>2. api.op # "merge" => api.target = NoRow
    BY <1>0 DEF HandlerOK
  <2> QED
    BY <1>0, <1>1, <2>1, <2>2, TaskIssuesAre DEF TaskOK, StatusIssues
<1>3. PICK ids \in FirstOf(StatusIssues, ChunkSize) :
        /\ ids = {} => task' = IdleTask
        /\ ids # {} => task' = [task EXCEPT !.pc = "set", !.batch = ids]
  BY Zenon DEF ReadStatusChunk
<1>4. ids \in SUBSET BulkIssues /\ ids \subseteq StatusIssues /\ (ids = {} => StatusIssues = {})
  BY <1>0, <1>2, NextChunk
<1>6. ASSUME ids # {} PROVE BulkInv'
  <2>1. /\ task' = [task EXCEPT !.pc = "set", !.batch = ids]
        /\ \A i \in ids : i <= api.max /\ i # api.target
    BY <1>2, <1>3, <1>4, <1>6, Zenon
  <2> QED
    BY <1>1, <1>4, <2>1, TakesChunk
<1>7. ASSUME ids = {} PROVE BulkInv'
  <2>1. task' = IdleTask /\ StatusIssues = {}
    BY <1>3, <1>4, <1>7, Zenon
  <2>2. \A i \in matched : Reached(i)
    BY <1>1, <2>1, AllReached
  <2>c. /\ count' \in [BulkIssues -> Nat]
        /\ \A i \in Live : count'[i] + Uncounted(i)' = count[i] + Uncounted(i)
    <3>1. task.moved = 0 /\ task'.moved = 0 /\ api' = api /\ count' = count
      BY <1>0, <1>1, <2>1, IdleTaskIs DEF TaskOK
    <3> QED
      BY <1>0, <3>1 DEF Uncounted, BulkTypeOK
  <2> QED
    BY <1>1, <1>d, <2>1, <2>2, <2>c, LoopEnds
<1> QED
  BY <1>6, <1>7

\* The assignment loop reads a chunk.
LEMMA DoesReadAssignChunk == ASSUME BulkInv, ReadAssignChunk PROVE BulkInv'
<1>0. BulkTypeOK /\ NothingAhead /\ HandlerOK /\ TaskOK /\ CountsOK /\ ReachOK
  BY DEF BulkInv
<1>1. /\ task.pc = "assign" /\ UNCHANGED <<last, status, count, assigned, soft, hashTarget, eventIssue, ingest, api, bulkQueue, matched, edited, written, userEdits>>
  BY DEF ReadAssignChunk, issueTables, history
<1>d. api.pc = "done" /\ TaskBusy /\ api.max \in Nat /\ api.op \in {"status", "assign", "merge"}
  BY <1>0, <1>1, BulkTypes DEF TaskOK, TaskBusy
<1>2. TaskIssues \subseteq BulkIssues /\ \A i \in TaskIssues : i <= api.max /\ i # api.target
  <2>1. NoRow \notin BulkIssues
    BY BulkAssumption DEF BulkIssues
  <2>2. api.op # "merge" => api.target = NoRow
    BY <1>0 DEF HandlerOK
  <2> QED
    BY <1>0, <1>1, <2>1, <2>2, TaskIssuesAre DEF TaskOK
<1>3. PICK ids \in FirstOf(TaskIssues, ChunkSize) :
        /\ ids = {} => task' = IdleTask
        /\ ids # {} => task' = [task EXCEPT !.pc = "own", !.batch = ids]
  BY Zenon DEF ReadAssignChunk
<1>4. ids \in SUBSET BulkIssues /\ ids \subseteq TaskIssues /\ (ids = {} => TaskIssues = {})
  BY <1>0, <1>2, NextChunk
<1>6. ASSUME ids # {} PROVE BulkInv'
  <2>1. /\ task' = [task EXCEPT !.pc = "own", !.batch = ids]
        /\ \A i \in ids : i <= api.max /\ i # api.target
    BY <1>2, <1>3, <1>4, <1>6, Zenon
  <2> QED
    BY <1>1, <1>4, <2>1, TakesChunk
<1>7. ASSUME ids = {} PROVE BulkInv'
  <2>1. task' = IdleTask /\ TaskIssues = {}
    BY <1>3, <1>4, <1>7, Zenon
  <2>2. \A i \in matched : Reached(i)
    BY <1>1, <2>1, AllReached
  <2>c. /\ count' \in [BulkIssues -> Nat]
        /\ \A i \in Live : count'[i] + Uncounted(i)' = count[i] + Uncounted(i)
    <3>1. task.moved = 0 /\ task'.moved = 0 /\ api' = api /\ count' = count
      BY <1>0, <1>1, <2>1, IdleTaskIs DEF TaskOK
    <3> QED
      BY <1>0, <3>1 DEF Uncounted, BulkTypeOK
  <2> QED
    BY <1>1, <1>d, <2>1, <2>2, <2>c, LoopEnds
<1> QED
  BY <1>6, <1>7

\* The merge loop reads a chunk, or counts what it moved.
LEMMA DoesReadMergeChunk == ASSUME BulkInv, ReadMergeChunk PROVE BulkInv'
<1>0. BulkTypeOK /\ NothingAhead /\ HandlerOK /\ TaskOK /\ CountsOK /\ ReachOK
  BY DEF BulkInv
<1>1. /\ task.pc = "merge" /\ UNCHANGED <<last, status, assigned, soft, hashTarget, eventIssue, ingest, api, bulkQueue, matched, edited, written, userEdits>>
  BY DEF ReadMergeChunk, issueTables, history
<1>d. api.pc = "done" /\ TaskBusy /\ api.max \in Nat /\ api.op \in {"status", "assign", "merge"}
  BY <1>0, <1>1, BulkTypes DEF TaskOK, TaskBusy
<1>2. TaskIssues \ {api.target} \subseteq BulkIssues /\ \A i \in TaskIssues \ {api.target} : i <= api.max /\ i # api.target
  <2>1. NoRow \notin BulkIssues
    BY BulkAssumption DEF BulkIssues
  <2>2. api.op # "merge" => api.target = NoRow
    BY <1>0 DEF HandlerOK
  <2> QED
    BY <1>0, <1>1, <2>1, <2>2, TaskIssuesAre DEF TaskOK
<1>3. PICK ids \in FirstOf(TaskIssues \ {api.target}, ChunkSize) :
        /\ ids = {} => task' = IdleTask /\ count' = [count EXCEPT ![api.target] = @ + task.moved]
        /\ ids # {} => task' = [task EXCEPT !.pc = "soft", !.batch = ids] /\ UNCHANGED count
  BY Zenon DEF ReadMergeChunk
<1>4. ids \in SUBSET BulkIssues /\ ids \subseteq TaskIssues \ {api.target} /\ (ids = {} => TaskIssues \ {api.target} = {})
  BY <1>0, <1>2, NextChunk
<1>6. ASSUME ids # {} PROVE BulkInv'
  <2>1. /\ task' = [task EXCEPT !.pc = "soft", !.batch = ids] /\ UNCHANGED count
        /\ \A i \in ids : i <= api.max /\ i # api.target
    BY <1>2, <1>3, <1>4, <1>6, Zenon
  <2> QED
    BY <1>1, <1>4, <2>1, TakesChunk
<1>7. ASSUME ids = {} PROVE BulkInv'
  <2>1. task' = IdleTask /\ TaskIssues \ {api.target} = {}
    BY <1>3, <1>4, <1>7, Zenon
  <2>2. \A i \in matched : Reached(i)
    BY <1>1, <2>1, AllReached
  <2>3. /\ api.target \in BulkIssues /\ task.moved \in Nat
        /\ count' = [count EXCEPT ![api.target] = @ + task.moved]
    <3>1. api.target \in 1..api.max /\ api.max <= last
      BY <1>0, <1>1, <1>d DEF TaskOK, NothingAhead
    <3> QED
      BY <1>0, <1>3, <1>7, <3>1, BulkTypes
  <2>4. /\ count' \in [BulkIssues -> Nat] /\ count'[api.target] = count[api.target] + task.moved
        /\ \A i \in BulkIssues : i # api.target => count'[i] = count[i]
    BY <1>0, <2>3 DEF BulkTypeOK
  <2>c. /\ count' \in [BulkIssues -> Nat]
        /\ \A i \in Live : count'[i] + Uncounted(i)' = count[i] + Uncounted(i)
    <3>1. ASSUME NEW i \in Live PROVE count'[i] + Uncounted(i)' = count[i] + Uncounted(i)
      <4>1. i \in BulkIssues /\ count[i] \in Nat
        BY <1>0, <3>1, BulkTypes DEF BulkTypeOK
      <4>2. task'.moved = 0
        BY <2>1, IdleTaskIs
      <4> QED
        BY <1>1, <1>d, <2>3, <2>4, <4>1, <4>2 DEF Uncounted
    <3> QED
      BY <2>4, <3>1
  <2> QED
    BY <1>1, <1>d, <2>1, <2>2, <2>c, LoopEnds
<1> QED
  BY <1>6, <1>7

\* The task sets the status of the issues of its chunk.
LEMMA DoesSetStatusChunk == ASSUME BulkInv, SetStatusChunk PROVE BulkInv'
<1>0. BulkTypeOK /\ NothingAhead /\ HandlerOK /\ TaskOK /\ CountsOK /\ ReachOK
  BY DEF BulkInv
<1>1. /\ task.pc = "set" /\ TaskGoes("status", {}, task.evs, task.moved)
      /\ written' = written \cup task.batch
      /\ UNCHANGED <<last, count, assigned, soft, hashTarget, eventIssue, ingest, api, bulkQueue, matched, edited, userEdits>>
  <2>1. task' = [task EXCEPT !.pc = "status", !.batch = {}]
    BY DEF SetStatusChunk
  <2>2. TaskGoes("status", {}, task.evs, task.moved)
    <3>1. DOMAIN task = ChunkFields
      BY <1>0, BulkTypes
    <3> QED
      BY <2>1, <3>1, TaskBatch, Zenon DEF TaskGoes
  <2> QED
    BY <2>2 DEF SetStatusChunk
<1>5. task' \in Chunks /\ task'.pc = "status" /\ task'.batch = {} /\ task'.evs = task.evs /\ task'.moved = task.moved
  <2>1. "status" \in TaskPlaces
    BY DEF TaskPlaces
  <2> QED
    BY <1>0, <1>1, <2>1, BulkTypes, TaskAfter
<1>d. api.pc = "done" /\ TaskBusy /\ api.max \in Nat /\ api.op \in {"status", "assign", "merge"}
  BY <1>0, <1>1, BulkTypes DEF TaskOK, TaskBusy
<1>2. status' \in [BulkIssues -> Statuses] /\ \A i \in BulkIssues : i \in task.batch \/ status'[i] = status[i]
  BY <1>0 DEF SetStatusChunk, BulkTypeOK, Statuses
<1>6. task.batch \subseteq BulkIssues /\ \A i \in task.batch : i <= api.max
  BY <1>0, BulkTypes DEF TaskOK
<1>t. BulkTypeOK'
  BY <1>0, <1>1, <1>2, <1>5, <1>6 DEF BulkTypeOK
<1>n. NothingAhead'
  BY <1>0, <1>1, <1>5 DEF NothingAhead
<1>h. HandlerOK'
  BY <1>0, <1>1, <1>6, <1>d DEF HandlerOK, Merging
<1>k. TaskOK'
  BY <1>0, <1>1, <1>5, <1>d, IdleTaskIs DEF TaskOK, TaskBusy
<1>c. CountsOK'
  <2>1. \A i \in Live : Uncounted(i)' = Uncounted(i)
    BY <1>1, <1>5 DEF Uncounted
  <2> QED
    BY <1>0, <1>1, <2>1, CountsKept
<1>r. ReachOK'
  <2>1. \A i \in matched : Untouched(i)' => Untouched(i) /\ i \notin task.batch
    BY <1>1 DEF Untouched
  <2>2. ASSUME NEW i \in matched, Untouched(i)', i \in Matching(api.filter) PROVE i \in Matching(api.filter)'
    BY <1>0, <1>1, <1>2, <1>5, <2>1, <2>2, BulkTypes DEF Matching
  <2> QED
    BY <1>0, <1>1, <1>5, <1>d, <2>1, <2>2 DEF ReachOK, Merging, TaskBusy
<1> QED
  BY <1>t, <1>n, <1>h, <1>k, <1>c, <1>r DEF BulkInv

\* The task sets the assignee of the issues of its chunk.
LEMMA DoesAssignChunk == ASSUME BulkInv, AssignChunk PROVE BulkInv'
<1>0. BulkTypeOK /\ NothingAhead /\ HandlerOK /\ TaskOK /\ CountsOK /\ ReachOK
  BY DEF BulkInv
<1>1. /\ task.pc = "own" /\ TaskGoes("assign", {}, task.evs, task.moved)
      /\ written' = written \cup task.batch
      /\ UNCHANGED <<last, status, count, soft, hashTarget, eventIssue, ingest, api, bulkQueue, matched, edited, userEdits>>
  <2>1. task' = [task EXCEPT !.pc = "assign", !.batch = {}]
    BY DEF AssignChunk
  <2>2. TaskGoes("assign", {}, task.evs, task.moved)
    <3>1. DOMAIN task = ChunkFields
      BY <1>0, BulkTypes
    <3> QED
      BY <2>1, <3>1, TaskBatch, Zenon DEF TaskGoes
  <2> QED
    BY <2>2 DEF AssignChunk
<1>5. task' \in Chunks /\ task'.pc = "assign" /\ task'.batch = {} /\ task'.evs = task.evs /\ task'.moved = task.moved
  <2>1. "assign" \in TaskPlaces
    BY DEF TaskPlaces
  <2> QED
    BY <1>0, <1>1, <2>1, BulkTypes, TaskAfter
<1>d. api.pc = "done" /\ TaskBusy /\ api.max \in Nat /\ api.op \in {"status", "assign", "merge"}
  BY <1>0, <1>1, BulkTypes DEF TaskOK, TaskBusy
<1>2. \A i \in BulkIssues : status'[i] = status[i]
  BY <1>1
<1>6. task.batch \subseteq BulkIssues /\ \A i \in task.batch : i <= api.max
  BY <1>0, BulkTypes DEF TaskOK
<1>t. BulkTypeOK'
  BY <1>0, <1>1, <1>5, <1>6 DEF BulkTypeOK
<1>n. NothingAhead'
  BY <1>0, <1>1, <1>5 DEF NothingAhead
<1>h. HandlerOK'
  BY <1>0, <1>1, <1>6, <1>d DEF HandlerOK, Merging
<1>k. TaskOK'
  BY <1>0, <1>1, <1>5, <1>d, IdleTaskIs DEF TaskOK, TaskBusy
<1>c. CountsOK'
  <2>1. \A i \in Live : Uncounted(i)' = Uncounted(i)
    BY <1>1, <1>5 DEF Uncounted
  <2> QED
    BY <1>0, <1>1, <2>1, CountsKept
<1>r. ReachOK'
  <2>1. \A i \in matched : Untouched(i)' => Untouched(i) /\ i \notin task.batch
    BY <1>1 DEF Untouched
  <2>2. ASSUME NEW i \in matched, Untouched(i)', i \in Matching(api.filter) PROVE i \in Matching(api.filter)'
    BY <1>0, <1>1, <1>2, <1>5, <2>1, <2>2, BulkTypes DEF Matching
  <2> QED
    BY <1>0, <1>1, <1>5, <1>d, <2>1, <2>2 DEF ReachOK, Merging, TaskBusy
<1> QED
  BY <1>t, <1>n, <1>h, <1>k, <1>c, <1>r DEF BulkInv

\* The task soft-deletes the issues of its chunk, which the target is not in.
LEMMA DoesSoftDeleteChunk == ASSUME BulkInv, SoftDeleteChunk PROVE BulkInv'
<1>0. BulkTypeOK /\ NothingAhead /\ HandlerOK /\ TaskOK /\ CountsOK /\ ReachOK
  BY DEF BulkInv
<1>1. /\ task.pc = "soft" /\ TaskGoes("hashes", task.batch, task.evs, task.moved)
      /\ soft' = soft \cup task.batch /\ written' = written \cup task.batch
      /\ UNCHANGED <<last, status, count, assigned, hashTarget, eventIssue, ingest, api, bulkQueue, matched, edited, userEdits>>
  <2>1. task' = [task EXCEPT !.pc = "hashes"]
    BY DEF SoftDeleteChunk
  <2>2. TaskGoes("hashes", task.batch, task.evs, task.moved)
    BY <1>0, <2>1, BulkTypes, TaskPlace, Zenon DEF TaskGoes
  <2> QED
    BY <2>2 DEF SoftDeleteChunk, issueTables, history
<1>5. task' \in Chunks /\ task'.pc = "hashes" /\ task'.batch = task.batch /\ task'.evs = task.evs /\ task'.moved = task.moved
  <2>1. "hashes" \in TaskPlaces
    BY DEF TaskPlaces
  <2> QED
    BY <1>0, <1>1, <2>1, BulkTypes, TaskAfter
<1>d. api.pc = "done" /\ TaskBusy /\ api.max \in Nat /\ api.op \in {"status", "assign", "merge"}
  BY <1>0, <1>1, BulkTypes DEF TaskOK, TaskBusy
<1>2. \A i \in BulkIssues : status'[i] = status[i]
  BY <1>1
<1>6. /\ task.batch \subseteq BulkIssues /\ api.target \notin task.batch
      /\ \A i \in task.batch : i <= api.max /\ i <= last
  <2>1. \A i \in task.batch : i \in Nat /\ i <= api.max /\ i # api.target
    BY <1>0, BulkTypes DEF TaskOK, BulkIssues
  <2>2. api.max <= last /\ api.max \in Nat /\ last \in Nat /\ task.batch \subseteq BulkIssues
    BY <1>0, BulkTypes DEF NothingAhead
  <2> QED
    BY <2>1, <2>2
<1>t. BulkTypeOK'
  BY <1>0, <1>1, <1>5, <1>6 DEF BulkTypeOK
<1>n. NothingAhead'
  BY <1>0, <1>1, <1>5, <1>6 DEF NothingAhead
<1>h. HandlerOK'
  BY <1>0, <1>1, <1>6, <1>d DEF HandlerOK, Merging
<1>k. TaskOK'
  BY <1>0, <1>1, <1>5, <1>d, IdleTaskIs DEF TaskOK, TaskBusy
<1>c. CountsOK'
  <2>1. \A i \in Live : Uncounted(i)' = Uncounted(i)
    BY <1>1, <1>5 DEF Uncounted
  <2> QED
    BY <1>0, <1>1, <2>1, CountsKept
<1>r. ReachOK'
  <2>1. \A i \in matched : Untouched(i)' => Untouched(i) /\ i \notin task.batch
    BY <1>1 DEF Untouched
  <2>2. ASSUME NEW i \in matched, Untouched(i)', i \in Matching(api.filter) PROVE i \in Matching(api.filter)'
    BY <1>0, <1>1, <1>2, <1>5, <2>1, <2>2, BulkTypes DEF Matching
  <2> QED
    BY <1>0, <1>1, <1>5, <1>d, <2>1, <2>2 DEF ReachOK, Merging, TaskBusy
<1> QED
  BY <1>t, <1>n, <1>h, <1>k, <1>c, <1>r DEF BulkInv

\* The hashes of the chunk point at the target.
LEMMA DoesMoveChunkHashes == ASSUME BulkInv, MoveChunkHashes PROVE BulkInv'
<1>0. BulkTypeOK /\ NothingAhead /\ HandlerOK /\ TaskOK /\ CountsOK /\ ReachOK
  BY DEF BulkInv
<1>1. /\ task.pc = "hashes" /\ TaskGoes("events", task.batch, task.evs, task.moved)
      /\ hashTarget' = Repointed(task.batch, api.target)
      /\ UNCHANGED <<last, status, count, assigned, soft, eventIssue, ingest, api, bulkQueue, matched, edited, written, userEdits>>
  <2>1. task' = [task EXCEPT !.pc = "events"]
    BY DEF MoveChunkHashes
  <2>2. TaskGoes("events", task.batch, task.evs, task.moved)
    BY <1>0, <2>1, BulkTypes, TaskPlace, Zenon DEF TaskGoes
  <2> QED
    BY <2>2 DEF MoveChunkHashes, issueTables, history
<1>5. task' \in Chunks /\ task'.pc = "events" /\ task'.batch = task.batch /\ task'.evs = task.evs /\ task'.moved = task.moved
  <2>1. "events" \in TaskPlaces
    BY DEF TaskPlaces
  <2> QED
    BY <1>0, <1>1, <2>1, BulkTypes, TaskAfter
<1>d. api.pc = "done" /\ TaskBusy /\ api.max \in Nat /\ api.op \in {"status", "assign", "merge"}
  BY <1>0, <1>1, BulkTypes DEF TaskOK, TaskBusy
<1>7. /\ hashTarget' \in [BulkIssues -> BulkIssues] /\ \A i \in BulkIssues : hashTarget'[i] <= last \/ hashTarget'[i] = i
  <2>1. api.target \in 1..api.max /\ api.max <= last
    BY <1>0, <1>1, <1>d DEF TaskOK, NothingAhead
  <2>2. api.target \in BulkIssues /\ api.target <= last
    BY <1>0, <2>1, BulkTypes
  <2> QED
    BY <1>0, <1>1, <2>2, HashesMove
<1>t. BulkTypeOK'
  BY <1>0, <1>1, <1>5, <1>7 DEF BulkTypeOK
<1>n. NothingAhead'
  BY <1>0, <1>1, <1>5, <1>7 DEF NothingAhead
<1>h. HandlerOK'
  BY <1>0, <1>1, <1>d DEF HandlerOK, Merging
<1>k. TaskOK'
  BY <1>0, <1>1, <1>5, <1>d, IdleTaskIs DEF TaskOK, TaskBusy
<1>c. CountsOK'
  <2>1. \A i \in Live : Uncounted(i)' = Uncounted(i)
    BY <1>1, <1>5 DEF Uncounted
  <2> QED
    BY <1>0, <1>1, <2>1, CountsKept
<1>r. ReachOK'
  <2>1. \A i : (Untouched(i) <=> Untouched(i)') /\ (i \in Matching(api.filter) <=> i \in Matching(api.filter)')
    BY <1>1 DEF Untouched, Matching
  <2> QED
    BY <1>0, <1>1, <1>5, <1>d, <2>1 DEF ReachOK, Merging, TaskBusy
<1> QED
  BY <1>t, <1>n, <1>h, <1>k, <1>c, <1>r DEF BulkInv

\* Events of the chunk are read.
LEMMA DoesReadChunkEvents == ASSUME BulkInv, ReadChunkEvents PROVE BulkInv'
<1>0. BulkTypeOK /\ NothingAhead /\ HandlerOK /\ TaskOK /\ CountsOK /\ ReachOK
  BY DEF BulkInv
<1>1. /\ task.pc = "events"
      /\ UNCHANGED <<last, status, count, assigned, soft, hashTarget, eventIssue, ingest, api, bulkQueue, matched, edited, written, userEdits>>
  BY DEF ReadChunkEvents, issueTables, history
<1>d. api.pc = "done" /\ TaskBusy /\ api.max \in Nat /\ api.op \in {"status", "assign", "merge"}
  BY <1>0, <1>1, BulkTypes DEF TaskOK, TaskBusy
<1>2. PICK evs \in SUBSET BulkEvents :
        TaskGoes("move", task.batch, evs, task.moved) /\ \A e \in evs : eventIssue[e] \in task.batch
  <2>1. PICK evs \in EventsOf(task.batch) : task' = [task EXCEPT !.pc = "move", !.evs = evs]
    BY Zenon DEF ReadChunkEvents
  <2>2. evs \in SUBSET BulkEvents /\ \A e \in evs : eventIssue[e] \in task.batch
    BY <2>1 DEF EventsOf, FirstOf
  <2>0. DOMAIN task = ChunkFields
    BY <1>0, BulkTypes
  <2>3. TaskGoes("move", task.batch, evs, task.moved)
    BY <2>0, <2>1, TaskEvs, Zenon DEF TaskGoes
  <2> QED
    BY <2>2, <2>3
<1>5. task' \in Chunks /\ task'.pc = "move" /\ task'.batch = task.batch /\ task'.evs = evs /\ task'.moved = task.moved
  <2>1. "move" \in TaskPlaces
    BY DEF TaskPlaces
  <2> QED
    BY <1>0, <1>2, <2>1, BulkTypes, TaskAfter
<1>t. BulkTypeOK'
  BY <1>0, <1>1, <1>5 DEF BulkTypeOK
<1>n. NothingAhead'
  BY <1>0, <1>1, <1>5 DEF NothingAhead
<1>h. HandlerOK'
  BY <1>0, <1>1, <1>d DEF HandlerOK, Merging
<1>k. TaskOK'
  BY <1>0, <1>1, <1>2, <1>5, <1>d DEF TaskOK, TaskBusy
<1>c. CountsOK'
  <2>1. \A i \in Live : Uncounted(i)' = Uncounted(i)
    BY <1>1, <1>5 DEF Uncounted
  <2> QED
    BY <1>0, <1>1, <2>1, CountsKept
<1>r. ReachOK'
  <2>1. \A i : (Untouched(i) <=> Untouched(i)') /\ (i \in Matching(api.filter) <=> i \in Matching(api.filter)')
    BY <1>1 DEF Untouched, Matching
  <2> QED
    BY <1>0, <1>1, <1>5, <1>d, <2>1 DEF ReachOK, Merging, TaskBusy
<1> QED
  BY <1>t, <1>n, <1>h, <1>k, <1>c, <1>r DEF BulkInv

\* The events of the chunk move to the target, and are to be counted at the end of the task.
LEMMA DoesMoveChunkEvents == ASSUME BulkInv, MoveChunkEvents PROVE BulkInv'
<1>0. BulkTypeOK /\ NothingAhead /\ HandlerOK /\ TaskOK /\ CountsOK /\ ReachOK
  BY DEF BulkInv
<1>1. /\ task.pc = "move" /\ TaskGoes("merge", {}, {}, task.moved + Cardinality(task.evs))
      /\ eventIssue' = [e \in BulkEvents |-> IF e \in task.evs THEN api.target ELSE eventIssue[e]]
      /\ UNCHANGED <<last, status, count, assigned, soft, hashTarget, ingest, api, bulkQueue, matched, edited, written, userEdits>>
  BY DEF MoveChunkEvents, history, TaskGoes, Chunk
<1>d. api.pc = "done" /\ TaskBusy /\ api.max \in Nat /\ api.op \in {"status", "assign", "merge"}
  BY <1>0, <1>1, BulkTypes DEF TaskOK, TaskBusy
<1>6. PICK S \in SUBSET soft, t \in BulkIssues, evs \in SUBSET BulkEvents :
        /\ t = api.target /\ evs = task.evs /\ t <= last /\ t \notin soft
        /\ \A e \in evs : eventIssue[e] \in S
  <2>1. api.target \in 1..api.max /\ api.max <= last
    BY <1>0, <1>1, <1>d DEF TaskOK, NothingAhead
  <2>2. api.target \notin soft /\ task.batch \subseteq soft /\ \A e \in task.evs : eventIssue[e] \in task.batch
    BY <1>0, <1>1 DEF TaskOK, HandlerOK
  <2> QED
    BY <1>0, <2>1, <2>2, BulkTypes
<1>8. Cardinality(evs) \in Nat /\ task.moved \in Nat /\ Cardinality(task.evs) = Cardinality(evs)
  BY <1>0, <1>6, BulkTypes, SelectionsFinite
<1>5. task' \in Chunks /\ task'.pc = "merge" /\ task'.batch = {} /\ task'.evs = {} /\ task'.moved = task.moved + Cardinality(evs)
  <2>1. "merge" \in TaskPlaces
    BY DEF TaskPlaces
  <2>2. TaskGoes("merge", {}, {}, task.moved + Cardinality(evs))
    BY <1>1, <1>8
  <2> QED
    BY <1>8, <2>1, <2>2, TaskAfter
<1>7. /\ eventIssue' \in [BulkEvents -> BulkIssues \cup {NoRow}]
      /\ \A e \in BulkEvents : eventIssue'[e] # NoRow => eventIssue'[e] <= last'
      /\ \A e \in BulkEvents : eventIssue[e] = NoRow => eventIssue'[e] = NoRow
      /\ \A i \in Live : i # t => EventsAt(i)' = EventsAt(i)
      /\ Cardinality(EventsAt(t)') = Cardinality(EventsAt(t)) + Cardinality(evs)
  <2>1. eventIssue' = [e \in BulkEvents |-> IF e \in evs THEN t ELSE eventIssue[e]]
    BY <1>1, <1>6
  <2>2. S \subseteq soft /\ last' = last
    BY <1>1, <1>6
  <2>3. BulkTypeOK /\ NothingAhead /\ t \notin soft /\ t <= last /\ \A e \in evs : eventIssue[e] \in S
    BY <1>0, <1>6
  <2> QED
    BY <2>1, <2>2, <2>3, EventsMove
<1>t. BulkTypeOK'
  BY <1>0, <1>1, <1>5, <1>7 DEF BulkTypeOK
<1>n. NothingAhead'
  BY <1>0, <1>1, <1>5, <1>7 DEF NothingAhead
<1>h. HandlerOK'
  BY <1>0, <1>1, <1>d DEF HandlerOK, Merging
<1>k. TaskOK'
  BY <1>0, <1>1, <1>5, <1>d DEF TaskOK, TaskBusy
<1>c. CountsOK'
  <2>1. ASSUME NEW i \in Live PROVE count[i] + Uncounted(i)' = Cardinality(EventsAt(i)') + Unstored(i)
    <3>0. api' = api /\ api.pc = "done"
      BY <1>1, <1>d
    <3>1. CASE i # t
      BY <1>0, <1>5, <1>6, <1>7, <2>1, <3>0, <3>1 DEF CountsOK, Uncounted
    <3>2. CASE i = t
      <4>1. count[i] + Uncounted(i) = Cardinality(EventsAt(i)) + Unstored(i)
        BY <1>0, <2>1 DEF CountsOK
      <4>2. Uncounted(i) = task.moved /\ Uncounted(i)' = task.moved + Cardinality(evs)
        BY <1>5, <1>6, <1>8, <3>0, <3>2 DEF Uncounted
      <4>3. count[i] \in Nat /\ Unstored(i) \in Nat
        BY <1>0, <2>1, BulkTypes DEF BulkTypeOK, Unstored
      <4>4. EventsAt(i) \in SUBSET BulkEvents
        BY DEF EventsAt
      <4>5. Cardinality(EventsAt(i)) \in Nat
        BY <4>4, SelectionsFinite
      <4> QED
        BY <1>7, <1>8, <3>2, <4>1, <4>2, <4>3, <4>5
    <3> QED
      BY <3>1, <3>2
  <2>2. Live' = Live /\ count' = count /\ \A i : Unstored(i)' = Unstored(i)
    BY <1>1 DEF Live, Unstored
  <2> QED
    BY <2>1, <2>2 DEF CountsOK
<1>r. ReachOK'
  <2>1. \A i : (Untouched(i) <=> Untouched(i)') /\ (i \in Matching(api.filter) <=> i \in Matching(api.filter)')
    BY <1>1 DEF Untouched, Matching
  <2> QED
    BY <1>0, <1>1, <1>5, <1>d, <2>1 DEF ReachOK, Merging, TaskBusy
<1> QED
  BY <1>t, <1>n, <1>h, <1>k, <1>c, <1>r DEF BulkInv

--------------------------------------------------------------------------------
\* An event of a known hash is looked up.
LEMMA DoesLookup == ASSUME BulkInv, NEW e \in BulkEvents, NEW i \in BulkIssues, Lookup(e, i) PROVE BulkInv'
<1>0. BulkTypeOK /\ NothingAhead /\ HandlerOK /\ TaskOK /\ CountsOK /\ ReachOK
  BY DEF BulkInv
<1>1. /\ ingest.pc = "idle" /\ eventIssue[e] = NoRow /\ i \in 1..last
      /\ ingest' = [pc |-> "count", ev |-> e, issue |-> hashTarget[i], reopen |-> status[hashTarget[i]] = "resolved"]
      /\ UNCHANGED <<last, status, count, assigned, soft, hashTarget, eventIssue, api, bulkQueue, task, matched, edited, written, userEdits>>
  BY DEF Lookup, issueTables, history
<1>2. hashTarget[i] \in BulkIssues /\ hashTarget[i] <= last
  BY <1>0, <1>1 DEF BulkTypeOK, NothingAhead
<1>5. ingest' \in Arriving /\ ingest'.pc = "count" /\ ingest'.ev = e /\ ingest'.issue = hashTarget[i]
  BY <1>1, <1>2 DEF Arriving
<1>t. BulkTypeOK'
  BY <1>0, <1>1, <1>5 DEF BulkTypeOK
<1>n. NothingAhead'
  BY <1>0, <1>1, <1>2, <1>5 DEF NothingAhead
<1>h. HandlerOK'
  BY <1>0, <1>1 DEF HandlerOK, Merging, Sources
<1>k. TaskOK'
  BY <1>0, <1>1 DEF TaskOK, TaskBusy
<1>c. CountsOK'
  <2>1. \A j : Unstored(j)' = Unstored(j)
    BY <1>1, <1>5 DEF Unstored
  <2>2. Live' = Live /\ \A j : EventsAt(j)' = EventsAt(j) /\ Uncounted(j)' = Uncounted(j)
    BY <1>1 DEF Live, EventsAt, Uncounted
  <2> QED
    BY <1>0, <1>1, <2>1, <2>2 DEF CountsOK
<1>r. ReachOK'
  <2>1. \A k : (Untouched(k) <=> Untouched(k)') /\ (k \in Matching(api.filter) => k \in Matching(api.filter)')
    BY <1>0, <1>1, BulkTypes DEF Untouched, Matching
  <2>2. \A k : Reached(k) <=> Reached(k)'
    BY <1>1 DEF Reached
  <2> QED
    BY <1>0, <1>1, <2>1, <2>2 DEF ReachOK, Merging, TaskBusy
<1> QED
  BY <1>t, <1>n, <1>h, <1>k, <1>c, <1>r DEF BulkInv

\* An event of a new hash gets an issue, created after the ids were frozen or before.
LEMMA DoesCreateIssue == ASSUME BulkInv, NEW e \in BulkEvents, CreateIssue(e) PROVE BulkInv'
<1>0. BulkTypeOK /\ NothingAhead /\ HandlerOK /\ TaskOK /\ CountsOK /\ ReachOK
  BY DEF BulkInv
<1>1. /\ ingest.pc = "idle" /\ eventIssue[e] = NoRow /\ last < MaxBulkIssues
      /\ last' = last + 1 /\ count' = [count EXCEPT ![last + 1] = 1]
      /\ ingest' = [pc |-> "copy", ev |-> e, issue |-> last + 1, reopen |-> FALSE]
      /\ UNCHANGED <<status, assigned, soft, hashTarget, eventIssue, api, bulkQueue, task, matched, edited, written, userEdits>>
  BY DEF CreateIssue, history
<1>2. /\ last \in Nat /\ last + 1 \in BulkIssues /\ last + 1 \in 0..MaxBulkIssues /\ 1..(last + 1) = (1..last) \cup {last + 1}
      /\ api.max \in Nat /\ api.max <= last /\ MaxBulkIssues \in Nat
  BY <1>0, <1>1, BulkTypes, BulkAssumption DEF BulkIssues, NothingAhead
<1>3. /\ count' \in [BulkIssues -> Nat] /\ count'[last + 1] = 1
      /\ \A j \in BulkIssues : j # last + 1 => count'[j] = count[j]
  BY <1>0, <1>1, <1>2 DEF BulkTypeOK
<1>4. NoRow \notin BulkIssues
  BY BulkAssumption DEF BulkIssues
<1>5. ingest' \in Arriving /\ ingest'.pc = "copy" /\ ingest'.ev = e /\ ingest'.issue = last + 1
  BY <1>1, <1>2 DEF Arriving
<1>t. BulkTypeOK'
  BY <1>0, <1>1, <1>2, <1>3, <1>5 DEF BulkTypeOK
<1>n. NothingAhead'
  <2>1. \A j \in BulkIssues : hashTarget[j] \in BulkIssues /\ (hashTarget[j] <= last + 1 \/ hashTarget[j] = j)
    BY <1>0, <1>2 DEF NothingAhead, BulkTypeOK, BulkIssues
  <2>2. /\ \A f \in BulkEvents : eventIssue[f] # NoRow => eventIssue[f] <= last + 1
        /\ \A j \in soft : j <= last + 1
        /\ api.target # NoRow => api.target <= last + 1
    <3>1. /\ \A f \in BulkEvents : eventIssue[f] # NoRow => eventIssue[f] \in Nat
          /\ \A j \in soft : j \in Nat
          /\ api.target # NoRow => api.target \in Nat
      BY <1>0, BulkTypes DEF BulkTypeOK, BulkIssues
    <3> QED
      BY <1>0, <1>2, <3>1 DEF NothingAhead
  <2> QED
    BY <1>1, <1>2, <1>5, <2>1, <2>2 DEF NothingAhead
<1>h. HandlerOK'
  BY <1>0, <1>1 DEF HandlerOK, Merging, Sources
<1>k. TaskOK'
  BY <1>0, <1>1 DEF TaskOK, TaskBusy
<1>c. CountsOK'
  <2>1. ASSUME NEW j \in Live' PROVE count'[j] + Uncounted(j)' = Cardinality(EventsAt(j)') + Unstored(j)'
    <3>1. Uncounted(j)' = Uncounted(j) /\ EventsAt(j)' = EventsAt(j)
      BY <1>1 DEF Uncounted, EventsAt
    <3>2. CASE j = last + 1
      <4>1. Uncounted(j) = 0
        <5>1. api.target # last + 1
          BY <1>0, <1>2, <1>4 DEF NothingAhead
        <5> QED
          BY <3>2, <5>1 DEF Uncounted
      <4>2. EventsAt(j) = {}
        BY <1>0, <1>2, <1>4, <3>2 DEF NothingAhead, EventsAt
      <4>3. Cardinality(EventsAt(j)) = 0
        BY <4>2, FS_EmptySet
      <4>4. Unstored(j)' = 1
        BY <1>5, <3>2 DEF Unstored
      <4> QED
        BY <1>3, <3>1, <3>2, <4>1, <4>3, <4>4
    <3>3. CASE j # last + 1
      <4>1. j \in Live /\ j \in BulkIssues
        BY <1>0, <1>1, <1>2, <2>1, <3>3, BulkTypes DEF Live
      <4>2. Unstored(j)' = Unstored(j)
        BY <1>1, <1>5, <3>3 DEF Unstored
      <4> QED
        BY <1>0, <1>3, <3>1, <3>3, <4>1, <4>2 DEF CountsOK
    <3> QED
      BY <3>2, <3>3
  <2> QED
    BY <2>1 DEF CountsOK
<1>r. ReachOK'
  <2>1. \A i : (Untouched(i) <=> Untouched(i)') /\ (i \in Matching(api.filter) => i \in Matching(api.filter)')
    BY <1>0, <1>1, BulkTypes DEF Untouched, Matching
  <2>2. \A i : Reached(i) <=> Reached(i)'
    BY <1>1 DEF Reached
  <2> QED
    BY <1>0, <1>1, <2>1, <2>2 DEF ReachOK, Merging, TaskBusy
<1> QED
  BY <1>t, <1>n, <1>h, <1>k, <1>c, <1>r DEF BulkInv

\* The record of the ingest worker as it goes on with its event.
LEMMA Arrives ==
  ASSUME ingest \in Arriving, NEW pc \in {"reopen", "copy"}, ingest' = [ingest EXCEPT !.pc = pc]
  PROVE  ingest' \in Arriving /\ ingest'.pc = pc /\ ingest'.ev = ingest.ev /\ ingest'.issue = ingest.issue
BY DEF Arriving

\* The issue of the event is counted; the events that were moved are counted elsewhere.
LEMMA DoesCountEvent == ASSUME BulkInv, CountEvent PROVE BulkInv'
<1>0. BulkTypeOK /\ NothingAhead /\ HandlerOK /\ TaskOK /\ CountsOK /\ ReachOK
  BY DEF BulkInv
<1>1. /\ ingest.pc = "count" /\ count' = [count EXCEPT ![ingest.issue] = @ + 1]
      /\ UNCHANGED <<last, status, assigned, soft, hashTarget, eventIssue, api, bulkQueue, task, matched, edited, written, userEdits>>
  BY DEF CountEvent, history
<1>2. PICK pc \in {"reopen", "copy"} : ingest' = [ingest EXCEPT !.pc = pc]
  BY DEF CountEvent
<1>5. ingest' \in Arriving /\ ingest'.pc = pc /\ ingest'.ev = ingest.ev /\ ingest'.issue = ingest.issue
  BY <1>0, <1>2, BulkTypes, Arrives
<1>6. ingest.issue \in BulkIssues
  BY <1>0, <1>1 DEF NothingAhead
<1>7. /\ count' \in [BulkIssues -> Nat] /\ count'[ingest.issue] = count[ingest.issue] + 1
      /\ \A j \in BulkIssues : j # ingest.issue => count'[j] = count[j]
  BY <1>0, <1>1, <1>6 DEF BulkTypeOK
<1>t. BulkTypeOK'
  BY <1>0, <1>1, <1>5, <1>7 DEF BulkTypeOK
<1>n. NothingAhead'
  BY <1>0, <1>1, <1>5 DEF NothingAhead
<1>h. HandlerOK'
  BY <1>0, <1>1 DEF HandlerOK, Merging, Sources
<1>k. TaskOK'
  BY <1>0, <1>1 DEF TaskOK, TaskBusy
<1>c. CountsOK'
  <2>1. ASSUME NEW j \in Live PROVE count'[j] + Uncounted(j)' = Cardinality(EventsAt(j)) + Unstored(j)'
    <3>1. /\ Uncounted(j)' = Uncounted(j) /\ count[j] + Uncounted(j) = Cardinality(EventsAt(j)) + Unstored(j)
          /\ j \in BulkIssues /\ count[j] \in Nat
      BY <1>0, <1>1, <2>1, BulkTypes DEF Uncounted, CountsOK, BulkTypeOK
    <3>2. EventsAt(j) \in SUBSET BulkEvents
      BY DEF EventsAt
    <3>3. Cardinality(EventsAt(j)) \in Nat /\ Uncounted(j) \in Nat
      <4>1. Cardinality(api.evs) \in Nat /\ task.moved \in Nat
        BY <1>0, BulkTypes, SelectionsFinite
      <4> QED
        BY <3>2, <4>1, SelectionsFinite DEF Uncounted
    <3>4. Unstored(j) = 0 /\ Unstored(j)' = (IF j = ingest.issue THEN 1 ELSE 0)
      BY <1>1, <1>2, <1>5 DEF Unstored
    <3> QED
      BY <1>7, <3>1, <3>3, <3>4
  <2>2. Live' = Live /\ \A j : EventsAt(j)' = EventsAt(j)
    BY <1>1 DEF Live, EventsAt
  <2> QED
    BY <2>1, <2>2 DEF CountsOK
<1>r. ReachOK'
  <2>1. \A i : (Untouched(i) <=> Untouched(i)') /\ (i \in Matching(api.filter) => i \in Matching(api.filter)')
    BY <1>0, <1>1, BulkTypes DEF Untouched, Matching
  <2>2. \A i : Reached(i) <=> Reached(i)'
    BY <1>1 DEF Reached
  <2> QED
    BY <1>0, <1>1, <2>1, <2>2 DEF ReachOK, Merging, TaskBusy
<1> QED
  BY <1>t, <1>n, <1>h, <1>k, <1>c, <1>r DEF BulkInv

\* A regression while the request is under way: the issue is one somebody else edited.
LEMMA DoesReopen == ASSUME BulkInv, Reopen PROVE BulkInv'
<1>0. BulkTypeOK /\ NothingAhead /\ HandlerOK /\ TaskOK /\ CountsOK /\ ReachOK
  BY DEF BulkInv
<1>1. /\ ingest.pc = "reopen" /\ status' = [status EXCEPT ![ingest.issue] = "unresolved"]
      /\ edited' = edited \cup {ingest.issue}
      /\ UNCHANGED <<last, count, assigned, soft, hashTarget, eventIssue, api, bulkQueue, task, matched, written, userEdits>>
  BY DEF Reopen
<1>5. ingest' \in Arriving /\ ingest'.pc = "copy" /\ ingest'.ev = ingest.ev /\ ingest'.issue = ingest.issue
  <2>1. ingest' = [ingest EXCEPT !.pc = "copy"]
    BY DEF Reopen
  <2> QED
    BY <1>0, <2>1, BulkTypes, Arrives
<1>6. PICK k \in BulkIssues : k = ingest.issue
  BY <1>0, <1>1 DEF NothingAhead
<1>7. status' \in [BulkIssues -> Statuses] /\ \A j \in BulkIssues : j # k => status'[j] = status[j]
  BY <1>0, <1>1, <1>6 DEF BulkTypeOK, Statuses
<1>t. BulkTypeOK'
  BY <1>0, <1>1, <1>5, <1>6, <1>7 DEF BulkTypeOK
<1>n. NothingAhead'
  BY <1>0, <1>1, <1>5 DEF NothingAhead
<1>h. HandlerOK'
  BY <1>0, <1>1 DEF HandlerOK, Merging, Sources
<1>k. TaskOK'
  BY <1>0, <1>1 DEF TaskOK, TaskBusy
<1>c. CountsOK'
  <2>1. \A j : Unstored(j)' = Unstored(j)
    BY <1>1, <1>5 DEF Unstored
  <2>2. Live' = Live /\ \A j : EventsAt(j)' = EventsAt(j) /\ Uncounted(j)' = Uncounted(j)
    BY <1>1 DEF Live, EventsAt, Uncounted
  <2> QED
    BY <1>0, <1>1, <2>1, <2>2 DEF CountsOK
<1>r. ReachOK'
  <2>1. \A j \in matched : Untouched(j)' => Untouched(j) /\ j # k
    BY <1>1, <1>6 DEF Untouched
  <2>2. ASSUME NEW j \in matched, Untouched(j)', j \in Matching(api.filter) PROVE j \in Matching(api.filter)'
    BY <1>0, <1>1, <1>7, <2>1, <2>2, BulkTypes DEF Matching
  <2>3. ASSUME NEW j \in matched, Reached(j) PROVE Reached(j)'
    <3>1. j \in BulkIssues
      BY <1>0 DEF BulkTypeOK
    <3> QED
      BY <1>1, <1>6, <1>7, <2>3, <3>1 DEF Reached
  <2> QED
    BY <1>0, <1>1, <2>1, <2>2, <2>3 DEF ReachOK, Merging, TaskBusy
<1> QED
  BY <1>t, <1>n, <1>h, <1>k, <1>c, <1>r DEF BulkInv

\* A user resolves or reopens an issue while the request is under way.
LEMMA DoesUserEdit == ASSUME BulkInv, NEW k \in BulkIssues, NEW s \in Statuses, UserEdit(k, s) PROVE BulkInv'
<1>0. BulkTypeOK /\ NothingAhead /\ HandlerOK /\ TaskOK /\ CountsOK /\ ReachOK
  BY DEF BulkInv
<1>1. /\ status' = [status EXCEPT ![k] = s] /\ edited' = edited \cup {k}
      /\ UNCHANGED <<ingest, last, count, assigned, soft, hashTarget, eventIssue, api, bulkQueue, task, matched, written>>
  BY DEF UserEdit
<1>7. status' \in [BulkIssues -> Statuses] /\ \A j \in BulkIssues : j # k => status'[j] = status[j]
  BY <1>0, <1>1 DEF BulkTypeOK, Statuses
<1>t. BulkTypeOK'
  BY <1>0, <1>1, <1>7 DEF BulkTypeOK
<1>n. NothingAhead'
  BY <1>0, <1>1 DEF NothingAhead
<1>h. HandlerOK'
  BY <1>0, <1>1 DEF HandlerOK, Merging, Sources
<1>k. TaskOK'
  BY <1>0, <1>1 DEF TaskOK, TaskBusy
<1>c. CountsOK'
  <2>1. Live' = Live /\ \A j : EventsAt(j)' = EventsAt(j) /\ Uncounted(j)' = Uncounted(j) /\ Unstored(j)' = Unstored(j)
    BY <1>1 DEF Live, EventsAt, Uncounted, Unstored
  <2> QED
    BY <1>0, <1>1, <2>1 DEF CountsOK
<1>r. ReachOK'
  <2>1. \A j \in matched : Untouched(j)' => Untouched(j) /\ j # k
    BY <1>1 DEF Untouched
  <2>2. ASSUME NEW j \in matched, Untouched(j)', j \in Matching(api.filter) PROVE j \in Matching(api.filter)'
    BY <1>0, <1>1, <1>7, <2>1, <2>2, BulkTypes DEF Matching
  <2>3. ASSUME NEW j \in matched, Reached(j) PROVE Reached(j)'
    <3>1. j \in BulkIssues
      BY <1>0 DEF BulkTypeOK
    <3> QED
      BY <1>1, <1>7, <2>3, <3>1 DEF Reached
  <2> QED
    BY <1>0, <1>1, <2>1, <2>2, <2>3 DEF ReachOK, Merging, TaskBusy
<1> QED
  BY <1>t, <1>n, <1>h, <1>k, <1>c, <1>r DEF BulkInv

\* The event is stored, under the issue it counted for.
LEMMA DoesCopyEvent == ASSUME BulkInv, CopyEvent PROVE BulkInv'
<1>0. BulkTypeOK /\ NothingAhead /\ HandlerOK /\ TaskOK /\ CountsOK /\ ReachOK
  BY DEF BulkInv
<1>1. /\ ingest.pc = "copy" /\ eventIssue' = [eventIssue EXCEPT ![ingest.ev] = ingest.issue]
      /\ ingest' = IdleIngest
      /\ UNCHANGED <<last, status, count, assigned, soft, hashTarget, api, bulkQueue, task, matched, edited, written, userEdits>>
  BY DEF CopyEvent, history
<1>2. PICK e \in BulkEvents, k \in BulkIssues : e = ingest.ev /\ k = ingest.issue /\ eventIssue[e] = NoRow /\ k <= last
  BY <1>0, <1>1 DEF NothingAhead
<1>4. NoRow \notin BulkIssues
  BY BulkAssumption DEF BulkIssues
<1>5. ingest' \in Arriving /\ ingest'.pc = "idle"
  BY <1>1 DEF Arriving, IdleIngest
<1>7. /\ eventIssue' \in [BulkEvents -> BulkIssues \cup {NoRow}] /\ eventIssue'[e] = k
      /\ \A f \in BulkEvents : f # e => eventIssue'[f] = eventIssue[f]
  BY <1>0, <1>1, <1>2 DEF BulkTypeOK
<1>8. (api.pc = "move" => e \notin api.evs) /\ (task.pc = "move" => e \notin task.evs)
  <2>1. NoRow \notin Sources /\ NoRow \notin task.batch
    BY <1>0, <1>4, BulkTypes DEF Sources
  <2> QED
    BY <1>0, <1>2, <2>1 DEF HandlerOK, TaskOK
<1>9. api.evs \in SUBSET BulkEvents /\ task.evs \in SUBSET BulkEvents
  BY <1>0, BulkTypes
<1>t. BulkTypeOK'
  BY <1>0, <1>1, <1>5, <1>7 DEF BulkTypeOK
<1>n. NothingAhead'
  BY <1>0, <1>1, <1>2, <1>5, <1>7 DEF NothingAhead
<1>h. HandlerOK'
  BY <1>0, <1>1, <1>7, <1>8, <1>9 DEF HandlerOK, Merging, Sources
<1>k. TaskOK'
  BY <1>0, <1>1, <1>7, <1>8, <1>9 DEF TaskOK, TaskBusy
<1>c. CountsOK'
  <2>1. ASSUME NEW j \in Live PROVE Cardinality(EventsAt(j)') + Unstored(j)' = Cardinality(EventsAt(j)) + Unstored(j)
    <3>1. Unstored(j)' = 0
      BY <1>5 DEF Unstored
    <3>2. EventsAt(j) \in SUBSET BulkEvents
      BY DEF EventsAt
    <3>3. IsFiniteSet(EventsAt(j)) /\ Cardinality(EventsAt(j)) \in Nat
      BY <3>2, SelectionsFinite
    <3>4. CASE j = k
      <4>1. EventsAt(j)' = EventsAt(j) \cup {e} /\ e \notin EventsAt(j)
        BY <1>2, <1>4, <1>7, <3>4 DEF EventsAt
      <4>2. Cardinality(EventsAt(j)') = Cardinality(EventsAt(j)) + 1
        BY <3>3, <4>1, FS_AddElement
      <4>3. Unstored(j) = 1
        BY <1>1, <1>2, <3>4 DEF Unstored
      <4> QED
        BY <3>1, <3>3, <4>2, <4>3
    <3>5. CASE j # k
      <4>1. EventsAt(j)' = EventsAt(j)
        <5>1. j # NoRow
          BY <1>0, <1>4, <2>1, BulkTypes
        <5> QED
          BY <1>2, <1>7, <3>5, <5>1 DEF EventsAt
      <4>2. Unstored(j) = 0
        BY <1>2, <3>5 DEF Unstored
      <4> QED
        BY <3>1, <4>1, <4>2
    <3> QED
      BY <3>4, <3>5
  <2>2. Live' = Live /\ count' = count /\ \A j : Uncounted(j)' = Uncounted(j)
    BY <1>1 DEF Live, Uncounted
  <2> QED
    BY <1>0, <2>1, <2>2 DEF CountsOK
<1>r. ReachOK'
  <2>1. \A i : (Untouched(i) <=> Untouched(i)') /\ (i \in Matching(api.filter) => i \in Matching(api.filter)')
    BY <1>0, <1>1, BulkTypes DEF Untouched, Matching
  <2>2. \A i : Reached(i) <=> Reached(i)'
    BY <1>1 DEF Reached
  <2> QED
    BY <1>0, <1>1, <2>1, <2>2 DEF ReachOK, Merging, TaskBusy
<1> QED
  BY <1>t, <1>n, <1>h, <1>k, <1>c, <1>r DEF BulkInv


--------------------------------------------------------------------------------
\* The request comes in: nothing is selected, edited or written.
LEMMA RequestComesIn == ASSUME BulkInit PROVE BulkInv
<1>1. /\ last = Existing /\ last \in 0..MaxBulkIssues /\ status \in [BulkIssues -> Statuses]
      /\ eventIssue \in [BulkEvents -> (1..last) \cup {NoRow}]
      /\ count = [i \in BulkIssues |-> Cardinality(EventsAt(i))]
      /\ soft = {} /\ hashTarget = [i \in BulkIssues |-> i]
      /\ ingest = IdleIngest /\ bulkQueue = {} /\ task = IdleTask
      /\ matched = {} /\ edited = {} /\ written = {}
  BY BulkAssumption DEF BulkInit, EventsAt
<1>2. PICK op \in Ops, f \in Filters :
        api = [pc |-> "max", op |-> op, filter |-> f, max |-> 0, ids |-> {}, target |-> NoRow, evs |-> {}]
  BY DEF BulkInit
<1>3. /\ last \in Nat /\ 1..last \subseteq BulkIssues /\ NoRow \notin BulkIssues
      /\ op \in {"status", "assign", "merge"} /\ f \in {"all", "unresolved"}
  BY <1>1, BulkAssumption DEF BulkIssues
<1>4. api \in Requested /\ api.pc = "max" /\ api.max = 0 /\ api.ids = {} /\ api.target = NoRow /\ api.evs = {}
  BY <1>2, <1>3 DEF Requested, ApiPlaces
<1>5. task \in Chunks /\ task.pc = "idle" /\ task.batch = {} /\ task.evs = {} /\ task.moved = 0
  BY <1>1, IdleTaskIs
<1>6. ingest \in Arriving /\ ingest.pc = "idle"
  BY <1>1 DEF Arriving, IdleIngest
<1>7. \A i \in BulkIssues : Cardinality(EventsAt(i)) \in Nat /\ count[i] = Cardinality(EventsAt(i))
  <2>1. \A i : EventsAt(i) \in SUBSET BulkEvents
    BY DEF EventsAt
  <2> QED
    BY <1>1, <2>1, SelectionsFinite
<1>t. BulkTypeOK
  <2>1. count \in [BulkIssues -> Nat]
    BY <1>1, <1>7
  <2>2. hashTarget \in [BulkIssues -> BulkIssues] /\ eventIssue \in [BulkEvents -> BulkIssues \cup {NoRow}]
    BY <1>1, <1>3
  <2> QED
    BY <1>1, <1>4, <1>5, <1>6, <2>1, <2>2 DEF BulkTypeOK
<1>n. NothingAhead
  BY <1>1, <1>3, <1>4, <1>6 DEF NothingAhead
<1>h. HandlerOK
  BY <1>1, <1>4 DEF HandlerOK, Merging
<1>k. TaskOK
  BY <1>1, <1>4, <1>5 DEF TaskOK, TaskBusy
<1>c. CountsOK
  <2>1. ASSUME NEW i \in Live PROVE count[i] + Uncounted(i) = Cardinality(EventsAt(i)) + Unstored(i)
    <3>1. i \in BulkIssues
      BY <1>3, <2>1 DEF Live
    <3>2. Uncounted(i) = 0 /\ Unstored(i) = 0
      BY <1>4, <1>5, <1>6 DEF Uncounted, Unstored
    <3> QED
      BY <1>7, <3>1, <3>2
  <2> QED
    BY <2>1 DEF CountsOK
<1>r. ReachOK
  BY <1>1, <1>4, <1>5 DEF ReachOK, Merging, TaskBusy
<1> QED
  BY <1>t, <1>n, <1>h, <1>k, <1>c, <1>r DEF BulkInv

\* A step of the handler, of the task, of ingest or of a user.
LEMMA BulkStep == ASSUME BulkInv, [BulkNext]_bulkVars PROVE BulkInv'
<1>1. CASE ApiStep
  BY <1>1, DoesReadMaxId, DoesReadFirst, DoesWriteFirst, DoesPickTarget, DoesSoftDeleteFirst, DoesMoveFirstHashes,
     DoesReadFirstEvents, DoesMoveFirstEvents, DoesCountFirstEvents, DoesEnqueueTask DEF ApiStep
<1>2. CASE TaskStep
  BY <1>2, DoesBeginTask, DoesReadStatusChunk, DoesSetStatusChunk, DoesReadAssignChunk, DoesAssignChunk,
     DoesReadMergeChunk, DoesSoftDeleteChunk, DoesMoveChunkHashes, DoesReadChunkEvents, DoesMoveChunkEvents DEF TaskStep
<1>3. CASE BulkIngestStep
  BY <1>3, DoesLookup, DoesCreateIssue, DoesCountEvent, DoesReopen, DoesCopyEvent DEF BulkIngestStep
<1>4. CASE \E i \in BulkIssues, s \in Statuses : UserEdit(i, s)
  BY <1>4, DoesUserEdit
<1>5. CASE UNCHANGED bulkVars
  BY <1>5 DEF bulkVars, issueTables, history, BulkInv, BulkTypeOK, NothingAhead, HandlerOK, TaskOK, TaskBusy, CountsOK,
     ReachOK, Merging, Sources, EventsAt, Uncounted, Unstored, Live, Reached, Untouched, Matching
<1> QED
  BY <1>1, <1>2, <1>3, <1>4, <1>5 DEF BulkNext

\* The invariant of update_issues and update_issues_task beside ingest and users.
THEOREM BulkEditsInvariant == BulkSpec => []BulkInv
<1>1. BulkInit => BulkInv
  BY RequestComesIn
<1>2. BulkInv /\ [BulkNext]_bulkVars => BulkInv'
  BY BulkStep
<1> QED
  BY <1>1, <1>2, PTL DEF BulkSpec

\* Handler and task of a bulk edit write the issues that matched when update_issues froze
\* the highest id and no later one, leave out none of them but those that somebody edited
\* meanwhile, and a merge leaves each visible issue counting its events.
THEOREM BulkEditsFrozenSet == BulkSpec => []EditsTheFrozenSet
<1>1. ASSUME BulkInv PROVE EditsTheFrozenSet
  <2>0. BulkTypeOK /\ HandlerOK /\ TaskOK /\ CountsOK /\ ReachOK
    BY <1>1 DEF BulkInv
  <2>1. LaterIssuesUntouched
    BY <2>0 DEF HandlerOK, LaterIssuesUntouched
  <2>2. EveryMatchReached
    BY <2>0 DEF ReachOK, TaskBusy, EveryMatchReached, Finished, Reached
  <2>3. CountsOwnEvents
    <3>1. ASSUME Finished, ingest.pc = "idle", NEW i \in Live PROVE count[i] = Cardinality(EventsAt(i))
      <4>1. task.moved = 0
        BY <2>0, <3>1, IdleTaskIs DEF TaskOK, Finished
      <4>2. Uncounted(i) = 0 /\ Unstored(i) = 0
        BY <3>1, <4>1 DEF Uncounted, Unstored, Finished
      <4>3. EventsAt(i) \in SUBSET BulkEvents /\ i \in BulkIssues
        BY <2>0, <3>1, BulkTypes DEF EventsAt
      <4>4. count[i] \in Nat /\ Cardinality(EventsAt(i)) \in Nat
        BY <2>0, <4>3, SelectionsFinite DEF BulkTypeOK
      <4> QED
        BY <2>0, <3>1, <4>2, <4>4 DEF CountsOK
    <3> QED
      BY <3>1 DEF CountsOwnEvents, EventsAt
  <2> QED
    BY <2>1, <2>2, <2>3 DEF EditsTheFrozenSet
<1> QED
  BY <1>1, BulkEditsInvariant, PTL
--------------------------------------------------------------------------------
(***************************************************************************)
(* The nine statements of a deletion, with ingest between any two of them. *)
(***************************************************************************)
\* Types of the variables the properties are about.
IssueOrNone == Issues \cup {None}
Holdings == [pc : {"idle", "create", "winner", "update", "copy", "aggregate"}, ev : Events \cup {None},
             hash : Hashes \cup {None}, issue : IssueOrNone]
DeletePlaces == {"idle", "events", "raw", "aggregates", "leaf", "links", "hashes", "comments", "issue"}
Runs == [pc : DeletePlaces, src : {"none", "task", "maintenance"}, arg : SUBSET Issues, ids : SUBSET Issues,
         batch : SUBSET Events]
DeleteRequests == [pc : {"idle", "enqueue", "read"}, ids : SUBSET Issues]
LifecycleTypeOK ==
  /\ row \in [Issues -> {"absent", "live", "soft"}] /\ seq \in 0..MaxIssues
  /\ hashOf \in [Hashes -> IssueOrNone] /\ replica \in [Hashes -> IssueOrNone]
  /\ leaf \in [Issues -> {"absent", "fresh", "old"}]
  /\ event \in [Events -> IssueOrNone] /\ aggr \subseteq Issues
  /\ todo \subseteq Events
  /\ worker \in [Workers -> Holdings] /\ del \in [Deleters -> Runs]
  /\ request \in DeleteRequests /\ queue \subseteq SUBSET Issues
  /\ skipped \subseteq Issues /\ raced \subseteq Issues

\* What a worker holds when it goes on.
Known(r) == /\ r.pc \in {"update", "copy", "aggregate"} => r.issue \in Issues
            /\ r.pc # "idle" => r.ev \in Events /\ r.hash \in Hashes

\* No row and no deletion has an id that the sequence has not handed out; a worker
\* that is to update, to store or to aggregate has an event and an issue.
FromSequence ==
  /\ \A i \in Rows : i <= seq
  /\ \A d \in Deleters : del[d].pc = "idle" => del[d].ids = {}
  /\ \A d \in Deleters : \A i \in del[d].ids : i <= seq
  /\ \A w \in Workers : Known(worker[w])

\* Issues that are gone or being deleted, and the workers that hold one of them.
Going(i) == row[i] = Absent \/ \E d \in Deleters : i \in del[d].ids
HoldersRaced == \A w \in Workers : worker[w].issue \in Issues /\ Going(worker[w].issue) => worker[w].issue \in raced

\* A deletion has removed what its place says, of every issue nobody raced.
NoEvents(i) == \A e \in Events : event[e] # i
Cleared(d, i) ==
  /\ del[d].pc \notin {"idle", "events", "raw"} => NoEvents(i)
  /\ del[d].pc \notin {"idle", "events", "raw", "aggregates"} => i \notin aggr
  /\ del[d].pc \notin {"idle", "events", "raw", "aggregates", "leaf"} => leaf[i] = Absent
DeletersClear == \A d \in Deleters : \A i \in del[d].ids : i \in raced \/ Cleared(d, i)

LifecycleInv == LifecycleTypeOK /\ FromSequence /\ HoldersRaced /\ DeletersClear /\ DeletionsLeaveNoDebris
--------------------------------------------------------------------------------
\* Ingest holds only issues the properties speak of: whoever holds one that goes is noted.
LEMMA HoldersNoted == ASSUME NoteRaces PROVE HoldersRaced' /\ raced \subseteq raced' /\ raced' \subseteq raced \cup Issues
BY DEF NoteRaces, HoldersRaced, Going

\* A step that takes rows of an issue away, and changes no issue row and no deletion.
LEMMA OnlyLess ==
  ASSUME LifecycleInv, raced \subseteq raced', UNCHANGED <<del, skipped>>,
         \A i \in Issues : row[i] = Absent <=> row'[i] = Absent,
         \A i \in Issues : leaf[i] = Absent <=> leaf'[i] = Absent,
         \A e \in Events : event'[e] = event[e] \/ event'[e] = None,
         aggr' \subseteq aggr
  PROVE  DeletersClear' /\ DeletionsLeaveNoDebris'
<1>0. LifecycleTypeOK /\ DeletersClear /\ DeletionsLeaveNoDebris
  BY DEF LifecycleInv
<1>1. /\ \A d \in Deleters : del[d].ids \subseteq Issues
      /\ None \notin Issues /\ \A i \in Issues : i \in Rows' <=> i \in Rows
  BY <1>0, LifecycleAssumption DEF LifecycleTypeOK, Runs, Issues, Rows
<1>2. \A i \in Issues : NoEvents(i) => NoEvents(i)'
  BY <1>1 DEF NoEvents
<1>3. DeletersClear'
  BY <1>0, <1>1, <1>2 DEF DeletersClear, Cleared
<1>4. OrphansNeedARace'
  <2> SUFFICES ASSUME NEW i \in Issues, i \in Orphaned' PROVE i \in raced'
    BY DEF OrphansNeedARace, Orphaned
  <2>1. i \in Orphaned
    BY <1>1 DEF Orphaned
  <2> QED
    BY <2>1, <1>0 DEF DeletionsLeaveNoDebris, OrphansNeedARace
<1>5. LeafUnlessSkipped'
  BY <1>0, <1>1 DEF DeletionsLeaveNoDebris, LeafUnlessSkipped, Rows
<1> QED
  BY <1>3, <1>4, <1>5 DEF DeletionsLeaveNoDebris

\* Nothing is stored but under issue k.
StoresUnder(k) ==
  /\ \A i \in Issues : i # k => /\ (NoEvents(i) => NoEvents(i)')
                                /\ (i \notin aggr => i \notin aggr')
                                /\ (leaf[i] = Absent <=> leaf'[i] = Absent)
  /\ leaf[k] # Absent => leaf'[k] # Absent

\* Ingest stores under one issue only, and that one is raced if it goes.
LEMMA StoredUnderOne ==
  ASSUME LifecycleInv, NEW k \in Issues, Going(k) => k \in raced, raced \subseteq raced',
         UNCHANGED <<row, del, skipped>>, StoresUnder(k)
  PROVE  DeletersClear' /\ DeletionsLeaveNoDebris'
<1>0. LifecycleTypeOK /\ DeletersClear /\ DeletionsLeaveNoDebris
  BY DEF LifecycleInv
<1>1. \A d \in Deleters : del[d].ids \subseteq Issues
  BY <1>0 DEF LifecycleTypeOK, Runs
<1>2. /\ \A i \in Issues : i # k => (NoEvents(i) => NoEvents(i)')
      /\ \A i \in Issues : i # k => (i \notin aggr => i \notin aggr')
      /\ \A i \in Issues : i # k => (leaf[i] = Absent <=> leaf'[i] = Absent)
      /\ leaf[k] # Absent => leaf'[k] # Absent
  BY DEF StoresUnder
<1>3. DeletersClear'
  <2> SUFFICES ASSUME NEW d \in Deleters, NEW i \in del[d].ids, i \notin raced PROVE Cleared(d, i)'
    BY DEF DeletersClear
  <2>1. i # k /\ i \in Issues /\ Cleared(d, i)
    BY <1>0, <1>1 DEF DeletersClear, Going
  <2> QED
    BY <1>2, <2>1 DEF Cleared
<1>4. OrphansNeedARace'
  <2> SUFFICES ASSUME NEW i \in Issues, i \in Orphaned', i \notin raced PROVE FALSE
    BY DEF OrphansNeedARace, Orphaned
  <2>1. row[i] = Absent /\ i # k
    BY DEF Orphaned, Going
  <2>2. i \in Orphaned
    BY <1>2, <2>1 DEF Orphaned, NoEvents
  <2> QED
    BY <2>2, <1>0 DEF DeletionsLeaveNoDebris, OrphansNeedARace
<1>5. LeafUnlessSkipped'
  BY <1>0, <1>2 DEF DeletionsLeaveNoDebris, LeafUnlessSkipped, Rows
<1> QED
  BY <1>3, <1>4, <1>5 DEF DeletionsLeaveNoDebris
--------------------------------------------------------------------------------
\* Ingest: worker w is given r, or nothing more to do.
Gets(w, r) == worker' = [worker EXCEPT ![w] = r]

\* That worker holds r, the others what they held.
LEMMA WorkerGets ==
  ASSUME LifecycleInv, NEW w \in Workers, NEW r \in Holdings, Known(r), Gets(w, r)
  PROVE  worker' \in [Workers -> Holdings] /\ worker'[w] = r /\ \A v \in Workers : Known(worker[v])'
<1>1. worker \in [Workers -> Holdings] /\ \A v \in Workers : Known(worker[v])
  BY DEF LifecycleInv, LifecycleTypeOK, FromSequence
<1>2. worker' \in [Workers -> Holdings] /\ worker'[w] = r /\ \A v \in Workers : v # w => worker'[v] = worker[v]
  BY <1>1 DEF Gets
<1> QED
  BY <1>1, <1>2 DEF Known

\* An idle worker holds nothing.
LEMMA IdleHolds == IdleWorker \in Holdings /\ Known(IdleWorker)
BY DEF IdleWorker, Holdings, Known, IssueOrNone

\* A worker that goes on from one place to the next with what it holds.
LEMMA WorkerGoesOn ==
  ASSUME LifecycleInv, NEW w \in Workers, NEW pc \in {"winner", "copy", "aggregate"},
         worker[w].pc # "idle", pc \in {"copy", "aggregate"} => worker[w].issue \in Issues,
         worker' = [worker EXCEPT ![w].pc = pc]
  PROVE  /\ worker' \in [Workers -> Holdings] /\ \A v \in Workers : Known(worker[v])'
         /\ worker'[w].issue = worker[w].issue
<1>1. worker[w] \in Holdings /\ Known(worker[w])
  BY DEF LifecycleInv, LifecycleTypeOK, FromSequence
<1> DEFINE r == [worker[w] EXCEPT !.pc = pc]
<1>2. r \in Holdings /\ r.pc = pc /\ r.issue = worker[w].issue /\ r.ev = worker[w].ev /\ r.hash = worker[w].hash
  BY <1>1 DEF Holdings
<1>3. Known(r)
  BY <1>1, <1>2 DEF Known
<1>4. Gets(w, r)
  BY DEF Gets
<1> HIDE DEF r
<1> QED
  BY <1>2, <1>3, <1>4, WorkerGets

\* Steps of ingest that store nothing.
LEMMA NothingStored ==
  ASSUME LifecycleInv, NoteRaces, UNCHANGED <<tables, replica, request, queue, del, skipped>>,
         todo' \subseteq todo,
         worker' \in [Workers -> Holdings], \A v \in Workers : Known(worker[v])'
  PROVE  LifecycleInv'
<1>0. LifecycleTypeOK /\ FromSequence
  BY DEF LifecycleInv
<1>1. HoldersRaced' /\ raced \subseteq raced' /\ raced' \subseteq raced \cup Issues
  BY HoldersNoted
<1>2. LifecycleTypeOK'
  BY <1>0, <1>1 DEF LifecycleTypeOK, tables
<1>3. FromSequence'
  BY <1>0 DEF FromSequence, tables, Rows
<1>4. DeletersClear' /\ DeletionsLeaveNoDebris'
  <2>1. /\ UNCHANGED <<del, skipped>> /\ row' = row /\ leaf' = leaf /\ event' = event /\ aggr' = aggr
    BY DEF tables
  <2> QED
    BY <1>1, <2>1, OnlyLess
<1> QED
  BY <1>1, <1>2, <1>3, <1>4 DEF LifecycleInv

\* The hash lookup finds an issue or none.
LEMMA JoinRowType == ASSUME LifecycleTypeOK PROVE JoinRow \in [Hashes -> IssueOrNone]
BY DEF LifecycleTypeOK, JoinRow, IssueOrNone

\* An event arrives.
LEMMA DoesTakeEvent ==
  ASSUME LifecycleInv, NEW w \in Workers, NEW e \in Events, NEW h \in Hashes, TakeEvent(w, e, h), NoteRaces
  PROVE  LifecycleInv'
<1>0. LifecycleTypeOK
  BY DEF LifecycleInv
<1> DEFINE found == IF replica[h] # None THEN replica[h] ELSE JoinRow[h]
           r == [pc |-> IF found = None THEN "create" ELSE "update", ev |-> e, hash |-> h, issue |-> found]
<1>1. found \in IssueOrNone
  BY <1>0, JoinRowType DEF LifecycleTypeOK
<1>2. Gets(w, r) /\ UNCHANGED <<tables, replica, request, queue, del, skipped>> /\ todo' \subseteq todo
  BY DEF TakeEvent, Gets
<1> HIDE DEF found
<1>3. r \in Holdings /\ Known(r)
  BY <1>1 DEF Holdings, Known, IssueOrNone
<1> HIDE DEF r
<1>4. worker' \in [Workers -> Holdings] /\ \A v \in Workers : Known(worker[v])'
  BY <1>2, <1>3, WorkerGets
<1> QED
  BY <1>2, <1>4, NothingStored

\* The insert fails on a hash that exists.
LEMMA DoesLoseRace ==
  ASSUME LifecycleInv, NEW w \in Workers, LoseRace(w), NoteRaces
  PROVE  LifecycleInv'
<1>1. /\ worker[w].pc # "idle" /\ worker' = [worker EXCEPT ![w].pc = "winner"]
      /\ UNCHANGED <<tables, replica, request, queue, del, skipped>> /\ todo' \subseteq todo
  BY DEF LoseRace
<1>2. worker' \in [Workers -> Holdings] /\ \A v \in Workers : Known(worker[v])'
  BY <1>1, WorkerGoesOn
<1> QED
  BY <1>1, <1>2, NothingStored

\* The winner is read, or gone.
LEMMA DoesReadWinner ==
  ASSUME LifecycleInv, NEW w \in Workers, ReadWinner(w), NoteRaces
  PROVE  LifecycleInv'
<1>0. LifecycleTypeOK /\ Known(worker[w]) /\ worker[w] \in Holdings
  BY DEF LifecycleInv, FromSequence, LifecycleTypeOK
<1> DEFINE won == hashOf[worker[w].hash]
           r == IF won = None THEN IdleWorker ELSE [worker[w] EXCEPT !.pc = "update", !.issue = won]
<1>1. /\ Gets(w, r) /\ UNCHANGED <<tables, replica, request, queue, del, skipped>> /\ todo' \subseteq todo
      /\ worker[w].pc = "winner"
  BY DEF ReadWinner, Gets
<1>2. won \in IssueOrNone
  BY <1>0, <1>1 DEF LifecycleTypeOK, Known
<1> HIDE DEF won
<1>3. r \in Holdings /\ Known(r)
  <2>1. CASE won = None
    BY <2>1, IdleHolds
  <2>2. CASE won # None
    <3> DEFINE q == [worker[w] EXCEPT !.pc = "update", !.issue = won]
    <3>1. /\ q \in Holdings /\ q.pc = "update" /\ q.issue = won /\ q.ev = worker[w].ev /\ q.hash = worker[w].hash
      BY <1>0, <1>2 DEF Holdings
    <3>2. r = q
      BY <2>2
    <3> HIDE DEF q, r
    <3> QED
      BY <1>0, <1>1, <1>2, <2>2, <3>1, <3>2 DEF Known, IssueOrNone
  <2> QED
    BY <2>1, <2>2
<1> HIDE DEF r
<1>4. worker' \in [Workers -> Holdings] /\ \A v \in Workers : Known(worker[v])'
  BY <1>1, <1>3, WorkerGets
<1> QED
  BY <1>1, <1>4, NothingStored

\* The leaf of the worker's issue is refreshed.
LEMMA DoesUpdateIssues ==
  ASSUME LifecycleInv, NEW w \in Workers, UpdateIssues(w), NoteRaces
  PROVE  LifecycleInv'
<1>0. LifecycleTypeOK /\ FromSequence /\ HoldersRaced
  BY DEF LifecycleInv
<1>a. PICK k : k = worker[w].issue
  OBVIOUS
<1>1. /\ worker[w].pc = "update" /\ worker' = [worker EXCEPT ![w].pc = "copy"]
      /\ leaf' = [leaf EXCEPT ![k] = "fresh"]
      /\ UNCHANGED <<row, seq, hashOf, event, aggr, replica, todo, request, queue, del, skipped>>
  BY <1>a DEF UpdateIssues
<1>2. k \in Issues
  BY <1>a, <1>0, <1>1 DEF FromSequence, Known
<1>3. worker' \in [Workers -> Holdings] /\ \A v \in Workers : Known(worker[v])'
  BY <1>a, <1>1, <1>2, WorkerGoesOn
<1>4. HoldersRaced' /\ raced \subseteq raced' /\ raced' \subseteq raced \cup Issues
  BY HoldersNoted
<1>5. LifecycleTypeOK'
  BY <1>0, <1>1, <1>3, <1>4 DEF LifecycleTypeOK
<1>6. FromSequence'
  BY <1>0, <1>1, <1>3 DEF FromSequence, Rows
<1>7. Going(k) => k \in raced
  BY <1>a, <1>0, <1>2 DEF HoldersRaced
<1>8. StoresUnder(k)
  BY <1>0, <1>1, <1>2 DEF StoresUnder, LifecycleTypeOK, NoEvents, Absent
<1>9. UNCHANGED <<row, del, skipped>>
  BY <1>1
<1>10. DeletersClear' /\ DeletionsLeaveNoDebris'
  BY <1>2, <1>4, <1>7, <1>8, <1>9, StoredUnderOne
<1> QED
  BY <1>4, <1>5, <1>6, <1>10 DEF LifecycleInv

\* The event is stored.
LEMMA DoesCopyEvents ==
  ASSUME LifecycleInv, NEW w \in Workers, CopyEvents(w), NoteRaces
  PROVE  LifecycleInv'
<1>0. LifecycleTypeOK /\ FromSequence /\ HoldersRaced
  BY DEF LifecycleInv
<1>a. PICK k : k = worker[w].issue
  OBVIOUS
<1>1. /\ worker[w].pc = "copy" /\ worker' = [worker EXCEPT ![w].pc = "aggregate"]
      /\ event' = [event EXCEPT ![worker[w].ev] = k]
      /\ UNCHANGED <<row, seq, hashOf, leaf, aggr, replica, todo, request, queue, del, skipped>>
  BY <1>a DEF CopyEvents
<1>2. k \in Issues /\ worker[w].ev \in Events
  BY <1>a, <1>0, <1>1 DEF FromSequence, Known
<1>3. worker' \in [Workers -> Holdings] /\ \A v \in Workers : Known(worker[v])'
  BY <1>a, <1>1, <1>2, WorkerGoesOn
<1>4. HoldersRaced' /\ raced \subseteq raced' /\ raced' \subseteq raced \cup Issues
  BY HoldersNoted
<1>5. LifecycleTypeOK'
  BY <1>0, <1>1, <1>2, <1>3, <1>4 DEF LifecycleTypeOK, IssueOrNone
<1>6. FromSequence'
  BY <1>0, <1>1, <1>3 DEF FromSequence, Rows
<1>7. Going(k) => k \in raced
  BY <1>a, <1>0, <1>2 DEF HoldersRaced
<1>8. StoresUnder(k)
  BY <1>0, <1>1, <1>2 DEF StoresUnder, LifecycleTypeOK, NoEvents
<1>9. UNCHANGED <<row, del, skipped>>
  BY <1>1
<1>10. DeletersClear' /\ DeletionsLeaveNoDebris'
  BY <1>2, <1>4, <1>7, <1>8, <1>9, StoredUnderOne
<1> QED
  BY <1>4, <1>5, <1>6, <1>10 DEF LifecycleInv

\* The tags and aggregates are stored, and the worker is done.
LEMMA DoesUpdateAggregates ==
  ASSUME LifecycleInv, NEW w \in Workers, UpdateAggregates(w), NoteRaces
  PROVE  LifecycleInv'
<1>0. LifecycleTypeOK /\ FromSequence /\ HoldersRaced
  BY DEF LifecycleInv
<1>a. PICK k : k = worker[w].issue
  OBVIOUS
<1>1. /\ worker[w].pc = "aggregate" /\ Gets(w, IdleWorker)
      /\ aggr' = aggr \cup {k}
      /\ UNCHANGED <<row, seq, hashOf, leaf, event, replica, todo, request, queue, del, skipped>>
  BY <1>a DEF UpdateAggregates, Gets
<1>2. k \in Issues
  BY <1>a, <1>0, <1>1 DEF FromSequence, Known
<1>3. worker' \in [Workers -> Holdings] /\ \A v \in Workers : Known(worker[v])'
  BY <1>1, IdleHolds, WorkerGets
<1>4. HoldersRaced' /\ raced \subseteq raced' /\ raced' \subseteq raced \cup Issues
  BY HoldersNoted
<1>5. LifecycleTypeOK'
  BY <1>0, <1>1, <1>2, <1>3, <1>4 DEF LifecycleTypeOK
<1>6. FromSequence'
  BY <1>0, <1>1, <1>3 DEF FromSequence, Rows
<1>7. Going(k) => k \in raced
  BY <1>a, <1>0, <1>2 DEF HoldersRaced
<1>8. StoresUnder(k)
  BY <1>0, <1>1, <1>2 DEF StoresUnder, LifecycleTypeOK, NoEvents
<1>9. UNCHANGED <<row, del, skipped>>
  BY <1>1
<1>10. DeletersClear' /\ DeletionsLeaveNoDebris'
  BY <1>2, <1>4, <1>7, <1>8, <1>9, StoredUnderOne
<1> QED
  BY <1>4, <1>5, <1>6, <1>10 DEF LifecycleInv

\* A new issue: its id is one no deletion has.
LEMMA DoesInsertIssue ==
  ASSUME LifecycleInv, NEW w \in Workers, InsertIssue(w), NoteRaces
  PROVE  LifecycleInv'
<1>0. LifecycleTypeOK /\ FromSequence /\ DeletersClear /\ DeletionsLeaveNoDebris
  BY DEF LifecycleInv
<1> DEFINE k == seq + 1
           r == [worker[w] EXCEPT !.pc = "copy", !.issue = k]
<1>1. /\ worker[w].pc = "create" /\ seq < MaxIssues /\ seq' = k
      /\ row' = [row EXCEPT ![k] = "live"] /\ hashOf' = [hashOf EXCEPT ![worker[w].hash] = k]
      /\ leaf' = [leaf EXCEPT ![k] = "fresh"] /\ Gets(w, r)
      /\ UNCHANGED <<event, aggr, replica, todo, request, queue, del, skipped>>
  BY DEF InsertIssue, NewLeaf, Gets
<1>2. k \in Issues /\ k \in Nat /\ k > seq /\ seq \in Nat
  BY <1>0, <1>1, LifecycleAssumption DEF LifecycleTypeOK, Issues
<1>3. worker[w] \in Holdings /\ Known(worker[w])
  BY <1>0 DEF LifecycleTypeOK, FromSequence
<1>4. r \in Holdings /\ Known(r)
  <2> HIDE DEF k
  <2>1. /\ r \in Holdings /\ r.pc = "copy" /\ r.issue = k /\ r.ev = worker[w].ev /\ r.hash = worker[w].hash
    BY <1>2, <1>3 DEF Holdings, IssueOrNone
  <2> HIDE DEF r
  <2> QED
    BY <1>1, <1>2, <1>3, <2>1 DEF Known
<1> HIDE DEF r
<1>5. worker' \in [Workers -> Holdings] /\ \A v \in Workers : Known(worker[v])'
  BY <1>1, <1>4, WorkerGets
<1>6. HoldersRaced' /\ raced \subseteq raced' /\ raced' \subseteq raced \cup Issues
  BY HoldersNoted
<1>7. LifecycleTypeOK'
  <2>1. seq' \in 0..MaxIssues
    BY <1>1, <1>2, LifecycleAssumption
  <2>2. row' \in [Issues -> {"absent", "live", "soft"}] /\ leaf' \in [Issues -> {"absent", "fresh", "old"}]
    BY <1>0, <1>1, <1>2 DEF LifecycleTypeOK
  <2>3. hashOf' \in [Hashes -> IssueOrNone]
    BY <1>0, <1>1, <1>2 DEF LifecycleTypeOK, IssueOrNone
  <2> QED
    BY <1>0, <1>1, <1>5, <1>6, <2>1, <2>2, <2>3 DEF LifecycleTypeOK
<1> HIDE DEF k
<1>8. /\ \A i \in Issues : i # k => row'[i] = row[i] /\ leaf'[i] = leaf[i]
      /\ row'[k] = "live" /\ leaf'[k] = "fresh"
  BY <1>0, <1>1, <1>2 DEF LifecycleTypeOK
<1>9. \A d \in Deleters : k \notin del[d].ids /\ del[d].ids \subseteq Issues
  BY <1>0, <1>2 DEF FromSequence, LifecycleTypeOK, Runs
<1>10. FromSequence'
  <2>1. \A i \in Issues : i <= seq => i <= seq'
    BY <1>1, <1>2 DEF Issues
  <2>2. \A i \in Rows' : i <= seq'
    BY <1>0, <1>1, <1>2, <1>8, <2>1 DEF FromSequence, Rows
  <2> QED
    BY <1>0, <1>1, <1>5, <1>9, <2>1, <2>2 DEF FromSequence
<1>11. DeletersClear'
  <2> SUFFICES ASSUME NEW d \in Deleters, NEW i \in del[d].ids, i \notin raced PROVE Cleared(d, i)'
    BY <1>1, <1>6 DEF DeletersClear
  <2>1. i \in Issues /\ i # k /\ Cleared(d, i)
    BY <1>0, <1>9 DEF DeletersClear
  <2> QED
    BY <1>1, <1>8, <2>1 DEF Cleared, NoEvents
<1>12. OrphansNeedARace'
  <2> SUFFICES ASSUME NEW i \in Issues, i \in Orphaned' PROVE i \in raced'
    BY DEF OrphansNeedARace, Orphaned
  <2>1. i \in Orphaned
    BY <1>1, <1>8 DEF Orphaned, Absent
  <2> QED
    BY <1>0, <1>6, <2>1 DEF DeletionsLeaveNoDebris, OrphansNeedARace
<1>13. LeafUnlessSkipped'
  BY <1>0, <1>1, <1>8 DEF DeletionsLeaveNoDebris, LeafUnlessSkipped, Rows, Absent
<1> QED
  BY <1>6, <1>7, <1>10, <1>11, <1>12, <1>13 DEF LifecycleInv, DeletionsLeaveNoDebris

\* Every step of ingest keeps the invariant.
LEMMA IngestKeepsInv == ASSUME LifecycleInv, NEW w \in Workers, IngestStep(w) PROVE LifecycleInv'
BY DoesTakeEvent, DoesInsertIssue, DoesLoseRace, DoesReadWinner, DoesUpdateIssues, DoesCopyEvents,
   DoesUpdateAggregates DEF IngestStep
--------------------------------------------------------------------------------
\* Users and time: no step of theirs adds or removes an issue row, changes a
\* deletion, or adds rows to an issue.
LEMMA UsersAddNothing ==
  ASSUME LifecycleInv, UNCHANGED <<seq, todo, worker, del, skipped, raced>>,
         row' \in [Issues -> {"absent", "live", "soft"}],
         \A i \in Issues : row[i] = Absent <=> row'[i] = Absent,
         leaf' \in [Issues -> {"absent", "fresh", "old"}],
         \A i \in Issues : leaf[i] = Absent <=> leaf'[i] = Absent,
         event' \in [Events -> IssueOrNone], \A e \in Events : event'[e] = event[e] \/ event'[e] = None,
         aggr' \subseteq aggr, hashOf' \in [Hashes -> IssueOrNone], replica' \in [Hashes -> IssueOrNone],
         request' \in DeleteRequests, queue' \subseteq SUBSET Issues
  PROVE  LifecycleInv'
<1>0. LifecycleTypeOK /\ FromSequence /\ HoldersRaced
  BY DEF LifecycleInv
<1>1. LifecycleTypeOK'
  BY <1>0 DEF LifecycleTypeOK
<1>2. FromSequence'
  BY <1>0 DEF FromSequence, Rows
<1>3. HoldersRaced'
  BY <1>0 DEF HoldersRaced, Going
<1>4. DeletersClear' /\ DeletionsLeaveNoDebris'
  BY OnlyLess
<1> QED
  BY <1>1, <1>2, <1>3, <1>4 DEF LifecycleInv

\* Soft deletion marks rows.
LEMMA DoesSoftDelete ==
  ASSUME LifecycleInv, NEW S \in SUBSET Issues, NEW pc \in {"enqueue", "read"}, SoftDelete(S, pc)
  PROVE  LifecycleInv'
<1>0. LifecycleTypeOK
  BY DEF LifecycleInv
<1>1. /\ S \subseteq Rows /\ row' = [i \in Issues |-> IF i \in S THEN "soft" ELSE row[i]]
      /\ request' = [pc |-> pc, ids |-> S]
      /\ UNCHANGED <<seq, hashOf, leaf, event, aggr, replica, todo, worker, queue, del, skipped, raced>>
  BY DEF SoftDelete
<1>2. \A i \in Issues : row[i] = Absent <=> row'[i] = Absent
  BY <1>1 DEF Rows, Absent
<1>3. row' \in [Issues -> {"absent", "live", "soft"}]
  BY <1>0, <1>1 DEF LifecycleTypeOK
<1>4. /\ leaf' \in [Issues -> {"absent", "fresh", "old"}] /\ \A i \in Issues : leaf[i] = Absent <=> leaf'[i] = Absent
      /\ event' \in [Events -> IssueOrNone] /\ \A e \in Events : event'[e] = event[e] \/ event'[e] = None
      /\ aggr' \subseteq aggr /\ hashOf' \in [Hashes -> IssueOrNone] /\ replica' \in [Hashes -> IssueOrNone]
      /\ request' \in DeleteRequests /\ queue' \subseteq SUBSET Issues
  BY <1>0, <1>1 DEF LifecycleTypeOK, DeleteRequests
<1> QED
  BY <1>1, <1>2, <1>3, <1>4, UsersAddNothing

\* The other steps of users, and the replica.
LEMMA DoesUserStep ==
  ASSUME LifecycleInv,
         \/ EnqueueStep \/ ReplicaCatchUp
         \/ \E i \in Issues : AddComment(i) \/ AddLink(i)
         \/ \E h \in Hashes : DeleteHash(h)
  PROVE  LifecycleInv'
<1>0. LifecycleTypeOK
  BY DEF LifecycleInv
<1>1. UNCHANGED <<row, seq, leaf, event, aggr, todo, worker, del, skipped, raced>>
  BY DEF EnqueueStep, EnqueueDelete, EnqueueSelected, Enqueue, ReplicaCatchUp, AddComment, AddLink, DeleteHash, tables
<1>2. hashOf' \in [Hashes -> IssueOrNone]
  BY <1>0 DEF EnqueueStep, EnqueueDelete, EnqueueSelected, Enqueue, ReplicaCatchUp, AddComment, AddLink, DeleteHash, tables, LifecycleTypeOK, IssueOrNone
<1>3. replica' \in [Hashes -> IssueOrNone]
  BY <1>0, JoinRowType DEF EnqueueStep, EnqueueDelete, EnqueueSelected, Enqueue, ReplicaCatchUp, AddComment, AddLink, DeleteHash, LifecycleTypeOK
<1>4. request' \in DeleteRequests /\ queue' \subseteq SUBSET Issues
  <2>1. CASE EnqueueStep
    BY <1>0, <2>1 DEF EnqueueStep, EnqueueDelete, EnqueueSelected, Enqueue, LifecycleTypeOK, NoRequest, DeleteRequests, Rows
  <2>2. CASE ~EnqueueStep
    BY <1>0, <2>2 DEF ReplicaCatchUp, AddComment, AddLink, DeleteHash, LifecycleTypeOK
  <2> QED
    BY <2>1, <2>2
<1>5. /\ row' \in [Issues -> {"absent", "live", "soft"}] /\ \A i \in Issues : row[i] = Absent <=> row'[i] = Absent
      /\ leaf' \in [Issues -> {"absent", "fresh", "old"}] /\ \A i \in Issues : leaf[i] = Absent <=> leaf'[i] = Absent
      /\ event' \in [Events -> IssueOrNone] /\ \A e \in Events : event'[e] = event[e] \/ event'[e] = None
      /\ aggr' \subseteq aggr
  BY <1>0, <1>1 DEF LifecycleTypeOK
<1>6. UNCHANGED <<seq, todo, worker, del, skipped, raced>>
  BY <1>1
<1> QED
  BY <1>2, <1>3, <1>4, <1>5, <1>6, UsersAddNothing

\* Retention takes events and aggregates.
LEMMA DoesAge == ASSUME LifecycleInv, NEW i \in Issues, Age(i) PROVE LifecycleInv'
<1>0. LifecycleTypeOK
  BY DEF LifecycleInv
<1>1. /\ leaf[i] = "fresh" /\ leaf' = [leaf EXCEPT ![i] = "old"] /\ aggr' = aggr \ {i}
      /\ event' = [e \in Events |-> IF event[e] = i THEN None ELSE event[e]]
      /\ UNCHANGED <<row, seq, hashOf, replica, todo, worker, request, queue, del, skipped, raced>>
  BY DEF Age
<1>2. /\ leaf' \in [Issues -> {"absent", "fresh", "old"}]
      /\ \A k \in Issues : leaf[k] = Absent <=> leaf'[k] = Absent
  BY <1>0, <1>1 DEF LifecycleTypeOK, Absent
<1>3. event' \in [Events -> IssueOrNone] /\ \A e \in Events : event'[e] = event[e] \/ event'[e] = None
  BY <1>0, <1>1 DEF LifecycleTypeOK, IssueOrNone
<1>4. /\ row' \in [Issues -> {"absent", "live", "soft"}] /\ \A k \in Issues : row[k] = Absent <=> row'[k] = Absent
      /\ aggr' \subseteq aggr /\ hashOf' \in [Hashes -> IssueOrNone] /\ replica' \in [Hashes -> IssueOrNone]
      /\ request' \in DeleteRequests /\ queue' \subseteq SUBSET Issues
  BY <1>0, <1>1 DEF LifecycleTypeOK
<1> QED
  BY <1>1, <1>2, <1>3, <1>4, UsersAddNothing
--------------------------------------------------------------------------------
\* Deletions: run d goes on with r.
Continues(d, r) == del' = [del EXCEPT ![d] = r]

\* The other runs keep what they have.
LEMMA RunContinues ==
  ASSUME LifecycleInv, NEW d \in Deleters, NEW r \in Runs, Continues(d, r)
  PROVE  del' \in [Deleters -> Runs] /\ del'[d] = r /\ \A c \in Deleters : c # d => del'[c] = del[c]
BY DEF LifecycleInv, LifecycleTypeOK, Continues

\* A statement of a deletion takes rows away and goes on with the same issues.
LEMMA StatementDone ==
  ASSUME LifecycleInv, NoteRaces, NEW d \in Deleters, NEW r \in Runs, Continues(d, r),
         r.ids = del[d].ids, r.pc # "idle",
         UNCHANGED <<row, seq, replica, todo, worker, request, queue, skipped>>,
         hashOf' \in [Hashes -> IssueOrNone], leaf' \in [Issues -> {"absent", "fresh", "old"}],
         \A i \in Issues : leaf'[i] = leaf[i] \/ (leaf'[i] = Absent /\ i \in del[d].ids),
         event' \in [Events -> IssueOrNone], \A e \in Events : event'[e] = event[e] \/ event'[e] = None,
         aggr' \subseteq aggr, \A i \in del[d].ids : i \in raced \/ Cleared(d, i)'
  PROVE  LifecycleInv'
<1>0. LifecycleTypeOK /\ FromSequence /\ DeletersClear /\ DeletionsLeaveNoDebris
  BY DEF LifecycleInv
<1>1. del' \in [Deleters -> Runs] /\ del'[d] = r /\ \A c \in Deleters : c # d => del'[c] = del[c]
  BY RunContinues
<1>2. HoldersRaced' /\ raced \subseteq raced' /\ raced' \subseteq raced \cup Issues
  BY HoldersNoted
<1>3. LifecycleTypeOK'
  BY <1>0, <1>1, <1>2 DEF LifecycleTypeOK
<1>4. \A c \in Deleters : del'[c].ids = del[c].ids
  BY <1>1
<1>5. FromSequence'
  BY <1>0, <1>1, <1>4 DEF FromSequence, Rows
<1>6. /\ \A c \in Deleters : del[c].ids \subseteq Issues
      /\ None \notin Issues
  BY <1>0, LifecycleAssumption DEF LifecycleTypeOK, Runs, Issues
<1>7. \A i \in Issues : NoEvents(i) => NoEvents(i)'
  BY <1>6 DEF NoEvents
<1>8. DeletersClear'
  <2> SUFFICES ASSUME NEW c \in Deleters, NEW i \in del[c].ids, i \notin raced PROVE Cleared(c, i)'
    BY <1>2, <1>4 DEF DeletersClear
  <2>1. CASE c = d
    BY <2>1
  <2>2. CASE c # d
    <3>1. i \in Issues /\ Cleared(c, i) /\ del'[c] = del[c]
      BY <1>0, <1>1, <1>6, <2>2 DEF DeletersClear
    <3> QED
      BY <1>7, <3>1 DEF Cleared
  <2> QED
    BY <2>1, <2>2
<1>9. OrphansNeedARace'
  <2> SUFFICES ASSUME NEW i \in Issues, i \in Orphaned' PROVE i \in raced'
    BY DEF OrphansNeedARace, Orphaned
  <2>1. i \in Orphaned
    BY <1>6 DEF Orphaned
  <2> QED
    BY <1>0, <1>2, <2>1 DEF DeletionsLeaveNoDebris, OrphansNeedARace
<1>10. LeafUnlessSkipped'
  BY <1>0, <1>4 DEF DeletionsLeaveNoDebris, LeafUnlessSkipped, Rows
<1> QED
  BY <1>2, <1>3, <1>5, <1>8, <1>9, <1>10 DEF LifecycleInv, DeletionsLeaveNoDebris

\* What the issues of a run are, and what it has cleared so far.
LEMMA RunSoFar ==
  ASSUME LifecycleInv, NEW d \in Deleters
  PROVE  /\ del[d] \in Runs /\ del[d].ids \subseteq Issues
         /\ \A i \in del[d].ids : i \in raced \/ Cleared(d, i)
BY DEF LifecycleInv, LifecycleTypeOK, DeletersClear, Runs

\* del[d] with another place, and with another batch.
LEMMA RunGoesTo ==
  ASSUME LifecycleInv, NEW d \in Deleters, NEW pc \in DeletePlaces, NEW batch \in SUBSET Events,
         \/ Continues(d, [del[d] EXCEPT !.pc = pc])
         \/ Continues(d, [del[d] EXCEPT !.pc = pc, !.batch = batch])
  PROVE  \E r \in Runs : Continues(d, r) /\ r.pc = pc /\ r.ids = del[d].ids
<1>1. del[d] \in Runs
  BY RunSoFar
<1>2. LET r == [del[d] EXCEPT !.pc = pc] IN r \in Runs /\ r.pc = pc /\ r.ids = del[d].ids
  BY <1>1 DEF Runs
<1>3. LET r == [del[d] EXCEPT !.pc = pc, !.batch = batch] IN r \in Runs /\ r.pc = pc /\ r.ids = del[d].ids
  BY <1>1 DEF Runs
<1> QED
  BY <1>2, <1>3

\* The ids of the events are read; none are left when none is found.
LEMMA DoesSelectEvents == ASSUME LifecycleInv, NoteRaces, NEW d \in Deleters, SelectEvents(d) PROVE LifecycleInv'
<1>0. LifecycleTypeOK
  BY DEF LifecycleInv
<1>1. PICK found : found = {e \in Events : event[e] \in del[d].ids}
  OBVIOUS
<1>2. PICK pc : pc = IF found = {} THEN "aggregates" ELSE "raw"
  OBVIOUS
<1>3. /\ del[d].pc = "events" /\ Continues(d, [del[d] EXCEPT !.pc = pc, !.batch = found])
      /\ UNCHANGED <<row, seq, replica, todo, worker, request, queue, skipped>>
      /\ UNCHANGED <<hashOf, leaf, event, aggr>>
  BY <1>1, <1>2 DEF SelectEvents, Continues, tables
<1>4. PICK r \in Runs : Continues(d, r) /\ r.pc = pc /\ r.ids = del[d].ids
  <2>1. pc \in DeletePlaces /\ found \in SUBSET Events
    BY <1>1, <1>2 DEF DeletePlaces
  <2> QED
    BY <1>3, <2>1, RunGoesTo
<1>5. del'[d] = r
  BY <1>4, RunContinues
<1>6. \A i \in del[d].ids : pc = "aggregates" => NoEvents(i)'
  BY <1>1, <1>2, <1>3 DEF NoEvents
<1>7. \A i \in del[d].ids : i \in raced \/ Cleared(d, i)'
  BY <1>2, <1>4, <1>5, <1>6 DEF Cleared
<1>8. /\ hashOf' \in [Hashes -> IssueOrNone] /\ leaf' \in [Issues -> {"absent", "fresh", "old"}]
      /\ \A i \in Issues : leaf'[i] = leaf[i] \/ (leaf'[i] = Absent /\ i \in del[d].ids)
      /\ event' \in [Events -> IssueOrNone] /\ \A e \in Events : event'[e] = event[e] \/ event'[e] = None
      /\ aggr' \subseteq aggr
  BY <1>0, <1>3 DEF LifecycleTypeOK
<1>9. r.pc # "idle"
  BY <1>2, <1>4
<1> QED
  BY <1>3, <1>4, <1>7, <1>8, <1>9, StatementDone

\* The events read are deleted.
LEMMA DoesDeleteEvents == ASSUME LifecycleInv, NoteRaces, NEW d \in Deleters, DeleteEvents(d) PROVE LifecycleInv'
<1>0. LifecycleTypeOK
  BY DEF LifecycleInv
<1>1. /\ del[d].pc = "raw" /\ Continues(d, [del[d] EXCEPT !.pc = "events", !.batch = {}])
      /\ UNCHANGED <<row, seq, replica, todo, worker, request, queue, skipped>>
      /\ event' = [e \in Events |-> IF e \in del[d].batch THEN None ELSE event[e]]
      /\ UNCHANGED <<hashOf, leaf, aggr>>
  BY DEF DeleteEvents, Continues
<1>2. PICK r \in Runs : Continues(d, r) /\ r.pc = "events" /\ r.ids = del[d].ids
  <2>1. PICK b \in SUBSET Events : b = {}
    OBVIOUS
  <2>2. Continues(d, [del[d] EXCEPT !.pc = "events", !.batch = b])
    BY <1>1, <2>1
  <2> QED
    BY <2>2, RunGoesTo DEF DeletePlaces
<1>3. del'[d] = r
  BY <1>2, RunContinues
<1>4. del[d].ids \subseteq Issues /\ None \notin Issues
  BY RunSoFar, LifecycleAssumption DEF Issues
<1>5. /\ hashOf' \in [Hashes -> IssueOrNone] /\ leaf' \in [Issues -> {"absent", "fresh", "old"}]
      /\ event' \in [Events -> IssueOrNone] /\ \A e \in Events : event'[e] = event[e] \/ event'[e] = None
      /\ aggr' \subseteq aggr
  BY <1>0, <1>1 DEF LifecycleTypeOK, IssueOrNone, Absent
<1>6. \A i \in Issues : leaf'[i] = leaf[i] \/ (leaf'[i] = Absent /\ i \in del[d].ids)
  BY <1>0, <1>1 DEF LifecycleTypeOK
<1>7. \A i \in del[d].ids : NoEvents(i) => NoEvents(i)'
  BY <1>4, <1>5 DEF NoEvents
<1>8. \A i \in del[d].ids : i \in raced \/ Cleared(d, i)'
  <2> SUFFICES ASSUME NEW i \in del[d].ids, i \notin raced PROVE Cleared(d, i)'
    OBVIOUS
  <2>1. Cleared(d, i) /\ i \in Issues
    BY <1>4, RunSoFar
  <2> QED
    BY <1>0, <1>1, <1>2, <1>3, <1>6, <1>7, <2>1 DEF Cleared, LifecycleTypeOK
<1> QED
  BY <1>1, <1>2, <1>5, <1>6, <1>8, StatementDone

\* Tags and aggregates.
LEMMA DoesDeleteAggregates == ASSUME LifecycleInv, NoteRaces, NEW d \in Deleters, DeleteAggregates(d) PROVE LifecycleInv'
<1>0. LifecycleTypeOK
  BY DEF LifecycleInv
<1>1. /\ del[d].pc = "aggregates" /\ Continues(d, [del[d] EXCEPT !.pc = "leaf"])
      /\ UNCHANGED <<row, seq, replica, todo, worker, request, queue, skipped>>
      /\ aggr' = aggr \ del[d].ids
      /\ UNCHANGED <<hashOf, leaf, event>>
  BY DEF DeleteAggregates, Continues
<1>2. PICK r \in Runs : Continues(d, r) /\ r.pc = "leaf" /\ r.ids = del[d].ids
  BY <1>1, RunGoesTo DEF DeletePlaces
<1>3. del'[d] = r
  BY <1>2, RunContinues
<1>4. del[d].ids \subseteq Issues /\ None \notin Issues
  BY RunSoFar, LifecycleAssumption DEF Issues
<1>5. /\ hashOf' \in [Hashes -> IssueOrNone] /\ leaf' \in [Issues -> {"absent", "fresh", "old"}]
      /\ event' \in [Events -> IssueOrNone] /\ \A e \in Events : event'[e] = event[e] \/ event'[e] = None
      /\ aggr' \subseteq aggr
  BY <1>0, <1>1 DEF LifecycleTypeOK, IssueOrNone, Absent
<1>6. \A i \in Issues : leaf'[i] = leaf[i] \/ (leaf'[i] = Absent /\ i \in del[d].ids)
  BY <1>0, <1>1 DEF LifecycleTypeOK
<1>7. \A i \in del[d].ids : NoEvents(i) => NoEvents(i)'
  BY <1>4, <1>5 DEF NoEvents
<1>8. \A i \in del[d].ids : i \in raced \/ Cleared(d, i)'
  <2> SUFFICES ASSUME NEW i \in del[d].ids, i \notin raced PROVE Cleared(d, i)'
    OBVIOUS
  <2>1. Cleared(d, i) /\ i \in Issues
    BY <1>4, RunSoFar
  <2> QED
    BY <1>0, <1>1, <1>2, <1>3, <1>6, <1>7, <2>1 DEF Cleared, LifecycleTypeOK
<1> QED
  BY <1>1, <1>2, <1>5, <1>6, <1>8, StatementDone

\* The leaf.
LEMMA DoesDeleteLeaf == ASSUME LifecycleInv, NoteRaces, NEW d \in Deleters, DeleteLeaf(d) PROVE LifecycleInv'
<1>0. LifecycleTypeOK
  BY DEF LifecycleInv
<1>1. /\ del[d].pc = "leaf" /\ Continues(d, [del[d] EXCEPT !.pc = "links"])
      /\ UNCHANGED <<row, seq, replica, todo, worker, request, queue, skipped>>
      /\ leaf' = [i \in Issues |-> IF i \in del[d].ids THEN Absent ELSE leaf[i]]
      /\ UNCHANGED <<hashOf, event, aggr>>
  BY DEF DeleteLeaf, Continues
<1>2. PICK r \in Runs : Continues(d, r) /\ r.pc = "links" /\ r.ids = del[d].ids
  BY <1>1, RunGoesTo DEF DeletePlaces
<1>3. del'[d] = r
  BY <1>2, RunContinues
<1>4. del[d].ids \subseteq Issues /\ None \notin Issues
  BY RunSoFar, LifecycleAssumption DEF Issues
<1>5. /\ hashOf' \in [Hashes -> IssueOrNone] /\ leaf' \in [Issues -> {"absent", "fresh", "old"}]
      /\ event' \in [Events -> IssueOrNone] /\ \A e \in Events : event'[e] = event[e] \/ event'[e] = None
      /\ aggr' \subseteq aggr
  BY <1>0, <1>1 DEF LifecycleTypeOK, IssueOrNone, Absent
<1>6. \A i \in Issues : leaf'[i] = leaf[i] \/ (leaf'[i] = Absent /\ i \in del[d].ids)
  BY <1>0, <1>1 DEF LifecycleTypeOK
<1>7. \A i \in del[d].ids : NoEvents(i) => NoEvents(i)'
  BY <1>4, <1>5 DEF NoEvents
<1>8. \A i \in del[d].ids : i \in raced \/ Cleared(d, i)'
  <2> SUFFICES ASSUME NEW i \in del[d].ids, i \notin raced PROVE Cleared(d, i)'
    OBVIOUS
  <2>1. Cleared(d, i) /\ i \in Issues
    BY <1>4, RunSoFar
  <2> QED
    BY <1>0, <1>1, <1>2, <1>3, <1>6, <1>7, <2>1 DEF Cleared, LifecycleTypeOK
<1> QED
  BY <1>1, <1>2, <1>5, <1>6, <1>8, StatementDone

\* The notifications.
LEMMA DoesDeleteLinks == ASSUME LifecycleInv, NoteRaces, NEW d \in Deleters, DeleteLinks(d) PROVE LifecycleInv'
<1>0. LifecycleTypeOK
  BY DEF LifecycleInv
<1>1. /\ del[d].pc = "links" /\ Continues(d, [del[d] EXCEPT !.pc = "hashes"])
      /\ UNCHANGED <<row, seq, replica, todo, worker, request, queue, skipped>>
      /\ UNCHANGED <<hashOf, leaf, event, aggr>>
  BY DEF DeleteLinks, Continues
<1>2. PICK r \in Runs : Continues(d, r) /\ r.pc = "hashes" /\ r.ids = del[d].ids
  BY <1>1, RunGoesTo DEF DeletePlaces
<1>3. del'[d] = r
  BY <1>2, RunContinues
<1>4. del[d].ids \subseteq Issues /\ None \notin Issues
  BY RunSoFar, LifecycleAssumption DEF Issues
<1>5. /\ hashOf' \in [Hashes -> IssueOrNone] /\ leaf' \in [Issues -> {"absent", "fresh", "old"}]
      /\ event' \in [Events -> IssueOrNone] /\ \A e \in Events : event'[e] = event[e] \/ event'[e] = None
      /\ aggr' \subseteq aggr
  BY <1>0, <1>1 DEF LifecycleTypeOK, IssueOrNone, Absent
<1>6. \A i \in Issues : leaf'[i] = leaf[i] \/ (leaf'[i] = Absent /\ i \in del[d].ids)
  BY <1>0, <1>1 DEF LifecycleTypeOK
<1>7. \A i \in del[d].ids : NoEvents(i) => NoEvents(i)'
  BY <1>4, <1>5 DEF NoEvents
<1>8. \A i \in del[d].ids : i \in raced \/ Cleared(d, i)'
  <2> SUFFICES ASSUME NEW i \in del[d].ids, i \notin raced PROVE Cleared(d, i)'
    OBVIOUS
  <2>1. Cleared(d, i) /\ i \in Issues
    BY <1>4, RunSoFar
  <2> QED
    BY <1>0, <1>1, <1>2, <1>3, <1>6, <1>7, <2>1 DEF Cleared, LifecycleTypeOK
<1> QED
  BY <1>1, <1>2, <1>5, <1>6, <1>8, StatementDone

\* The hashes.
LEMMA DoesDeleteHashes == ASSUME LifecycleInv, NoteRaces, NEW d \in Deleters, DeleteHashes(d) PROVE LifecycleInv'
<1>0. LifecycleTypeOK
  BY DEF LifecycleInv
<1>1. /\ del[d].pc = "hashes" /\ Continues(d, [del[d] EXCEPT !.pc = "comments"])
      /\ UNCHANGED <<row, seq, replica, todo, worker, request, queue, skipped>>
      /\ hashOf' = [h \in Hashes |-> IF hashOf[h] \in del[d].ids THEN None ELSE hashOf[h]]
      /\ UNCHANGED <<leaf, event, aggr>>
  BY DEF DeleteHashes, Continues
<1>2. PICK r \in Runs : Continues(d, r) /\ r.pc = "comments" /\ r.ids = del[d].ids
  BY <1>1, RunGoesTo DEF DeletePlaces
<1>3. del'[d] = r
  BY <1>2, RunContinues
<1>4. del[d].ids \subseteq Issues /\ None \notin Issues
  BY RunSoFar, LifecycleAssumption DEF Issues
<1>5. /\ hashOf' \in [Hashes -> IssueOrNone] /\ leaf' \in [Issues -> {"absent", "fresh", "old"}]
      /\ event' \in [Events -> IssueOrNone] /\ \A e \in Events : event'[e] = event[e] \/ event'[e] = None
      /\ aggr' \subseteq aggr
  BY <1>0, <1>1 DEF LifecycleTypeOK, IssueOrNone, Absent
<1>6. \A i \in Issues : leaf'[i] = leaf[i] \/ (leaf'[i] = Absent /\ i \in del[d].ids)
  BY <1>0, <1>1 DEF LifecycleTypeOK
<1>7. \A i \in del[d].ids : NoEvents(i) => NoEvents(i)'
  BY <1>4, <1>5 DEF NoEvents
<1>8. \A i \in del[d].ids : i \in raced \/ Cleared(d, i)'
  <2> SUFFICES ASSUME NEW i \in del[d].ids, i \notin raced PROVE Cleared(d, i)'
    OBVIOUS
  <2>1. Cleared(d, i) /\ i \in Issues
    BY <1>4, RunSoFar
  <2> QED
    BY <1>0, <1>1, <1>2, <1>3, <1>6, <1>7, <2>1 DEF Cleared, LifecycleTypeOK
<1> QED
  BY <1>1, <1>2, <1>5, <1>6, <1>8, StatementDone

\* Comments and user reports.
LEMMA DoesDeleteComments == ASSUME LifecycleInv, NoteRaces, NEW d \in Deleters, DeleteComments(d) PROVE LifecycleInv'
<1>0. LifecycleTypeOK
  BY DEF LifecycleInv
<1>1. /\ del[d].pc = "comments" /\ Continues(d, [del[d] EXCEPT !.pc = "issue"])
      /\ UNCHANGED <<row, seq, replica, todo, worker, request, queue, skipped>>
      /\ UNCHANGED <<hashOf, leaf, event, aggr>>
  BY DEF DeleteComments, Continues
<1>2. PICK r \in Runs : Continues(d, r) /\ r.pc = "issue" /\ r.ids = del[d].ids
  BY <1>1, RunGoesTo DEF DeletePlaces
<1>3. del'[d] = r
  BY <1>2, RunContinues
<1>4. del[d].ids \subseteq Issues /\ None \notin Issues
  BY RunSoFar, LifecycleAssumption DEF Issues
<1>5. /\ hashOf' \in [Hashes -> IssueOrNone] /\ leaf' \in [Issues -> {"absent", "fresh", "old"}]
      /\ event' \in [Events -> IssueOrNone] /\ \A e \in Events : event'[e] = event[e] \/ event'[e] = None
      /\ aggr' \subseteq aggr
  BY <1>0, <1>1 DEF LifecycleTypeOK, IssueOrNone, Absent
<1>6. \A i \in Issues : leaf'[i] = leaf[i] \/ (leaf'[i] = Absent /\ i \in del[d].ids)
  BY <1>0, <1>1 DEF LifecycleTypeOK
<1>7. \A i \in del[d].ids : NoEvents(i) => NoEvents(i)'
  BY <1>4, <1>5 DEF NoEvents
<1>8. \A i \in del[d].ids : i \in raced \/ Cleared(d, i)'
  <2> SUFFICES ASSUME NEW i \in del[d].ids, i \notin raced PROVE Cleared(d, i)'
    OBVIOUS
  <2>1. Cleared(d, i) /\ i \in Issues
    BY <1>4, RunSoFar
  <2> QED
    BY <1>0, <1>1, <1>2, <1>3, <1>6, <1>7, <2>1 DEF Cleared, LifecycleTypeOK
<1> QED
  BY <1>1, <1>2, <1>5, <1>6, <1>8, StatementDone
--------------------------------------------------------------------------------
\* A batch of issues that are there is selected, or the run has come to its end.
LEMMA BatchSelected ==
  ASSUME LifecycleTypeOK, NEW d \in Deleters, NEW src \in {"none", "task", "maintenance"}, NEW arg \in SUBSET Issues,
         NEW present \in SUBSET Issues, SelectBatch(d, src, arg, present)
  PROVE  \E r \in Runs : /\ Continues(d, r) /\ r.pc \in {"idle", "events"} /\ r.ids \subseteq present
                         /\ r.pc = "idle" => r.ids = {}
<1>1. PICK ids : ids = Selected(src, arg, present)
  OBVIOUS
<1>2. ids \subseteq present
  BY <1>1 DEF Selected
<1>3. PICK r : r = IF ids = {} THEN IdleDelete
                   ELSE [pc |-> "events", src |-> src, arg |-> arg, ids |-> ids, batch |-> {}]
  OBVIOUS
<1>4. Continues(d, r)
  BY <1>1, <1>3 DEF SelectBatch, Continues
<1>5. r \in Runs /\ r.pc \in {"idle", "events"} /\ r.ids \subseteq present /\ (r.pc = "idle" => r.ids = {})
  BY <1>2, <1>3 DEF Runs, DeletePlaces, IdleDelete
<1> QED
  BY <1>4, <1>5

\* A run that had no issues selects its first batch.
LEMMA FirstBatch ==
  ASSUME LifecycleInv, NoteRaces, NEW d \in Deleters, NEW src \in {"task", "maintenance"}, NEW arg \in SUBSET Issues,
         del[d].pc = "idle", SelectBatch(d, src, arg, Rows), queue' \subseteq queue,
         UNCHANGED <<tables, replica, todo, worker, request, skipped>>
  PROVE  LifecycleInv'
<1>0. LifecycleTypeOK /\ FromSequence /\ DeletersClear /\ DeletionsLeaveNoDebris
  BY DEF LifecycleInv
<1>1. Rows \in SUBSET Issues
  BY DEF Rows
<1>2. PICK r \in Runs : /\ Continues(d, r) /\ r.pc \in {"idle", "events"} /\ r.ids \subseteq Rows
                        /\ r.pc = "idle" => r.ids = {}
  <2>1. src \in {"none", "task", "maintenance"}
    OBVIOUS
  <2> QED
    BY <1>0, <1>1, <2>1, BatchSelected
<1>3. del' \in [Deleters -> Runs] /\ del'[d] = r /\ \A c \in Deleters : c # d => del'[c] = del[c]
  BY <1>2, RunContinues
<1>4. HoldersRaced' /\ raced \subseteq raced' /\ raced' \subseteq raced \cup Issues
  BY HoldersNoted
<1>5. UNCHANGED <<row, seq, hashOf, leaf, event, aggr, replica, todo, worker, request, skipped>>
  BY DEF tables
<1>6. LifecycleTypeOK'
  BY <1>0, <1>3, <1>4, <1>5 DEF LifecycleTypeOK
<1>7. FromSequence'
  BY <1>0, <1>2, <1>3, <1>5 DEF FromSequence, Rows
<1>8. DeletersClear'
  <2> SUFFICES ASSUME NEW c \in Deleters, NEW i \in del'[c].ids, i \notin raced' PROVE Cleared(c, i)'
    BY DEF DeletersClear
  <2>1. CASE c = d
    BY <1>2, <1>3, <2>1 DEF Cleared
  <2>2. CASE c # d
    <3>1. Cleared(c, i)
      BY <1>0, <1>3, <1>4, <2>2 DEF DeletersClear
    <3> QED
      BY <1>3, <1>5, <2>2, <3>1 DEF Cleared, NoEvents
  <2> QED
    BY <2>1, <2>2
<1>9. OrphansNeedARace'
  BY <1>0, <1>4, <1>5 DEF DeletionsLeaveNoDebris, OrphansNeedARace, Orphaned
<1>10. LeafUnlessSkipped'
  <2>1. \A c \in Deleters : del[c].ids \subseteq del'[c].ids
    BY <1>0, <1>3 DEF FromSequence
  <2> QED
    BY <1>0, <1>5, <2>1 DEF DeletionsLeaveNoDebris, LeafUnlessSkipped, Rows
<1> QED
  BY <1>4, <1>6, <1>7, <1>8, <1>9, <1>10 DEF LifecycleInv, DeletionsLeaveNoDebris

\* A task or the maintenance starts a run.
LEMMA DoesStart == ASSUME LifecycleInv, NEW d \in Deleters, StartTask(d) \/ StartCleanup(d) PROVE LifecycleInv'
<1>0. LifecycleTypeOK
  BY DEF LifecycleInv
<1>1. CASE StartTask(d)
  <2>1. PICK arg \in queue : BeginDeleteTask(d, arg)
    BY <1>1 DEF StartTask
  <2>2. arg \in SUBSET Issues
    BY <1>0 DEF LifecycleTypeOK
  <2>3. /\ del[d].pc = "idle" /\ SelectBatch(d, "task", arg, Rows) /\ queue' \subseteq queue
        /\ UNCHANGED <<tables, replica, todo, worker, request, skipped>>
    BY <2>1 DEF BeginDeleteTask
  <2> QED
    BY <1>1, <2>2, <2>3, FirstBatch DEF StartTask
<1>2. CASE StartCleanup(d)
  <2>1. PICK arg \in SUBSET Issues : arg = {}
    OBVIOUS
  <2>2. /\ del[d].pc = "idle" /\ SelectBatch(d, "maintenance", arg, Rows) /\ queue' \subseteq queue
        /\ UNCHANGED <<tables, replica, todo, worker, request, skipped>>
    BY <1>2, <2>1 DEF StartCleanup, BeginCleanup
  <2> QED
    BY <1>2, <2>2, FirstBatch DEF StartCleanup
<1> QED
  BY <1>1, <1>2

\* The issue rows go: everything else of those nobody raced has gone before.
LEMMA DoesDeleteIssue == ASSUME LifecycleInv, NoteRaces, NEW d \in Deleters, DeleteIssue(d) PROVE LifecycleInv'
<1>0. LifecycleTypeOK /\ FromSequence /\ DeletersClear /\ DeletionsLeaveNoDebris
  BY DEF LifecycleInv
<1>1. /\ del[d].pc = "issue" /\ SelectBatch(d, del[d].src, del[d].arg, Rows \ del[d].ids)
      /\ row' = [i \in Issues |-> IF i \in del[d].ids THEN Absent ELSE row[i]]
      /\ UNCHANGED <<seq, hashOf, leaf, event, aggr, replica, todo, worker, request, queue, skipped>>
  BY DEF DeleteIssue
<1>2. PICK src, arg, present : src = del[d].src /\ arg = del[d].arg /\ present = Rows \ del[d].ids
  OBVIOUS
<1>a. PICK r \in Runs : /\ Continues(d, r) /\ r.pc \in {"idle", "events"} /\ r.ids \subseteq present
                        /\ r.pc = "idle" => r.ids = {}
  <2>1. arg \in SUBSET Issues /\ present \in SUBSET Issues
    BY <1>2, RunSoFar DEF Runs, Rows
  <2>2. src \in {"none", "task", "maintenance"}
    BY <1>2, RunSoFar DEF Runs
  <2>3. SelectBatch(d, src, arg, present)
    BY <1>1, <1>2
  <2> QED
    BY <1>0, <2>1, <2>2, <2>3, BatchSelected
<1>3. del' \in [Deleters -> Runs] /\ del'[d] = r /\ \A c \in Deleters : c # d => del'[c] = del[c]
  BY <1>a, RunContinues
<1>4. HoldersRaced' /\ raced \subseteq raced' /\ raced' \subseteq raced \cup Issues
  BY HoldersNoted
<1>6. LifecycleTypeOK'
  BY <1>0, <1>1, <1>3, <1>4 DEF LifecycleTypeOK, Absent
<1>7. /\ \A i \in Issues : i \in del[d].ids => row'[i] = Absent
      /\ \A i \in Issues : i \notin del[d].ids => row'[i] = row[i]
  BY <1>1
<1>8. FromSequence'
  BY <1>0, <1>1, <1>2, <1>3, <1>7, <1>a DEF FromSequence, Rows
<1>9. DeletersClear'
  <2> SUFFICES ASSUME NEW c \in Deleters, NEW i \in del'[c].ids, i \notin raced' PROVE Cleared(c, i)'
    BY DEF DeletersClear
  <2>1. CASE c = d
    BY <1>a, <1>3, <2>1 DEF Cleared
  <2>2. CASE c # d
    <3>1. Cleared(c, i)
      BY <1>0, <1>3, <1>4, <2>2 DEF DeletersClear
    <3> QED
      BY <1>1, <1>3, <2>2, <3>1 DEF Cleared, NoEvents
  <2> QED
    BY <2>1, <2>2
<1>10. OrphansNeedARace'
  <2> SUFFICES ASSUME NEW i \in Issues, i \in Orphaned', i \notin raced PROVE FALSE
    BY <1>4 DEF OrphansNeedARace, Orphaned
  <2>1. CASE i \in del[d].ids
    <3>1. NoEvents(i) /\ i \notin aggr /\ leaf[i] = Absent
      BY <1>1, <2>1, RunSoFar DEF Cleared
    <3> QED
      BY <1>1, <3>1 DEF Orphaned, NoEvents
  <2>2. CASE i \notin del[d].ids
    <3>1. i \in Orphaned
      BY <1>1, <1>7, <2>2 DEF Orphaned
    <3> QED
      BY <1>0, <3>1 DEF DeletionsLeaveNoDebris, OrphansNeedARace
  <2> QED
    BY <2>1, <2>2
<1>11. LeafUnlessSkipped'
  <2> SUFFICES ASSUME NEW i \in Issues, row'[i] # Absent, leaf[i] = Absent, i \notin skipped
               PROVE \E c \in Deleters : i \in del'[c].ids
    BY <1>1 DEF LeafUnlessSkipped, Rows
  <2>1. i \in Rows /\ i \notin del[d].ids
    BY <1>7 DEF Rows
  <2>2. PICK c \in Deleters : i \in del[c].ids
    BY <1>0, <2>1 DEF DeletionsLeaveNoDebris, LeafUnlessSkipped
  <2> QED
    BY <1>3, <2>1, <2>2
<1> QED
  BY <1>4, <1>6, <1>8, <1>9, <1>10, <1>11 DEF LifecycleInv, DeletionsLeaveNoDebris

\* A run is given up: what was left of its issues is noted.
LEMMA RunStops ==
  ASSUME LifecycleInv, NEW d \in Deleters, Continues(d, IdleDelete), skipped' = skipped \cup (del[d].ids \cap Rows),
         UNCHANGED <<tables, replica, todo, worker, request, queue>>,
         HoldersRaced', raced \subseteq raced', raced' \subseteq raced \cup Issues
  PROVE  LifecycleInv'
<1>0. LifecycleTypeOK /\ FromSequence /\ DeletersClear /\ DeletionsLeaveNoDebris
  BY DEF LifecycleInv
<1>1. IdleDelete \in Runs /\ IdleDelete.ids = {} /\ IdleDelete.pc = "idle"
  BY DEF IdleDelete, Runs, DeletePlaces
<1>2. del' \in [Deleters -> Runs] /\ del'[d] = IdleDelete /\ \A c \in Deleters : c # d => del'[c] = del[c]
  BY <1>1, RunContinues
<1>3. UNCHANGED <<row, seq, hashOf, leaf, event, aggr, replica, todo, worker, request, queue>>
  BY DEF tables
<1>4. LifecycleTypeOK'
  BY <1>0, <1>2, <1>3 DEF LifecycleTypeOK, Rows
<1>5. FromSequence'
  BY <1>0, <1>1, <1>2, <1>3 DEF FromSequence, Rows
<1>6. DeletersClear'
  <2> SUFFICES ASSUME NEW c \in Deleters, NEW i \in del'[c].ids, i \notin raced' PROVE Cleared(c, i)'
    BY DEF DeletersClear
  <2>1. c # d /\ del'[c] = del[c] /\ Cleared(c, i)
    BY <1>0, <1>1, <1>2 DEF DeletersClear
  <2> QED
    BY <1>3, <2>1 DEF Cleared, NoEvents
<1>7. OrphansNeedARace'
  BY <1>0, <1>3 DEF DeletionsLeaveNoDebris, OrphansNeedARace, Orphaned
<1>8. LeafUnlessSkipped'
  <2> SUFFICES ASSUME NEW i \in Rows, leaf[i] = Absent, i \notin skipped'
               PROVE \E c \in Deleters : i \in del'[c].ids
    BY <1>3 DEF LeafUnlessSkipped, Rows
  <2>1. PICK c \in Deleters : i \in del[c].ids
    BY <1>0 DEF DeletionsLeaveNoDebris, LeafUnlessSkipped
  <2> QED
    BY <1>2, <2>1
<1> QED
  BY <1>4, <1>5, <1>6, <1>7, <1>8 DEF LifecycleInv, DeletionsLeaveNoDebris

\* The foreign keys refuse.
LEMMA DoesDeleteIssueRefused ==
  ASSUME LifecycleInv, NoteRaces, NEW d \in Deleters, DeleteIssueRefused(d) PROVE LifecycleInv'
BY HoldersNoted, RunStops DEF DeleteIssueRefused, Continues

\* A task or a request dies.
LEMMA DoesCrash == ASSUME LifecycleInv, Crash PROVE LifecycleInv'
<1>0. LifecycleTypeOK /\ FromSequence /\ HoldersRaced /\ DeletersClear /\ DeletionsLeaveNoDebris
  BY DEF LifecycleInv
<1>1. UNCHANGED <<tables, replica, todo, queue, raced>>
  BY DEF Crash
<1>2. UNCHANGED <<row, seq, hashOf, leaf, event, aggr, replica, todo, queue, raced>>
  BY <1>1 DEF tables
<1>3. CASE \E d \in Deleters : del' = [del EXCEPT ![d] = IdleDelete] /\ skipped' = skipped \cup (del[d].ids \cap Rows)
                              /\ UNCHANGED <<worker, request>>
  <2>1. PICK d \in Deleters : del' = [del EXCEPT ![d] = IdleDelete] /\ skipped' = skipped \cup (del[d].ids \cap Rows)
                              /\ UNCHANGED <<worker, request>>
    BY <1>3
  <2>2. IdleDelete \in Runs /\ IdleDelete.ids = {}
    BY DEF IdleDelete, Runs, DeletePlaces
  <2>3. \A c \in Deleters : del'[c].ids \subseteq del[c].ids
    BY <2>1, <2>2, RunContinues DEF Continues
  <2>4. HoldersRaced'
    BY <1>0, <1>2, <2>1, <2>3 DEF HoldersRaced, Going
  <2> QED
    BY <1>1, <2>1, <2>4, RunStops DEF Continues
<1>4. CASE \E w \in Workers : worker' = [worker EXCEPT ![w] = IdleWorker] /\ UNCHANGED <<del, request, skipped>>
  <2>1. PICK w \in Workers : worker' = [worker EXCEPT ![w] = IdleWorker] /\ UNCHANGED <<del, request, skipped>>
    BY <1>4
  <2>2. worker' \in [Workers -> Holdings] /\ worker'[w] = IdleWorker /\ \A v \in Workers : Known(worker[v])'
    BY <2>1, IdleHolds, WorkerGets DEF Gets
  <2>3. LifecycleTypeOK' /\ FromSequence'
    BY <1>0, <1>2, <2>1, <2>2 DEF LifecycleTypeOK, FromSequence, Rows
  <2>4. HoldersRaced'
    <3>1. IdleWorker.issue \notin Issues
      BY LifecycleAssumption DEF IdleWorker, Issues
    <3>2. \A v \in Workers : v # w => worker'[v] = worker[v]
      BY <1>0, <2>1 DEF LifecycleTypeOK
    <3> QED
      BY <1>0, <1>2, <2>1, <2>2, <3>1, <3>2 DEF HoldersRaced, Going
  <2>5. DeletersClear' /\ DeletionsLeaveNoDebris'
    BY <1>2, <2>1, OnlyLess
  <2> QED
    BY <2>3, <2>4, <2>5 DEF LifecycleInv
<1>5. CASE request' = NoRequest /\ UNCHANGED <<del, worker, skipped>>
  <2>1. LifecycleTypeOK' /\ FromSequence'
    BY <1>0, <1>2, <1>5 DEF LifecycleTypeOK, FromSequence, Rows, NoRequest, DeleteRequests
  <2>2. HoldersRaced' /\ DeletersClear'
    BY <1>0, <1>2, <1>5 DEF HoldersRaced, Going, DeletersClear, Cleared, NoEvents
  <2>3. DeletionsLeaveNoDebris'
    BY <1>0, <1>2, <1>5 DEF DeletionsLeaveNoDebris, OrphansNeedARace, Orphaned, LeafUnlessSkipped, Rows
  <2> QED
    BY <2>1, <2>2, <2>3 DEF LifecycleInv
<1> QED
  BY <1>3, <1>4, <1>5 DEF Crash
--------------------------------------------------------------------------------
\* Nothing is stored at first.
LEMMA LifecycleInitOK == LifecycleInit => LifecycleInv
<1> SUFFICES ASSUME LifecycleInit PROVE LifecycleInv
  OBVIOUS
<1>1. LifecycleTypeOK
  BY LifecycleAssumption DEF LifecycleInit, LifecycleTypeOK, IssueOrNone, IdleWorker, IdleDelete, Holdings, Runs,
     DeletePlaces, NoRequest, Absent, DeleteRequests
<1>2. FromSequence /\ HoldersRaced /\ DeletersClear
  BY LifecycleAssumption DEF LifecycleInit, FromSequence, Known, HoldersRaced, DeletersClear, Rows, IdleWorker, IdleDelete, Issues
<1>3. DeletionsLeaveNoDebris
  BY LifecycleAssumption DEF LifecycleInit, DeletionsLeaveNoDebris, OrphansNeedARace, Orphaned, LeafUnlessSkipped, Rows, Issues
<1> QED
  BY <1>1, <1>2, <1>3 DEF LifecycleInv

\* Every step keeps the invariant.
LEMMA LifecycleKeepsInv == ASSUME LifecycleInv, [LifecycleNext]_lifecycleVars PROVE LifecycleInv'
<1>1. CASE \E w \in Workers : IngestStep(w)
  BY <1>1, IngestKeepsInv
<1>2. CASE \E S \in SUBSET Issues : SoftDelete(S, "enqueue") \/ SoftDelete(S, "read")
  BY <1>2, DoesSoftDelete
<1>3. CASE \/ EnqueueStep \/ ReplicaCatchUp
           \/ \E i \in Issues : AddComment(i) \/ AddLink(i)
           \/ \E h \in Hashes : DeleteHash(h)
  BY <1>3, DoesUserStep
<1>4. CASE \E i \in Issues : Age(i)
  BY <1>4, DoesAge
<1>5. CASE \E d \in Deleters : StartTask(d) \/ StartCleanup(d)
  BY <1>5, DoesStart
<1>6. CASE \E d \in Deleters : DeleteStep(d)
  BY <1>6, DoesSelectEvents, DoesDeleteEvents, DoesDeleteAggregates, DoesDeleteLeaf, DoesDeleteLinks, DoesDeleteHashes,
     DoesDeleteComments, DoesDeleteIssue, DoesDeleteIssueRefused DEF DeleteStep
<1>7. CASE Crash
  BY <1>7, DoesCrash
<1>8. CASE UNCHANGED lifecycleVars
  BY <1>8 DEF lifecycleVars, tables, LifecycleInv, LifecycleTypeOK, FromSequence, HoldersRaced, Going, DeletersClear, Cleared,
     NoEvents, DeletionsLeaveNoDebris, OrphansNeedARace, Orphaned, LeafUnlessSkipped, Rows
<1>9. CASE (\E i \in Issues : delete_issue(i)) \/ (\E S \in SUBSET Issues : delete_issues(S))
  <2>1. \A i \in Issues : {i} \in SUBSET Issues
    OBVIOUS
  <2> QED
    BY <1>2, <1>9, <2>1 DEF delete_issue, delete_issues
<1> QED
  BY <1>1, <1>3, <1>4, <1>5, <1>6, <1>7, <1>8, <1>9 DEF LifecycleNext

\* A deletion of issues leaves no event, aggregate, tag or leaf of an issue it
\* deleted, unless an ingest worker held that issue while it went, and a live
\* issue keeps its leaf unless its deletion was given up: whichever of the nine
\* statements of delete_issues_in_batches anything else runs between.
THEOREM IssueDeletionsLeaveNoDebris == LifecycleSpec => []DeletionsLeaveNoDebris
<1>1. LifecycleInv /\ [LifecycleNext]_lifecycleVars => LifecycleInv'
  BY LifecycleKeepsInv
<1>2. LifecycleInv => DeletionsLeaveNoDebris
  BY DEF LifecycleInv
<1> QED
  BY LifecycleInitOK, <1>1, <1>2, PTL DEF LifecycleSpec
=============================================================================
