---------------------------- MODULE IngestDoorProofs ----------------------------
(***************************************************************************)
(* Proofs of QueuedExactlyOnce and GoodKeyGetsIn, for any number of requests *)
(* in flight, keys, event ids, envelopes and cache lifetimes.                *)
(***************************************************************************)
EXTENDS IngestDoor, SequenceTheorems, WellFoundedInduction, TLAPS

Places == {"idle", "auth", "lookup", "settle", "body", "items", "enqueue", "done"}
FateNames == {"queued", "failed", "seen", "kept", "invalid", "unread"}
BlockValues == {"none", "v", "t", "t:50", "t:100"}
CacheBlocks == [val : BlockValues, ttl : 0..RejectionWait]
RequestStates ==
  [pc : Places, door : Doors, key : DsnKeys \cup {Nobody}, body : Seq(BodyItems),
   row : BOOLEAN \X Rates, fates : Seq(FateNames), processed : BOOLEAN]
DoorTypeOK ==
  /\ active \subseteq DsnKeys /\ rate \in Rates
  /\ block \in CacheBlocks
  /\ dsnBlock \in [DsnKeys -> 0..RejectionWait]
  /\ otlpBlock \in [DsnKeys -> CacheBlocks]
  /\ dedupe \in [SdkIds -> 0..DedupeWait]
  /\ copies \in [SdkIds -> Nat] /\ unqueued \subseteq SdkIds
  /\ req \in [Requests -> RequestStates]
  /\ calm \in [DsnKeys \cup {Nobody} -> 0..RejectionWait + 1]
  /\ ticks \in Nat /\ changes \in Nat

\* What became of the n-th item of a body.
FateOK(q, n) ==
  /\ q.fates[n] = "kept" => q.body[n].type = "dump"
  /\ q.body[n].type \in {"event", "report", "log"}
       /\ (\A u \in DOMAIN q.body : q.body[u].type = "unknown" => n < u)
     => q.fates[n] \in {"queued", "seen", "failed"}
RequestOK(q) ==
  /\ q.pc \in {"auth", "lookup", "settle", "body"} => q.key \in DsnKeys /\ q.fates = <<>>
  /\ q.pc \in {"items", "enqueue", "done"} =>
       Len(q.fates) <= Len(q.body) /\ \A n \in 1..Len(q.fates) : FateOK(q, n)
  /\ q.pc = "enqueue" => Len(q.fates) < Len(q.body)
  /\ q.pc = "enqueue" => q.body[Len(q.fates) + 1].type \in {"event", "dump", "report", "log"}
  /\ q.pc = "done" => Len(q.fates) = Len(q.body)

Pending(r, e) == req[r].pc = "enqueue" /\ req[r].body[Len(req[r].fates) + 1].id = e
MarkOK(e) ==
  /\ copies[e] <= 1 /\ (copies[e] > 0 => dedupe[e] > 0)
  /\ \A r \in Requests : Pending(r, e) => dedupe[e] > 0 /\ copies[e] = 0
  /\ \A r, s \in Requests : Pending(r, e) /\ Pending(s, e) => r = s
  /\ dedupe[e] > 0 => copies[e] > 0 \/ e \in unqueued \/ \E r \in Requests : Pending(r, e)

Young(x, n) == calm[x] + n <= RejectionWait
RowOK(q) ==
  q.pc = "settle" =>
    /\ ~q.row[1] /\ q.key \in active => calm[q.key] = 0
    /\ q.row[1] /\ q.row[2] # 0 /\ rate = 0 => calm[Nobody] = 0
BlocksOK ==
  /\ block.ttl > 0 /\ deserialize_throttle(block.val) # 0 /\ rate = 0 => Young(Nobody, block.ttl)
  /\ \A k \in DsnKeys : k \in active =>
       /\ dsnBlock[k] > 0 => Young(k, dsnBlock[k])
       /\ otlpBlock[k].ttl > 0 /\ rate = 0 => Young(k, otlpBlock[k].ttl) \/ Young(Nobody, otlpBlock[k].ttl)

DoorInv ==
  /\ DoorTypeOK
  /\ \A r \in Requests : RequestOK(req[r]) /\ RowOK(req[r])
  /\ \A e \in SdkIds : MarkOK(e)
  /\ BlocksOK
--------------------------------------------------------------------------------
\* A request nobody is in the middle of: where they all begin.
LEMMA IdleRequest == Idle \in RequestStates /\ RequestOK(Idle) /\ RowOK(Idle)
<1>1. <<>> \in Seq(BodyItems) /\ <<>> \in Seq(FateNames)
  OBVIOUS
<1>2. Idle \in RequestStates
  BY <1>1 DEF Idle, RequestStates, Places, Doors, Rates
<1> QED
  BY <1>2 DEF Idle, RequestOK, RowOK

\* A step of request r writes its own record and no other.
LEMMA OneRequest ==
  ASSUME DoorTypeOK, NEW r \in Requests, NEW new \in RequestStates, Set(r, new)
  PROVE  /\ req' \in [Requests -> RequestStates]
         /\ req'[r] = new /\ \A s \in Requests : s # r => req'[s] = req[s]
<1>1. req \in [Requests -> RequestStates]
  BY DEF DoorTypeOK
<1> QED
  BY <1>1 DEF Set

\* What a step of one request has to keep, besides the request's own record.
CacheTypes ==
  /\ block \in CacheBlocks
  /\ dsnBlock \in [DsnKeys -> 0..RejectionWait]
  /\ otlpBlock \in [DsnKeys -> CacheBlocks]
  /\ dedupe \in [SdkIds -> 0..DedupeWait]
  /\ copies \in [SdkIds -> Nat] /\ unqueued \subseteq SdkIds
\* A step of one request keeps the invariant when its own record, the caches and the marks do.
LEMMA RequestStep ==
  ASSUME DoorInv, NEW r \in Requests, NEW new \in RequestStates, Set(r, new), RequestOK(new), RowOK(new),
         UNCHANGED <<active, rate, calm, ticks, changes>>, CacheTypes', BlocksOK', \A e \in SdkIds : MarkOK(e)'
  PROVE  DoorInv'
<1>0. DoorTypeOK
  BY DEF DoorInv
<1>1. /\ req' \in [Requests -> RequestStates]
      /\ req'[r] = new /\ \A s \in Requests : s # r => req'[s] = req[s]
  BY <1>0, OneRequest
<1>2. DoorTypeOK'
  BY <1>0, <1>1 DEF DoorTypeOK, CacheTypes
<1>3. ASSUME NEW s \in Requests PROVE (RequestOK(req[s]) /\ RowOK(req[s]))'
  <2>1. RequestOK(req'[s]) /\ RowOK(req'[s])
    BY <1>1 DEF DoorInv
  <2>2. RowOK(req'[s]) => RowOK(req[s])'
    BY DEF RowOK
  <2>3. RequestOK(req'[s]) => RequestOK(req[s])'
    BY DEF RequestOK, FateOK
  <2> QED
    BY <2>1, <2>2, <2>3
<1> QED
  BY <1>2, <1>3 DEF DoorInv

\* No event's enqueue is begun or ended by a step elsewhere.
LEMMA PendingKept ==
  ASSUME DoorInv, NEW r \in Requests, NEW new \in RequestStates, Set(r, new),
         req[r].pc # "enqueue", new.pc # "enqueue", UNCHANGED items
  PROVE  \A e \in SdkIds : MarkOK(e)'
<1>1. /\ req'[r] = new /\ \A s \in Requests : s # r => req'[s] = req[s]
  BY OneRequest DEF DoorInv
<1>2. ASSUME NEW e \in SdkIds PROVE MarkOK(e)'
  <2>1. \A s \in Requests : Pending(s, e)' <=> Pending(s, e)
    BY <1>1 DEF Pending
  <2>2. MarkOK(e) /\ copies'[e] = copies[e] /\ dedupe'[e] = dedupe[e] /\ unqueued' = unqueued
    BY DEF DoorInv, items
  <2> QED
    BY <2>1, <2>2 DEF MarkOK
<1> QED
  BY <1>2

\* A step that looks at the caches and the row and writes none of them.
LEMMA QuietStep ==
  ASSUME DoorInv, NEW r \in Requests, NEW new \in RequestStates, Set(r, new), RequestOK(new), RowOK(new),
         req[r].pc # "enqueue", new.pc # "enqueue", UNCHANGED <<gate, items>>
  PROVE  DoorInv'
<1>1. CacheTypes'
  BY DEF DoorInv, DoorTypeOK, CacheTypes, gate, items
<1>2. BlocksOK'
  BY DEF DoorInv, BlocksOK, Young, gate
<1>3. UNCHANGED <<active, rate, calm, ticks, changes>> /\ UNCHANGED items
  BY DEF gate
<1>4. \A e \in SdkIds : MarkOK(e)'
  BY <1>3, PendingKept
<1> QED
  BY <1>1, <1>2, <1>3, <1>4, RequestStep

\* A request turned away before it wrote anything.
LEMMA QuietAnswer ==
  ASSUME DoorInv, NEW r \in Requests, NEW a, a # "ok", Answer(r, a), req[r].pc # "enqueue", UNCHANGED <<gate, items>>
  PROVE  DoorInv'
<1>1. Set(r, Idle) /\ Idle.pc # "enqueue"
  BY DEF Answer, Idle
<1> QED
  BY <1>1, IdleRequest, QuietStep

\* Every body a client sends is a sequence of items of the model.
LEMMA BodiesAreItems == \A door : BodiesOf(door) \subseteq Seq(BodyItems)
<1>1. \A i \in BodyItems : <<i>> \in Seq(BodyItems)
  OBVIOUS
<1>2. \A e \in SdkIds : Item("event", e) \in BodyItems /\ Item("dump", e) \in BodyItems
  BY DEF Item, BodyItems
<1>3. Item("log", Nobody) \in BodyItems
  BY DEF Item, BodyItems
<1> QED
  BY <1>1, <1>2, <1>3, DoorAssumption DEF BodiesOf

\* A request with everything it has named.
Request(pc, door, key, body, row, fates, processed) ==
  [pc |-> pc, door |-> door, key |-> key, body |-> body, row |-> row, fates |-> fates, processed |-> processed]
\* A record of fields of the right kind is a request.
LEMMA RequestIs ==
  ASSUME NEW pc \in Places, NEW door \in Doors, NEW key \in DsnKeys \cup {Nobody}, NEW body \in Seq(BodyItems),
         NEW row \in BOOLEAN \X Rates, NEW fates \in Seq(FateNames), NEW processed \in BOOLEAN
  PROVE  Request(pc, door, key, body, row, fates, processed) \in RequestStates
BY DEF Request, RequestStates

\* The fields a request begins with.
LEMMA FirstValues ==
  /\ <<FALSE, 0>> \in BOOLEAN \X Rates /\ <<>> \in Seq(FateNames) /\ <<>> \in Seq(BodyItems) /\ FALSE \in BOOLEAN
  /\ Idle = Request("idle", "envelope", Nobody, <<>>, <<FALSE, 0>>, <<>>, FALSE)
<1>1. <<FALSE, 0>> \in BOOLEAN \X Rates
  BY DEF Rates
<1>2. <<>> \in Seq(FateNames) /\ <<>> \in Seq(BodyItems) /\ FALSE \in BOOLEAN
  OBVIOUS
<1>3. Idle = Request("idle", "envelope", Nobody, <<>>, <<FALSE, 0>>, <<>>, FALSE)
  BY DEF Idle, Request
<1> QED
  BY <1>1, <1>2, <1>3

\* The fields of a request, by name.
LEMMA RequestFields ==
  ASSUME NEW q \in RequestStates
  PROVE  /\ q = Request(q.pc, q.door, q.key, q.body, q.row, q.fates, q.processed)
         /\ q.pc \in Places /\ q.door \in Doors /\ q.key \in DsnKeys \cup {Nobody} /\ q.body \in Seq(BodyItems)
         /\ q.row \in BOOLEAN \X Rates /\ q.fates \in Seq(FateNames) /\ q.processed \in BOOLEAN
BY DEF RequestStates, Request

\* What the state knows of one request.
LEMMA RequestOf ==
  ASSUME DoorInv, NEW r \in Requests
  PROVE  req[r] \in RequestStates /\ RequestOK(req[r]) /\ RowOK(req[r])
BY DEF DoorInv, DoorTypeOK

\* A client sends, or sends again.
LEMMA DoorSend ==
  ASSUME DoorInv, NEW r \in Requests, NEW door \in Doors, NEW key \in DsnKeys, NEW body \in BodiesOf(door),
         Send(r, door, key, body)
  PROVE  DoorInv'
<1>1. PICK new : new = [Idle EXCEPT !.pc = "auth", !.door = door, !.key = key, !.body = body]
  OBVIOUS
<1>2. body \in Seq(BodyItems)
  BY BodiesAreItems
<1>3. new = Request("auth", door, key, body, <<FALSE, 0>>, <<>>, FALSE)
  BY <1>1 DEF Idle, Request
<1>4. new \in RequestStates
  <2>1. "auth" \in Places
    BY DEF Places
  <2> QED
    BY <1>2, <1>3, <2>1, FirstValues, RequestIs
<1>5. RequestOK(new) /\ RowOK(new) /\ new.pc # "enqueue"
  BY <1>3 DEF Request, RequestOK, RowOK
<1>6. Set(r, new) /\ req[r].pc # "enqueue" /\ UNCHANGED <<gate, items>>
  BY <1>1 DEF Send
<1> QED
  BY <1>4, <1>5, <1>6, QuietStep

\* The reads of the block entries, and of the row.
LEMMA GoesToLookup ==
  ASSUME DoorInv, NEW r \in Requests, req[r].pc = "auth", Set(r, [req[r] EXCEPT !.pc = "lookup"]), UNCHANGED <<gate, items>>
  PROVE  DoorInv'
<1>1. PICK q : q = req[r]
  OBVIOUS
<1>2. q \in RequestStates /\ RequestOK(q) /\ q.pc = "auth"
  BY <1>1, RequestOf
<1>3. PICK new : new = [q EXCEPT !.pc = "lookup"]
  OBVIOUS
<1>4. new = Request("lookup", q.door, q.key, q.body, q.row, q.fates, q.processed)
  BY <1>2, <1>3 DEF RequestStates, Request
<1>5. "lookup" \in Places
  BY DEF Places
<1>6. new \in RequestStates
  BY <1>2, <1>4, <1>5, RequestFields, RequestIs
<1>7. RequestOK(new) /\ RowOK(new) /\ new.pc # "enqueue"
  BY <1>2, <1>4 DEF Request, RequestOK, RowOK
<1> QED
  BY <1>1, <1>2, <1>3, <1>6, <1>7, QuietStep

\* The Django doors look at the two cached blocks.
LEMMA DoorGetProject == ASSUME DoorInv, NEW r \in Requests, get_project(r) PROVE DoorInv'
<1>1. req[r].pc = "auth" /\ UNCHANGED <<gate, items>>
  BY DEF get_project
<1>2. Answer(r, "throttled") \/ Answer(r, "denied") \/ Set(r, [req[r] EXCEPT !.pc = "lookup"])
  BY DEF get_project
<1> QED
  BY <1>1, <1>2, QuietAnswer, GoesToLookup

\* The OTLP door looks at its one block.
LEMMA DoorGetProjectByKey == ASSUME DoorInv, NEW r \in Requests, get_project_by_key(r) PROVE DoorInv'
<1>1. req[r].pc = "auth" /\ UNCHANGED <<gate, items>>
  BY DEF get_project_by_key
<1>2. Answer(r, "throttled") \/ Answer(r, "denied") \/ Set(r, [req[r] EXCEPT !.pc = "lookup"])
  BY DEF get_project_by_key
<1> QED
  BY <1>1, <1>2, QuietAnswer, GoesToLookup

\* The read of the project and key.
LEMMA DoorRow == ASSUME DoorInv, NEW r \in Requests, get_project_auth_info_row(r) PROVE DoorInv'
<1>1. PICK q : q = req[r]
  OBVIOUS
<1>2. q \in RequestStates /\ RequestOK(q) /\ q.pc = "lookup" /\ UNCHANGED <<gate, items>>
  BY <1>1, RequestOf DEF get_project_auth_info_row
<1>3. PICK found \in BOOLEAN : found = (q.key \in active)
  <2>1. CASE q.key \in active
    <3>1. (q.key \in active) = TRUE
      BY <2>1, Zenon
    <3> QED
      BY <3>1, Zenon
  <2>2. CASE ~(q.key \in active)
    <3>1. (q.key \in active) = FALSE
      BY <2>2
    <3> QED
      BY <3>1, Zenon
  <2> QED
    BY <2>1, <2>2
<1> DEFINE row == <<found, rate>>
<1>4. row \in BOOLEAN \X Rates
  BY DEF DoorInv, DoorTypeOK
<1> HIDE DEF row
<1>5. PICK new : new = [q EXCEPT !.pc = "settle", !.row = row]
  OBVIOUS
<1>6. new = Request("settle", q.door, q.key, q.body, row, q.fates, q.processed)
  BY <1>2, <1>5 DEF RequestStates, Request
<1>7. "settle" \in Places
  BY DEF Places
<1>8. new \in RequestStates
  BY <1>2, <1>4, <1>6, <1>7, RequestFields, RequestIs
<1>9. RequestOK(new) /\ new.pc # "enqueue"
  BY <1>2, <1>6 DEF Request, RequestOK
<1>10. RowOK(new)
  BY <1>3, <1>6 DEF Request, RowOK, row
<1>11. Set(r, new)
  BY <1>1, <1>3, <1>5 DEF get_project_auth_info_row, row
<1> QED
  BY <1>1, <1>2, <1>8, <1>9, <1>10, <1>11, QuietStep

\* Reading the body.
LEMMA BodyRead ==
  ASSUME DoorInv, NEW r \in Requests, req[r].pc = "body", Set(r, [req[r] EXCEPT !.pc = "items", !.key = Nobody]),
         UNCHANGED <<gate, items>>
  PROVE  DoorInv'
<1>1. PICK q : q = req[r]
  OBVIOUS
<1>2. q \in RequestStates /\ RequestOK(q) /\ q.pc = "body"
  BY <1>1, RequestOf
<1>3. PICK new : new = [q EXCEPT !.pc = "items", !.key = Nobody]
  OBVIOUS
<1>4. new = Request("items", q.door, Nobody, q.body, q.row, q.fates, q.processed)
  BY <1>2, <1>3 DEF RequestStates, Request
<1>5. "items" \in Places
  BY DEF Places
<1>6. new \in RequestStates
  BY <1>2, <1>4, <1>5, RequestFields, RequestIs
<1>7. RequestOK(new) /\ RowOK(new) /\ new.pc # "enqueue"
  <2>1. q.fates = <<>> /\ Len(q.body) \in Nat
    BY <1>2, RequestFields DEF RequestOK
  <2> QED
    BY <1>4, <2>1 DEF Request, RequestOK, RowOK
<1> QED
  BY <1>1, <1>2, <1>3, <1>6, <1>7, QuietStep

\* The doors that buffer a body read it.
LEMMA DoorReadBody == ASSUME DoorInv, NEW r \in Requests, ReadBody(r) PROVE DoorInv'
<1>1. req[r].pc = "body" /\ UNCHANGED <<gate, items>>
  BY DEF ReadBody
<1>2. Answer(r, "refused") \/ Set(r, [req[r] EXCEPT !.pc = "items", !.key = Nobody])
  BY DEF ReadBody
<1> QED
  BY <1>1, <1>2, QuietAnswer, BodyRead

\* The Rust session reads the body, or replays it through the Django view.
LEMMA DoorRustBody == ASSUME DoorInv, NEW r \in Requests, RustBody(r) PROVE DoorInv'
<1>1. req[r].pc = "body" /\ UNCHANGED <<gate, items>>
  BY DEF RustBody
<1>2. \/ Answer(r, "gone") \/ Set(r, [req[r] EXCEPT !.pc = "items", !.key = Nobody])
      \/ Set(r, [req[r] EXCEPT !.pc = "auth", !.door = "envelope"])
  BY DEF RustBody
<1>3. ASSUME Set(r, [req[r] EXCEPT !.pc = "auth", !.door = "envelope"]) PROVE DoorInv'
  <2>1. PICK q : q = req[r]
    OBVIOUS
  <2>2. q \in RequestStates /\ RequestOK(q) /\ q.pc = "body"
    BY <1>1, <2>1, RequestOf
  <2>3. PICK new : new = [q EXCEPT !.pc = "auth", !.door = "envelope"]
    OBVIOUS
  <2>4. new = Request("auth", "envelope", q.key, q.body, q.row, q.fates, q.processed)
    BY <2>2, <2>3 DEF RequestStates, Request
  <2>5. "auth" \in Places /\ "envelope" \in Doors
    BY DEF Places, Doors
  <2>6. new \in RequestStates
    BY <2>2, <2>4, <2>5, RequestFields, RequestIs
  <2>7. RequestOK(new) /\ RowOK(new) /\ new.pc # "enqueue"
    BY <2>2, <2>4 DEF Request, RequestOK, RowOK
  <2> QED
    BY <1>1, <1>3, <2>1, <2>2, <2>3, <2>6, <2>7, QuietStep
<1> QED
  BY <1>1, <1>2, <1>3, QuietAnswer, BodyRead

--------------------------------------------------------------------------------
(***************************************************************************)
(* The items of a body                                                     *)
(***************************************************************************)
\* One more fate.
LEMMA OneMoreFate ==
  ASSUME NEW q \in RequestStates, RequestOK(q), q.pc \in {"items", "enqueue"}, Len(q.fates) < Len(q.body),
         NEW f \in FateNames, NEW processed \in BOOLEAN,
         f = "kept" => q.body[Len(q.fates) + 1].type = "dump",
         q.body[Len(q.fates) + 1].type \in {"event", "report", "log"} => f \in {"queued", "seen", "failed"}
  PROVE  \E new \in RequestStates :
           /\ new = Request("items", q.door, q.key, q.body, q.row, Append(q.fates, f), processed)
           /\ RequestOK(new) /\ RowOK(new) /\ new.pc = "items"
<1>1. PICK new : new = Request("items", q.door, q.key, q.body, q.row, Append(q.fates, f), processed)
  OBVIOUS
<1>2. q.fates \in Seq(FateNames) /\ q.body \in Seq(BodyItems) /\ "items" \in Places
  BY RequestFields DEF Places
<1>3. Append(q.fates, f) \in Seq(FateNames) /\ Len(Append(q.fates, f)) = Len(q.fates) + 1
      /\ Len(q.fates) \in Nat /\ Len(q.body) \in Nat
  BY <1>2
<1>4. new \in RequestStates
  BY <1>1, <1>2, <1>3, RequestFields, RequestIs
<1>5. ASSUME NEW n \in 1..Len(q.fates) + 1 PROVE FateOK(new, n)
  <2>1. CASE n = Len(q.fates) + 1
    <3>1. new.fates[n] = f /\ new.body = q.body
      BY <1>1, <1>2, <1>3, <2>1 DEF Request
    <3> QED
      BY <2>1, <3>1 DEF FateOK
  <2>2. CASE n \in 1..Len(q.fates)
    <3>1. new.fates[n] = q.fates[n] /\ new.body = q.body
      BY <1>1, <1>2, <2>2 DEF Request
    <3>2. FateOK(q, n)
      BY <2>2 DEF RequestOK
    <3> QED
      BY <3>1, <3>2 DEF FateOK
  <2> QED
    BY <1>3, <2>1, <2>2
<1>6. RequestOK(new) /\ RowOK(new) /\ new.pc = "items"
  <2>1. new.pc = "items" /\ new.body = q.body /\ Len(new.fates) = Len(q.fates) + 1
    BY <1>1, <1>3 DEF Request
  <2>2. Len(new.fates) <= Len(new.body) /\ \A n \in 1..Len(new.fates) : FateOK(new, n)
    BY <1>3, <1>5, <2>1
  <2> QED
    BY <2>1, <2>2 DEF RequestOK, RowOK
<1> QED
  BY <1>1, <1>4, <1>6

\* The item a request is at has a type and an id of the model.
LEMMA ItemOf ==
  ASSUME NEW q \in RequestStates, NEW n \in 1..Len(q.body)
  PROVE  /\ q.body[n] \in BodyItems
         /\ q.body[n].type \in {"event", "dump", "report", "log", "invalid", "unknown"}
         /\ q.body[n].type \in {"event", "dump"} => q.body[n].id \in SdkIds
         /\ q.body[n].type \notin {"event", "dump"} => q.body[n].id = Nobody
<1>1. q.body \in Seq(BodyItems)
  BY RequestFields
<1>2. q.body[n] \in BodyItems
  BY <1>1
<1> QED
  BY <1>2 DEF BodyItems

\* The greatest of some places in a body.
LEMMA LeastNatural == ASSUME NEW S, S \subseteq Nat, S # {} PROVE \E x \in S : \A y \in S : x <= y
<1>1. \A x, y \in Nat : <<y, x>> \in OpToRel(<, Nat) <=> y < x
  BY DEF OpToRel
<1>2. PICK x \in S : \A y \in S : ~(<<y, x>> \in OpToRel(<, Nat))
  BY NatLessThanWellFounded, WFMin
<1>3. ASSUME NEW y \in S PROVE x <= y
  <2>1. x \in Nat /\ y \in Nat /\ ~(y < x)
    BY <1>1, <1>2
  <2> QED
    BY <2>1
<1> QED
  BY <1>3

\* A finite, inhabited set of positions has a last one.
LEMMA MaxIs ==
  ASSUME NEW n \in Nat, NEW S, S \subseteq 1..n, S # {}
  PROVE  Max(S) \in S
<1>0. PICK T : T = {n - x : x \in S}
  OBVIOUS
<1>1. \A x \in S : x \in Nat /\ n - x \in Nat /\ n - x \in T
  BY <1>0
<1>2. T \subseteq Nat /\ T # {}
  BY <1>0, <1>1
<1>3. PICK m \in T : \A y \in T : m <= y
  BY <1>2, LeastNatural
<1>4. PICK k \in S : m = n - k
  BY <1>0
<1>5. ASSUME NEW x \in S PROVE k >= x /\ k \in Nat /\ x \in Nat
  <2>1. n - x \in T /\ x \in 1..n /\ k \in 1..n
    BY <1>1
  <2>2. n - k <= n - x
    BY <1>3, <1>4, <2>1
  <2> QED
    BY <2>1, <2>2
<1>6. \E x \in S : \A y \in S : x >= y
  BY <1>5
<1> QED
  BY <1>6 DEF Max

\* The last item was handled: a kept minidump becomes the event, or the request is answered.
LEMMA DoorFinishItems == ASSUME DoorInv, NEW r \in Requests, FinishItems(r) PROVE DoorInv'
<1>1. PICK q : q = req[r]
  OBVIOUS
<1>2. q \in RequestStates /\ RequestOK(q) /\ q.pc = "items" /\ Len(q.fates) = Len(q.body) /\ UNCHANGED <<gate, items>>
  BY <1>1, RequestOf DEF FinishItems
<1>3. q.fates \in Seq(FateNames) /\ q.body \in Seq(BodyItems) /\ Len(q.fates) \in Nat
  BY <1>2, RequestFields
<1>4. PICK kept : kept = { n \in DOMAIN q.fates : q.fates[n] = "kept" }
  OBVIOUS
<1>5. \/ kept # {} /\ Set(r, [q EXCEPT !.body = <<Item("event", q.body[Max(kept)].id)>>, !.fates = <<>>])
      \/ Answer(r, "ok")
  BY <1>1, <1>4 DEF FinishItems
<1>6. ASSUME kept # {}, Set(r, [q EXCEPT !.body = <<Item("event", q.body[Max(kept)].id)>>, !.fates = <<>>])
      PROVE  DoorInv'
  <2>1. PICK m : m = Max(kept)
    OBVIOUS
  <2>2. kept \subseteq 1..Len(q.fates)
    BY <1>3, <1>4
  <2>3. m \in kept
    BY <1>3, <1>6, <2>1, <2>2, MaxIs
  <2>4. m \in 1..Len(q.body) /\ q.fates[m] = "kept"
    BY <1>2, <1>4, <2>2, <2>3
  <2>5. q.body[m].type = "dump"
    BY <1>2, <2>4 DEF RequestOK, FateOK
  <2>6. q.body[m].id \in SdkIds
    BY <1>2, <2>4, <2>5, ItemOf
  <2>7. PICK body : body = <<Item("event", q.body[m].id)>>
    OBVIOUS
  <2>8. body \in Seq(BodyItems) /\ Len(body) = 1
    <3>1. Item("event", q.body[m].id) \in BodyItems
      BY <2>6 DEF Item, BodyItems
    <3> QED
      BY <2>7, <3>1
  <2>9. PICK new : new = [q EXCEPT !.body = body, !.fates = <<>>]
    OBVIOUS
  <2>10. new = Request("items", q.door, q.key, body, q.row, <<>>, q.processed)
    BY <1>2, <2>9 DEF RequestStates, Request
  <2>11. "items" \in Places
    BY DEF Places
  <2>12. new \in RequestStates
    BY <1>2, <2>8, <2>10, <2>11, FirstValues, RequestFields, RequestIs
  <2>13. RequestOK(new) /\ RowOK(new) /\ new.pc # "enqueue"
    BY <2>8, <2>10 DEF Request, RequestOK, RowOK
  <2> QED
    BY <1>1, <1>2, <1>6, <2>1, <2>7, <2>9, <2>12, <2>13, QuietStep
<1>7. ASSUME Answer(r, "ok") PROVE DoorInv'
  <2>1. PICK new : new = [Idle EXCEPT !.pc = "done", !.body = q.body, !.fates = q.fates]
    OBVIOUS
  <2>2. new = Request("done", "envelope", Nobody, q.body, <<FALSE, 0>>, q.fates, FALSE)
    BY <2>1 DEF Idle, Request
  <2>3. "done" \in Places /\ "envelope" \in Doors
    BY DEF Places, Doors
  <2>4. new \in RequestStates
    BY <1>3, <2>2, <2>3, FirstValues, RequestIs
  <2>5. new.pc = "done" /\ new.body = q.body /\ new.fates = q.fates
    BY <2>2 DEF Request
  <2>6. \A n \in 1..Len(q.fates) : FateOK(q, n)
    BY <1>2 DEF RequestOK
  <2>7. \A n \in 1..Len(new.fates) : FateOK(new, n)
    BY <2>5, <2>6 DEF FateOK
  <2>8. RequestOK(new) /\ RowOK(new)
    BY <1>2, <1>3, <2>5, <2>7 DEF RequestOK, RowOK
  <2>9. Set(r, new)
    BY <1>1, <1>7, <2>1 DEF Answer
  <2> QED
    BY <1>1, <1>2, <2>4, <2>5, <2>8, <2>9, QuietStep
<1> QED
  BY <1>5, <1>6, <1>7

\* n times the same value is a sequence of them.
LEMMA ConstantSequence ==
  ASSUME NEW S, NEW x \in S, NEW k \in Nat
  PROVE  [i \in 1..k |-> x] \in Seq(S) /\ Len([i \in 1..k |-> x]) = k
<1>1. PICK s : s = [i \in 1..k |-> x]
  OBVIOUS
<1>2. s \in [1..k -> S] /\ DOMAIN s = 1..k
  BY <1>1
<1>3. s \in Seq(S)
  BY <1>2, SeqDef
<1>4. Len(s) = k
  <2>1. Len(s) \in Nat /\ DOMAIN s = 1..Len(s)
    BY <1>3, LenProperties
  <2> QED
    BY <1>2, <2>1
<1> QED
  BY <1>1, <1>3, <1>4

\* A record with other fates.
Fields == {"pc", "door", "key", "body", "row", "fates", "processed"}
\* Only the fates and the place change.
LEMMA FateRecord ==
  ASSUME NEW q, DOMAIN q = Fields, NEW x
  PROVE  /\ [q EXCEPT !.pc = "items", !.fates = x]
              = Request("items", q.door, q.key, q.body, q.row, x, q.processed)
         /\ [q EXCEPT !.fates = x] = Request(q.pc, q.door, q.key, q.body, q.row, x, q.processed)
<1>1. ASSUME NEW pc
      PROVE  [f \in DOMAIN q |-> IF f = "fates" THEN x ELSE IF f = "pc" THEN pc ELSE q[f]]
               = Request(pc, q.door, q.key, q.body, q.row, x, q.processed)
  BY DEF Request, Fields
<1>2. [q EXCEPT !.pc = "items", !.fates = x] =
        [f \in DOMAIN q |-> IF f = "fates" THEN x ELSE IF f = "pc" THEN "items" ELSE q[f]]
  BY Zenon DEF Fields
<1>3. [q EXCEPT !.fates = x] =
        [f \in DOMAIN q |-> IF f = "fates" THEN x ELSE IF f = "pc" THEN q.pc ELSE q[f]]
  BY Zenon DEF Fields
<1> QED
  BY <1>1, <1>2, <1>3, Zenon
\* The fates, the place and the flag change.
LEMMA QueuedRecord ==
  ASSUME NEW q, DOMAIN q = Fields, NEW x, NEW y
  PROVE  [q EXCEPT !.pc = "items", !.fates = x, !.processed = y] = Request("items", q.door, q.key, q.body, q.row, x, y)
<1>1. [f \in DOMAIN q |-> IF f = "processed" THEN y ELSE IF f = "fates" THEN x ELSE IF f = "pc" THEN "items" ELSE q[f]]
        = Request("items", q.door, q.key, q.body, q.row, x, y)
  BY DEF Request, Fields
<1>2. [q EXCEPT !.pc = "items", !.fates = x, !.processed = y] =
        [f \in DOMAIN q |-> IF f = "processed" THEN y ELSE IF f = "fates" THEN x ELSE IF f = "pc" THEN "items" ELSE q[f]]
  BY Zenon DEF Fields
<1> QED
  BY <1>1, <1>2, Zenon
\* The fates and the flag change.
LEMMA SeenRecord ==
  ASSUME NEW q, DOMAIN q = Fields, NEW x, NEW y
  PROVE  [q EXCEPT !.fates = x, !.processed = y] = Request(q.pc, q.door, q.key, q.body, q.row, x, y)
<1>1. [f \in DOMAIN q |-> IF f = "processed" THEN y ELSE IF f = "fates" THEN x ELSE q[f]]
        = Request(q.pc, q.door, q.key, q.body, q.row, x, y)
  BY DEF Request, Fields
<1>2. [q EXCEPT !.fates = x, !.processed = y] =
        [f \in DOMAIN q |-> IF f = "processed" THEN y ELSE IF f = "fates" THEN x ELSE q[f]]
  BY Zenon DEF Fields
<1> QED
  BY <1>1, <1>2, Zenon
\* A request has the seven fields and no other.
LEMMA RequestHasFields == ASSUME NEW q \in RequestStates PROVE DOMAIN q = Fields
BY DEF RequestStates, Fields

\* An item that costs nobody anything: its fate is written down and no cache is
\* touched.
LEMMA QuietFate ==
  ASSUME DoorInv, NEW r \in Requests, NEW q, q = req[r], q.pc = "items", Len(q.fates) < Len(q.body),
         NEW f \in FateNames, NEW processed \in BOOLEAN,
         f = "kept" => q.body[Len(q.fates) + 1].type = "dump",
         q.body[Len(q.fates) + 1].type \in {"event", "report", "log"} => f \in {"queued", "seen", "failed"},
         Set(r, Request(q.pc, q.door, q.key, q.body, q.row, Append(q.fates, f), processed)), UNCHANGED <<gate, items>>
  PROVE  DoorInv'
<1>1. q \in RequestStates /\ RequestOK(q)
  BY RequestOf
<1>2. PICK new \in RequestStates :
        /\ new = Request("items", q.door, q.key, q.body, q.row, Append(q.fates, f), processed)
        /\ RequestOK(new) /\ RowOK(new) /\ new.pc = "items"
  BY <1>1, OneMoreFate
<1>3. Set(r, new)
  BY <1>2
<1> QED
  BY <1>2, <1>3, QuietStep

\* What follows an item header that cannot be read.
Unread(s, m, n) == s \o [k \in 1..(m - n + 1) |-> "unread"]
\* What follows an unreadable header is unread, item by item.
LEMMA TheRest ==
  ASSUME NEW s \in Seq(FateNames), NEW m \in Nat, Len(s) < m, NEW n, n = Len(s) + 1
  PROVE  /\ Unread(s, m, n) \in Seq(FateNames) /\ Len(Unread(s, m, n)) = m
         /\ \A i \in 1..Len(s) : Unread(s, m, n)[i] = s[i]
         /\ \A i \in n..m : Unread(s, m, n)[i] = "unread"
<1>1. PICK l \in Nat : l = Len(s)
  BY LenProperties
<1>2. PICK j \in Nat : j = m - n + 1
  BY <1>1
<1>3. PICK rest : rest = [k \in 1..j |-> "unread"]
  OBVIOUS
<1>4. rest \in Seq(FateNames) /\ Len(rest) = j /\ \A k \in 1..j : rest[k] = "unread"
  BY <1>2, <1>3, ConstantSequence DEF FateNames
<1>5. PICK t : t = s \o rest
  OBVIOUS
<1>6. t \in Seq(FateNames) /\ Len(t) = l + j /\ (\A i \in 1..l : t[i] = s[i]) /\ \A i \in l + 1 .. l + j : t[i] = rest[i - l]
  <2>1. /\ s \o rest \in Seq(FateNames) /\ Len(s \o rest) = Len(s) + Len(rest)
        /\ \A i \in 1..Len(s) + Len(rest) : (s \o rest)[i] = IF i <= Len(s) THEN s[i] ELSE rest[i - Len(s)]
    BY <1>4, ConcatProperties
  <2>2. t \in Seq(FateNames) /\ Len(t) = l + j
    <3>1. Len(s) = l /\ Len(rest) = j
      BY <1>1, <1>4
    <3> QED
      BY <1>5, <2>1, <3>1, Zenon
  <2>3. \A i \in 1..l + j : t[i] = IF i <= l THEN s[i] ELSE rest[i - l]
    <3>1. Len(s) = l /\ Len(rest) = j
      BY <1>1, <1>4
    <3> QED
      BY <1>5, <2>1, <3>1, Zenon
  <2> QED
    BY <2>2, <2>3
<1>7. l + j = m /\ n = l + 1 /\ \A i \in n..m : i \in l + 1 .. l + j /\ i - l \in 1..j
  BY <1>1, <1>2
<1>8. \A i \in n..m : t[i] = "unread"
  BY <1>4, <1>6, <1>7
<1>9. t = Unread(s, m, n)
  BY <1>2, <1>3, <1>5, Zenon DEF Unread
<1> QED
  BY <1>1, <1>6, <1>7, <1>8, <1>9, Zenon

\* A request whose loop stopped has a fate for every item.
LEMMA UnreadFates ==
  ASSUME NEW q \in RequestStates, RequestOK(q), q.pc = "items", NEW n, n = Len(q.fates) + 1,
         n <= Len(q.body), q.body[n].type = "unknown"
  PROVE  \E new \in RequestStates :
           /\ new = Request(q.pc, q.door, q.key, q.body, q.row, Unread(q.fates, Len(q.body), n), q.processed)
           /\ new.pc = "items" /\ RequestOK(new) /\ RowOK(new)
<1>1. q.fates \in Seq(FateNames) /\ q.body \in Seq(BodyItems) /\ Len(q.fates) \in Nat /\ Len(q.body) \in Nat
  BY RequestFields
<1>2. Len(q.fates) < Len(q.body)
  BY <1>1
<1>3. PICK fates \in Seq(FateNames) :
        /\ fates = Unread(q.fates, Len(q.body), n)
        /\ Len(fates) = Len(q.body) /\ (\A i \in 1..Len(q.fates) : fates[i] = q.fates[i])
        /\ \A i \in n..Len(q.body) : fates[i] = "unread"
  BY <1>1, <1>2, TheRest
<1>4. PICK new : new = Request(q.pc, q.door, q.key, q.body, q.row, fates, q.processed)
  OBVIOUS
<1>5. new.pc = "items" /\ new.body = q.body /\ new.fates = fates
  BY <1>4 DEF Request
<1>6. new \in RequestStates
  BY <1>4, RequestFields, RequestIs
<1>7. ASSUME NEW m \in 1..Len(q.body) PROVE FateOK(new, m)
  <2>1. CASE m < n
    <3>1. m \in 1..Len(q.fates)
      BY <1>1, <2>1
    <3>2. FateOK(q, m) /\ fates[m] = q.fates[m]
      BY <1>3, <3>1 DEF RequestOK
    <3> QED
      BY <1>5, <3>1, <3>2 DEF FateOK
  <2>2. CASE ~(m < n)
    <3>1. m \in n..Len(q.body) /\ n \in DOMAIN q.body
      BY <1>1, <2>2
    <3>2. new.fates[m] = "unread" /\ n \in DOMAIN new.body /\ new.body[n].type = "unknown"
      BY <1>3, <1>5, <3>1
    <3> QED
      BY <2>2, <3>2 DEF FateOK
  <2> QED
    BY <2>1, <2>2
<1>8. RequestOK(new) /\ RowOK(new)
  BY <1>1, <1>3, <1>5, <1>7 DEF RequestOK, RowOK
<1> QED
  BY <1>3, <1>4, <1>5, <1>6, <1>8

\* The enqueue of the next item begins.
LEMMA ToEnqueue ==
  ASSUME DoorInv, NEW r \in Requests, NEW q, q = req[r], q.pc = "items", Len(q.fates) < Len(q.body),
         q.body[Len(q.fates) + 1].type \in {"event", "dump", "report", "log"}
  PROVE  \E new \in RequestStates :
           /\ new = [q EXCEPT !.pc = "enqueue"]
           /\ new.pc = "enqueue" /\ new.body = q.body /\ new.fates = q.fates
           /\ RequestOK(new) /\ RowOK(new)
<1>1. q \in RequestStates /\ RequestOK(q)
  BY RequestOf
<1>2. PICK new : new = Request("enqueue", q.door, q.key, q.body, q.row, q.fates, q.processed)
  OBVIOUS
<1>3. new = [q EXCEPT !.pc = "enqueue"]
  BY <1>1, <1>2 DEF RequestStates, Request
<1>4. new \in RequestStates
  <2>1. "enqueue" \in Places
    BY DEF Places
  <2> QED
    BY <1>1, <1>2, <2>1, RequestFields, RequestIs
<1>5. new.pc = "enqueue" /\ new.body = q.body /\ new.fates = q.fates
  BY <1>2 DEF Request
<1>6. Len(q.fates) <= Len(q.body) /\ \A n \in 1..Len(q.fates) : FateOK(q, n)
  BY <1>1 DEF RequestOK
<1>7. \A n \in 1..Len(new.fates) : FateOK(new, n)
  BY <1>5, <1>6 DEF FateOK
<1>8. RequestOK(new) /\ RowOK(new)
  BY <1>5, <1>6, <1>7 DEF RequestOK, RowOK
<1> QED
  BY <1>3, <1>4, <1>5, <1>8

\* Of a report or a log, which has no id ...
LEMMA DoorPlainItem ==
  ASSUME DoorInv, NEW r \in Requests, NEW q, q = req[r], q.pc = "items", Len(q.fates) < Len(q.body),
         q.body[Len(q.fates) + 1].type \in {"report", "log"},
         Set(r, [q EXCEPT !.pc = "enqueue"]), UNCHANGED <<gate, items>>
  PROVE  DoorInv'
<1>1. PICK new \in RequestStates :
        /\ new = [q EXCEPT !.pc = "enqueue"]
        /\ new.pc = "enqueue" /\ new.body = q.body /\ new.fates = q.fates
        /\ RequestOK(new) /\ RowOK(new)
  BY ToEnqueue
<1>2. req'[r] = new /\ \A s \in Requests : s # r => req'[s] = req[s]
  BY <1>1, OneRequest DEF DoorInv
<1>3. q \in RequestStates /\ Len(q.fates) + 1 \in 1..Len(q.body)
  <2>1. q \in RequestStates /\ Len(q.fates) \in Nat /\ Len(q.body) \in Nat
    BY RequestOf, RequestFields
  <2> QED
    BY <2>1
<1>4. q.body[Len(q.fates) + 1].id = Nobody
  BY <1>3, ItemOf
<1>5. ASSUME NEW e \in SdkIds PROVE MarkOK(e)'
  <2>1. ASSUME NEW s \in Requests PROVE Pending(s, e)' <=> Pending(s, e)
    <3>1. CASE s = r
      <4>1. ~Pending(r, e) /\ req'[r].body = q.body /\ req'[r].fates = q.fates
        BY <1>1, <1>2 DEF Pending
      <4>2. q.body[Len(q.fates) + 1].id # e
        BY <1>4, DoorAssumption
      <4>3. ~Pending(r, e)'
        BY <4>1, <4>2 DEF Pending
      <4> QED
        BY <3>1, <4>1, <4>3
    <3>2. CASE s # r
      BY <1>2, <3>2 DEF Pending
    <3> QED
      BY <3>1, <3>2
  <2>2. MarkOK(e) /\ copies'[e] = copies[e] /\ dedupe'[e] = dedupe[e] /\ unqueued' = unqueued
    BY DEF DoorInv, items
  <2> QED
    BY <2>1, <2>2 DEF MarkOK
<1>6. CacheTypes' /\ BlocksOK' /\ UNCHANGED <<active, rate, calm, ticks, changes>>
  BY DEF DoorInv, DoorTypeOK, CacheTypes, BlocksOK, Young, gate, items
<1> QED
  BY <1>1, <1>5, <1>6, RequestStep

\* ... and of an event, whose id was new and is marked.
LEMMA DoorNewItem ==
  ASSUME DoorInv, NEW r \in Requests, NEW q, q = req[r], q.pc = "items", Len(q.fates) < Len(q.body),
         q.body[Len(q.fates) + 1].type \in {"event", "dump"}, ~(dedupe[q.body[Len(q.fates) + 1].id] > 0),
         Set(r, [q EXCEPT !.pc = "enqueue"]), dedupe' = MarkSeen(q.body[Len(q.fates) + 1].id),
         UNCHANGED <<copies, unqueued>>, UNCHANGED gate
  PROVE  DoorInv'
<1>1. PICK new \in RequestStates :
        /\ new = [q EXCEPT !.pc = "enqueue"]
        /\ new.pc = "enqueue" /\ new.body = q.body /\ new.fates = q.fates
        /\ RequestOK(new) /\ RowOK(new)
  BY ToEnqueue
<1>2. req'[r] = new /\ \A s \in Requests : s # r => req'[s] = req[s]
  BY <1>1, OneRequest DEF DoorInv
<1>3. q \in RequestStates /\ Len(q.fates) + 1 \in 1..Len(q.body)
  <2>1. q \in RequestStates /\ Len(q.fates) \in Nat /\ Len(q.body) \in Nat
    BY RequestOf, RequestFields
  <2> QED
    BY <2>1
<1>4. PICK i \in SdkIds : i = q.body[Len(q.fates) + 1].id
  BY <1>3, ItemOf
<1>5. DoorTypeOK /\ dedupe \in [SdkIds -> 0..DedupeWait] /\ DedupeWait \in Nat \ {0}
  BY DoorAssumption DEF DoorInv, DoorTypeOK
<1>6. dedupe' \in [SdkIds -> 0..DedupeWait] /\ dedupe'[i] > 0 /\ \A e \in SdkIds : e # i => dedupe'[e] = dedupe[e]
  BY <1>4, <1>5 DEF MarkSeen
<1>9. req'[r].pc = "enqueue" /\ req'[r].body = q.body /\ req'[r].fates = q.fates
  BY <1>1, <1>2
<1>7. ASSUME NEW e \in SdkIds PROVE MarkOK(e)'
  <2>1. CASE e # i
    <3>1. ASSUME NEW s \in Requests PROVE Pending(s, e)' <=> Pending(s, e)
      <4>1. CASE s = r
        <5>1. ~Pending(r, e)
          BY DEF Pending
        <5>2. ~Pending(r, e)'
          BY <1>9, <1>4, <2>1 DEF Pending
        <5> QED
          BY <4>1, <5>1, <5>2
      <4>2. CASE s # r
        BY <1>2, <4>2 DEF Pending
      <4> QED
        BY <4>1, <4>2
    <3>2. MarkOK(e) /\ copies'[e] = copies[e] /\ dedupe'[e] = dedupe[e] /\ unqueued' = unqueued
      BY <1>6, <2>1 DEF DoorInv
    <3> QED
      BY <3>1, <3>2 DEF MarkOK
  <2>2. CASE e = i
    <3>1. MarkOK(i) /\ ~(dedupe[i] > 0) /\ copies[i] \in Nat /\ copies' = copies
      BY <1>4 DEF DoorInv, DoorTypeOK
    <3>2. copies[i] = 0 /\ \A s \in Requests : ~Pending(s, i)
      BY <3>1 DEF MarkOK
    <3>3. ASSUME NEW s \in Requests PROVE Pending(s, i)' <=> s = r
      <4>1. CASE s = r
        BY <1>9, <1>4, <4>1 DEF Pending
      <4>2. CASE s # r
        <5>1. Pending(s, i)' <=> Pending(s, i)
          BY <1>2, <4>2 DEF Pending
        <5> QED
          BY <3>2, <4>2, <5>1
      <4> QED
        BY <4>1, <4>2
    <3> QED
      BY <1>6, <2>2, <3>1, <3>2, <3>3 DEF MarkOK
  <2> QED
    BY <2>1, <2>2
<1>8. CacheTypes' /\ BlocksOK' /\ UNCHANGED <<active, rate, calm, ticks, changes>>
  BY <1>6 DEF DoorInv, DoorTypeOK, CacheTypes, BlocksOK, Young, gate
<1> QED
  BY <1>1, <1>7, <1>8, RequestStep

\* One item of the body, whatever its type.
LEMMA DoorHandleItem == ASSUME DoorInv, NEW r \in Requests, HandleItem(r) PROVE DoorInv'
<1> DEFINE q == req[r]  n == Len(q.fates) + 1  it == q.body[n]
<1>1. q \in RequestStates /\ RequestOK(q) /\ DOMAIN q = Fields
  BY RequestOf, RequestHasFields
<1>2. q.pc = "items" /\ n <= Len(q.body) /\ UNCHANGED gate
  BY DEF HandleItem
<1>3. Len(q.fates) \in Nat /\ Len(q.body) \in Nat
  BY <1>1, RequestFields
<1>4. n \in 1..Len(q.body) /\ Len(q.fates) < Len(q.body)
  BY <1>2, <1>3
<1>5. /\ it.type \in {"event", "dump", "report", "log", "invalid", "unknown"}
      /\ it.type \in {"event", "dump"} => it.id \in SdkIds
  BY <1>1, <1>4, ItemOf
<1>6. CASE it.type = "unknown"
  <2>1. Set(r, [q EXCEPT !.fates = Unread(q.fates, Len(q.body), n)]) /\ UNCHANGED items
    BY <1>6 DEF HandleItem, Unread
  <2>2. [q EXCEPT !.fates = Unread(q.fates, Len(q.body), n)]
          = Request(q.pc, q.door, q.key, q.body, q.row, Unread(q.fates, Len(q.body), n), q.processed)
    BY <1>1, FateRecord, Zenon
  <2>3. PICK new \in RequestStates :
           /\ new = Request(q.pc, q.door, q.key, q.body, q.row, Unread(q.fates, Len(q.body), n), q.processed)
           /\ new.pc = "items" /\ RequestOK(new) /\ RowOK(new)
    BY <1>1, <1>2, <1>6, UnreadFates
  <2>4. Set(r, new)
    BY <2>1, <2>2, <2>3, Zenon
  <2> QED
    BY <1>2, <2>1, <2>3, <2>4, QuietStep
<1>7. CASE it.type = "invalid"
  <2>1. Set(r, [q EXCEPT !.fates = Append(q.fates, "invalid")]) /\ UNCHANGED items
    BY <1>7 DEF HandleItem, AfterInvalid
  <2>2. [q EXCEPT !.fates = Append(q.fates, "invalid")]
          = Request(q.pc, q.door, q.key, q.body, q.row, Append(q.fates, "invalid"), q.processed)
    BY <1>1, FateRecord, Zenon
  <2>3. Set(r, Request(q.pc, q.door, q.key, q.body, q.row, Append(q.fates, "invalid"), q.processed))
    BY <2>1, <2>2, Zenon
  <2>4. "invalid" \in FateNames /\ q.processed \in BOOLEAN
    BY <1>1, RequestFields DEF FateNames
  <2> QED
    BY <1>2, <1>4, <1>7, <2>1, <2>3, <2>4, QuietFate
<1>8. CASE it.type = "dump" /\ q.door # "minidump"
  <2>1. Set(r, [q EXCEPT !.fates = Append(q.fates, "kept")]) /\ UNCHANGED items
    BY <1>8 DEF HandleItem, Fate
  <2>2. [q EXCEPT !.fates = Append(q.fates, "kept")]
          = Request(q.pc, q.door, q.key, q.body, q.row, Append(q.fates, "kept"), q.processed)
    BY <1>1, FateRecord, Zenon
  <2>3. Set(r, Request(q.pc, q.door, q.key, q.body, q.row, Append(q.fates, "kept"), q.processed))
    BY <2>1, <2>2, Zenon
  <2>4. "kept" \in FateNames /\ q.processed \in BOOLEAN
    BY <1>1, RequestFields DEF FateNames
  <2> QED
    BY <1>2, <1>4, <1>8, <2>1, <2>3, <2>4, QuietFate
<1>9. CASE it.type \in {"report", "log"}
  <2>1. Set(r, [q EXCEPT !.pc = "enqueue"]) /\ UNCHANGED items
    BY <1>9 DEF HandleItem
  <2> QED
    BY <1>2, <1>4, <1>9, <2>1, DoorPlainItem
<1>10. CASE it.type = "event" \/ (it.type = "dump" /\ q.door = "minidump")
  <2>1. \/ /\ dedupe[it.id] > 0 /\ UNCHANGED items
           /\ \/ Answer(r, "duplicate")
              \/ Set(r, [q EXCEPT !.fates = Append(q.fates, "seen"), !.processed = TRUE])
        \/ /\ ~(dedupe[it.id] > 0) /\ Set(r, [q EXCEPT !.pc = "enqueue"])
           /\ dedupe' = MarkSeen(it.id) /\ UNCHANGED <<copies, unqueued>>
    BY <1>10 DEF HandleItem
  <2>2. CASE UNCHANGED items /\ Answer(r, "duplicate")
    BY <1>2, <2>2, QuietAnswer
  <2>3. CASE UNCHANGED items /\ Set(r, [q EXCEPT !.fates = Append(q.fates, "seen"), !.processed = TRUE])
    <3>1. [q EXCEPT !.fates = Append(q.fates, "seen"), !.processed = TRUE]
            = Request(q.pc, q.door, q.key, q.body, q.row, Append(q.fates, "seen"), TRUE)
      BY <1>1, SeenRecord, Zenon
    <3>2. Set(r, Request(q.pc, q.door, q.key, q.body, q.row, Append(q.fates, "seen"), TRUE))
      BY <2>3, <3>1, Zenon
    <3>3. "seen" \in FateNames /\ TRUE \in BOOLEAN
      BY DEF FateNames
    <3> QED
      BY <1>2, <1>4, <2>3, <3>2, <3>3, QuietFate
  <2>4. CASE /\ ~(dedupe[it.id] > 0) /\ Set(r, [q EXCEPT !.pc = "enqueue"])
             /\ dedupe' = MarkSeen(it.id) /\ UNCHANGED <<copies, unqueued>>
    BY <1>2, <1>4, <1>10, <2>4, DoorNewItem
  <2> QED
    BY <2>1, <2>2, <2>3, <2>4
<1> HIDE DEF q, n, it
<1>11. \/ it.type = "unknown" \/ it.type = "invalid" \/ it.type \in {"report", "log"}
       \/ it.type = "event" \/ it.type = "dump"
  BY <1>5, Zenon
<1>12. CASE it.type = "dump"
  BY <1>8, <1>10, <1>12
<1>13. CASE it.type = "event"
  BY <1>10, <1>13
<1> QED
  BY <1>6, <1>7, <1>9, <1>11, <1>12, <1>13

\* The enqueue ends: i is the id it was about, and nobody else is enqueuing it.
LEMMA EnqueueEnds ==
  ASSUME DoorInv, NEW r \in Requests, NEW new \in RequestStates, Set(r, new), req[r].pc = "enqueue", new.pc # "enqueue",
         NEW i, i = req[r].body[Len(req[r].fates) + 1].id, UNCHANGED dedupe,
         \/ unqueued' = unqueued \cup ({i} \cap SdkIds) /\ UNCHANGED copies
         \/ copies' = [e \in SdkIds |-> IF e = i THEN copies[e] + 1 ELSE copies[e]] /\ UNCHANGED unqueued
  PROVE  \A e \in SdkIds : MarkOK(e)'
<1>1. req'[r] = new /\ \A s \in Requests : s # r => req'[s] = req[s]
  BY OneRequest DEF DoorInv
<1>2. ~Pending(r, i)' /\ Pending(r, i) /\ \A e : ~Pending(r, e)' /\ (e # i => ~Pending(r, e))
  BY <1>1 DEF Pending
<1>3. \A s \in Requests : \A e : s # r => (Pending(s, e)' <=> Pending(s, e))
  BY <1>1 DEF Pending
<1>4. ASSUME NEW e \in SdkIds PROVE MarkOK(e) /\ copies[e] \in Nat
  BY DEF DoorInv, DoorTypeOK
<1>5. ASSUME NEW e \in SdkIds PROVE MarkOK(e)'
  <2>1. CASE e # i
    <3>1. \A s \in Requests : Pending(s, e)' <=> Pending(s, e)
      BY <1>2, <1>3, <2>1
    <3>2. copies'[e] = copies[e] /\ dedupe'[e] = dedupe[e] /\ (e \in unqueued => e \in unqueued')
      BY <2>1
    <3> QED
      BY <1>4, <3>1, <3>2 DEF MarkOK
  <2>2. CASE e = i
    <3>1. dedupe[i] > 0 /\ copies[i] = 0 /\ \A s \in Requests : Pending(s, i) => s = r
      BY <1>2, <1>4, <2>2 DEF MarkOK
    <3>2. \A s \in Requests : ~Pending(s, i)'
      BY <1>2, <1>3, <3>1
    <3>3. dedupe'[i] > 0 /\ copies'[i] <= 1 /\ (copies'[i] > 0 \/ i \in unqueued')
      BY <2>2, <3>1
    <3> QED
      BY <2>2, <3>2, <3>3 DEF MarkOK
  <2> QED
    BY <2>1, <2>2
<1> QED
  BY <1>5

\* The enqueue that succeeds, and the one that raises.
LEMMA DoorEnqueue == ASSUME DoorInv, NEW r \in Requests, NEW down \in BOOLEAN, Enqueue(r, down) PROVE DoorInv'
<1> DEFINE q == req[r]  n == Len(q.fates) + 1  it == q.body[n]
<1>1. q \in RequestStates /\ RequestOK(q) /\ DOMAIN q = Fields
  BY RequestOf, RequestHasFields
<1>2. q.pc = "enqueue" /\ UNCHANGED gate /\ UNCHANGED dedupe
  BY DEF Enqueue
<1>3. Len(q.fates) < Len(q.body) /\ q.processed \in BOOLEAN
  BY <1>1, <1>2, RequestFields DEF RequestOK
<1>4. BlocksOK' /\ UNCHANGED <<active, rate, calm, ticks, changes>>
  BY <1>2 DEF DoorInv, BlocksOK, Young, gate
<1>5. unqueued \subseteq SdkIds /\ copies \in [SdkIds -> Nat]
  BY DEF DoorInv, DoorTypeOK
<1>6. CASE down
  <2>1. /\ unqueued' = unqueued \cup ({it.id} \cap SdkIds) /\ UNCHANGED copies
        /\ \/ Set(r, [q EXCEPT !.pc = "items", !.fates = Append(q.fates, "failed")])
           \/ Answer(r, "error")
    BY <1>6 DEF Enqueue
  <2>2. CacheTypes'
    BY <1>2, <1>5, <2>1 DEF DoorInv, DoorTypeOK, CacheTypes, gate
  <2>3. CASE Answer(r, "error")
    <3>1. Set(r, Idle) /\ Idle.pc # "enqueue"
      BY <2>3 DEF Answer, Idle
    <3>2. \A e \in SdkIds : MarkOK(e)'
      BY <1>2, <2>1, <3>1, IdleRequest, EnqueueEnds
    <3> QED
      BY <1>4, <2>2, <3>1, <3>2, IdleRequest, RequestStep
  <2>4. CASE Set(r, [q EXCEPT !.pc = "items", !.fates = Append(q.fates, "failed")])
    <3>1. "failed" \in FateNames
      BY DEF FateNames
    <3>2. PICK new \in RequestStates :
           /\ new = Request("items", q.door, q.key, q.body, q.row, Append(q.fates, "failed"), q.processed)
           /\ RequestOK(new) /\ RowOK(new) /\ new.pc = "items"
      BY <1>1, <1>2, <1>3, <3>1, OneMoreFate
    <3>3. [q EXCEPT !.pc = "items", !.fates = Append(q.fates, "failed")] = new
      BY <1>1, <3>2, FateRecord, Zenon
    <3>4. Set(r, new)
      BY <2>4, <3>3, Zenon
    <3>5. \A e \in SdkIds : MarkOK(e)'
      BY <1>2, <2>1, <3>2, <3>4, EnqueueEnds
    <3> QED
      BY <1>4, <2>2, <3>2, <3>4, <3>5, RequestStep
  <2> QED
    BY <2>1, <2>3, <2>4
<1>7. CASE ~down
  <2> DEFINE counted == q.processed \/ it.id \in SdkIds
  <2>1. /\ copies' = [e \in SdkIds |-> IF e = it.id THEN copies[e] + 1 ELSE copies[e]] /\ UNCHANGED unqueued
        /\ Set(r, [q EXCEPT !.pc = "items", !.fates = Append(q.fates, "queued"), !.processed = counted])
    BY <1>7 DEF Enqueue
  <2>2. CacheTypes'
    BY <1>2, <1>5, <2>1 DEF DoorInv, DoorTypeOK, CacheTypes, gate
  <2>3. counted \in BOOLEAN /\ "queued" \in FateNames
    BY DEF FateNames
  <2> HIDE DEF counted
  <2>4. PICK new \in RequestStates :
         /\ new = Request("items", q.door, q.key, q.body, q.row, Append(q.fates, "queued"), counted)
         /\ RequestOK(new) /\ RowOK(new) /\ new.pc = "items"
    BY <1>1, <1>2, <1>3, <2>3, OneMoreFate
  <2>5. [q EXCEPT !.pc = "items", !.fates = Append(q.fates, "queued"), !.processed = counted] = new
    BY <1>1, <2>4, QueuedRecord, Zenon
  <2>6. Set(r, new)
    BY <2>1, <2>5, Zenon
  <2>7. \A e \in SdkIds : MarkOK(e)'
    BY <1>2, <2>1, <2>4, <2>6, EnqueueEnds
  <2> QED
    BY <1>4, <2>2, <2>4, <2>6, <2>7, RequestStep
<1> QED
  BY <1>6, <1>7

\* What a request read of its key and rate is stale only if it changed this tick, so
\* the block it writes begins no earlier than its reason ends.
LEMMA AdmitBlocks == ASSUME DoorInv, NEW r \in Requests, Admit(r) PROVE CacheTypes' /\ BlocksOK'
<1> DEFINE q == req[r]  found == q.row[1]  t == q.row[2]
<1>1. /\ q.pc = "settle" /\ q.key \in DsnKeys
      /\ ~found /\ q.key \in active => calm[q.key] = 0
      /\ found /\ t # 0 /\ rate = 0 => calm[Nobody] = 0
  BY RequestOf DEF Admit, RequestOK, RowOK
<1>2. CacheTypes /\ BlocksOK
  BY DEF DoorInv, DoorTypeOK, CacheTypes
<1>3. UNCHANGED <<active, rate, calm, dedupe, copies, unqueued>>
  BY DEF Admit, items
<1>4. RejectionWait \in Nat /\ RejectionWait > 0
  BY DoorAssumption
<1>5. DEFINE Blocked(k, val) == otlpBlock' = [otlpBlock EXCEPT ![k] = [val |-> val, ttl |-> RejectionWait]]
<1>6. \/ ~found /\ UNCHANGED <<block, dsnBlock>> /\ Blocked(q.key, "v")
      \/ ~found /\ UNCHANGED <<block, otlpBlock>>
            /\ dsnBlock' = [k \in DsnKeys |-> IF k = q.key THEN RejectionWait ELSE dsnBlock[k]]
      \/ UNCHANGED <<block, dsnBlock, otlpBlock>>
      \/ found /\ t # 0 /\ UNCHANGED <<block, dsnBlock>> /\ \E val \in BlockValues : Blocked(q.key, val)
      \/ found /\ t # 0 /\ UNCHANGED <<dsnBlock, otlpBlock>>
            /\ \E val \in BlockValues : block' = [val |-> val, ttl |-> RejectionWait]
  BY DEF Admit, InvalidKeyBlocks, BlockValues
<1>7. ASSUME NEW val \in BlockValues PROVE [val |-> val, ttl |-> RejectionWait] \in CacheBlocks
  BY <1>4 DEF CacheBlocks
<1>8. ASSUME NEW val \in BlockValues, UNCHANGED <<block, dsnBlock>>, Blocked(q.key, val),
             q.key \in active /\ rate = 0 => calm[q.key] = 0 \/ calm[Nobody] = 0
      PROVE  CacheTypes' /\ BlocksOK'
  <2>1. /\ otlpBlock' \in [DsnKeys -> CacheBlocks] /\ otlpBlock'[q.key].ttl = RejectionWait
        /\ \A k \in DsnKeys : k # q.key => otlpBlock'[k] = otlpBlock[k]
    BY <1>1, <1>2, <1>7, <1>8 DEF CacheTypes
  <2>2. CacheTypes'
    BY <1>2, <1>3, <1>8, <2>1 DEF CacheTypes
  <2>3. ASSUME NEW k \in DsnKeys, k \in active, otlpBlock'[k].ttl > 0, rate = 0
        PROVE  Young(k, otlpBlock'[k].ttl) \/ Young(Nobody, otlpBlock'[k].ttl)
    BY <1>2, <1>4, <1>8, <2>1, <2>3 DEF BlocksOK, Young
  <2> QED
    BY <1>2, <1>3, <1>8, <2>2, <2>3 DEF BlocksOK, Young
<1>9. CASE ~found /\ UNCHANGED <<block, dsnBlock>> /\ Blocked(q.key, "v")
  <2>1. "v" \in BlockValues
    BY DEF BlockValues
  <2> QED
    BY <1>1, <1>8, <1>9, <2>1
<1>10. CASE ~found /\ UNCHANGED <<block, otlpBlock>>
             /\ dsnBlock' = [k \in DsnKeys |-> IF k = q.key THEN RejectionWait ELSE dsnBlock[k]]
  <2>1. dsnBlock' \in [DsnKeys -> 0..RejectionWait]
    BY <1>2, <1>4, <1>10 DEF CacheTypes
  <2>2. ASSUME NEW k \in DsnKeys, k \in active, dsnBlock'[k] > 0 PROVE Young(k, dsnBlock'[k])
    BY <1>1, <1>2, <1>4, <1>10, <2>2 DEF BlocksOK, Young
  <2> QED
    BY <1>2, <1>3, <1>10, <2>1, <2>2 DEF CacheTypes, BlocksOK, Young
<1>11. CASE UNCHANGED <<block, dsnBlock, otlpBlock>>
  BY <1>2, <1>3, <1>11 DEF CacheTypes, BlocksOK, Young
<1>12. CASE found /\ t # 0 /\ UNCHANGED <<block, dsnBlock>> /\ \E val \in BlockValues : Blocked(q.key, val)
  BY <1>1, <1>8, <1>12
<1>13. CASE found /\ t # 0 /\ UNCHANGED <<dsnBlock, otlpBlock>>
             /\ \E val \in BlockValues : block' = [val |-> val, ttl |-> RejectionWait]
  <2>1. block' \in CacheBlocks /\ block'.ttl = RejectionWait
    BY <1>7, <1>13
  <2>2. rate = 0 => Young(Nobody, block'.ttl)
    BY <1>1, <1>4, <1>13, <2>1 DEF Young
  <2> QED
    BY <1>2, <1>3, <1>13, <2>1, <2>2 DEF CacheTypes, BlocksOK, Young
<1> QED
  BY <1>6, <1>9, <1>10, <1>11, <1>12, <1>13

\* What the row says, and the block it leaves.
LEMMA DoorAdmit == ASSUME DoorInv, NEW r \in Requests, Admit(r) PROVE DoorInv'
<1>1. PICK q : q = req[r]
  OBVIOUS
<1>2. q \in RequestStates /\ RequestOK(q) /\ q.pc = "settle" /\ UNCHANGED <<active, rate, calm, ticks, changes>> /\ UNCHANGED items
  BY <1>1, RequestOf DEF Admit
<1>3. CacheTypes' /\ BlocksOK'
  BY AdmitBlocks
<1>4. ASSUME NEW new \in RequestStates, Set(r, new), RequestOK(new), RowOK(new), new.pc # "enqueue" PROVE DoorInv'
  <2>1. \A e \in SdkIds : MarkOK(e)'
    BY <1>1, <1>2, <1>4, PendingKept
  <2> QED
    BY <1>2, <1>3, <1>4, <2>1, RequestStep
<1>5. \/ Answer(r, "denied") \/ Answer(r, "throttled")
      \/ Set(r, [q EXCEPT !.pc = "body", !.row = Idle.row])
  BY <1>1 DEF Admit
<1>6. CASE Answer(r, "denied") \/ Answer(r, "throttled")
  <2>1. Set(r, Idle) /\ Idle.pc # "enqueue"
    BY <1>6 DEF Answer, Idle
  <2> QED
    BY <1>4, <2>1, IdleRequest
<1>7. CASE Set(r, [q EXCEPT !.pc = "body", !.row = Idle.row])
  <2>1. PICK new : new = [q EXCEPT !.pc = "body", !.row = Idle.row]
    OBVIOUS
  <2>2. new = Request("body", q.door, q.key, q.body, Idle.row, q.fates, q.processed)
    BY <1>2, <2>1 DEF RequestStates, Request
  <2>3. "body" \in Places /\ Idle.row \in BOOLEAN \X Rates
    BY IdleRequest, RequestFields DEF Places
  <2>4. new \in RequestStates
    BY <1>2, <2>2, <2>3, RequestFields, RequestIs
  <2>5. RequestOK(new) /\ RowOK(new) /\ new.pc # "enqueue"
    BY <1>2, <2>2 DEF Request, RequestOK, RowOK
  <2>6. Set(r, new)
    BY <1>7, <2>1
  <2> QED
    BY <1>4, <2>4, <2>5, <2>6
<1> QED
  BY <1>5, <1>6, <1>7
--------------------------------------------------------------------------------
\* A key comes or goes, the rate changes: what is now about to go stale was read, or
\* cached, this tick at the latest.
LEMMA DoorYounger ==
  ASSUME DoorInv, calm' \in [DsnKeys \cup {Nobody} -> 0..RejectionWait + 1], active' \subseteq DsnKeys, rate' \in Rates,
         changes' = changes + 1, UNCHANGED <<block, dsnBlock, otlpBlock, ticks, req, items>>,
         \A x \in DsnKeys \cup {Nobody} : calm'[x] <= calm[x],
         \A k \in DsnKeys : (k \in active /\ k \in active') \/ k \notin active' \/ calm'[k] = 0,
         rate = rate' \/ calm'[Nobody] = 0
  PROVE  DoorInv'
<1>0. DoorTypeOK /\ BlocksOK
  BY DEF DoorInv
<1>1. DoorTypeOK'
  BY <1>0 DEF DoorTypeOK, items
<1>2. ASSUME NEW r \in Requests PROVE (RequestOK(req[r]) /\ RowOK(req[r]))'
  <2>1. PICK q : q = req[r]
    OBVIOUS
  <2>2. q \in RequestStates /\ RequestOK(q) /\ RowOK(q) /\ q = req'[r]
    BY <2>1, RequestOf
  <2>3. RequestOK(req[r])'
    BY <2>2 DEF RequestOK, FateOK
  <2>4. q.pc = "settle" => q.key \in DsnKeys
    BY <2>2 DEF RequestOK
  <2>5. calm \in [DsnKeys \cup {Nobody} -> 0..RejectionWait + 1]
    BY <1>0 DEF DoorTypeOK
  <2>6. RowOK(req[r])'
    <3>1. ASSUME q.pc = "settle", ~q.row[1], q.key \in active' PROVE calm'[q.key] = 0
      BY <2>2, <2>4, <2>5, <3>1 DEF RowOK
    <3>2. ASSUME q.pc = "settle", q.row[1], q.row[2] # 0, rate' = 0 PROVE calm'[Nobody] = 0
      BY <2>2, <2>5, <3>2 DEF RowOK
    <3> QED
      BY <2>2, <3>1, <3>2 DEF RowOK
  <2> QED
    BY <2>3, <2>6
<1>3. ASSUME NEW e \in SdkIds PROVE MarkOK(e)'
  <2>1. MarkOK(e)
    BY DEF DoorInv
  <2> QED
    BY <2>1 DEF MarkOK, Pending, items
<1>4. BlocksOK'
  <2>1. /\ calm \in [DsnKeys \cup {Nobody} -> 0..RejectionWait + 1] /\ block \in CacheBlocks
        /\ dsnBlock \in [DsnKeys -> 0..RejectionWait] /\ otlpBlock \in [DsnKeys -> CacheBlocks]
    BY <1>0 DEF DoorTypeOK
  <2>2. RejectionWait \in Nat
    BY DoorAssumption
  <2>3. block.ttl > 0 /\ deserialize_throttle(block.val) # 0 /\ rate' = 0 => calm'[Nobody] + block.ttl <= RejectionWait
    BY <1>0, <2>1, <2>2 DEF BlocksOK, Young, CacheBlocks
  <2>4. ASSUME NEW k \in DsnKeys, k \in active', dsnBlock[k] > 0 PROVE calm'[k] + dsnBlock[k] <= RejectionWait
    BY <1>0, <2>1, <2>2, <2>4 DEF BlocksOK, Young
  <2>5. ASSUME NEW k \in DsnKeys, k \in active', otlpBlock[k].ttl > 0, rate' = 0
        PROVE  calm'[k] + otlpBlock[k].ttl <= RejectionWait \/ calm'[Nobody] + otlpBlock[k].ttl <= RejectionWait
    <3>1. otlpBlock[k].ttl \in 0..RejectionWait
      BY <2>1 DEF CacheBlocks
    <3>2. calm[k] \in Nat /\ calm[Nobody] \in Nat /\ calm'[k] \in Nat /\ calm'[Nobody] \in Nat
      BY <2>1
    <3>3. CASE calm'[k] = 0 \/ calm'[Nobody] = 0
      BY <2>2, <3>1, <3>3
    <3>4. CASE calm'[k] # 0 /\ calm'[Nobody] # 0
      <4>1. k \in active /\ rate = 0
        BY <2>5, <3>4
      <4>2. calm[k] + otlpBlock[k].ttl <= RejectionWait \/ calm[Nobody] + otlpBlock[k].ttl <= RejectionWait
        BY <1>0, <2>5, <4>1 DEF BlocksOK, Young
      <4>3. calm'[k] <= calm[k] /\ calm'[Nobody] <= calm[Nobody]
        OBVIOUS
      <4> QED
        BY <2>2, <3>1, <3>2, <4>2, <4>3
    <3> QED
      BY <3>3, <3>4
  <2> QED
    BY <2>3, <2>4, <2>5 DEF BlocksOK, Young
<1> QED
  BY <1>1, <1>2, <1>3, <1>4 DEF DoorInv

\* A key is added, activated or disabled.
LEMMA DoorChangeKey == ASSUME DoorInv, NEW k \in DsnKeys, ChangeKey(k) PROVE DoorInv'
<1>1. /\ calm \in [DsnKeys \cup {Nobody} -> 0..RejectionWait + 1] /\ active \subseteq DsnKeys
      /\ rate \in Rates /\ RejectionWait \in Nat
  BY DoorAssumption DEF DoorInv, DoorTypeOK
<1>2. /\ changes' = changes + 1 /\ UNCHANGED <<block, dsnBlock, otlpBlock, ticks, req, items>> /\ rate' = rate
      /\ active' = (IF k \in active THEN active \ {k} ELSE active \cup {k}) /\ calm' = [calm EXCEPT ![k] = 0]
  BY DEF ChangeKey
<1>3. active' \subseteq DsnKeys /\ \A j \in DsnKeys : j # k => (j \in active' <=> j \in active)
  BY <1>1, <1>2
<1>4. /\ calm' \in [DsnKeys \cup {Nobody} -> 0..RejectionWait + 1] /\ calm'[k] = 0
      /\ \A x \in DsnKeys \cup {Nobody} : calm'[x] <= calm[x]
  BY <1>1, <1>2
<1>5. \A j \in DsnKeys : (j \in active /\ j \in active') \/ j \notin active' \/ calm'[j] = 0
  BY <1>3, <1>4
<1> QED
  BY <1>1, <1>2, <1>3, <1>4, <1>5, DoorYounger

\* The throttle is raised or lifted.
LEMMA DoorChangeRate == ASSUME DoorInv, NEW new \in Rates, ChangeRate(new) PROVE DoorInv'
<1>1. /\ calm \in [DsnKeys \cup {Nobody} -> 0..RejectionWait + 1] /\ active \subseteq DsnKeys /\ RejectionWait \in Nat
  BY DoorAssumption DEF DoorInv, DoorTypeOK
<1>2. /\ changes' = changes + 1 /\ UNCHANGED <<block, dsnBlock, otlpBlock, ticks, req, items>> /\ rate' = new
      /\ active' = active /\ calm' = [calm EXCEPT ![Nobody] = 0]
  BY DEF ChangeRate
<1>3. /\ calm' \in [DsnKeys \cup {Nobody} -> 0..RejectionWait + 1] /\ calm'[Nobody] = 0
      /\ \A x \in DsnKeys \cup {Nobody} : calm'[x] <= calm[x]
  BY <1>1, <1>2
<1> QED
  BY <1>1, <1>2, <1>3, DoorYounger

\* A tick takes one from what a block has left and adds one to the age of its reason.
LEMMA DoorTick == ASSUME DoorInv, Tick PROVE DoorInv'
<1>0. DoorTypeOK /\ BlocksOK /\ RejectionWait \in Nat /\ DedupeWait \in Nat
  BY DoorAssumption DEF DoorInv
<1>1. /\ calm \in [DsnKeys \cup {Nobody} -> 0..RejectionWait + 1] /\ block \in CacheBlocks
      /\ dsnBlock \in [DsnKeys -> 0..RejectionWait] /\ otlpBlock \in [DsnKeys -> CacheBlocks]
      /\ dedupe \in [SdkIds -> 0..DedupeWait] /\ copies \in [SdkIds -> Nat] /\ ticks \in Nat
  BY <1>0 DEF DoorTypeOK
<1>2. \A n \in Nat : Less(n) \in 0..n /\ (Less(n) > 0 => Less(n) + 1 = n)
  BY DEF Less
<1>3. /\ block' \in CacheBlocks /\ block'.val = block.val /\ block'.ttl = Less(block.ttl) /\ block.ttl \in 0..RejectionWait
  BY <1>0, <1>1, <1>2 DEF Tick, CacheBlocks
<1>4. dsnBlock' \in [DsnKeys -> 0..RejectionWait] /\ \A k \in DsnKeys : dsnBlock'[k] = Less(dsnBlock[k])
  <2>1. ASSUME NEW k \in DsnKeys PROVE Less(dsnBlock[k]) \in 0..RejectionWait
    BY <1>0, <1>1, <1>2
  <2> QED
    BY <2>1 DEF Tick
<1>5. otlpBlock' \in [DsnKeys -> CacheBlocks] /\ \A k \in DsnKeys : otlpBlock'[k].ttl = Less(otlpBlock[k].ttl)
  <2>1. ASSUME NEW k \in DsnKeys
        PROVE  /\ [otlpBlock[k] EXCEPT !.ttl = Less(@)] \in CacheBlocks
               /\ [otlpBlock[k] EXCEPT !.ttl = Less(@)].ttl = Less(otlpBlock[k].ttl)
    <3>1. otlpBlock[k] \in CacheBlocks /\ otlpBlock[k].ttl \in 0..RejectionWait
      BY <1>1 DEF CacheBlocks
    <3>2. Less(otlpBlock[k].ttl) \in 0..RejectionWait
      BY <1>0, <1>2, <3>1
    <3> QED
      BY <3>1, <3>2 DEF CacheBlocks
  <2> QED
    BY <2>1 DEF Tick
<1>6. dedupe' \in [SdkIds -> 0..DedupeWait] /\ \A e \in SdkIds : dedupe'[e] = Less(dedupe[e])
  <2>1. ASSUME NEW e \in SdkIds PROVE Less(dedupe[e]) \in 0..DedupeWait
    BY <1>0, <1>1, <1>2
  <2> QED
    BY <2>1 DEF Tick
<1>7. /\ calm' \in [DsnKeys \cup {Nobody} -> 0..RejectionWait + 1]
      /\ \A x \in DsnKeys \cup {Nobody} : calm[x] \in Nat /\ (calm[x] <= RejectionWait => calm'[x] = calm[x] + 1)
  BY <1>0, <1>1 DEF Tick
<1>8. copies' \in [SdkIds -> Nat] /\ \A e \in SdkIds : copies'[e] = IF dedupe'[e] = 0 THEN 0 ELSE copies[e]
  BY <1>1 DEF Tick
<1>9. UNCHANGED <<active, rate, req, unqueued, changes>> /\ ticks' = ticks + 1
      /\ \A r \in Requests : req[r].pc \notin {"lookup", "settle", "enqueue"}
  BY DEF Tick
<1>10. DoorTypeOK'
  BY <1>0, <1>1, <1>3, <1>4, <1>5, <1>6, <1>7, <1>8, <1>9 DEF DoorTypeOK
<1>11. ASSUME NEW r \in Requests PROVE (RequestOK(req[r]) /\ RowOK(req[r]))'
  <2>1. PICK q : q = req[r]
    OBVIOUS
  <2>2. RequestOK(q) /\ q = req'[r] /\ q.pc # "settle"
    BY <1>9, <2>1, RequestOf
  <2> QED
    BY <2>2 DEF RequestOK, FateOK, RowOK
<1>12. ASSUME NEW e \in SdkIds PROVE MarkOK(e)'
  <2>1. MarkOK(e) /\ copies[e] \in Nat /\ dedupe[e] \in Nat
    BY <1>1 DEF DoorInv
  <2>2. \A r \in Requests : ~Pending(r, e) /\ ~Pending(r, e)'
    BY <1>9 DEF Pending
  <2>3. dedupe'[e] \in Nat /\ (dedupe'[e] > 0 => dedupe[e] > 0) /\ unqueued' = unqueued
    BY <1>2, <1>6, <1>9, <2>1
  <2>4. copies'[e] = IF dedupe'[e] = 0 THEN 0 ELSE copies[e]
    BY <1>8
  <2> QED
    BY <2>1, <2>2, <2>3, <2>4 DEF MarkOK
<1>13. ASSUME NEW x \in DsnKeys \cup {Nobody}, NEW n \in Nat, Less(n) > 0, calm[x] + n <= RejectionWait
       PROVE  calm'[x] + Less(n) <= RejectionWait
  BY <1>0, <1>2, <1>7, <1>13
<1>14. BlocksOK'
  <2>1. block'.ttl > 0 /\ deserialize_throttle(block'.val) # 0 /\ rate = 0 => calm'[Nobody] + block'.ttl <= RejectionWait
    BY <1>0, <1>2, <1>3, <1>13 DEF BlocksOK, Young
  <2>2. ASSUME NEW k \in DsnKeys, k \in active, dsnBlock'[k] > 0 PROVE calm'[k] + dsnBlock'[k] <= RejectionWait
    <3>1. dsnBlock[k] \in Nat /\ dsnBlock'[k] = Less(dsnBlock[k])
      BY <1>1, <1>4
    <3>2. calm[k] + dsnBlock[k] <= RejectionWait
      BY <1>0, <1>2, <2>2, <3>1 DEF BlocksOK, Young
    <3> QED
      BY <1>13, <2>2, <3>1, <3>2
  <2>3. ASSUME NEW k \in DsnKeys, k \in active, otlpBlock'[k].ttl > 0, rate = 0
        PROVE  calm'[k] + otlpBlock'[k].ttl <= RejectionWait \/ calm'[Nobody] + otlpBlock'[k].ttl <= RejectionWait
    <3>1. otlpBlock[k].ttl \in Nat /\ otlpBlock'[k].ttl = Less(otlpBlock[k].ttl)
      BY <1>1, <1>5 DEF CacheBlocks
    <3>2. calm[k] + otlpBlock[k].ttl <= RejectionWait \/ calm[Nobody] + otlpBlock[k].ttl <= RejectionWait
      BY <1>0, <1>2, <2>3, <3>1 DEF BlocksOK, Young
    <3> QED
      BY <1>13, <2>3, <3>1, <3>2
  <2> QED
    BY <1>9, <2>1, <2>2, <2>3 DEF BlocksOK, Young
<1> QED
  BY <1>10, <1>11, <1>12, <1>14 DEF DoorInv
--------------------------------------------------------------------------------
\* The invariant holds at first.
LEMMA DoorStarts == DoorInit => DoorInv
<1> SUFFICES ASSUME DoorInit PROVE DoorInv
  OBVIOUS
<1>1. RejectionWait \in Nat /\ DedupeWait \in Nat
  BY DoorAssumption
<1>2. NoBlock \in CacheBlocks /\ NoBlock.ttl = 0
  BY <1>1 DEF NoBlock, CacheBlocks, BlockValues
<1>3. req \in [Requests -> RequestStates] /\ \A r \in Requests : req[r] = Idle
  BY IdleRequest DEF DoorInit
<1>4. DoorTypeOK
  BY <1>1, <1>2, <1>3 DEF DoorInit, DoorTypeOK, Rates
<1>5. \A r \in Requests : RequestOK(req[r]) /\ RowOK(req[r])
  BY <1>3, IdleRequest
<1>6. ASSUME NEW e \in SdkIds PROVE MarkOK(e)
  <2>0. Idle.pc # "enqueue"
    BY DEF Idle
  <2>1. \A r \in Requests : ~Pending(r, e)
    BY <1>3, <2>0 DEF Pending
  <2>2. copies[e] = 0 /\ dedupe[e] = 0
    BY DEF DoorInit
  <2> QED
    BY <2>1, <2>2 DEF MarkOK
<1>7. BlocksOK
  BY <1>2 DEF DoorInit, BlocksOK
<1> QED
  BY <1>4, <1>5, <1>6, <1>7 DEF DoorInv

\* Every step keeps it.
LEMMA DoorStep == DoorInv /\ [DoorNext]_doorVars => DoorInv'
<1> SUFFICES ASSUME DoorInv, [DoorNext]_doorVars PROVE DoorInv'
  OBVIOUS
<1>1. CASE UNCHANGED doorVars
  BY <1>1 DEF doorVars, DoorInv, DoorTypeOK, RequestOK, FateOK, RowOK, MarkOK, Pending, BlocksOK, Young
<1>2. ASSUME NEW r \in Requests, NEW door \in Doors, NEW key \in DsnKeys, NEW body \in BodiesOf(door), Send(r, door, key, body)
      PROVE  DoorInv'
  BY <1>2, DoorSend
<1>3. ASSUME NEW r \in Requests,
             \/ get_project(r) \/ get_project_by_key(r) \/ get_project_auth_info_row(r) \/ Admit(r)
             \/ RustBody(r) \/ ReadBody(r) \/ HandleItem(r) \/ FinishItems(r)
      PROVE  DoorInv'
  BY <1>3, DoorGetProject, DoorGetProjectByKey, DoorRow, DoorAdmit, DoorRustBody, DoorReadBody, DoorHandleItem, DoorFinishItems
<1>4. ASSUME NEW r \in Requests, NEW down \in BOOLEAN, Enqueue(r, down) PROVE DoorInv'
  BY <1>4, DoorEnqueue
<1>5. ASSUME NEW k \in DsnKeys, ChangeKey(k) PROVE DoorInv'
  BY <1>5, DoorChangeKey
<1>6. ASSUME NEW new \in Rates, ChangeRate(new) PROVE DoorInv'
  BY <1>6, DoorChangeRate
<1>7. CASE Tick
  BY <1>7, DoorTick
<1> QED
  BY <1>1, <1>2, <1>3, <1>4, <1>5, <1>6, <1>7 DEF DoorNext

\* Types, and what requests, cached ids and cached blocks have to do with one another.
THEOREM DoorInvariant == DoorSpec => []DoorInv
BY DoorStarts, DoorStep, PTL DEF DoorSpec

\* An event sent again by any doors, in any interleaving, is enqueued once while its
\* id is cached (cache.aadd), and what an "ok" says was taken was enqueued, then or by the
\* request the id collided with, unless the queue refused it.
THEOREM DoorQueuedOnce == DoorSpec => []QueuedExactlyOnce
<1>1. ASSUME DoorInv PROVE EventQueuedOnce
  BY <1>1 DEF DoorInv, MarkOK, EventQueuedOnce
<1>2. ASSUME DoorInv PROVE AnsweredMeansQueued
  <2> SUFFICES ASSUME NEW r \in Requests, req[r].pc = "done", NEW n \in DOMAIN req[r].body,
                      req[r].body[n].type \in {"event", "report", "log"},
                      \A u \in { m \in DOMAIN req[r].body : req[r].body[m].type = "unknown" } : n < u
               PROVE  /\ req[r].fates[n] \in {"queued", "seen", "failed"}
                      /\ req[r].body[n].id \in SdkIds /\ dedupe[req[r].body[n].id] > 0 =>
                           \/ copies[req[r].body[n].id] > 0 \/ req[r].body[n].id \in unqueued
                           \/ \E x \in Requests : req[x].pc = "enqueue" /\ req[x].body[Len(req[x].fates) + 1].id = req[r].body[n].id
    BY DEF AnsweredMeansQueued
  <2>1. PICK q : q = req[r]
    OBVIOUS
  <2>2. q \in RequestStates /\ RequestOK(q)
    BY <1>2, <2>1, RequestOf
  <2>3. n \in 1..Len(q.fates)
    <3>1. Len(q.fates) = Len(q.body) /\ q.body \in Seq(BodyItems)
      BY <2>1, <2>2, RequestFields DEF RequestOK
    <3> QED
      BY <2>1, <3>1
  <2>4. FateOK(q, n)
    BY <2>1, <2>2, <2>3 DEF RequestOK
  <2>5. q.fates[n] \in {"queued", "seen", "failed"}
    BY <2>1, <2>4 DEF FateOK
  <2>6. ASSUME NEW e \in SdkIds, dedupe[e] > 0
        PROVE  \/ copies[e] > 0 \/ e \in unqueued
               \/ \E x \in Requests : req[x].pc = "enqueue" /\ req[x].body[Len(req[x].fates) + 1].id = e
    BY <1>2, <2>6 DEF DoorInv, MarkOK, Pending
  <2> QED
    BY <2>1, <2>5, <2>6
<1> QED
  BY <1>1, <1>2, DoorInvariant, PTL DEF QueuedExactlyOnce

\* The block a refused key or project leaves in the cache is gone one lifetime
\* after its reason, and hits only the key it was written for.
THEOREM DoorGoodKeyGetsIn == DoorSpec => []GoodKeyGetsIn
<1>1. ASSUME DoorInv PROVE GoodKeyGetsIn
  <2> SUFFICES ASSUME NEW r \in Requests, req[r].pc = "auth", req[r].key \in active, rate = 0,
                      calm[req[r].key] > RejectionWait, calm[Nobody] > RejectionWait
               PROVE  /\ req[r].door # "otlp" =>
                           dsnBlock[req[r].key] = 0 /\ (block.ttl > 0 => deserialize_throttle(block.val) = 0)
                      /\ req[r].door = "otlp" => otlpBlock[req[r].key].ttl = 0
    BY DEF GoodKeyGetsIn
  <2>1. PICK k \in DsnKeys : k = req[r].key /\ k \in active
    BY <1>1 DEF DoorInv, DoorTypeOK
  <2>2. /\ calm \in [DsnKeys \cup {Nobody} -> 0..RejectionWait + 1] /\ block \in CacheBlocks
        /\ dsnBlock \in [DsnKeys -> 0..RejectionWait] /\ otlpBlock \in [DsnKeys -> CacheBlocks]
        /\ RejectionWait \in Nat /\ BlocksOK
    BY <1>1, DoorAssumption DEF DoorInv, DoorTypeOK
  <2>3. calm[k] > RejectionWait /\ calm[Nobody] > RejectionWait /\ calm[k] \in Nat /\ calm[Nobody] \in Nat
    BY <2>1, <2>2
  <2>4. \A n \in Nat : ~Young(k, n) /\ ~Young(Nobody, n)
    BY <2>2, <2>3 DEF Young
  <2>5. block.ttl \in Nat /\ otlpBlock[k].ttl \in Nat /\ dsnBlock[k] \in Nat
    BY <2>2 DEF CacheBlocks
  <2> QED
    BY <2>1, <2>2, <2>4, <2>5 DEF BlocksOK
<1> QED
  BY <1>1, DoorInvariant, PTL
================================================================================
