------------------------------- MODULE IngestDoor -------------------------------
(***************************************************************************)
(* The ingest endpoints: envelope, store, minidump, OTLP logs and the Rust   *)
(* envelope handler.  A request is checked against the block cache, the DSN   *)
(* key and the throttle rates, its body is read, and its items are enqueued    *)
(* once per event id.  A project's throttle state is one rate: 0 open, 50      *)
(* some percentage, 100 refused (not accepting events, or a rate of 100).      *)
(* Cache lifetimes are counted in ticks.                                     *)
(***************************************************************************)
EXTENDS Naturals, Sequences, FiniteSets, SequencesExt

CONSTANTS
  Requests,     \* bound: requests in flight
  DsnKeys,      \* DSN keys clients use, good or not
  SdkIds,     \* ids the SDKs give their events
  Bodies,       \* bound: item sequences of an envelope
  RejectionWait, \* lifetime of a block, in ticks
  DedupeWait,   \* lifetime of an event id in the cache, in ticks
  MaxTicks, MaxChanges \* bounds: ticks, and changes of keys and rates
Doors == {"envelope", "rust", "store", "minidump", "otlp"}
Rates == {0, 50, 100}
\* An "event" is an issue event or a transaction: both go through the same steps.
Item(type, id) == [type |-> type, id |-> id]
Nobody == 0
\* What the steps below tell apart; only an event and a minidump have an id.
BodyItems == [type : {"event", "dump"}, id : SdkIds]
             \cup [type : {"report", "log", "invalid", "unknown"}, id : {Nobody}]

ASSUME DoorAssumption ==
  /\ RejectionWait \in Nat \ {0} /\ DedupeWait \in Nat \ {0} /\ MaxTicks \in Nat /\ MaxChanges \in Nat
  /\ Nobody \notin SdkIds /\ Bodies \subseteq Seq(BodyItems)

VARIABLES
  active,    \* keys of the project that are active
  rate,      \* the throttle state of the project and its organization
  block,     \* the project's cached block: a value and its remaining life
  dsnBlock,  \* key -> remaining life of its "v" block (envelope, store, minidump)
  otlpBlock, \* key -> its block on the OTLP path
  dedupe,    \* event id -> remaining life of its "uuid" entry
  req,       \* request -> where it is and what it read
  copies,    \* history: times an event was enqueued within the life of its entry
  unqueued,      \* history: events whose enqueue raised
  calm,      \* history: ticks since a key (or the rate) changed, up to RejectionWait + 1
  ticks, changes
doorVars == <<active, rate, block, dsnBlock, otlpBlock, dedupe, req, copies, unqueued, calm, ticks, changes>>
gate == <<active, rate, block, dsnBlock, otlpBlock, calm, ticks, changes>>
items == <<dedupe, copies, unqueued>>

NoBlock == [val |-> "none", ttl |-> 0]
Idle == [pc |-> "idle", door |-> "envelope", key |-> Nobody, body |-> <<>>, row |-> <<FALSE, 0>>,
         fates |-> <<>>, processed |-> FALSE]
\* is_accepting_events: a draw from 0..100 above the rate.
is_accepting_events(r) == IF r = 0 THEN {TRUE} ELSE IF r = 100 THEN {FALSE} ELSE BOOLEAN
\* The rate a cached block stands for: "t" alone means (0, 0).
deserialize_throttle(val) == CASE val = "t" -> 0 [] val = "t:50" -> 50 [] val = "t:100" -> 100 [] OTHER -> 0
Set(r, new) == req' = [req EXCEPT ![r] = new]
\* A request is answered; of one answered "ok" the items are remembered.
Answer(r, a) == Set(r, IF a = "ok" THEN [Idle EXCEPT !.pc = "done", !.body = req[r].body, !.fates = req[r].fates] ELSE Idle)
--------------------------------------------------------------------------------
DoorInit ==
  /\ active \in SUBSET DsnKeys /\ rate = 0
  /\ block = NoBlock /\ dsnBlock = [k \in DsnKeys |-> 0] /\ otlpBlock = [k \in DsnKeys |-> NoBlock]
  /\ dedupe = [e \in SdkIds |-> 0] /\ copies = [e \in SdkIds |-> 0] /\ unqueued = {}
  /\ req = [r \in Requests |-> Idle] /\ calm = [x \in DsnKeys \cup {Nobody} |-> RejectionWait + 1]
  /\ ticks = 0 /\ changes = 0

\* A client sends, or sends again, the same event by any door.
Send(r, door, key, body) ==
  /\ req[r].pc \in {"idle", "done"}
  /\ Set(r, [Idle EXCEPT !.pc = "auth", !.door = door, !.key = key, !.body = body])
  /\ UNCHANGED <<gate, items>>
\* get_project reads both block entries before it asks the database.
get_project(r) ==
  LET q == req[r] IN
  /\ q.pc = "auth" /\ q.door # "otlp"
  /\ \/ \E ok \in is_accepting_events(IF block.ttl > 0 THEN deserialize_throttle(block.val) ELSE 0) :
          ~ok /\ Answer(r, "throttled")
     \/ /\ TRUE \in is_accepting_events(IF block.ttl > 0 THEN deserialize_throttle(block.val) ELSE 0)
        /\ IF dsnBlock[q.key] > 0 THEN Answer(r, "denied") ELSE Set(r, [q EXCEPT !.pc = "lookup"])
  /\ UNCHANGED <<gate, items>>
\* get_project_by_key: one entry per key, either "v" or a throttle.
get_project_by_key(r) ==
  LET q == req[r]
      b == IF otlpBlock[q.key].ttl > 0 THEN otlpBlock[q.key].val ELSE "none" IN
  /\ q.pc = "auth" /\ q.door = "otlp"
  /\ IF b = "v" THEN Answer(r, "denied")
     ELSE \E ok \in is_accepting_events(deserialize_throttle(b)) :
            IF ok THEN Set(r, [q EXCEPT !.pc = "lookup"]) ELSE Answer(r, "throttled")
  /\ UNCHANGED <<gate, items>>
\* The row of the project and key, if there is one.
get_project_auth_info_row(r) ==
  /\ req[r].pc = "lookup" /\ Set(r, [req[r] EXCEPT !.pc = "settle", !.row = <<req[r].key \in active, rate>>])
  /\ UNCHANGED <<gate, items>>
InvalidKeyBlocksProject(k) == DsnKeys
\* Which "v" entries a request with an unknown key writes.
InvalidKeyBlocks(k) == {k}
\* What the row says: an unknown key and a refused project are cached and turned
\* away, a throttled one is cached and turned away by a draw.
Admit(r) ==
  LET q == req[r]  found == q.row[1]  t == q.row[2]
      val == IF t = 100 THEN (IF q.door = "otlp" THEN "t:100" ELSE "t") ELSE "t:50" IN
  /\ q.pc = "settle"
  /\ IF ~found
     THEN /\ Answer(r, "denied") /\ UNCHANGED block
          /\ IF q.door = "otlp"
             THEN otlpBlock' = [otlpBlock EXCEPT ![q.key] = [val |-> "v", ttl |-> RejectionWait]] /\ UNCHANGED dsnBlock
             ELSE dsnBlock' = [k \in DsnKeys |-> IF k \in InvalidKeyBlocks(q.key) THEN RejectionWait ELSE dsnBlock[k]]
                  /\ UNCHANGED otlpBlock
     ELSE /\ \E ok \in is_accepting_events(t) :
               IF ok THEN Set(r, [q EXCEPT !.pc = "body", !.row = Idle.row])
               ELSE Answer(r, "throttled")
          /\ UNCHANGED dsnBlock
          /\ IF t = 0 THEN UNCHANGED <<block, otlpBlock>>
             ELSE IF q.door = "otlp"
             THEN otlpBlock' = [otlpBlock EXCEPT ![q.key] = [val |-> val, ttl |-> RejectionWait]] /\ UNCHANGED block
             ELSE block' = [val |-> val, ttl |-> RejectionWait] /\ UNCHANGED otlpBlock
  /\ UNCHANGED <<active, rate, calm, ticks, changes, items>>
\* The Rust session reads the body: the client may hang up, and an envelope with a
\* minidump is replayed through the Django view before anything was done for it.
RustBody(r) ==
  LET q == req[r] IN
  /\ q.pc = "body" /\ q.door = "rust"
  /\ \/ Answer(r, "gone")
     \/ Set(r, IF \E n \in DOMAIN q.body : q.body[n].type = "dump"
               THEN [q EXCEPT !.pc = "auth", !.door = "envelope"] ELSE [q EXCEPT !.pc = "items", !.key = Nobody])
  /\ UNCHANGED <<gate, items>>
\* The other doors buffer and frame the body; one that is too big or garbled is refused.
ReadBody(r) ==
  /\ req[r].pc = "body" /\ req[r].door # "rust"
  /\ Answer(r, "refused") \/ Set(r, [req[r] EXCEPT !.pc = "items", !.key = Nobody])
  /\ UNCHANGED <<gate, items>>
LeaveUnmarked(e) == dedupe
\* cache.aadd of an event's id.
MarkSeen(e) == [dedupe EXCEPT ![e] = DedupeWait]
Fate(r, f) == Set(r, [req[r] EXCEPT !.fates = Append(@, f)])
\* What a payload that fails its schema does to the rest of the envelope.
AfterInvalid(q) == Append(q.fates, "invalid")
\* One item of the body: reports and logs go straight to their queue, an event or a
\* transaction only when its id is new; the Django view keeps a minidump for later.
HandleItem(r) ==
  LET q == req[r]  n == Len(q.fates) + 1  it == q.body[n] IN
  /\ q.pc = "items" /\ n <= Len(q.body)
  /\ CASE it.type = "unknown" ->
            \* an item header that cannot be read: the loop stops
            Set(r, [q EXCEPT !.fates = @ \o [k \in 1..(Len(q.body) - n + 1) |-> "unread"]]) /\ UNCHANGED items
       [] it.type = "invalid" -> Set(r, [q EXCEPT !.fates = AfterInvalid(q)]) /\ UNCHANGED items
       [] it.type = "dump" /\ q.door # "minidump" -> Fate(r, "kept") /\ UNCHANGED items
       [] it.type \in {"report", "log"} -> Set(r, [q EXCEPT !.pc = "enqueue"]) /\ UNCHANGED items
       [] OTHER ->
            IF dedupe[it.id] > 0
            THEN /\ IF q.door = "store" THEN Answer(r, "duplicate")
                    ELSE Set(r, [q EXCEPT !.fates = Append(@, "seen"), !.processed = TRUE])
                 /\ UNCHANGED items
            ELSE /\ Set(r, [q EXCEPT !.pc = "enqueue"])
                 /\ dedupe' = MarkSeen(it.id) /\ UNCHANGED <<copies, unqueued>>
  /\ UNCHANGED gate
\* aenqueue, or its failure: the envelope view reports it and goes on, the
\* others answer 500.  The id stays in the cache.
Enqueue(r, down) ==
  LET q == req[r]  n == Len(q.fates) + 1  it == q.body[n]  counted == it.id \in SdkIds IN
  /\ q.pc = "enqueue"
  /\ IF down
     THEN /\ IF q.door \in {"envelope", "rust"} THEN Set(r, [q EXCEPT !.pc = "items", !.fates = Append(@, "failed")])
             ELSE Answer(r, "error")
          /\ unqueued' = unqueued \cup ({it.id} \cap SdkIds) /\ UNCHANGED copies
     ELSE /\ Set(r, [q EXCEPT !.pc = "items", !.fates = Append(@, "queued"), !.processed = (@ \/ counted)])
          /\ copies' = [e \in SdkIds |-> IF e = it.id THEN copies[e] + 1 ELSE copies[e]] /\ UNCHANGED unqueued
  /\ UNCHANGED <<gate, dedupe>>
\* After the last item: a kept minidump becomes an event if the envelope had none.
FinishItems(r) ==
  LET q == req[r]  kept == { n \in DOMAIN q.fates : q.fates[n] = "kept" } IN
  /\ q.pc = "items" /\ Len(q.fates) = Len(q.body)
  /\ IF kept # {} /\ ~q.processed
     THEN Set(r, [q EXCEPT !.body = <<Item("event", q.body[Max(kept)].id)>>, !.fates = <<>>])
     ELSE Answer(r, "ok")
  /\ UNCHANGED <<gate, items>>
\* Keys come and go, the throttle is raised and lifted.
ChangeKey(k) ==
  /\ changes < MaxChanges /\ changes' = changes + 1
  /\ active' = IF k \in active THEN active \ {k} ELSE active \cup {k}
  /\ calm' = [calm EXCEPT ![k] = 0]
  /\ UNCHANGED <<rate, block, dsnBlock, otlpBlock, ticks, req, items>>
ChangeRate(new) ==
  /\ changes < MaxChanges /\ new # rate /\ changes' = changes + 1
  /\ rate' = new /\ calm' = [calm EXCEPT ![Nobody] = 0]
  /\ UNCHANGED <<active, block, dsnBlock, otlpBlock, ticks, req, items>>
\* Time passes for the cache; a step between a read and the write that follows it
\* takes less than a tick.
Less(n) == IF n = 0 THEN 0 ELSE n - 1
Tick ==
  /\ ticks < MaxTicks /\ ticks' = ticks + 1 /\ \A r \in Requests : req[r].pc \notin {"lookup", "settle", "enqueue"}
  /\ block' = [block EXCEPT !.ttl = Less(@)] /\ dsnBlock' = [k \in DsnKeys |-> Less(dsnBlock[k])]
  /\ otlpBlock' = [k \in DsnKeys |-> [otlpBlock[k] EXCEPT !.ttl = Less(@)]]
  /\ dedupe' = [e \in SdkIds |-> Less(dedupe[e])]
  /\ calm' = [x \in DOMAIN calm |-> IF calm[x] > RejectionWait THEN calm[x] ELSE calm[x] + 1]
  /\ copies' = [e \in SdkIds |-> IF dedupe'[e] = 0 THEN 0 ELSE copies[e]]
  /\ UNCHANGED <<active, rate, req, unqueued, changes>>
BodiesOf(door) ==
  CASE door \in {"envelope", "rust"} -> Bodies
    [] door = "store" -> { <<Item("event", e)>> : e \in SdkIds }
    [] door = "minidump" -> { <<Item("dump", e)>> : e \in SdkIds }
    [] OTHER -> { <<Item("log", Nobody)>> }
DoorNext ==
  \/ \E r \in Requests :
       \/ \E door \in Doors, key \in DsnKeys : \E body \in BodiesOf(door) : Send(r, door, key, body)
       \/ get_project(r) \/ get_project_by_key(r) \/ get_project_auth_info_row(r) \/ Admit(r)
       \/ RustBody(r) \/ ReadBody(r) \/ HandleItem(r) \/ FinishItems(r)
       \/ \E down \in BOOLEAN : Enqueue(r, down)
  \/ \E k \in DsnKeys : ChangeKey(k)
  \/ \E new \in Rates : ChangeRate(new)
  \/ Tick
DoorSpec == DoorInit /\ [][DoorNext]_doorVars
--------------------------------------------------------------------------------
\* However an event is sent again, by the same or another door and in any
\* interleaving, it is enqueued at most once while its id is in the cache.
EventQueuedOnce == \A e \in SdkIds : copies[e] <= 1

\* A block in the cache outlives its reason by one lifetime at most and only hits
\* the key it is about: a request with a key that has been active, at a project that
\* has been open, for longer than that is not turned away, whatever other keys sent.
GoodKeyGetsIn ==
  \A r \in Requests : LET q == req[r] IN
    q.pc = "auth" /\ q.key \in active /\ rate = 0 /\ calm[q.key] > RejectionWait /\ calm[Nobody] > RejectionWait =>
      /\ q.door # "otlp" => dsnBlock[q.key] = 0 /\ (block.ttl > 0 => deserialize_throttle(block.val) = 0)
      /\ q.door = "otlp" => otlpBlock[q.key].ttl = 0

\* An answered envelope dropped nothing it could read: every event, transaction, report
\* and log ahead of an unreadable item header was enqueued, by it or by the request
\* its id collided with, unless an enqueue raised; a payload that fails its
\* schema costs only itself.
AnsweredMeansQueued ==
  \A r \in Requests : LET q == req[r]
                          unread == { n \in DOMAIN q.body : q.body[n].type = "unknown" } IN
    q.pc = "done" =>
      \A n \in DOMAIN q.body :
        q.body[n].type \in {"event", "report", "log"} /\ (\A u \in unread : n < u) =>
          /\ q.fates[n] \in {"queued", "seen", "failed"}
          /\ q.body[n].id \in SdkIds /\ dedupe[q.body[n].id] > 0 =>
               \/ copies[q.body[n].id] > 0 \/ q.body[n].id \in unqueued
               \/ \E x \in Requests : req[x].pc = "enqueue" /\ req[x].body[Len(req[x].fates) + 1].id = q.body[n].id

\* An event that was answered for is in the queue, once.
QueuedExactlyOnce == EventQueuedOnce /\ AnsweredMeansQueued
================================================================================
