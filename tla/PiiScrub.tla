-------------------------------- MODULE PiiScrub --------------------------------
(***************************************************************************)
(* Server-side scrubbing of an event before it is enqueued.  A payload is a  *)
(* tree: <<"str", text>>, <<"dict", key -> node>> or <<"list", nodes>>.  A     *)
(* text is a word, or "card", "pem", "email" for a text one of the value       *)
(* patterns matches.  Words are opaque: Norm, KeyTokens and    *)
(* Inside say how keys normalize, split and contain one another.             *)
(***************************************************************************)
EXTENDS Naturals, Sequences, FiniteSets

CONSTANTS
  Norm, KeyTokens,   \* key -> its normalized form, and its tokens in lower case
  Inside,         \* key -> the words its normalized form contains
  KEY_TOKENS,     \* DEFAULT_KEY_TOKENS
  WHOLE_KEYS,     \* DEFAULT_WHOLE_KEYS
  MaxScrubDepth,  \* _MAX_SCRUB_DEPTH
  ScrubConfigs,   \* bound: project and fleet-wide configurations, or NoConfig
  NoConfig,
  EventPayloads   \* bound: sections of an event: section name -> node
VARIABLES projectConfig, defaultConfig, payload, queued
scrubVars == <<projectConfig, defaultConfig, payload, queued>>

EVENT_SECTIONS == {"request", "extra", "message"}
Filtered == <<"str", "[Filtered]">>
--------------------------------------------------------------------------------
\* Key classification.  Aggressive: any denylist word inside the normalized key, unless
\* a safe word is.  Else the operator's safe keys win, then the whole key, then a token.
_is_sensitive_key(c, key) ==
  LET tokens == IF c.defaults THEN KEY_TOKENS ELSE {}
      whole == (IF c.defaults THEN WHOLE_KEYS ELSE {}) \cup c.sensitive IN
  IF c.aggressive
  THEN c.safe \cap Inside[key] = {} /\ (tokens \cup whole) \cap Inside[key] # {}
  ELSE /\ Norm[key] \notin c.safe
       /\ \/ Norm[key] \in whole
          \/ KeyTokens[key] \cap c.safe = {} /\ KeyTokens[key] \cap tokens # {}
\* Value patterns.
_scrub_string(c, text) ==
  IF (text = "pem" /\ c.private_keys) \/ (text = "card" /\ c.credit_cards) \/ (text = "email" /\ c.emails)
  THEN Filtered ELSE <<"str", text>>
\* An item of the [[key, value], ...] shape headers and query strings have.
PairShaped(item) == item[1] = "list" /\ Len(item[2]) >= 2 /\ item[2][1][1] = "str"
IsKey(text) == text \in DOMAIN KeyTokens

RECURSIVE ScrubListPerItem(_, _, _, _), _scrub_node(_, _, _)
\* _scrub_list looks at each element by itself: a pair is redacted by its head.
ScrubListPerItem(c, item, depth, all) ==
  IF PairShaped(item)
  THEN LET head == item[2][1]
           value == IF IsKey(head[2]) /\ _is_sensitive_key(c, head[2]) THEN Filtered
                    ELSE _scrub_node(c, item[2][2], depth + 1) IN
       <<"list", [item[2] EXCEPT ![2] = value]>>
  ELSE _scrub_node(c, item, depth + 1)
ScrubListWhenAllPairs(c, item, depth, all) ==
  IF \A n \in DOMAIN all : PairShaped(all[n]) THEN ScrubListPerItem(c, item, depth, all)
  ELSE _scrub_node(c, item, depth + 1)
ScrubItem(c, item, depth, all) == ScrubListPerItem(c, item, depth, all)
_scrub_dict(c, d, depth) ==
  <<"dict", [key \in DOMAIN d |-> IF _is_sensitive_key(c, key) THEN Filtered ELSE _scrub_node(c, d[key], depth + 1)]>>
_scrub_node(c, node, depth) ==
  CASE depth > MaxScrubDepth -> node
    [] node[1] = "dict" -> _scrub_dict(c, node[2], depth)
    [] node[1] = "list" -> <<"list", [n \in DOMAIN node[2] |-> ScrubItem(c, node[2][n], depth, node[2])]>>
    [] OTHER -> _scrub_string(c, node[2])
scrub_event(c, p) ==
  IF ~c.enabled THEN p
  ELSE [s \in DOMAIN p |-> IF s \in EVENT_SECTIONS THEN _scrub_node(c, p[s], 0) ELSE p[s]]
\* The project's own configuration wins over the fleet-wide one.
resolve_scrubber(mine, fleet) == IF mine # NoConfig THEN mine ELSE fleet

ScrubInit ==
  /\ projectConfig \in ScrubConfigs \cup {NoConfig} /\ defaultConfig \in ScrubConfigs
  /\ payload \in EventPayloads /\ queued = <<>>
\* The view scrubs the payload it validated, then enqueues it.
ScrubAndEnqueue ==
  /\ queued = <<>> /\ queued' = <<scrub_event(resolve_scrubber(projectConfig, defaultConfig), payload)>>
  /\ UNCHANGED <<projectConfig, defaultConfig, payload>>
ScrubNext == ScrubAndEnqueue
--------------------------------------------------------------------------------
RECURSIVE Leaves(_, _, _)
\* The texts of a tree, each with the keys it stands under and its depth.
Leaves(node, under, depth) ==
  CASE node[1] = "dict" -> UNION { Leaves(node[2][k], under \cup {k}, depth + 1) : k \in DOMAIN node[2] }
    [] node[1] = "list" ->
         UNION { IF PairShaped(node[2][n])
                 THEN Leaves(node[2][n][2][2], under \cup ({node[2][n][2][1][2]} \cap DOMAIN KeyTokens), depth + 1)
                 ELSE Leaves(node[2][n], under, depth + 1) : n \in DOMAIN node[2] }
    [] OTHER -> {[text |-> node[2], under |-> under, depth |-> depth]}

\* Whatever is nested in what, nothing the configuration calls sensitive reaches the
\* queue from a scrubbed section, down to the depth bound: not the value of a
\* sensitive key, also in a list of pairs with other items in it, and not a text a
\* value pattern matches; and every other text gets there as it was.  (The head
\* of a pair, and what follows its second element, are left as they are.)
SecretsNeverQueued ==
  LET c == resolve_scrubber(projectConfig, defaultConfig)
      Sensitive(l) == (\E k \in l.under : _is_sensitive_key(c, k)) \/ _scrub_string(c, l.text) = Filtered IN
  queued # <<>> /\ c.enabled =>
    \A s \in DOMAIN payload \cap EVENT_SECTIONS :
      LET before == Leaves(payload[s], {}, 0)  after == Leaves(queued[1][s], {}, 0) IN
      /\ \A l \in after : l.depth <= MaxScrubDepth => ~Sensitive(l) \/ l.text = "[Filtered]"
      /\ \A l \in before : ~Sensitive(l) => l \in after
================================================================================
