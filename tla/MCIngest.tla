------------------------------- MODULE MCIngest -------------------------------
(***************************************************************************)
(* The way of an event: the front door, the scrubber, and filing it under  *)
(* an issue.  Each part is explored by itself: focus is the part that      *)
(* moves.  Workers are interchangeable, and so are requests and hashes,    *)
(* the legacy hash apart.                                                  *)
(***************************************************************************)
EXTENDS IssueIngest, IngestDoor, PiiScrub, TLC

VARIABLE focus

\* One item, an unreadable one before another, two in one envelope, a minidump.
MCBodies == {<<Item("event", 1)>>, <<Item("invalid", 0), Item("event", 1)>>,
             <<Item("dump", 1)>>, <<Item("event", 1), Item("dump", 1)>>,
             <<Item("log", 0), Item("unknown", 0), Item("event", 1)>>}

\* Key names with their normal form, their tokens and the words inside them.
MCNorm == "auth_token" :> "authtoken" @@ "author" :> "author" @@ "api_key" :> "apikey" @@ "note" :> "note"
MCTokens == "auth_token" :> {"auth", "token"} @@ "author" :> {"author"}
            @@ "api_key" :> {"api", "key"} @@ "note" :> {"note"}
MCInside == "auth_token" :> {"authtoken", "auth", "token"} @@ "author" :> {"author", "auth"}
            @@ "api_key" :> {"apikey", "api", "key"} @@ "note" :> {"note"}
DefaultScrub == [enabled |-> TRUE, defaults |-> TRUE, aggressive |-> FALSE, sensitive |-> {}, safe |-> {},
                 private_keys |-> TRUE, credit_cards |-> TRUE, emails |-> FALSE]
MCConfigs == {DefaultScrub, [DefaultScrub EXCEPT !.enabled = FALSE],
              [DefaultScrub EXCEPT !.aggressive = TRUE, !.emails = TRUE],
              [DefaultScrub EXCEPT !.safe = {"auth"}, !.sensitive = {"note"}],
              [DefaultScrub EXCEPT !.defaults = FALSE, !.credit_cards = FALSE]}
Texts == { <<"str", t>> : t \in {"word", "card", "email", "author"} }
PairsOf(k, S) == { <<"list", << <<"str", k>>, v>> >> : v \in S }
Flat == Texts \cup { <<"dict", (k :> v)>> : k \in DOMAIN MCTokens, v \in Texts }
Nested == { <<"list", <<a, b>> >> : a \in UNION { PairsOf(k, Texts) : k \in {"auth_token", "note", "other"} } \cup Flat,
                                    b \in Flat }
MCPayloads == { ("extra" :> v) : v \in Flat \cup Nested
                  \cup { <<"dict", (k :> v)>> : k \in {"author", "note"}, v \in Nested } }

pathVars == <<focus, vars, doorVars, scrubVars>>
PathInit ==
  /\ focus \in {"filing", "gate", "items", "scrub"}
  /\ focus # "filing" => ev = [e \in EventIds |-> CHOOSE x \in ProcessingEvent : x.hash \in LegacyHashes]
  /\ focus \notin {"gate", "items"} => active = {}
  /\ focus = "items" => active = {1}
  /\ focus # "scrub" => projectConfig = NoConfig /\ defaultConfig = DefaultScrub
                        /\ payload = ("extra" :> <<"str", "word">>)
  /\ Init /\ DoorInit /\ ScrubInit
\* The cached refusals are explored with one item in the body, the items with
\* one good key.
Gate == /\ focus = "gate" /\ DoorNext
        /\ \A r \in Requests :
             /\ req'[r].pc # "items" /\ req'[r].door \in {"envelope", "otlp"}
             /\ req'[r].body \in {<<>>, <<Item("event", 1)>>, <<Item("log", 0)>>}
Items == /\ focus = "items" /\ DoorNext
         /\ rate' = 0 /\ active' = {1} /\ \A r \in Requests : req'[r].key \in {0, 1}
PathNext ==
  /\ UNCHANGED focus
  /\ \/ focus = "filing" /\ Next /\ UNCHANGED <<doorVars, scrubVars>>
     \/ (Gate \/ Items) /\ UNCHANGED <<vars, scrubVars>>
     \/ focus = "scrub" /\ ScrubNext /\ UNCHANGED <<vars, doorVars>>
     \* Only the filing of events is checked for deadlock.
     \/ focus # "filing" /\ UNCHANGED <<vars, doorVars, scrubVars>>
PathSpec == PathInit /\ [][PathNext]_pathVars

IngestSymmetry == Permutations(Workers) \cup Permutations(Requests) \cup Permutations(Hashes \ LegacyHashes)
================================================================================
