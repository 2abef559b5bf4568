------------------------------- MODULE MCAccess -------------------------------
(***************************************************************************)
(* What an organization owns: its members, teams, projects and keys; one   *)
(* user's credentials of each kind; its uploaded files; the recipients of  *)
(* an alert; a list page by page.  Each part is explored by itself: focus  *)
(* is the part that moves.                                                 *)
(***************************************************************************)
EXTENDS Membership, Credentials, FileBlobs, AlertDelivery, CursorPages, TLC

CONSTANTS u1, u2, o1, o2, x1, x2, x3, x4, t1, t2, p1, p2, k1, k2
VARIABLE focus

\* Two organizations; their owners u1 and u2, u2 a member of the first too.
Founded ==
  [sso |-> FALSE, org |-> [o \in Orgs |-> "live"], open |-> [o \in Orgs |-> TRUE],
   seat |-> (x1 :> Seat(o1, u1, None, OWNER) @@ x2 :> Seat(o1, u2, None, MEMBER)
             @@ x3 :> Seat(o2, u2, None, OWNER) @@ x4 :> None),
   owner |-> (o1 :> x1 @@ o2 :> x3),
   team |-> [t \in Teams |-> None], project |-> [p \in Projects |-> None],
   key |-> [k \in Keys |-> None], user |-> Users, social |-> {}, subscribed |-> Users,
   alert |-> [a \in Users \X Projects |-> "default"]]
\* The same with teams, projects and a key, under single sign-on; and one
\* organization alone.
Furnished ==
  [Founded EXCEPT !.sso = TRUE,
     !.team = (t1 :> [org |-> o1, members |-> {x2}, projects |-> {p1}] @@ t2 :> Team(o2, {x3})),
     !.project = (p1 :> Project(o1) @@ p2 :> Project(o2)), !.key = (k1 :> p1 @@ k2 :> None)]
Alone == DropOrg([Founded EXCEPT !.sso = TRUE], o1)
MCOpenings == {Founded, Furnished, Alone}

\* Small uploads: a complete bundle, the same once more and a partial one for the
\* same debug id, files in one and in two chunks, refused ones, and a proguard mapping.
MCJob(kind, chunks, sum, joined) ==
  [kind |-> kind, chunks |-> chunks, sum |-> sum, joined |-> joined, big |-> FALSE,
   ok |-> TRUE, parts |-> <<>>]
MCPart(map, sum, debug) == [map |-> map, sum |-> sum, debug |-> debug]

MCJobs == [
  chunk  |-> MCJob("chunk", <<>>, "x", "x"),
  huge   |-> [MCJob("chunk", <<>>, "x", "x") EXCEPT !.big = TRUE],
  full   |-> [MCJob("artifact", <<"z">>, "z", "z") EXCEPT
                !.parts = <<MCPart(2, "m", "d"), MCPart(0, "s", "d")>>],
  again  |-> [MCJob("artifact", <<"z">>, "z", "z") EXCEPT
                !.parts = <<MCPart(2, "m", "d"), MCPart(0, "s", "d")>>],
  part   |-> [MCJob("artifact", <<"z">>, "z", "z") EXCEPT !.parts = <<MCPart(0, "m", "d")>>],
  two    |-> [MCJob("artifact", <<"x", "z">>, "xz", "xz") EXCEPT
                !.parts = <<MCPart(0, "m", "none"), MCPart(0, "outside", "d")>>],
  bad    |-> [MCJob("artifact", <<"x">>, "x", "x") EXCEPT !.ok = FALSE],
  dif    |-> MCJob("dif", <<"x", "z">>, "xz", "xz"),
  dif1   |-> MCJob("dif", <<"x">>, "x", "x"),
  wrong  |-> MCJob("dif", <<"x">>, "q", "x"),
  map    |-> MCJob("proguard", <<>>, "x", "x"),
  nomap  |-> [MCJob("proguard", <<>>, "x", "x") EXCEPT !.ok = FALSE]]
MCPlans == {{"full", "part"}, {"full", "again"}, {"two", "dif"}, {"bad", "map"}, {"dif1", "map", "chunk"},
            {"wrong", "nomap", "huge"}}
MCUploaded == <<"z", "x">>

\* Issues with some of the tags, and recipient lists, one with a duplicate.
Told(n, env, rel, city) ==
  [link |-> n, project |-> "p", culprit |-> n,
   values |-> [environment |-> env, server_name |-> "", release |-> rel, city |-> city]]
MCLists == LET a == Told("a", "prod", "", "")  b == Told("b", "", "r1", "oslo")  c == Told("c", "", "", "")
           IN {<<b>>, <<a, b>>, <<b, c, a>>}
MCTags == {<<>>, <<"city", "release">>}
MCRecipients == {<<"webhook", "webhook">>, <<"email", "teams", "zulip">>,
                 <<"googlechat", "discord">>, <<"ntfy", "feishu">>}

\* A bundle is uploaded again after it has been assembled.
InTurn == {"full", "again"} \subseteq DOMAIN work /\ work["full"].pc # "done" => work'["again"].pc = "new"

accessVars == <<focus, memberVars, credVars, fileVars, deliveryVars, pageVars>>
AccessInit ==
  /\ focus \in {"members", "mail", "codes", "oauth", "tools", "files", "alerts", "pages"}
  /\ focus # "members" => db = Founded
  /\ focus # "mail" => email = CHOOSE e \in [Addresses -> {"none", "primary"}] :
                           Cardinality({ a \in Addresses : e[a] = "primary" }) = 1
  /\ focus # "files" => store = "disk" /\ work = [j \in {"full", "part"} |-> NewWork(j)]
  /\ focus # "pages" => rows = [r \in RowIds |-> 0] /\ limit = 1
  /\ MemberInit /\ CredInit /\ FilesInit /\ DeliveryInit /\ PagesInit
  /\ \A r, q \in RowIds : r < q => rows[r] <= rows[q]   \* the ids mean nothing: one of each kind
  /\ store = "s3" => DOMAIN work = {"bad", "map"}  \* nothing is claimed of its bytes
AccessNext ==
  /\ UNCHANGED focus
  /\ \/ /\ focus = "members" /\ MemberNext
        /\ UNCHANGED <<credVars, fileVars, deliveryVars, pageVars>>
     \/ /\ \/ focus = "mail"  /\ MailNext
           \/ focus = "codes" /\ CodesNext
           \/ focus = "oauth" /\ OAuthNext
           \/ focus = "tools" /\ ToolsNext
           \/ \E j \in Slots : Crash(j)
        /\ UNCHANGED <<memberVars, fileVars, deliveryVars, pageVars>>
     \/ /\ focus = "files" /\ FilesNext /\ InTurn
        /\ UNCHANGED <<memberVars, credVars, deliveryVars, pageVars>>
     \/ /\ focus = "alerts" /\ DeliveryNext
        /\ UNCHANGED <<memberVars, credVars, fileVars, pageVars>>
     \/ /\ focus = "pages" /\ PagesNext
        /\ UNCHANGED <<memberVars, credVars, fileVars, deliveryVars>>
AccessSpec == AccessInit /\ [][AccessNext]_accessVars
================================================================================
