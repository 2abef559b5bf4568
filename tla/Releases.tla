------------------------------- MODULE Releases -------------------------------
(***************************************************************************)
(* Releases and environments: the API that creates, edits and deletes      *)
(* them, ingest batches that create the ones their events name, and the    *)
(* nightly cleanup of old releases.  A statement that commits by itself is *)
(* a step, so requests, batches and the cleanup meet between any two.      *)
(*                                                                         *)
(* A batch's first query may go to a lagging replica; it changes nothing,  *)
(* so a stale answer is the answer of an earlier step.                     *)
(***************************************************************************)
EXTENDS Naturals, FiniteSets

CONSTANTS
  NULL,
  SDKProjects,    \* projects that receive events
  OrgOf,          \* their organizations
  Versions,
  EnvNames,
  ReleaseKeys,     \* bound: ids the release table may give out
  Bundles,        \* uploaded release files
  Requests,       \* API requests served at a time
  Scenarios       \* bound: the ingest batches (the releases and environments each
                  \* names), and how many API calls and cleanup runs there are

\* Ids are positive; a row of the table, and a batch, is what its columns make it.
ReleaseRows ==
  [org : {OrgOf[p] : p \in SDKProjects}, version : Versions, ref : {"none", "edited"},
   commits : Nat, deploys : Nat]
ASSUME ReleaseConstants ==
  /\ ReleaseKeys \subseteq Nat \ {0} /\ IsFiniteSet(Requests)
  /\ NULL \notin ReleaseRows
  /\ \A s \in Scenarios : \A b \in s.batches :
       b.releases \subseteq Versions \X SDKProjects /\ b.envs \subseteq EnvNames \X SDKProjects

VARIABLES
  release,    \* releases_release: id -> row or NULL
  given,      \* ids given out so far
  linked,     \* releases_release_projects: pairs of release id and project
  deploy,     \* number of Deploy rows of each release
  bundle,     \* DebugSymbolBundle: its release and whether it has a debug id
  aged,       \* releases created before the retention limit
  environs,   \* environments: pairs of organization and name
  envproject, \* EnvironmentProject: <<environment, project>> -> is_hidden
  tagged,     \* stored events that name a release, with the id they carry
  feed,       \* ingest batches
  call,       \* the API requests being served
  callsLeft,      \* calls to come
  clean,      \* cleanup_old_releases
  nightsLeft,     \* cleanup runs to come
  clobbered   \* releases a stale full save overwrote or brought back, or a crash left uncounted
releaseVars == <<release, given, linked, deploy, bundle, aged, environs, envproject, tagged,
                 feed, call, callsLeft, clean, nightsLeft, clobbered>>

ReleaseOrgs == { OrgOf[p] : p \in SDKProjects }
Stored == { id \in ReleaseKeys : release[id] # NULL }
Row(o, v) == [org |-> o, version |-> v, ref |-> "none", commits |-> 0, deploys |-> 0]
Unused == ReleaseKeys \ given
NextId == CHOOSE id \in Unused : \A j \in Unused : id <= j

\* The releases of an organization, of one version of it, of one of its projects.
get_releases_queryset(o) == { id \in Stored : release[id].org = o }
get_release(o, v) == { id \in get_releases_queryset(o) : release[id].version = v }
list_project_releases(p) == { id \in get_releases_queryset(OrgOf[p]) : <<id, p>> \in linked }
get_project_release(p, v) == { id \in list_project_releases(p) : release[id].version = v }
\* The files of a release, reached through the release.
get_release_files_queryset(ids) == { f \in Bundles : bundle[f] # NULL /\ bundle[f].release \in ids }

\* A release is gone from every row that names it.  A file without a debug id
\* must keep its release (debug_id_or_release_required): the statement fails.
Pinned(ids) == \E f \in get_release_files_queryset(ids) : ~bundle[f].debug
Unfiled(ids) == [f \in Bundles |-> IF f \in get_release_files_queryset(ids)
                                   THEN [bundle[f] EXCEPT !.release = NULL] ELSE bundle[f]]
Untagged(ids) == { IF t.release \in ids THEN [t EXCEPT !.release = NULL] ELSE t : t \in tagged }
\* Rows that keep a release from being deleted.
StillNamed(ids) ==
  \/ \E id \in ids : deploy[id] > 0 \/ \E p \in SDKProjects : <<id, p>> \in linked
  \/ \E t \in tagged : t.release \in ids
  \/ get_release_files_queryset(ids) # {}

NoCall == [at |-> "idle"]
NoClean == [at |-> "idle", ids |-> {}, tried |-> {}]
NewFeed == [at |-> "new", seen |-> {}, rows |-> {}]
ReleasesInit ==
  /\ release = [id \in ReleaseKeys |-> NULL] /\ given = {} /\ linked = {} /\ aged = {}
  /\ deploy = [id \in ReleaseKeys |-> 0] /\ bundle = [f \in Bundles |-> NULL]
  /\ environs = {} /\ envproject = << >> /\ tagged = {}
  /\ call = [q \in Requests |-> NoCall] /\ clean = NoClean /\ clobbered = {}
  /\ \E s \in Scenarios :
       /\ feed = [b \in s.batches |-> NewFeed] /\ callsLeft = s.calls /\ nightsLeft = s.nights

----------------------------------------------------------------------------
(* Ingest *)

Of(b) == { x[2] : x \in b.releases } \cup { x[2] : x \in b.envs }
NamesOf(b) == { x[1] : x \in b.envs }
Hosted(p) == { e \in DOMAIN envproject : e[2] = p }

\* What is already there: one row per linked release and linked environment of a
\* project, and none for a project whose environments the batch does not name.
LookRelated(b) ==
  /\ feed[b].at = "new"
  /\ feed' = [feed EXCEPT ![b] =
       [@ EXCEPT !.at = "create",
                 !.seen = IF b.releases = {} \/ b.envs = {} THEN {} ELSE
                   { [project |-> z[1], release |-> z[2], version |-> release[z[2]].version, env |-> z[3]] :
                       z \in { y \in Of(b) \X Stored \X (NamesOf(b) \cup {NULL}) :
                                 /\ <<y[2], y[1]>> \in linked
                                 /\ \E x \in b.releases : x[1] = release[y[2]].version
                                 /\ IF y[3] = NULL THEN Hosted(y[1]) = {}
                                    ELSE \E e \in Hosted(y[1]) : e[1][2] = y[3] } }]]
  /\ UNCHANGED <<release, given, linked, deploy, bundle, aged, environs, envproject, tagged,
                 call, callsLeft, clean, nightsLeft, clobbered>>

Wanted(b) == { x \in b.releases :
                 ~\E s \in feed[b].seen : s.version = x[1] /\ s.project = x[2] }

\* INSERT ... ON CONFLICT DO NOTHING, then the ids are read back.
CreateReleases(b) ==
  /\ feed[b].at = "create"
  /\ LET keys == { <<OrgOf[x[2]], x[1]>> : x \in Wanted(b) }
         missing == { k \in keys : get_release(k[1], k[2]) = {} }
     IN /\ Cardinality(missing) <= Cardinality(Unused)
        /\ \E new \in [missing -> Unused] :
             /\ \A j, k \in missing : new[j] = new[k] => j = k
             /\ \A j \in missing : \A id \in Unused \ { new[k] : k \in missing } : new[j] < id
             /\ given' = given \cup { new[k] : k \in missing }
             /\ release' = [id \in ReleaseKeys |->
                  IF \E k \in missing : new[k] = id
                  THEN LET k == CHOOSE k \in missing : new[k] = id IN Row(k[1], k[2])
                  ELSE release[id]]
        /\ feed' = [feed EXCEPT ![b].at = IF keys = {} THEN "envs" ELSE "select"]
  /\ UNCHANGED <<linked, deploy, bundle, aged, environs, envproject, tagged, call, callsLeft, clean,
                 nightsLeft, clobbered>>

SelectReleases(b) ==
  /\ feed[b].at = "select"
  /\ feed' = [feed EXCEPT ![b] =
       [@ EXCEPT !.at = "link",
                 !.rows = { [id |-> id, org |-> release[id].org, version |-> release[id].version] :
                     id \in { i \in Stored : \E x \in Wanted(b) :
                                release[i].version = x[1] /\ release[i].org = OrgOf[x[2]] } }]]
  /\ UNCHANGED <<release, given, linked, deploy, bundle, aged, environs, envproject, tagged,
                 call, callsLeft, clean, nightsLeft, clobbered>>

\* Mutant: the organization is not compared.
TakersOfAnyOrg(b, r) == { x[2] : x \in { y \in b.releases : y[1] = r.version } }

\* The projects of the batch a release read back may be linked to: the code takes
\* the first in the iteration order of a set, and only that one.
Takers(b, r) == { x[2] : x \in { y \in b.releases : y[1] = r.version /\ OrgOf[y[2]] = r.org } }

LinkReleases(b) ==
  /\ feed[b].at = "link"
  /\ IF \E r \in feed[b].rows : release[r.id] = NULL
     THEN /\ feed' = [feed EXCEPT ![b] = [NewFeed EXCEPT !.at = "failed"]]
          /\ UNCHANGED linked
     ELSE /\ \E taker \in [feed[b].rows -> SDKProjects] :
               /\ \A r \in feed[b].rows : taker[r] \in Takers(b, r)
               /\ linked' = linked \cup { <<r.id, taker[r]>> : r \in feed[b].rows }
          /\ feed' = [feed EXCEPT ![b].at = "envs"]
  /\ UNCHANGED <<release, given, deploy, bundle, aged, environs, envproject, tagged, call, callsLeft,
                 clean, nightsLeft, clobbered>>

\* The environments likewise.  They are never deleted, so the three statements
\* of two batches commute and are one step.
CreateEnvironments(b) ==
  /\ feed[b].at = "envs"
  /\ LET wanted == { x \in b.envs : ~\E s \in feed[b].seen : s.env = x[1] /\ s.project = x[2] }
         new == { <<OrgOf[x[2]], x[1]>> : x \in wanted }
     IN /\ environs' = environs \cup new
        /\ \E taker \in [new -> SDKProjects] :
             /\ \A e \in new : <<e[2], taker[e]>> \in b.envs /\ OrgOf[taker[e]] = e[1]
             /\ LET pairs == { <<e, taker[e]>> : e \in new }
                IN envproject' = [x \in DOMAIN envproject \cup pairs |->
                                    IF x \in DOMAIN envproject THEN envproject[x] ELSE FALSE]
  /\ feed' = [feed EXCEPT ![b].at = "store"]
  /\ UNCHANGED <<release, given, linked, deploy, bundle, aged, tagged, call, callsLeft, clean, nightsLeft,
                 clobbered>>

\* The id an event gets: from the first query, else from the rows read back, else 0.
ReleaseFor(b, v, p) ==
  LET known == { s.release : s \in { z \in feed[b].seen : z.version = v /\ z.project = p } }
      read  == { r.id : r \in { z \in feed[b].rows : z.version = v /\ z.org = OrgOf[p] } }
  IN IF known # {} THEN known ELSE read

\* The events are stored with it; an id that no longer exists fails the batch.
\* shared: another project of the organization named the same version with it.
StoreTagged(b) ==
  /\ feed[b].at = "store"
  /\ \E id \in [b.releases -> ReleaseKeys \cup {0}] :
       /\ \A x \in b.releases : LET ids == ReleaseFor(b, x[1], x[2])
                                IN IF ids = {} THEN id[x] = 0 ELSE id[x] \in ids
       /\ IF \A x \in b.releases : id[x] \in Stored
          THEN /\ tagged' = tagged \cup
                    { [version |-> x[1], project |-> x[2], release |-> id[x],
                       shared |-> \E y \in b.releases \ {x} : y[1] = x[1] /\ OrgOf[y[2]] = OrgOf[x[2]]]
                      : x \in b.releases }
               /\ feed' = [feed EXCEPT ![b] = [NewFeed EXCEPT !.at = "done"]]
          ELSE /\ feed' = [feed EXCEPT ![b] = [NewFeed EXCEPT !.at = "failed"]]
               /\ UNCHANGED tagged
  /\ UNCHANGED <<release, given, linked, deploy, bundle, aged, environs, envproject, call, callsLeft,
                 clean, nightsLeft, clobbered>>

IngestNext == \E b \in DOMAIN feed :
  \/ LookRelated(b) \/ CreateReleases(b) \/ SelectReleases(b) \/ LinkReleases(b)
  \/ CreateEnvironments(b) \/ StoreTagged(b)

----------------------------------------------------------------------------
(* The API *)

Serve(q, c) == call[q].at = "idle" /\ callsLeft > 0 /\ callsLeft' = callsLeft - 1 /\ call' = [call EXCEPT ![q] = c]
Answer(q) == call' = [call EXCEPT ![q] = NoCall]
UNCHANGEDByApi == UNCHANGED <<aged, environs, envproject, feed, clean, nightsLeft>>

\* get_or_create, and in a second statement the links to the projects named.
create_release(q, o, v, ps) ==
  /\ Serve(q, [at |-> "add", id |-> IF get_release(o, v) = {} THEN NextId
                                 ELSE CHOOSE id \in get_release(o, v) : TRUE, projects |-> ps])
  /\ IF get_release(o, v) = {}
     THEN given' = given \cup {NextId} /\ release' = [release EXCEPT ![NextId] = Row(o, v)]
     ELSE UNCHANGED <<given, release>>
  /\ UNCHANGED <<linked, deploy, bundle, tagged, clobbered>> /\ UNCHANGEDByApi
AddProjects(q) ==
  /\ call[q].at = "add" /\ Answer(q)
  /\ IF call[q].id \in Stored THEN linked' = linked \cup ({call[q].id} \X call[q].projects)
     ELSE UNCHANGED linked
  /\ UNCHANGED <<release, given, deploy, bundle, tagged, callsLeft, clobbered>> /\ UNCHANGEDByApi

\* PUT, POST deploys and POST commits read the release first.
ReadRelease(q, ids, op) ==
  /\ \E id \in ids : Serve(q, [at |-> op, id |-> id, row |-> release[id]])
  /\ UNCHANGED <<release, given, linked, deploy, bundle, tagged, clobbered>> /\ UNCHANGEDByApi

\* The endpoints of a project find the release through its link to the project.
ReadProjectRelease(q, p, v) == ReadRelease(q, get_project_release(p, v), "put")

\* The whole row is saved as it was read; a release deleted meanwhile is inserted
\* again under its id, unless its version has a new release.
update_release(q) ==
  /\ call[q].at = "put" /\ Answer(q)
  /\ IF call[q].id \in Stored \/ get_release(call[q].row.org, call[q].row.version) = {}
     THEN /\ release' = [release EXCEPT ![call[q].id] = [call[q].row EXCEPT !.ref = "edited"]]
          /\ clobbered' = IF call[q].id \in Stored /\ release[call[q].id].deploys = call[q].row.deploys
                          THEN clobbered ELSE clobbered \cup {call[q].id}
     ELSE UNCHANGED <<release, clobbered>>
  /\ UNCHANGED <<given, linked, deploy, bundle, tagged, callsLeft>> /\ UNCHANGEDByApi

\* A deploy is inserted, then counted in the database.
create_deploy(q) ==
  /\ call[q].at = "deploy"
  /\ IF call[q].id \in Stored
     THEN /\ deploy' = [deploy EXCEPT ![call[q].id] = @ + 1]
          /\ call' = [call EXCEPT ![q].at = "count"]
     ELSE Answer(q) /\ UNCHANGED deploy
  /\ UNCHANGED <<release, given, linked, bundle, tagged, callsLeft, clobbered>> /\ UNCHANGEDByApi
CountDeploy(q) ==
  /\ call[q].at = "count" /\ Answer(q)
  /\ release' = IF call[q].id \in Stored THEN [release EXCEPT ![call[q].id].deploys = @ + 1] ELSE release
  /\ UNCHANGED <<given, linked, deploy, bundle, tagged, callsLeft, clobbered>> /\ UNCHANGEDByApi

\* Only commit_count and data are written; a deleted release fails the call.
create_commits(q) ==
  /\ call[q].at = "commits" /\ Answer(q)
  /\ release' = IF call[q].id \in Stored THEN [release EXCEPT ![call[q].id].commits = 1] ELSE release
  /\ UNCHANGED <<given, linked, deploy, bundle, tagged, callsLeft, clobbered>> /\ UNCHANGEDByApi

\* DELETE, in one transaction: deploys and links go with the release, events and
\* files let go of it; a pinned file fails the call.
delete_organization_release(q, ids) ==
  /\ ids # {} /\ ~Pinned(ids) /\ Serve(q, NoCall)
  /\ release' = [id \in ReleaseKeys |-> IF id \in ids THEN NULL ELSE release[id]]
  /\ deploy' = [id \in ReleaseKeys |-> IF id \in ids THEN 0 ELSE deploy[id]]
  /\ linked' = { x \in linked : x[1] \notin ids }
  /\ bundle' = Unfiled(ids) /\ tagged' = Untagged(ids)
  /\ UNCHANGED <<given, clobbered>> /\ UNCHANGEDByApi

\* A file of a release: uploaded (assembled elsewhere), and deleted.
UploadFile(q, id, f, debug) ==
  /\ id \in Stored /\ bundle[f] = NULL /\ Serve(q, NoCall)
  /\ bundle' = [bundle EXCEPT ![f] = [release |-> id, debug |-> debug]]
  /\ UNCHANGED <<release, given, linked, deploy, tagged, clobbered>> /\ UNCHANGEDByApi
delete_organization_release_file(q, ids, f) ==
  /\ f \in get_release_files_queryset(ids) /\ Serve(q, NoCall)
  /\ bundle' = [bundle EXCEPT ![f] = NULL]
  /\ UNCHANGED <<release, given, linked, deploy, tagged, clobbered>> /\ UNCHANGEDByApi

\* The same through a project.
delete_project_release(q, p, v) == delete_organization_release(q, get_project_release(p, v))
delete_project_release_file(q, p, v, f) ==
  delete_organization_release_file(q, get_project_release(p, v), f)

update_environment_project(q, e, hidden) ==
  /\ e \in DOMAIN envproject /\ Serve(q, NoCall)
  /\ envproject' = [envproject EXCEPT ![e] = hidden]
  /\ UNCHANGED <<release, given, linked, deploy, bundle, tagged, clobbered, aged, environs,
                 feed, clean, nightsLeft>>

\* The process dies in a request.
RequestDies(q) ==
  /\ call[q].at # "idle" /\ Answer(q)
  /\ clobbered' = IF call[q].at = "count" THEN clobbered \cup {call[q].id} ELSE clobbered
  /\ UNCHANGED <<release, given, linked, deploy, bundle, tagged, callsLeft>> /\ UNCHANGEDByApi

ApiNext == \E q \in Requests :
  \/ \E v \in Versions :
       \/ \E o \in ReleaseOrgs : \E ps \in SUBSET { p \in SDKProjects : OrgOf[p] = o } \ {{}} :
            (get_release(o, v) = {} => Unused # {}) /\ create_release(q, o, v, ps)
       \/ \E o \in ReleaseOrgs, op \in {"put", "deploy", "commits"} : ReadRelease(q, get_release(o, v), op)
       \/ \E p \in SDKProjects : ReadProjectRelease(q, p, v)
       \/ \E o \in ReleaseOrgs : delete_organization_release(q, get_release(o, v))
       \/ \E p \in SDKProjects : delete_project_release(q, p, v)
       \/ \E f \in Bundles :
            \/ \E o \in ReleaseOrgs : delete_organization_release_file(q, get_release(o, v), f)
            \/ \E p \in SDKProjects : delete_project_release_file(q, p, v, f)
  \/ AddProjects(q) \/ update_release(q) \/ create_deploy(q) \/ CountDeploy(q) \/ create_commits(q)
  \/ RequestDies(q)
  \/ \E id \in ReleaseKeys, f \in Bundles, debug \in BOOLEAN : UploadFile(q, id, f, debug)
  \/ \E e \in ReleaseOrgs \X EnvNames, p \in SDKProjects, hidden \in BOOLEAN :
       update_environment_project(q, <<e, p>>, hidden)

----------------------------------------------------------------------------
(* The nightly cleanup *)

UNCHANGEDByCleanup == UNCHANGED <<given, aged, linked, environs, envproject, feed, call, callsLeft, clobbered>>

Age(id) ==
  /\ id \in Stored \ aged /\ aged' = aged \cup {id}
  /\ UNCHANGED <<release, given, linked, deploy, bundle, environs, envproject, tagged, feed, call,
                 callsLeft, clean, nightsLeft, clobbered>>

StartCleanup ==
  /\ clean.at = "idle" /\ nightsLeft > 0 /\ nightsLeft' = nightsLeft - 1
  /\ clean' = [NoClean EXCEPT !.at = "pick"]
  /\ UNCHANGED <<release, deploy, bundle, tagged>> /\ UNCHANGEDByCleanup
PickBatch ==
  /\ clean.at = "pick"
  /\ clean' = IF Stored \cap aged = {} THEN NoClean
              ELSE [at |-> "unref", ids |-> Stored \cap aged, tried |-> clean.tried \cup clean.ids]
  /\ UNCHANGED <<release, deploy, bundle, tagged, nightsLeft>> /\ UNCHANGEDByCleanup
\* Events and issues let go of the batch ...
NullifyEvents ==
  /\ clean.at = "unref" /\ clean' = [clean EXCEPT !.at = "files"] /\ tagged' = Untagged(clean.ids)
  /\ UNCHANGED <<release, deploy, bundle, nightsLeft>> /\ UNCHANGEDByCleanup
\* ... and files; a pinned file ends the whole maintenance step.
NullifyFiles ==
  /\ clean.at = "files"
  /\ IF Pinned(clean.ids) THEN clean' = NoClean /\ UNCHANGED bundle
     ELSE clean' = [clean EXCEPT !.at = "deploys"] /\ bundle' = Unfiled(clean.ids)
  /\ UNCHANGED <<release, deploy, tagged, nightsLeft>> /\ UNCHANGEDByCleanup
\* Deploys are deleted.  So are the rows of ReleaseProject, a table of its own that
\* nothing fills: Release.projects is kept in releases_release_projects.
DeleteDeploys ==
  /\ clean.at = "deploys" /\ clean' = [clean EXCEPT !.at = "drop"]
  /\ deploy' = [id \in ReleaseKeys |-> IF id \in clean.ids THEN 0 ELSE deploy[id]]
  /\ UNCHANGED <<release, bundle, tagged, nightsLeft>> /\ UNCHANGEDByCleanup
\* The releases; a row that still names one of them refuses the batch and ends
\* the run.
DropBatch ==
  /\ clean.at = "drop"
  /\ IF StillNamed(clean.ids) THEN clean' = NoClean /\ UNCHANGED release
     ELSE /\ clean' = [clean EXCEPT !.at = "pick"]
          /\ release' = [id \in ReleaseKeys |-> IF id \in clean.ids THEN NULL ELSE release[id]]
  /\ UNCHANGED <<deploy, bundle, tagged, nightsLeft>> /\ UNCHANGEDByCleanup

CleanupStep == PickBatch \/ NullifyEvents \/ NullifyFiles \/ DeleteDeploys \/ DropBatch
CleanupNext == (\E id \in ReleaseKeys : Age(id)) \/ StartCleanup \/ CleanupStep

ReleasesNext == IngestNext \/ ApiNext \/ CleanupNext
ReleasesSpec == ReleasesInit /\ [][ReleasesNext]_releaseVars

----------------------------------------------------------------------------
(* Properties *)

\* A release, and an environment, is linked to projects of its own organization
\* only, though versions and names are shared by organizations in one batch.
LinksWithinOrg ==
  /\ \A x \in linked : x[1] \in Stored /\ release[x[1]].org = OrgOf[x[2]]
  /\ \A x \in DOMAIN envproject : x[1] \in environs /\ x[1][1] = OrgOf[x[2]]

\* An event carries a release of its own version and organization, through
\* deletions and re-creations; and the release is listed for the event's project
\* unless another project of the organization named it in the same batch or a
\* stale save brought the deleted release back without its links.
EventsUnderTheirRelease ==
  \A t \in tagged : t.release # NULL =>
    /\ t.release \in Stored
    /\ release[t.release].version = t.version /\ release[t.release].org = OrgOf[t.project]
    /\ t.shared \/ t.release \in clobbered \/ t.release \in list_project_releases(t.project)

\* deploy_count counts the deploys, but for the one being counted, unless a full
\* save of the row overlapped or a process died.
DeploysCounted ==
  \A id \in Stored \ clobbered :
    \/ deploy[id] = release[id].deploys +
         Cardinality({ q \in Requests : call[q].at = "count" /\ call[q].id = id })
    \/ id \in aged

\* A cleanup run does not pick a release it failed to delete again: it "would
\* re-select the same undeletable batch and loop forever" (releases/maintenance.py
\* 70-73).
CleanupMovesOn == clean.ids \cap clean.tried \subseteq clobbered

\* Releases, their links, their events and their counters agree however API calls,
\* ingest batches and the cleanup overlap (releases/api.py, process_event.py
\* 417-564, releases/maintenance.py).
ReleasesHold == LinksWithinOrg /\ EventsUnderTheirRelease /\ DeploysCounted /\ CleanupMovesOn
===============================================================================
