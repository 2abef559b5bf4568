------------------------------ MODULE Membership ------------------------------
(***************************************************************************)
(* Organizations, their members and invitations, teams, projects and keys, *)
(* and who is told of a project's alerts.  db holds the tables, with the   *)
(* cascades of the foreign keys.  Handlers that read a row, await and save *)
(* the whole row are two steps: req is such a request between the two.     *)
(* Saving a row that has been deleted meanwhile inserts it again.          *)
(***************************************************************************)
EXTENDS Naturals

CONSTANTS
  None,             \* null: a model value
  Users, Orgs, Seats, Teams, Projects, Keys,
  Home,             \* the organization "creator-signal"
  OperatorTeam,     \* its team "creator-signal-operators"
  Operator,         \* the user named by the Zitadel credentials
  GovernedProject,  \* the slug of one of the projects reconcile defines, there
  GovernedKey,      \* and its key
  InviteLimit,      \* EMAIL_INVITE_THROTTLE_COUNT
  Openings,         \* bound: the tables the runs start from
  MaxRequests       \* bound: requests and jobs of a behaviour

\* OrganizationUserRole
MEMBER == 0
ADMIN == 1
MANAGER == 2
OWNER == 3

VARIABLES
  db,        \* the tables
  req,       \* a request between its read and its save
  tasks,     \* delete tasks enqueued: organizations and projects
  bootFiles,     \* bootstrap directory: the key of each DSN file, and the status file
  invites,   \* cache email_invite_throttle_<user>
  steps      \* requests so far

memberVars == <<db, req, tasks, bootFiles, invites, steps>>
Idle == [op |-> "idle", id |-> None]
\* Ids are not used twice: a row whose id is still held somewhere is not created.
Held == tasks \cup {req.id}

\* The two deployments: single sign-on alone, with registration and organization
\* creation closed as validate_runtime demands, or both open.
SsoOnly == db.sso
CreationOpen == ~db.sso

\* A seat is an OrganizationUser row: an invitation while it has no user.  The
\* token mailed for it signs the row's id, so it outlives the acceptance.
Seat(o, u, mail, role) ==
  [org |-> o, user |-> u, mail |-> mail, role |-> role, invited |-> mail # None]
Empty(t) == t = None
Team(o, members) == [org |-> o, members |-> members, projects |-> {}]
Project(o) == [org |-> o, st |-> "live"]
Taken(d) == { s \in Seats : d.seat[s] # None }
SeatsOf(d, o) == { s \in Taken(d) : d.seat[s].org = o }
Role(d, u, o) ==
  LET own == { s \in SeatsOf(d, o) : d.seat[s].user = u } IN
  IF own = {} THEN None ELSE d.seat[CHOOSE s \in own : TRUE].role
AtLeast(d, u, o, role) == Role(d, u, o) \in role..OWNER
TeamsOf(d, o) == { t \in Teams : d.team[t] # None /\ d.team[t].org = o }
ProjectsOf(d, o) == { p \in Projects : d.project[p] # None /\ d.project[p].org = o }
--------------------------------------------------------------------------------
\* Cascades ---------------------------------------------------------------------
Without(team, seats, projects) ==
  [team EXCEPT !.members = @ \ seats, !.projects = @ \ projects]
DropSeats(d, gone) ==
  [d EXCEPT !.seat  = [s \in Seats |-> IF s \in gone THEN None ELSE @[s]],
            !.owner = [o \in Orgs |-> IF @[o] \in gone THEN None ELSE @[o]],
            !.team  = [t \in Teams |-> IF @[t] = None THEN None ELSE Without(@[t], gone, {})]]
DropProjects(d, gone) ==
  [d EXCEPT !.project = [p \in Projects |-> IF p \in gone THEN None ELSE @[p]],
            !.key   = [k \in Keys |-> IF @[k] \in gone THEN None ELSE @[k]],
            !.alert = [a \in Users \X Projects |-> IF a[2] \in gone THEN "default" ELSE @[a]],
            !.team  = [t \in Teams |-> IF @[t] = None THEN None ELSE Without(@[t], {}, gone)]]
DropOrg(d, o) ==
  LET bare == DropProjects(DropSeats(d, SeatsOf(d, o)), ProjectsOf(d, o)) IN
  [bare EXCEPT !.org[o] = "absent",
               !.team = [t \in Teams |-> IF t \in TeamsOf(d, o) THEN None ELSE @[t]]]
DropUser(d, u) ==
  LET own == { s \in Taken(d) : d.seat[s].user = u } IN
  [DropSeats(d, own) EXCEPT !.user = @ \ {u}, !.social = @ \ {u},
     !.alert = [a \in Users \X Projects |-> IF a[1] = u THEN "default" ELSE @[a]]]

\* unique_together: a user, or an invited address, has one seat an organization.
Fits(d, s, row) ==
  /\ d.org[row.org] # "absent"
  /\ row.user # None => row.user \in d.user
  /\ \A r \in SeatsOf(d, row.org) \ {s} :
       /\ row.user # None => d.seat[r].user # row.user
       /\ row.mail # None => d.seat[r].mail # row.mail

\* post_save of a seat: Zitadel users join the operators' team.
add_zitadel_user_to_operator_team(d, s) ==
  LET row == d.seat[s] IN
  IF /\ SsoOnly /\ row.user \in d.social /\ row.org = Home
     /\ d.team[OperatorTeam] # None /\ d.team[OperatorTeam].org = Home
  THEN [d EXCEPT !.team[OperatorTeam].members = @ \cup {s}] ELSE d
SaveSeat(d, s, row) == add_zitadel_user_to_operator_team([d EXCEPT !.seat[s] = row], s)

\* The first user of an organization becomes its owner.
aadd_user(d, s, u, o) ==
  LET first == { r \in SeatsOf(d, o) : d.seat[r].user # None } = {}
      saved == SaveSeat(d, s, Seat(o, u, None, IF first THEN OWNER ELSE MEMBER)) IN
  IF first /\ d.owner[o] = None THEN [saved EXCEPT !.owner[o] = s] ELSE saved

FreeSeat(d) == CHOOSE s \in Seats \ Held : d.seat[s] = None
HasRoom(d)  == (Seats \ Held) \ Taken(d) # {}
--------------------------------------------------------------------------------
\* The rows a user's queries find.
get_organizations_queryset(d, u) ==
  { o \in Orgs : d.org[o] = "live" /\ Role(d, u, o) # None }
get_organization_users_queryset(d, u, o) == IF Role(d, u, o) = None THEN {} ELSE SeatsOf(d, o)
get_team_queryset(d, u, o) == IF Role(d, u, o) = None THEN {} ELSE TeamsOf(d, o)
get_projects_queryset(d, u) ==
  { p \in Projects : d.project[p] # None /\ d.project[p].st = "live"
                     /\ d.project[p].org \in get_organizations_queryset(d, u) }
get_project_keys_queryset(d, u) ==
  { k \in Keys : d.key[k] # None /\ Role(d, u, d.project[d.key[k]].org) # None }

\* Told of a project's alerts: members of its teams who did not opt out.
Recipients(d, p) ==
  { u \in d.user :
      /\ \E t \in Teams : /\ d.team[t] # None /\ p \in d.team[t].projects
                          /\ \E s \in d.team[t].members : d.seat[s].user = u
      /\ d.alert[<<u, p>>] # "off"
      /\ d.alert[<<u, p>>] = "default" => u \in d.subscribed }
--------------------------------------------------------------------------------
MemberInit ==
  /\ db \in Openings
  /\ req = Idle /\ tasks = {} /\ invites = [u \in Users |-> 0] /\ steps = 0
  /\ bootFiles = [dsn |-> None, status |-> FALSE]

Write(d) == db' = d
Request  == steps < MaxRequests /\ steps' = steps + 1
Keep     == UNCHANGED <<req, tasks, bootFiles, invites>>

\* Organizations ------------------------------------------------------------------
create_organization(u, o) ==
  /\ Request /\ u \in db.user /\ db.org[o] = "absent" /\ o \notin Held /\ HasRoom(db)
  /\ CreationOpen \/ \A x \in Orgs : db.org[x] = "absent"
  /\ Write(aadd_user([db EXCEPT !.org[o] = "live", !.open[o] = TRUE], FreeSeat(db), u, o))
  /\ Keep

\* Reads the row; SaveOrganization writes every column of it.
update_organization(u, o) ==
  /\ Request /\ req = Idle /\ o \in get_organizations_queryset(db, u) /\ AtLeast(db, u, o, MANAGER)
  /\ req' = [op |-> "org", id |-> o, open |-> db.open[o]]
  /\ UNCHANGED <<db, tasks, bootFiles, invites>>
Save(d) == Write(d) /\ req' = Idle /\ UNCHANGED <<tasks, bootFiles, invites, steps>>
SaveOrganization ==
  req.op = "org" /\ Save([db EXCEPT !.org[req.id] = "live", !.open[req.id] = req.open])

\* Marks the row and enqueues the task.
delete_organization(u, o) ==
  /\ Request /\ o \in get_organizations_queryset(db, u) /\ AtLeast(db, u, o, MANAGER)
  /\ Write([db EXCEPT !.org[o] = "deleted"])
  /\ tasks' = tasks \cup {o} /\ UNCHANGED <<req, bootFiles, invites>>
RunDeleteOrganization(o) ==
  /\ o \in tasks /\ tasks' = tasks \ {o}
  /\ Write(IF db.org[o] = "absent" THEN db ELSE DropOrg(db, o))
  /\ UNCHANGED <<req, bootFiles, invites, steps>>

\* Members and invitations --------------------------------------------------------
\* An invitation is a seat with an address; u's address is named by the user.
create_organization_member(u, o, mail, role, t, reinvite) ==
  LET same == { s \in SeatsOf(db, o) : db.seat[s].mail = mail }
      s == IF same # {} THEN CHOOSE x \in same : TRUE ELSE FreeSeat(db) IN
  /\ Request /\ o \in get_organizations_queryset(db, u) /\ AtLeast(db, u, o, MANAGER)
  /\ CreationOpen \/ mail \in db.user
  /\ Role(db, mail, o) = None /\ invites[u] < InviteLimit
  /\ invites' = [invites EXCEPT ![u] = @ + 1]
  /\ same = {} => HasRoom(db)
  /\ LET made == IF same = {} THEN SaveSeat(db, s, Seat(o, None, mail, role)) ELSE db IN
     Write(IF same # {} /\ ~reinvite THEN db
           ELSE IF t \in TeamsOf(db, o) THEN [made EXCEPT !.team[t].members = @ \cup {s}] ELSE made)
  /\ UNCHANGED <<req, tasks, bootFiles>>

\* Refused only to an owner who names himself.
delete_organization_member(u, s) ==
  /\ Request /\ s \in Taken(db)
  /\ LET o == db.seat[s].org IN
     /\ ~(db.owner[o] = s /\ db.seat[s].user = u)
     /\ s \in get_organization_users_queryset(db, u, o)
     /\ AtLeast(db, u, o, MANAGER) \/ db.seat[s].user = u
  /\ Write(DropSeats(db, {s})) /\ Keep

\* The other owners are looked up; SaveMember writes the row read before.
update_organization_member(u, s, role) ==
  /\ Request /\ req = Idle /\ s \in Taken(db)
  /\ s \in get_organization_users_queryset(db, u, db.seat[s].org)
  /\ AtLeast(db, u, db.seat[s].org, MANAGER)
  /\ role = OWNER \/ \E r \in SeatsOf(db, db.seat[s].org) \ {s} : db.seat[r].role = OWNER
  /\ req' = [op |-> "seat", id |-> s, row |-> [db.seat[s] EXCEPT !.role = role]]
  /\ UNCHANGED <<db, tasks, bootFiles, invites>>
SaveMember ==
  /\ req.op = "seat"
  /\ Save(IF Fits(db, req.id, req.row) THEN SaveSeat(db, req.id, req.row) ELSE db)

\* Raises when the organization has lost its owner row.
set_organization_owner(u, s) ==
  /\ Request /\ s \in Taken(db)
  /\ LET o == db.seat[s].org IN
     /\ s \in get_organization_users_queryset(db, u, o) /\ db.owner[o] # None
     /\ db.seat[db.owner[o]].user = u \/ Role(db, u, o) = OWNER
     /\ Write([db EXCEPT !.owner[o] = s])
  /\ Keep

\* The token names the seat; SaveMember writes the row read with it.
accept_invite(u, s) ==
  /\ Request /\ req = Idle /\ u \in db.user /\ s \in Taken(db) /\ db.seat[s].invited
  /\ req' = [op |-> "seat", id |-> s, row |-> [db.seat[s] EXCEPT !.user = u, !.mail = None]]
  /\ UNCHANGED <<db, tasks, bootFiles, invites>>

\* Matches a user who has a seat without an owner row, or none at all.
delete_user(u) ==
  LET own == { s \in Taken(db) : db.seat[s].user = u }
      IsOwner(s) == db.owner[db.seat[s].org] = s IN
  /\ Request /\ u \in db.user
  /\ own = {} \/ \E s \in own : ~IsOwner(s)
  /\ Write(DropUser(db, u)) /\ Keep

\* Login through the organization's social app.
add_user_to_socialapp_organization(u) ==
  /\ Request /\ SsoOnly /\ u \in db.user /\ db.org[Home] # "absent" /\ HasRoom(db)
  /\ Role(db, u, Home) = None
  /\ LET linked == [db EXCEPT !.social = @ \cup {u}] IN
     Write(aadd_user(linked, FreeSeat(db), u, Home))
  /\ Keep

\* One transaction: the operator's account, the organization (undeleted), its
\* owner, the team, the projects and their first keys.  A conflict further on
\* undoes everything but the DSN files already written; the status file follows
\* the commit.
reconcile ==
  LET own == { s \in SeatsOf(db, Home) : db.seat[s].user = Operator }
      s == IF own # {} THEN CHOOSE x \in own : TRUE ELSE FreeSeat(db)
      joined == SaveSeat([db EXCEPT !.user = @ \cup {Operator}, !.social = @ \cup {Operator},
                                    !.org[Home] = "live", !.open[Home] = FALSE],
                         s, Seat(Home, Operator, None, OWNER))
      old == IF Empty(joined.team[OperatorTeam]) THEN Team(Home, {}) ELSE joined.team[OperatorTeam]
      team == [old EXCEPT !.members = @ \cup {s}, !.projects = @ \cup {GovernedProject}]
      keys == { k \in Keys : db.key[k] = GovernedProject }
      first == IF keys = {} \/ GovernedKey \in keys THEN GovernedKey ELSE CHOOSE k \in keys : TRUE
      done == [joined EXCEPT
                 !.owner[Home] = s,
                 !.team[OperatorTeam] = team,
                 !.project[GovernedProject] = IF Empty(@) THEN Project(Home) ELSE @,
                 !.key = [k \in Keys |-> CASE k = GovernedKey -> GovernedProject
                                           [] k = first /\ k # GovernedKey -> None
                                           [] OTHER -> @[k]]] IN
  /\ Request /\ SsoOnly /\ (own # {} \/ HasRoom(db))
  /\ \/ db.key[GovernedKey] \in {None, GovernedProject}
        /\ Write(done) /\ bootFiles' = [dsn |-> GovernedKey, status |-> TRUE]
     \/ Write(db) /\ bootFiles' = [bootFiles EXCEPT !.dsn = GovernedKey]
  /\ UNCHANGED <<req, tasks, invites>>
--------------------------------------------------------------------------------
\* Teams ----------------------------------------------------------------------------
create_team(u, o, t) ==
  /\ Request /\ AtLeast(db, u, o, ADMIN) /\ Empty(db.team[t]) /\ t \notin Held /\ (t = OperatorTeam => o = Home)
  /\ Write([db EXCEPT !.team[t] = Team(o, { s \in SeatsOf(db, o) : db.seat[s].user = u })])
  /\ Keep

\* SaveTeam writes the row again, without links if it was deleted meanwhile.
update_team(u, t) ==
  /\ Request /\ req = Idle /\ t \in Teams /\ ~Empty(db.team[t])
  /\ t \in get_team_queryset(db, u, db.team[t].org)
  /\ req' = [op |-> "team", id |-> t, org |-> db.team[t].org]
  /\ UNCHANGED <<db, tasks, bootFiles, invites>>
SaveTeam ==
  /\ req.op = "team"
  /\ Save(IF db.org[req.org] # "absent" /\ Empty(db.team[req.id])
          THEN [db EXCEPT !.team[req.id] = Team(req.org, {})] ELSE db)

delete_team(u, t) ==
  /\ Request /\ ~Empty(db.team[t]) /\ AtLeast(db, u, db.team[t].org, ADMIN)
  /\ Write([db EXCEPT !.team[t] = None]) /\ Keep

AnyMemberForTeam(u, s, t, add) ==
  /\ Request /\ ~Empty(db.team[t]) /\ s \in Taken(db)
  /\ t \in get_team_queryset(db, u, db.team[t].org) /\ AtLeast(db, u, db.team[t].org, MANAGER)
  /\ Write([db EXCEPT !.team[t].members = IF add THEN @ \cup {s} ELSE @ \ {s}]) /\ Keep
\* Oneself in an open organization, else an admin of the team or a manager.
modify_member_for_team(u, s, t, add) ==
  /\ Request /\ ~Empty(db.team[t]) /\ s \in Taken(db)
  /\ LET o == db.team[t].org
         inTeam == \E r \in db.team[t].members : db.seat[r].user = u IN
     /\ t \in get_team_queryset(db, u, o) /\ s \in SeatsOf(db, o)
     /\ \/ db.open[o] /\ db.seat[s].user = u
        \/ AtLeast(db, u, o, IF inTeam THEN ADMIN ELSE MANAGER)
  /\ Write([db EXCEPT !.team[t].members = IF add THEN @ \cup {s} ELSE @ \ {s}])
  /\ Keep

\* Team and project are both looked up by the organization's slug.
add_team_to_project(u, t, p) ==
  /\ Request /\ ~Empty(db.team[t]) /\ ~Empty(db.project[p])
  /\ db.team[t].org = db.project[p].org /\ AtLeast(db, u, db.project[p].org, MANAGER)
  /\ Write([db EXCEPT !.team[t].projects = @ \cup {p}]) /\ Keep
delete_team_from_project(u, t, p) ==
  /\ Request /\ ~Empty(db.team[t]) /\ p \in db.team[t].projects
  /\ AtLeast(db, u, db.project[p].org, MANAGER)
  /\ Write([db EXCEPT !.team[t].projects = @ \ {p}]) /\ Keep
--------------------------------------------------------------------------------
\* Projects and keys -----------------------------------------------------------------
\* The new project gets a key and the team.
create_project(u, t, p, k) ==
  /\ Request /\ ~Empty(db.team[t]) /\ Empty(db.project[p]) /\ p \notin Held /\ Empty(db.key[k]) /\ k # GovernedKey
  /\ LET o == db.team[t].org IN
     /\ AtLeast(db, u, o, ADMIN) /\ (p = GovernedProject => o = Home)
     /\ Write([db EXCEPT !.project[p] = Project(o), !.key[k] = p, !.team[t].projects = @ \cup {p}])
  /\ Keep

update_project(u, p) ==
  /\ Request /\ req = Idle /\ p \in get_projects_queryset(db, u)
  /\ req' = [op |-> "project", id |-> p, org |-> db.project[p].org]
  /\ UNCHANGED <<db, tasks, bootFiles, invites>>
SaveProject ==
  /\ req.op = "project"
  /\ Save(IF db.org[req.org] # "absent" THEN [db EXCEPT !.project[req.id] = Project(req.org)] ELSE db)

delete_project(u, p) ==
  /\ Request /\ p \in get_projects_queryset(db, u) /\ AtLeast(db, u, db.project[p].org, ADMIN)
  /\ Write([db EXCEPT !.project[p].st = "deleted"])
  /\ tasks' = tasks \cup {p} /\ UNCHANGED <<req, bootFiles, invites>>
RunDeleteProject(p) ==
  /\ p \in tasks /\ tasks' = tasks \ {p}
  /\ Write(IF Empty(db.project[p]) THEN db ELSE DropProjects(db, {p}))
  /\ UNCHANGED <<req, bootFiles, invites, steps>>

create_project_key(u, p, k) ==
  /\ Request /\ p \in get_projects_queryset(db, u) /\ Empty(db.key[k]) /\ k # GovernedKey
  /\ Write([db EXCEPT !.key[k] = p]) /\ Keep
delete_project_key(u, k) ==
  /\ Request /\ k \in get_project_keys_queryset(db, u)
  /\ AtLeast(db, u, db.project[db.key[k]].org, ADMIN)
  /\ Write([db EXCEPT !.key[k] = None]) /\ Keep

\* Any project id is accepted.
update_user_notification_alerts(u, p, status) ==
  /\ Request /\ u \in db.user /\ ~Empty(db.project[p]) /\ db.alert[<<u, p>>] # status
  /\ Write([db EXCEPT !.alert[<<u, p>>] = status]) /\ Keep
update_notifications(u) ==
  /\ Request /\ u \in db.user
  /\ \E on \in {db.subscribed \cup {u}, db.subscribed \ {u}} :
       on # db.subscribed /\ Write([db EXCEPT !.subscribed = on])
  /\ Keep
--------------------------------------------------------------------------------
PeopleNext ==
  \/ \E u \in Users, o \in Orgs : create_organization(u, o) \/ update_organization(u, o) \/ delete_organization(u, o)
  \/ \E o \in Orgs : RunDeleteOrganization(o)
  \/ \E u, mail \in Users, o \in Orgs, role \in {MEMBER, OWNER}, t \in Teams, again \in BOOLEAN :
       create_organization_member(u, o, mail, role, t, again)
  \/ \E u \in Users, s \in Seats :
       \/ delete_organization_member(u, s) \/ set_organization_owner(u, s) \/ accept_invite(u, s)
       \/ \E role \in {MEMBER, ADMIN, OWNER} : update_organization_member(u, s, role)
  \/ SaveOrganization \/ SaveMember \/ reconcile
  \/ \E u \in Users : delete_user(u) \/ add_user_to_socialapp_organization(u)
TeamNext ==
  \/ \E u \in Users, o \in Orgs, t \in Teams : create_team(u, o, t)
  \/ \E u \in Users, t \in Teams :
       \/ update_team(u, t) \/ delete_team(u, t)
       \/ \E s \in Seats, add \in BOOLEAN : modify_member_for_team(u, s, t, add)
       \/ \E p \in Projects : \/ add_team_to_project(u, t, p) \/ delete_team_from_project(u, t, p)
                               \/ \E k \in Keys : create_project(u, t, p, k)
  \/ \E u \in Users, p \in Projects :
       \/ update_project(u, p) \/ delete_project(u, p)
       \/ \E k \in Keys : create_project_key(u, p, k)
       \/ \E status \in {"default", "on", "off"} : update_user_notification_alerts(u, p, status)
  \/ \E u \in Users : update_notifications(u) \/ \E k \in Keys : delete_project_key(u, k)
  \/ \E p \in Projects : RunDeleteProject(p)
  \/ SaveTeam \/ SaveProject
MemberNext == PeopleNext \/ TeamNext
MemberSpec == MemberInit /\ [][MemberNext]_memberVars
--------------------------------------------------------------------------------
\* The tables, and what foreign keys and handlers keep true of them: the runs
\* start from such tables.
SeatRow == [org : Orgs, user : Users \cup {None}, mail : Users \cup {None},
            role : MEMBER..OWNER, invited : BOOLEAN]
TeamRow == [org : Orgs, members : SUBSET Seats, projects : SUBSET Projects]
ProjectRow == [org : Orgs, st : {"live", "deleted"}]
Tables ==
  [sso : BOOLEAN, org : [Orgs -> {"absent", "live", "deleted"}], open : [Orgs -> BOOLEAN],
   seat : [Seats -> SeatRow \cup {None}], owner : [Orgs -> Seats \cup {None}],
   team : [Teams -> TeamRow \cup {None}], project : [Projects -> ProjectRow \cup {None}],
   key : [Keys -> Projects \cup {None}], user : SUBSET Users, social : SUBSET Users,
   subscribed : SUBSET Users, alert : [Users \X Projects -> {"default", "on", "off"}]]
TeamHome(d, t, row) ==
  /\ d.org[row.org] # "absent" /\ (t = OperatorTeam => row.org = Home)
  /\ \A s \in row.members : d.seat[s] # None /\ d.seat[s].org = row.org
  /\ \A p \in row.projects : d.project[p] # None /\ d.project[p].org = row.org
TeamsHome(d) == \A t \in Teams : d.team[t] # None => TeamHome(d, t, d.team[t])
OwnersHome(d) == \A o \in Orgs :
  d.owner[o] # None => d.seat[d.owner[o]] # None /\ d.seat[d.owner[o]].org = o
KeysHome(d) == \A k \in Keys : d.key[k] # None => d.project[d.key[k]] # None
SeatsHome(d) == \A s \in Seats : d.seat[s] # None => d.org[d.seat[s].org] # "absent"
ProjectsHome(d) == \A p \in Projects : d.project[p] # None =>
  d.org[d.project[p].org] # "absent" /\ (p = GovernedProject => d.project[p].org = Home)
Consistent(d) ==
  d \in Tables /\ TeamsHome(d) /\ OwnersHome(d) /\ KeysHome(d) /\ SeatsHome(d) /\ ProjectsHome(d)

ASSUME MemberAssumption ==
  /\ Home \in Orgs /\ OperatorTeam \in Teams /\ Operator \in Users
  /\ GovernedProject \in Projects /\ GovernedKey \in Keys
  /\ None \notin Users \cup Seats \cup Projects \cup (MEMBER..OWNER)
  /\ None \notin SeatRow \cup TeamRow \cup ProjectRow
  /\ \A d \in Openings : Consistent(d)
--------------------------------------------------------------------------------
\* Whatever requests race and whichever rows come back after their deletion,
\* links never leave an organization: team members and team projects belong to
\* the team's organization, the owner row names one of its members, a key has a
\* project, and alerts go to members of the project's organization only.
LinksStayHome ==
  /\ \A t \in Teams : db.team[t] # None =>
       /\ db.org[db.team[t].org] # "absent"
       /\ db.team[t].members \subseteq SeatsOf(db, db.team[t].org)
       /\ db.team[t].projects \subseteq ProjectsOf(db, db.team[t].org)
  /\ \A o \in Orgs : db.owner[o] # None => db.owner[o] \in SeatsOf(db, o)
  /\ \A k \in Keys : db.key[k] # None => db.project[db.key[k]] # None
  /\ \A p \in Projects : db.project[p] # None =>
       \A u \in Recipients(db, p) : Role(db, u, db.project[p].org) # None
================================================================================
