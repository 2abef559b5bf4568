----------------------------- MODULE AccessProofs -----------------------------
(***************************************************************************)
(* Proofs of LinksStayHome, for any number of organizations, members,      *)
(* teams and projects, and of CredentialsHold, for any number of requests  *)
(* at a time, token pairs, previews and addresses.  And that an alert ends *)
(* up with the recipients asked for, for any recipients and requests.      *)
(***************************************************************************)
EXTENDS Membership, Credentials, AlertDelivery, TLAPS

\* A team without some members and projects.
LEMMA WithoutRow ==
  ASSUME NEW r \in TeamRow, NEW seats, NEW projects
  PROVE  LET q == Without(r, seats, projects) IN
         /\ q \in TeamRow /\ q.org = r.org /\ q.members = r.members \ seats /\ q.projects = r.projects \ projects
BY DEF TeamRow, Without

\* Seats go: with them the owner rows and the memberships that name them.
LEMMA DropSeatsRows ==
  ASSUME NEW d, Consistent(d), NEW gone \in SUBSET Seats, NEW e, e = DropSeats(d, gone)
  PROVE  /\ e \in Tables
         /\ \A s \in Seats : e.seat[s] = IF s \in gone THEN None ELSE d.seat[s]
         /\ \A o \in Orgs : e.owner[o] = IF d.owner[o] \in gone THEN None ELSE d.owner[o]
         /\ \A t \in Teams : /\ e.team[t] = None <=> d.team[t] = None
                             /\ d.team[t] # None => /\ e.team[t].org = d.team[t].org
                                                    /\ e.team[t].members = d.team[t].members \ gone
                                                    /\ e.team[t].projects = d.team[t].projects
         /\ e.sso = d.sso /\ e.org = d.org /\ e.open = d.open /\ e.project = d.project /\ e.key = d.key
         /\ e.user = d.user /\ e.social = d.social /\ e.subscribed = d.subscribed /\ e.alert = d.alert
<1>1. d \in Tables
  BY DEF Consistent
<1>2. /\ e.sso = d.sso /\ e.org = d.org /\ e.open = d.open /\ e.project = d.project /\ e.key = d.key
      /\ e.user = d.user /\ e.social = d.social /\ e.subscribed = d.subscribed /\ e.alert = d.alert
  BY <1>1 DEF Tables, DropSeats
<1>a. e.seat = [s \in Seats |-> IF s \in gone THEN None ELSE d.seat[s]]
  BY <1>1 DEF Tables, DropSeats
<1>b. e.owner = [o \in Orgs |-> IF d.owner[o] \in gone THEN None ELSE d.owner[o]]
  BY <1>1 DEF Tables, DropSeats
<1>c. e.team = [t \in Teams |-> IF d.team[t] = None THEN None ELSE Without(d.team[t], gone, {})]
  BY <1>1 DEF Tables, DropSeats
<1>d. DOMAIN e = DOMAIN d
  BY <1>1 DEF Tables, DropSeats
<1>3. \A t \in Teams : d.team[t] # None => d.team[t] \in TeamRow
  BY <1>1 DEF Tables
<1>4. \A t \in Teams :
        /\ d.team[t] = None => e.team[t] = None
        /\ d.team[t] # None => /\ e.team[t] \in TeamRow /\ e.team[t].org = d.team[t].org
                               /\ e.team[t].members = d.team[t].members \ gone
                               /\ e.team[t].projects = d.team[t].projects
  <2> SUFFICES ASSUME NEW t \in Teams, d.team[t] # None
               PROVE  /\ e.team[t] \in TeamRow /\ e.team[t].org = d.team[t].org
                      /\ e.team[t].members = d.team[t].members \ gone
                      /\ e.team[t].projects = d.team[t].projects
    BY <1>c
  <2>1. e.team[t] = Without(d.team[t], gone, {})
    BY <1>c
  <2>2. PICK r \in TeamRow : r = d.team[t]
    BY <1>3
  <2>3. PICK none : none = {}
    OBVIOUS
  <2>4. LET q == Without(r, gone, none) IN
         /\ q \in TeamRow /\ q.org = r.org /\ q.members = r.members \ gone /\ q.projects = r.projects \ none
    BY WithoutRow
  <2>5. r.projects \ none = r.projects
    BY <2>3
  <2> QED
    BY <2>1, <2>2, <2>3, <2>4, <2>5
<1>5. None \notin TeamRow
  BY MemberAssumption
<1>6. e.team \in [Teams -> TeamRow \cup {None}]
  <2>1. \A t \in Teams : e.team[t] \in TeamRow \cup {None}
    BY <1>4
  <2> QED
    BY <1>c, <2>1
<1>7. e.seat \in [Seats -> SeatRow \cup {None}] /\ e.owner \in [Orgs -> Seats \cup {None}]
  BY <1>1, <1>a, <1>b DEF Tables
<1>8. e \in Tables
  BY <1>1, <1>2, <1>6, <1>7 DEF Tables, DropSeats
<1> QED
  BY <1>2, <1>a, <1>b, <1>4, <1>5, <1>8

\* The tables stay consistent, and no row moves.
LEMMA DropSeatsOK ==
  ASSUME NEW d, Consistent(d), NEW gone \in SUBSET Seats, NEW e, e = DropSeats(d, gone)
  PROVE  Consistent(e)
<1>0. /\ d \in Tables /\ TeamsHome(d) /\ OwnersHome(d) /\ KeysHome(d) /\ SeatsHome(d) /\ ProjectsHome(d)
  BY DEF Consistent
<1>1. e \in Tables
  BY DropSeatsRows
<1>a. \A s \in Seats : e.seat[s] = IF s \in gone THEN None ELSE d.seat[s]
  BY DropSeatsRows
<1>b. \A o \in Orgs : e.owner[o] = IF d.owner[o] \in gone THEN None ELSE d.owner[o]
  BY DropSeatsRows
<1>c. \A t \in Teams : /\ e.team[t] = None <=> d.team[t] = None
                       /\ d.team[t] # None => /\ e.team[t].org = d.team[t].org
                                              /\ e.team[t].members = d.team[t].members \ gone
                                              /\ e.team[t].projects = d.team[t].projects
  BY DropSeatsRows
<1>d. e.org = d.org /\ e.project = d.project /\ e.key = d.key
  BY DropSeatsRows
<1>2. TeamsHome(e)
  <2> SUFFICES ASSUME NEW t \in Teams, d.team[t] # None
               PROVE  TeamHome(e, t, e.team[t])
    BY <1>c DEF TeamsHome
  <2>1. d.team[t].members \subseteq Seats
    BY <1>0 DEF Tables, TeamRow
  <2> QED
    BY <1>0, <1>a, <1>c, <1>d, <2>1 DEF TeamsHome, TeamHome
<1>3. OwnersHome(e)
  <2>1. \A o \in Orgs : d.owner[o] # None => d.owner[o] \in Seats
    BY <1>0 DEF Tables
  <2> QED
    BY <1>0, <1>a, <1>b, <2>1 DEF OwnersHome
<1>4. KeysHome(e) /\ SeatsHome(e) /\ ProjectsHome(e)
  BY <1>0, <1>a, <1>d DEF KeysHome, SeatsHome, ProjectsHome
<1> QED
  BY <1>1, <1>2, <1>3, <1>4 DEF Consistent

\* Projects go: with them their keys and the links of teams to them.
LEMMA DropProjectsRows ==
  ASSUME NEW d, Consistent(d), NEW gone \in SUBSET Projects, NEW e, e = DropProjects(d, gone)
  PROVE  /\ e \in Tables
         /\ \A p \in Projects : e.project[p] = IF p \in gone THEN None ELSE d.project[p]
         /\ \A k \in Keys : e.key[k] = IF d.key[k] \in gone THEN None ELSE d.key[k]
         /\ \A t \in Teams : /\ e.team[t] = None <=> d.team[t] = None
                             /\ d.team[t] # None => /\ e.team[t].org = d.team[t].org
                                                    /\ e.team[t].members = d.team[t].members
                                                    /\ e.team[t].projects = d.team[t].projects \ gone
         /\ e.org = d.org /\ e.seat = d.seat /\ e.owner = d.owner
<1>1. d \in Tables
  BY DEF Consistent
<1>2. /\ e.sso = d.sso /\ e.org = d.org /\ e.open = d.open /\ e.seat = d.seat /\ e.owner = d.owner
      /\ e.user = d.user /\ e.social = d.social /\ e.subscribed = d.subscribed
  BY <1>1 DEF Tables, DropProjects
<1>a. e.project = [p \in Projects |-> IF p \in gone THEN None ELSE d.project[p]]
  BY <1>1 DEF Tables, DropProjects
<1>b. e.key = [k \in Keys |-> IF d.key[k] \in gone THEN None ELSE d.key[k]]
  BY <1>1 DEF Tables, DropProjects
<1>c. e.team = [t \in Teams |-> IF d.team[t] = None THEN None ELSE Without(d.team[t], {}, gone)]
  BY <1>1 DEF Tables, DropProjects
<1>d. e.alert = [a \in Users \X Projects |-> IF a[2] \in gone THEN "default" ELSE d.alert[a]]
  BY <1>1 DEF Tables, DropProjects
<1>3. \A t \in Teams : d.team[t] # None => d.team[t] \in TeamRow
  BY <1>1 DEF Tables
<1>4. \A t \in Teams :
        /\ d.team[t] = None => e.team[t] = None
        /\ d.team[t] # None => /\ e.team[t] \in TeamRow /\ e.team[t].org = d.team[t].org
                               /\ e.team[t].members = d.team[t].members
                               /\ e.team[t].projects = d.team[t].projects \ gone
  <2> SUFFICES ASSUME NEW t \in Teams, d.team[t] # None
               PROVE  /\ e.team[t] \in TeamRow /\ e.team[t].org = d.team[t].org
                      /\ e.team[t].members = d.team[t].members
                      /\ e.team[t].projects = d.team[t].projects \ gone
    BY <1>c
  <2>1. e.team[t] = Without(d.team[t], {}, gone)
    BY <1>c
  <2>2. PICK r \in TeamRow : r = d.team[t]
    BY <1>3
  <2>3. PICK none : none = {}
    OBVIOUS
  <2>4. LET q == Without(r, none, gone) IN
         /\ q \in TeamRow /\ q.org = r.org /\ q.members = r.members \ none /\ q.projects = r.projects \ gone
    BY WithoutRow
  <2>5. r.members \ none = r.members
    BY <2>3
  <2> QED
    BY <2>1, <2>2, <2>3, <2>4, <2>5
<1>5. None \notin TeamRow
  BY MemberAssumption
<1>6. e.team \in [Teams -> TeamRow \cup {None}]
  <2>1. \A t \in Teams : e.team[t] \in TeamRow \cup {None}
    BY <1>4
  <2> QED
    BY <1>c, <2>1
<1>7. e.project \in [Projects -> ProjectRow \cup {None}] /\ e.key \in [Keys -> Projects \cup {None}]
  BY <1>1, <1>a, <1>b DEF Tables
<1>8. e.alert \in [Users \X Projects -> {"default", "on", "off"}]
  BY <1>1, <1>d DEF Tables
<1>9. e \in Tables
  BY <1>1, <1>2, <1>6, <1>7, <1>8 DEF Tables, DropProjects
<1> QED
  BY <1>2, <1>a, <1>b, <1>4, <1>5, <1>9

\* The tables stay consistent.
LEMMA DropProjectsOK ==
  ASSUME NEW d, Consistent(d), NEW gone \in SUBSET Projects, NEW e, e = DropProjects(d, gone)
  PROVE  Consistent(e)
<1>0. /\ d \in Tables /\ TeamsHome(d) /\ OwnersHome(d) /\ KeysHome(d) /\ SeatsHome(d) /\ ProjectsHome(d)
  BY DEF Consistent
<1>1. e \in Tables
  BY DropProjectsRows
<1>a. \A p \in Projects : e.project[p] = IF p \in gone THEN None ELSE d.project[p]
  BY DropProjectsRows
<1>b. \A k \in Keys : e.key[k] = IF d.key[k] \in gone THEN None ELSE d.key[k]
  BY DropProjectsRows
<1>c. \A t \in Teams : /\ e.team[t] = None <=> d.team[t] = None
                       /\ d.team[t] # None => /\ e.team[t].org = d.team[t].org
                                              /\ e.team[t].members = d.team[t].members
                                              /\ e.team[t].projects = d.team[t].projects \ gone
  BY DropProjectsRows
<1>d. e.org = d.org /\ e.seat = d.seat /\ e.owner = d.owner
  BY DropProjectsRows
<1>2. TeamsHome(e)
  <2> SUFFICES ASSUME NEW t \in Teams, d.team[t] # None
               PROVE  TeamHome(e, t, e.team[t])
    BY <1>c DEF TeamsHome
  <2>1. d.team[t].projects \subseteq Projects
    BY <1>0 DEF Tables, TeamRow
  <2> QED
    BY <1>0, <1>a, <1>c, <1>d, <2>1 DEF TeamsHome, TeamHome
<1>3. KeysHome(e)
  <2>1. \A k \in Keys : d.key[k] # None => d.key[k] \in Projects
    BY <1>0 DEF Tables
  <2> QED
    BY <1>0, <1>a, <1>b, <2>1 DEF KeysHome
<1>4. OwnersHome(e) /\ SeatsHome(e) /\ ProjectsHome(e)
  BY <1>0, <1>a, <1>d DEF OwnersHome, SeatsHome, ProjectsHome
<1> QED
  BY <1>1, <1>2, <1>3, <1>4 DEF Consistent

\* An organization goes, after its seats and projects, with its teams.
LEMMA DropOrgOK ==
  ASSUME NEW d, Consistent(d), NEW o \in Orgs, NEW e, e = DropOrg(d, o)
  PROVE  /\ Consistent(e)
         /\ \A s \in Seats : e.seat[s] # None => e.seat[s] = d.seat[s]
         /\ \A p \in Projects : e.project[p] # None => e.project[p] = d.project[p]
<1> DEFINE seats == SeatsOf(d, o)  projects == ProjectsOf(d, o)  gone == TeamsOf(d, o)
<1>1. PICK b : b = DropSeats(d, seats)
  OBVIOUS
<1>2. PICK c : c = DropProjects(b, projects)
  OBVIOUS
<1>3. seats \in SUBSET Seats /\ projects \in SUBSET Projects
  BY DEF SeatsOf, Taken, ProjectsOf
<1>4. e = [c EXCEPT !.org[o] = "absent", !.team = [t \in Teams |-> IF t \in gone THEN None ELSE @[t]]]
  BY <1>1, <1>2 DEF DropOrg
<1>a. \A s \in Seats : s \in seats <=> d.seat[s] # None /\ d.seat[s].org = o
  BY DEF SeatsOf, Taken
<1>b. \A p \in Projects : p \in projects <=> d.project[p] # None /\ d.project[p].org = o
  BY DEF ProjectsOf
<1>c. \A t \in Teams : t \in gone <=> d.team[t] # None /\ d.team[t].org = o
  BY DEF TeamsOf
<1> HIDE DEF seats, projects, gone
<1>5. Consistent(b) /\ b.project = d.project /\ b.org = d.org
      /\ \A s \in Seats : b.seat[s] = IF s \in seats THEN None ELSE d.seat[s]
  BY <1>1, <1>3, DropSeatsOK, DropSeatsRows
<1>6. Consistent(c) /\ c.org = b.org /\ c.seat = b.seat
      /\ \A p \in Projects : c.project[p] = IF p \in projects THEN None ELSE b.project[p]
  BY <1>2, <1>3, <1>5, DropProjectsOK, DropProjectsRows
<1>7. \A t \in Teams : c.team[t] # None => d.team[t] # None /\ c.team[t].org = d.team[t].org
  <2>1. \A t \in Teams : /\ b.team[t] = None <=> d.team[t] = None
                         /\ d.team[t] # None => b.team[t].org = d.team[t].org
    BY <1>1, <1>3, DropSeatsRows
  <2>2. \A t \in Teams : /\ c.team[t] = None <=> b.team[t] = None
                         /\ b.team[t] # None => c.team[t].org = b.team[t].org
    BY <1>2, <1>3, <1>5, DropProjectsRows
  <2> QED
    BY <2>1, <2>2
<1>8. c \in Tables
  BY <1>6 DEF Consistent
<1>9. /\ e.org = [c.org EXCEPT ![o] = "absent"] /\ e.seat = c.seat /\ e.owner = c.owner /\ e.project = c.project
      /\ e.key = c.key
  BY <1>4, <1>8 DEF Tables
<1>10. e.team = [t \in Teams |-> IF t \in gone THEN None ELSE c.team[t]]
  BY <1>4, <1>8 DEF Tables
<1>11. e \in Tables
  <2>1. e.org \in [Orgs -> {"absent", "live", "deleted"}]
    BY <1>8, <1>9 DEF Tables
  <2>2. e.team \in [Teams -> TeamRow \cup {None}]
    BY <1>8, <1>10 DEF Tables
  <2> QED
    BY <1>4, <1>8, <2>1, <2>2 DEF Tables
<1>12. /\ \A q \in Orgs : q # o => e.org[q] = c.org[q]
       /\ \A s \in Seats : c.seat[s] # None => c.seat[s] \in SeatRow /\ c.seat[s].org # o
       /\ \A p \in Projects : c.project[p] # None => c.project[p] \in ProjectRow /\ c.project[p].org # o
       /\ \A t \in Teams : e.team[t] # None => e.team[t] = c.team[t] /\ c.team[t] \in TeamRow /\ c.team[t].org # o
  <2>1. \A q \in Orgs : q # o => e.org[q] = c.org[q]
    BY <1>8, <1>9 DEF Tables
  <2>2. \A s \in Seats : c.seat[s] # None => c.seat[s] \in SeatRow /\ c.seat[s].org # o
    BY <1>5, <1>6, <1>8, <1>a DEF Tables
  <2>3. \A p \in Projects : c.project[p] # None => c.project[p] \in ProjectRow /\ c.project[p].org # o
    BY <1>5, <1>6, <1>8, <1>b DEF Tables
  <2>4. \A t \in Teams : e.team[t] # None => e.team[t] = c.team[t] /\ c.team[t] \in TeamRow /\ c.team[t].org # o
    BY <1>7, <1>8, <1>10, <1>c DEF Tables
  <2> QED
    BY <2>1, <2>2, <2>3, <2>4
<1>13. /\ \A s \in Seats : c.seat[s] # None => c.seat[s].org \in Orgs
       /\ \A p \in Projects : c.project[p] # None => c.project[p].org \in Orgs
       /\ \A t \in Teams : e.team[t] # None => c.team[t].org \in Orgs
  BY <1>12 DEF SeatRow, ProjectRow, TeamRow
<1>14. TeamsHome(e)
  BY <1>6, <1>9, <1>12, <1>13 DEF Consistent, TeamsHome, TeamHome
<1>15. OwnersHome(e) /\ KeysHome(e)
  BY <1>6, <1>9 DEF Consistent, OwnersHome, KeysHome
<1>16. SeatsHome(e) /\ ProjectsHome(e)
  BY <1>6, <1>9, <1>12, <1>13 DEF Consistent, SeatsHome, ProjectsHome
<1>17. Consistent(e)
  BY <1>11, <1>14, <1>15, <1>16 DEF Consistent
<1> QED
  BY <1>5, <1>6, <1>9, <1>17

\* A user goes, with every seat of theirs.
LEMMA DropUserOK ==
  ASSUME NEW d, Consistent(d), NEW u \in Users, NEW e, e = DropUser(d, u)
  PROVE  /\ Consistent(e)
         /\ \A s \in Seats : e.seat[s] # None => e.seat[s] = d.seat[s]
         /\ e.project = d.project
<1>1. PICK own : own = { s \in Taken(d) : d.seat[s].user = u }
  OBVIOUS
<1>2. PICK b : b = DropSeats(d, own)
  OBVIOUS
<1>3. own \in SUBSET Seats
  BY <1>1 DEF Taken
<1>4. e = [b EXCEPT !.user = @ \ {u}, !.social = @ \ {u},
             !.alert = [a \in Users \X Projects |-> IF a[1] = u THEN "default" ELSE @[a]]]
  BY <1>1, <1>2 DEF DropUser
<1>5. /\ Consistent(b) /\ b.project = d.project
      /\ \A s \in Seats : b.seat[s] = IF s \in own THEN None ELSE d.seat[s]
  BY <1>2, <1>3, DropSeatsOK, DropSeatsRows
<1>6. b \in Tables
  BY <1>5 DEF Consistent
<1>7. /\ e.org = b.org /\ e.seat = b.seat /\ e.owner = b.owner /\ e.team = b.team /\ e.project = b.project
      /\ e.key = b.key
  BY <1>4, <1>6 DEF Tables
<1>8. e.alert = [a \in Users \X Projects |-> IF a[1] = u THEN "default" ELSE b.alert[a]]
  BY <1>4, <1>6 DEF Tables
<1>9. e.alert \in [Users \X Projects -> {"default", "on", "off"}]
  BY <1>6, <1>8 DEF Tables
<1>a. e.user \subseteq Users /\ e.social \subseteq Users /\ DOMAIN e = DOMAIN b
  BY <1>4, <1>6 DEF Tables
<1>10. e \in Tables
  BY <1>4, <1>6, <1>7, <1>9, <1>a DEF Tables
<1>11. Consistent(e)
  BY <1>5, <1>7, <1>10 DEF Consistent, TeamsHome, TeamHome, OwnersHome, KeysHome, SeatsHome, ProjectsHome
<1> QED
  BY <1>5, <1>7, <1>11

\* One write to a table.
PutSeat(d, s, row) == [d EXCEPT !.seat[s] = row]
PutTeam(d, t, row) == [d EXCEPT !.team[t] = row]
PutMembers(d, t, members) == [d EXCEPT !.team[t].members = members]
PutProjects(d, t, projects) == [d EXCEPT !.team[t].projects = projects]
PutOwner(d, o, s) == [d EXCEPT !.owner[o] = s]
PutOrg(d, o, st, open) == [d EXCEPT !.org[o] = st, !.open[o] = open]
PutKey(d, k, p) == [d EXCEPT !.key[k] = p]
PutKeys(d, keys) == [d EXCEPT !.key = keys]
PutProject(d, p, row) == [d EXCEPT !.project[p] = row]

\* The other tables that the properties are about, and the teams' organizations.
OnlyTeams(d, e) ==
  e.seat = d.seat /\ e.project = d.project /\ e.org = d.org /\ e.owner = d.owner /\ e.key = d.key
TeamsStay(d, e) == \A t \in Teams : d.team[t] # None => e.team[t] # None /\ e.team[t].org = d.team[t].org
\* All the tables that the properties are about.
SameRows(d, e) ==
  e.org = d.org /\ e.seat = d.seat /\ e.owner = d.owner /\ e.team = d.team /\ e.project = d.project /\ e.key = d.key

\* A seat is written for the first time, or stays in its organization.
LEMMA SeatWritten ==
  ASSUME NEW d, Consistent(d), NEW s \in Seats, NEW row \in SeatRow, d.org[row.org] # "absent",
         d.seat[s] # None => d.seat[s].org = row.org, NEW e, e = PutSeat(d, s, row)
  PROVE  Consistent(e) /\ e.seat = [d.seat EXCEPT ![s] = row] /\ e.org = d.org /\ e.owner = d.owner
         /\ e.team = d.team /\ e.project = d.project /\ e.key = d.key
<1>0. /\ d \in Tables /\ TeamsHome(d) /\ OwnersHome(d) /\ KeysHome(d) /\ SeatsHome(d) /\ ProjectsHome(d)
  BY DEF Consistent
<1>1. /\ e.seat = [d.seat EXCEPT ![s] = row] /\ e.org = d.org /\ e.owner = d.owner
      /\ e.team = d.team /\ e.project = d.project /\ e.key = d.key
  BY <1>0 DEF Tables, PutSeat
<1>2. e.seat \in [Seats -> SeatRow \cup {None}]
  BY <1>0, <1>1 DEF Tables
<1>3. e \in Tables
  BY <1>0, <1>2 DEF Tables, PutSeat
<1>4. row # None
  BY MemberAssumption
<1>5. /\ \A x \in Seats : x # s => e.seat[x] = d.seat[x]
      /\ e.seat[s] = row
  BY <1>0, <1>1 DEF Tables
<1>6. \A x \in Seats : d.seat[x] # None => e.seat[x] # None /\ e.seat[x].org = d.seat[x].org
  BY <1>4, <1>5
<1>7. TeamsHome(e)
  <2> SUFFICES ASSUME NEW t \in Teams, d.team[t] # None
               PROVE  \A x \in d.team[t].members : e.seat[x] # None /\ e.seat[x].org = d.team[t].org
    BY <1>0, <1>1 DEF TeamsHome, TeamHome
  <2>1. d.team[t].members \subseteq Seats
    BY <1>0 DEF Tables, TeamRow
  <2> QED
    BY <1>0, <1>6, <2>1 DEF TeamsHome, TeamHome
<1>8. OwnersHome(e)
  <2>1. \A o \in Orgs : d.owner[o] # None => d.owner[o] \in Seats
    BY <1>0 DEF Tables
  <2> QED
    BY <1>0, <1>1, <1>6, <2>1 DEF OwnersHome
<1>9. KeysHome(e) /\ ProjectsHome(e)
  BY <1>0, <1>1 DEF KeysHome, ProjectsHome
<1>10. SeatsHome(e)
  BY <1>0, <1>1, <1>5 DEF SeatsHome
<1> QED
  BY <1>1, <1>3, <1>7, <1>8, <1>9, <1>10 DEF Consistent

\* A team's row is written, in the organization it had.
LEMMA TeamWritten ==
  ASSUME NEW d, Consistent(d), NEW t \in Teams, NEW row \in TeamRow, NEW e, e = PutTeam(d, t, row),
         TeamHome(d, t, row)
  PROVE  Consistent(e) /\ OnlyTeams(d, e) /\ e.team = [d.team EXCEPT ![t] = row]
<1>0. /\ d \in Tables /\ TeamsHome(d) /\ OwnersHome(d) /\ KeysHome(d) /\ SeatsHome(d) /\ ProjectsHome(d)
  BY DEF Consistent
<1>1. /\ e.seat = d.seat /\ e.org = d.org /\ e.owner = d.owner /\ e.project = d.project /\ e.key = d.key
      /\ e.team = [d.team EXCEPT ![t] = row]
  BY <1>0 DEF Tables, PutTeam
<1>2. e.team \in [Teams -> TeamRow \cup {None}]
  BY <1>0, <1>1 DEF Tables
<1>3. e \in Tables
  BY <1>0, <1>2 DEF Tables, PutTeam
<1>4. /\ \A x \in Teams : x # t => e.team[x] = d.team[x]
      /\ e.team[t] = row
  BY <1>0, <1>1 DEF Tables
<1>5. TeamsHome(e)
  BY <1>0, <1>1, <1>4 DEF TeamsHome, TeamHome
<1>6. OwnersHome(e) /\ KeysHome(e) /\ SeatsHome(e) /\ ProjectsHome(e)
  BY <1>0, <1>1 DEF OwnersHome, KeysHome, SeatsHome, ProjectsHome
<1> QED
  BY <1>1, <1>3, <1>5, <1>6 DEF Consistent, OnlyTeams

\* A team's row loses its links, or is gone.
LEMMA TeamGone ==
  ASSUME NEW d, Consistent(d), NEW t \in Teams, NEW e, e = PutTeam(d, t, None)
  PROVE  Consistent(e) /\ OnlyTeams(d, e)
<1>0. /\ d \in Tables /\ TeamsHome(d) /\ OwnersHome(d) /\ KeysHome(d) /\ SeatsHome(d) /\ ProjectsHome(d)
  BY DEF Consistent
<1>1. /\ e.seat = d.seat /\ e.org = d.org /\ e.owner = d.owner /\ e.project = d.project /\ e.key = d.key
      /\ e.team = [d.team EXCEPT ![t] = None]
  BY <1>0 DEF Tables, PutTeam
<1>2. e.team \in [Teams -> TeamRow \cup {None}]
  BY <1>0, <1>1 DEF Tables
<1>3. e \in Tables
  BY <1>0, <1>2 DEF Tables, PutTeam
<1>4. \A x \in Teams : e.team[x] # None => e.team[x] = d.team[x]
  BY <1>0, <1>1 DEF Tables
<1>5. TeamsHome(e)
  BY <1>0, <1>1, <1>4 DEF TeamsHome, TeamHome
<1>6. OwnersHome(e) /\ KeysHome(e) /\ SeatsHome(e) /\ ProjectsHome(e)
  BY <1>0, <1>1 DEF OwnersHome, KeysHome, SeatsHome, ProjectsHome
<1> QED
  BY <1>1, <1>3, <1>5, <1>6 DEF Consistent, OnlyTeams

\* A team's members change, within its organization.
LEMMA MembersWritten ==
  ASSUME NEW d, Consistent(d), NEW t \in Teams, d.team[t] # None, NEW members \in SUBSET Seats,
         \A s \in members : d.seat[s] # None /\ d.seat[s].org = d.team[t].org,
         NEW e, e = PutMembers(d, t, members)
  PROVE  Consistent(e) /\ OnlyTeams(d, e) /\ TeamsStay(d, e)
<1>0. d \in Tables /\ TeamsHome(d)
  BY DEF Consistent
<1>1. PICK old \in TeamRow : old = d.team[t]
  BY <1>0 DEF Tables
<1>2. PICK row : row = [old EXCEPT !.members = members]
  OBVIOUS
<1>3. row \in TeamRow /\ row.org = old.org /\ row.members = members /\ row.projects = old.projects
  BY <1>1, <1>2 DEF TeamRow
<1>4. e = PutTeam(d, t, row)
  BY <1>1, <1>2 DEF PutMembers, PutTeam
<1>5. TeamHome(d, t, row)
  BY <1>0, <1>1, <1>3 DEF TeamsHome, TeamHome
<1>6. row \in TeamRow /\ row # None
  BY <1>3, MemberAssumption
<1>7. Consistent(e) /\ OnlyTeams(d, e) /\ e.team = [d.team EXCEPT ![t] = row]
  BY <1>4, <1>5, <1>6, TeamWritten
<1> QED
  BY <1>0, <1>1, <1>3, <1>6, <1>7 DEF TeamsStay, Tables

\* A team's projects change, within its organization.
LEMMA ProjectsWritten ==
  ASSUME NEW d, Consistent(d), NEW t \in Teams, d.team[t] # None, NEW projects \in SUBSET Projects,
         \A p \in projects : d.project[p] # None /\ d.project[p].org = d.team[t].org,
         NEW e, e = PutProjects(d, t, projects)
  PROVE  Consistent(e) /\ OnlyTeams(d, e)
<1>0. d \in Tables /\ TeamsHome(d)
  BY DEF Consistent
<1>1. PICK old \in TeamRow : old = d.team[t]
  BY <1>0 DEF Tables
<1>2. PICK row : row = [old EXCEPT !.projects = projects]
  OBVIOUS
<1>3. row \in TeamRow /\ row.org = old.org /\ row.projects = projects /\ row.members = old.members
  BY <1>1, <1>2 DEF TeamRow
<1>4. e = PutTeam(d, t, row)
  BY <1>1, <1>2 DEF PutProjects, PutTeam
<1>5. TeamHome(d, t, row)
  BY <1>0, <1>1, <1>3 DEF TeamsHome, TeamHome
<1>6. row \in TeamRow
  BY <1>3
<1> QED
  BY <1>4, <1>5, <1>6, TeamWritten

\* What a team's row holds.
LEMMA TeamLinks ==
  ASSUME NEW d, Consistent(d), NEW t \in Teams, d.team[t] # None
  PROVE  /\ d.team[t] \in TeamRow /\ d.team[t].org \in Orgs /\ d.team[t].members \subseteq Seats
         /\ d.team[t].projects \subseteq Projects /\ TeamHome(d, t, d.team[t])
BY DEF Consistent, Tables, TeamRow, TeamsHome

\* A seat's row, at home where the seat is.
SeatFits(d, s, row) == d.org[row.org] # "absent" /\ (d.seat[s] # None => d.seat[s].org = row.org)

\* SaveSeat, with the membership that follows it.
LEMMA SaveSeatOK ==
  ASSUME NEW d, Consistent(d), NEW s \in Seats, NEW row \in SeatRow, SeatFits(d, s, row),
         NEW e, e = SaveSeat(d, s, row)
  PROVE  Consistent(e) /\ e.seat = [d.seat EXCEPT ![s] = row] /\ e.org = d.org /\ e.owner = d.owner
         /\ e.project = d.project /\ e.key = d.key /\ TeamsStay(d, e)
<1>1. PICK b : b = PutSeat(d, s, row)
  OBVIOUS
<1>2. Consistent(b) /\ b.seat = [d.seat EXCEPT ![s] = row] /\ b.org = d.org /\ b.owner = d.owner
      /\ b.project = d.project /\ b.key = d.key /\ b.team = d.team
  BY <1>1, SeatWritten DEF SeatFits
<1>3. b.seat[s] = row /\ row # None
  BY <1>2, MemberAssumption DEF Consistent, Tables
<1>4. PICK members : members = b.team[OperatorTeam].members \cup {s}
  OBVIOUS
<1>5. \/ e = b
      \/ /\ row.org = Home /\ b.team[OperatorTeam] # None /\ b.team[OperatorTeam].org = Home
         /\ e = PutMembers(b, OperatorTeam, members)
  BY <1>1, <1>3, <1>4 DEF PutSeat, PutMembers, SaveSeat, add_zitadel_user_to_operator_team
<1>6. OperatorTeam \in Teams
  BY MemberAssumption
<1>7. CASE e = b
  BY <1>2, <1>7 DEF TeamsStay
<1>8. CASE /\ row.org = Home /\ b.team[OperatorTeam] # None /\ b.team[OperatorTeam].org = Home
           /\ e = PutMembers(b, OperatorTeam, members)
  <2>1. b.team[OperatorTeam].members \subseteq Seats /\ TeamHome(b, OperatorTeam, b.team[OperatorTeam])
    BY <1>2, <1>6, <1>8, TeamLinks
  <2>2. /\ members \in SUBSET Seats
        /\ \A x \in members : b.seat[x] # None /\ b.seat[x].org = b.team[OperatorTeam].org
    BY <1>3, <1>4, <1>8, <2>1 DEF TeamHome
  <2>3. Consistent(e) /\ OnlyTeams(b, e) /\ TeamsStay(b, e)
    BY <1>2, <1>6, <1>8, <2>2, MembersWritten
  <2> QED
    BY <1>2, <2>3 DEF OnlyTeams, TeamsStay
<1> QED
  BY <1>5, <1>7, <1>8

\* The owner row names a member.
LEMMA OwnerWritten ==
  ASSUME NEW d, Consistent(d), NEW o \in Orgs, NEW s \in Seats, d.seat[s] # None, d.seat[s].org = o,
         NEW e, e = PutOwner(d, o, s)
  PROVE  Consistent(e) /\ e.seat = d.seat /\ e.project = d.project
<1>0. /\ d \in Tables /\ TeamsHome(d) /\ OwnersHome(d) /\ KeysHome(d) /\ SeatsHome(d) /\ ProjectsHome(d)
  BY DEF Consistent
<1>1. /\ e.seat = d.seat /\ e.org = d.org /\ e.team = d.team /\ e.project = d.project /\ e.key = d.key
      /\ e.owner = [d.owner EXCEPT ![o] = s]
  BY <1>0 DEF Tables, PutOwner
<1>2. e.owner \in [Orgs -> Seats \cup {None}]
  BY <1>0, <1>1 DEF Tables
<1>3. e \in Tables
  BY <1>0, <1>2 DEF Tables, PutOwner
<1>4. OwnersHome(e)
  BY <1>0, <1>1 DEF OwnersHome, Tables
<1>5. TeamsHome(e) /\ KeysHome(e) /\ SeatsHome(e) /\ ProjectsHome(e)
  BY <1>0, <1>1 DEF TeamsHome, TeamHome, KeysHome, SeatsHome, ProjectsHome
<1> QED
  BY <1>1, <1>3, <1>4, <1>5 DEF Consistent

\* An organization appears or is marked.
LEMMA OrgWritten ==
  ASSUME NEW d, Consistent(d), NEW o \in Orgs, NEW st \in {"live", "deleted"}, NEW open \in BOOLEAN,
         NEW e, e = PutOrg(d, o, st, open)
  PROVE  Consistent(e) /\ e.seat = d.seat /\ e.project = d.project /\ e.org[o] = st /\ e.owner = d.owner
<1>0. /\ d \in Tables /\ TeamsHome(d) /\ OwnersHome(d) /\ KeysHome(d) /\ SeatsHome(d) /\ ProjectsHome(d)
  BY DEF Consistent
<1>1. /\ e.seat = d.seat /\ e.owner = d.owner /\ e.team = d.team /\ e.project = d.project /\ e.key = d.key
      /\ e.org = [d.org EXCEPT ![o] = st] /\ e.open = [d.open EXCEPT ![o] = open]
  BY <1>0 DEF Tables, PutOrg
<1>2. e.org \in [Orgs -> {"absent", "live", "deleted"}] /\ e.open \in [Orgs -> BOOLEAN]
  BY <1>0, <1>1 DEF Tables
<1>3. e \in Tables
  BY <1>0, <1>1, <1>2 DEF Tables, PutOrg
<1>4. e.org[o] = st /\ \A x \in Orgs : d.org[x] # "absent" => e.org[x] # "absent"
  BY <1>0, <1>1 DEF Tables
<1>5. /\ \A s \in Seats : d.seat[s] # None => d.seat[s].org \in Orgs
      /\ \A p \in Projects : d.project[p] # None => d.project[p].org \in Orgs
      /\ \A t \in Teams : d.team[t] # None => d.team[t].org \in Orgs
  <2>1. /\ \A s \in Seats : d.seat[s] # None => d.seat[s] \in SeatRow
        /\ \A p \in Projects : d.project[p] # None => d.project[p] \in ProjectRow
        /\ \A t \in Teams : d.team[t] # None => d.team[t] \in TeamRow
    BY <1>0 DEF Tables
  <2> QED
    BY <2>1 DEF SeatRow, ProjectRow, TeamRow
<1>6. SeatsHome(e) /\ ProjectsHome(e)
  BY <1>0, <1>1, <1>4, <1>5 DEF SeatsHome, ProjectsHome
<1>7. TeamsHome(e)
  BY <1>0, <1>1, <1>4, <1>5 DEF TeamsHome, TeamHome
<1>8. OwnersHome(e) /\ KeysHome(e)
  BY <1>0, <1>1 DEF OwnersHome, KeysHome
<1> QED
  BY <1>1, <1>3, <1>4, <1>6, <1>7, <1>8 DEF Consistent

\* Every key names a project that is there.
LEMMA KeysWritten ==
  ASSUME NEW d, Consistent(d), NEW keys \in [Keys -> Projects \cup {None}],
         \A k \in Keys : keys[k] # None => d.project[keys[k]] # None, NEW e, e = PutKeys(d, keys)
  PROVE  Consistent(e) /\ e.seat = d.seat /\ e.project = d.project /\ e.team = d.team
<1>0. /\ d \in Tables /\ TeamsHome(d) /\ OwnersHome(d) /\ KeysHome(d) /\ SeatsHome(d) /\ ProjectsHome(d)
  BY DEF Consistent
<1>1. /\ e.seat = d.seat /\ e.org = d.org /\ e.team = d.team /\ e.project = d.project /\ e.owner = d.owner
      /\ e.key = keys
  BY <1>0 DEF Tables, PutKeys
<1>2. e \in Tables
  BY <1>0 DEF Tables, PutKeys
<1>3. KeysHome(e)
  BY <1>0, <1>1 DEF KeysHome
<1>4. TeamsHome(e) /\ OwnersHome(e) /\ SeatsHome(e) /\ ProjectsHome(e)
  BY <1>0, <1>1 DEF TeamsHome, TeamHome, OwnersHome, SeatsHome, ProjectsHome
<1> QED
  BY <1>1, <1>2, <1>3, <1>4 DEF Consistent

\* A key of a project that is there, or no key.
LEMMA KeyWritten ==
  ASSUME NEW d, Consistent(d), NEW k \in Keys, NEW p \in Projects \cup {None}, p # None => d.project[p] # None,
         NEW e, e = PutKey(d, k, p)
  PROVE  Consistent(e) /\ e.seat = d.seat /\ e.project = d.project /\ e.team = d.team
<1>1. PICK keys : keys = [d.key EXCEPT ![k] = p]
  OBVIOUS
<1>2. d.key \in [Keys -> Projects \cup {None}] /\ KeysHome(d)
  BY DEF Consistent, Tables
<1>3. keys \in [Keys -> Projects \cup {None}] /\ \A x \in Keys : keys[x] # None => d.project[keys[x]] # None
  BY <1>1, <1>2 DEF KeysHome
<1>4. e = PutKeys(d, keys)
  BY <1>1 DEF PutKey, PutKeys
<1> QED
  BY <1>3, <1>4, KeysWritten

\* A project appears, or stays in its organization.
LEMMA ProjectWritten ==
  ASSUME NEW d, Consistent(d), NEW p \in Projects, NEW row \in ProjectRow, d.org[row.org] # "absent",
         p = GovernedProject => row.org = Home, d.project[p] # None => d.project[p].org = row.org,
         NEW e, e = PutProject(d, p, row)
  PROVE  Consistent(e) /\ e.seat = d.seat /\ e.org = d.org /\ e.project = [d.project EXCEPT ![p] = row] /\ e.owner = d.owner
         /\ e.team = d.team /\ e.key = d.key
<1>0. /\ d \in Tables /\ TeamsHome(d) /\ OwnersHome(d) /\ KeysHome(d) /\ SeatsHome(d) /\ ProjectsHome(d)
  BY DEF Consistent
<1>1. /\ e.seat = d.seat /\ e.org = d.org /\ e.team = d.team /\ e.key = d.key /\ e.owner = d.owner
      /\ e.project = [d.project EXCEPT ![p] = row]
  BY <1>0 DEF Tables, PutProject
<1>2. e.project \in [Projects -> ProjectRow \cup {None}]
  BY <1>0, <1>1 DEF Tables
<1>3. e \in Tables
  BY <1>0, <1>2 DEF Tables, PutProject
<1>4. /\ \A x \in Projects : x # p => e.project[x] = d.project[x]
      /\ e.project[p] = row /\ row # None
  BY <1>0, <1>1, MemberAssumption DEF Tables
<1>5. \A x \in Projects : d.project[x] # None => e.project[x] # None /\ e.project[x].org = d.project[x].org
  BY <1>4
<1>6. TeamsHome(e)
  <2> SUFFICES ASSUME NEW t \in Teams, d.team[t] # None
               PROVE  \A x \in d.team[t].projects : e.project[x] # None /\ e.project[x].org = d.team[t].org
    BY <1>0, <1>1 DEF TeamsHome, TeamHome
  <2>1. d.team[t].projects \subseteq Projects
    BY <1>0 DEF Tables, TeamRow
  <2> QED
    BY <1>0, <1>5, <2>1 DEF TeamsHome, TeamHome
<1>7. KeysHome(e)
  <2>1. \A k \in Keys : d.key[k] # None => d.key[k] \in Projects
    BY <1>0 DEF Tables
  <2> QED
    BY <1>0, <1>1, <1>5, <2>1 DEF KeysHome
<1>8. OwnersHome(e) /\ SeatsHome(e)
  BY <1>0, <1>1 DEF OwnersHome, SeatsHome
<1>9. ProjectsHome(e)
  BY <1>0, <1>1, <1>4 DEF ProjectsHome
<1> QED
  BY <1>1, <1>3, <1>6, <1>7, <1>8, <1>9 DEF Consistent

\* Users come, and people choose their notifications.
LEMMA PeopleWritten ==
  ASSUME NEW d, Consistent(d), NEW e \in Tables, SameRows(d, e)
  PROVE  Consistent(e)
BY DEF SameRows, Consistent, TeamsHome, TeamHome, OwnersHome, KeysHome, SeatsHome, ProjectsHome

\* A new seat is a row of its table.
LEMMA SeatIsRow ==
  ASSUME NEW o \in Orgs, NEW u \in Users \cup {None}, NEW mail \in Users \cup {None}, NEW role \in MEMBER..OWNER
  PROVE  Seat(o, u, mail, role) \in SeatRow /\ Seat(o, u, mail, role).org = o
BY DEF Seat, SeatRow

\* Joining an organization.
LEMMA aadd_userOK ==
  ASSUME NEW d, Consistent(d), NEW s \in Seats, d.seat[s] = None, NEW u \in Users, NEW o \in Orgs,
         d.org[o] # "absent", NEW e, e = aadd_user(d, s, u, o)
  PROVE  /\ Consistent(e) /\ e.project = d.project
         /\ \A x \in Seats : x # s => e.seat[x] = d.seat[x]
<1>1. PICK first \in BOOLEAN : first = ({ r \in SeatsOf(d, o) : d.seat[r].user # None } = {})
  OBVIOUS
<1>2. PICK row : row = Seat(o, u, None, IF first THEN OWNER ELSE MEMBER)
  OBVIOUS
<1>3. row \in SeatRow /\ row.org = o
  BY <1>2, SeatIsRow DEF OWNER, MEMBER
<1>4. PICK b : b = SaveSeat(d, s, row)
  OBVIOUS
<1>5. /\ Consistent(b) /\ b.seat = [d.seat EXCEPT ![s] = row] /\ b.project = d.project
  <2>1. SeatFits(d, s, row)
    BY <1>3 DEF SeatFits
  <2> QED
    BY <1>3, <1>4, <2>1, SaveSeatOK
<1>6. d \in Tables
  BY DEF Consistent
<1>7. b.seat[s] = row /\ row # None /\ \A x \in Seats : x # s => b.seat[x] = d.seat[x]
  BY <1>3, <1>5, <1>6, MemberAssumption DEF Tables
<1>8. e = b \/ e = PutOwner(b, o, s)
  BY <1>1, <1>2, <1>4 DEF aadd_user, PutOwner
<1>9. CASE e = b
  BY <1>5, <1>7, <1>9
<1>10. CASE e = PutOwner(b, o, s)
  <2>1. b.seat[s] # None /\ b.seat[s].org = o
    BY <1>3, <1>7
  <2>2. Consistent(e) /\ e.seat = b.seat /\ e.project = b.project
    BY <1>5, <1>10, <2>1, OwnerWritten
  <2> QED
    BY <1>5, <1>7, <2>2
<1> QED
  BY <1>8, <1>9, <1>10

\* What a request read of its row still holds of the row, if there is one.
RequestFits(d, q) ==
  /\ q.op = "org" => q.id \in Orgs /\ q.open \in BOOLEAN
  /\ q.op = "seat" => /\ q.id \in Seats /\ q.row \in SeatRow
                      /\ d.seat[q.id] # None => d.seat[q.id].org = q.row.org
  /\ q.op = "team" => /\ q.id \in Teams /\ q.org \in Orgs
                      /\ q.id = OperatorTeam => q.org = Home
  /\ q.op = "project" => /\ q.id \in Projects /\ q.org \in Orgs
                         /\ q.id = GovernedProject => q.org = Home
                         /\ d.project[q.id] # None => d.project[q.id].org = q.org
MemberInv == Consistent(db) /\ RequestFits(db, req)

\* No seat or project that a request has read moves to another organization.
RowsStay(d, e, id) ==
  /\ id \in Seats /\ e.seat[id] # None => d.seat[id] # None /\ e.seat[id].org = d.seat[id].org
  /\ id \in Projects /\ e.project[id] # None =>
       \/ d.project[id] # None /\ e.project[id].org = d.project[id].org
       \/ id = GovernedProject /\ e.project[id].org = Home

\* The request under way still fits after such a step.
LEMMA RequestKept ==
  ASSUME NEW d, NEW e, NEW q, RequestFits(d, q), RowsStay(d, e, q.id)
  PROVE  RequestFits(e, q)
BY DEF RequestFits, RowsStay


\* A step that leaves the request alone, and one that finishes it.
LEMMA StepKeeps ==
  ASSUME MemberInv, NEW d, d = db, NEW e, e = db', Consistent(e), RowsStay(d, e, req.id), req' = req
  PROVE  MemberInv'
<1>1. RequestFits(d, req)
  BY DEF MemberInv
<1>2. PICK q : q = req
  OBVIOUS
<1>3. RequestFits(e, q)
  BY <1>1, <1>2, RequestKept
<1> QED
  BY <1>2, <1>3 DEF MemberInv

\* The request is answered.
LEMMA SaveKeeps ==
  ASSUME NEW e, e = db', Consistent(e), req' = Idle
  PROVE  MemberInv'
BY DEF MemberInv, RequestFits, Idle

\* The row was read, nothing written.
LEMMA ReadKeeps ==
  ASSUME MemberInv, NEW d, d = db, NEW q, q = req', RequestFits(d, q), db' = db
  PROVE  MemberInv'
BY DEF MemberInv

\* An id for a new seat.
LEMMA FreeSeatOK ==
  ASSUME HasRoom(db)
  PROVE  FreeSeat(db) \in Seats /\ FreeSeat(db) # req.id /\ db.seat[FreeSeat(db)] = None
<1>1. \E s \in Seats \ Held : db.seat[s] = None
  BY DEF HasRoom, Taken
<1>2. FreeSeat(db) \in Seats \ Held /\ db.seat[FreeSeat(db)] = None
  BY <1>1 DEF FreeSeat
<1> QED
  BY <1>2 DEF Held

\* Who has a role in an organization has a seat there.
LEMMA RoleHasSeat ==
  ASSUME NEW d, Consistent(d), NEW u, NEW o \in Orgs, Role(d, u, o) # None
  PROVE  \E s \in Seats : d.seat[s] # None /\ d.seat[s].org = o /\ d.seat[s].user = u
BY DEF Role, SeatsOf, Taken

\* Its organization is there.
LEMMA RoleHasOrg ==
  ASSUME NEW d, Consistent(d), NEW u, NEW o \in Orgs, Role(d, u, o) # None
  PROVE  d.org[o] # "absent"
BY RoleHasSeat DEF Consistent, SeatsHome

\* A rank is a role.
LEMMA RankIsRole ==
  ASSUME NEW d, Consistent(d), NEW u, NEW o \in Orgs, NEW role \in {MEMBER, ADMIN, MANAGER, OWNER},
         AtLeast(d, u, o, role)
  PROVE  Role(d, u, o) # None
BY MemberAssumption DEF AtLeast, MEMBER, ADMIN, MANAGER, OWNER

\* What rows hold.
LEMMA RowTypes ==
  ASSUME NEW d, Consistent(d)
  PROVE  /\ \A s \in Seats : d.seat[s] # None => /\ d.seat[s] \in SeatRow /\ d.seat[s].org \in Orgs
                                                 /\ d.org[d.seat[s].org] # "absent"
         /\ \A p \in Projects : d.project[p] # None =>
              /\ d.project[p] \in ProjectRow /\ d.project[p].org \in Orgs /\ d.org[d.project[p].org] # "absent"
              /\ p = GovernedProject => d.project[p].org = Home
         /\ \A k \in Keys : d.key[k] # None => d.key[k] \in Projects /\ d.project[d.key[k]] # None
         /\ d.open \in [Orgs -> BOOLEAN] /\ d.org \in [Orgs -> {"absent", "live", "deleted"}]
         /\ d.seat \in [Seats -> SeatRow \cup {None}] /\ d.project \in [Projects -> ProjectRow \cup {None}]
         /\ d \in Tables
BY DEF Consistent, Tables, SeatRow, ProjectRow, SeatsHome, ProjectsHome, KeysHome
--------------------------------------------------------------------------------
\* Organizations.
LEMMA create_organizationKeeps ==
  ASSUME MemberInv, NEW u \in Users, NEW o \in Orgs, create_organization(u, o)
  PROVE  MemberInv'
<1>1. PICK d : d = db
  OBVIOUS
<1>2. PICK e : e = db'
  OBVIOUS
<1>3. PICK s \in Seats : s = FreeSeat(db) /\ s # req.id /\ d.seat[s] = None
  BY <1>1, FreeSeatOK DEF create_organization
<1>4. PICK b : b = PutOrg(d, o, "live", TRUE)
  OBVIOUS
<1>5. e = aadd_user(b, s, u, o) /\ req' = req
  BY <1>1, <1>2, <1>3, <1>4 DEF create_organization, PutOrg, Write, Keep
<1>6. Consistent(d)
  BY <1>1 DEF MemberInv
<1>7. PICK live : live = "live"
  OBVIOUS
<1>8. Consistent(b) /\ b.seat = d.seat /\ b.project = d.project /\ b.org[o] = live
  <2>1. PICK open : open = TRUE
    OBVIOUS
  <2>2. b = PutOrg(d, o, live, open) /\ live \in {"live", "deleted"} /\ open \in BOOLEAN
    BY <1>4, <1>7, <2>1
  <2> QED
    BY <1>6, <2>2, OrgWritten
<1>9. /\ Consistent(e) /\ e.project = b.project
      /\ \A x \in Seats : x # s => e.seat[x] = b.seat[x]
  BY <1>3, <1>5, <1>7, <1>8, aadd_userOK
<1>10. RowsStay(d, e, req.id)
  BY <1>3, <1>8, <1>9 DEF RowsStay
<1> QED
  BY <1>1, <1>2, <1>5, <1>9, <1>10, StepKeeps

\* Reading it for a change.
LEMMA update_organizationKeeps ==
  ASSUME MemberInv, NEW u \in Users, NEW o \in Orgs, update_organization(u, o)
  PROVE  MemberInv'
<1>1. PICK d : d = db
  OBVIOUS
<1>2. PICK q : q = req'
  OBVIOUS
<1>3. q = [op |-> "org", id |-> o, open |-> d.open[o]] /\ db' = db
  BY <1>1, <1>2 DEF update_organization
<1>4. d.open \in [Orgs -> BOOLEAN]
  BY <1>1 DEF MemberInv, Consistent, Tables
<1>5. RequestFits(d, q)
  BY <1>3, <1>4 DEF RequestFits
<1> QED
  BY <1>1, <1>2, <1>3, <1>5, ReadKeeps

\* Writing it back, even after its deletion.
LEMMA SaveOrganizationKeeps ==
  ASSUME MemberInv, SaveOrganization
  PROVE  MemberInv'
<1>1. PICK d : d = db
  OBVIOUS
<1>2. PICK e : e = db'
  OBVIOUS
<1>3. PICK o \in Orgs : o = req.id
  BY DEF MemberInv, RequestFits, SaveOrganization
<1>4. PICK open \in BOOLEAN : open = req.open
  BY DEF MemberInv, RequestFits, SaveOrganization
<1>5. PICK live \in {"live", "deleted"} : live = "live"
  OBVIOUS
<1>6. e = PutOrg(d, o, live, open) /\ req' = Idle
  BY <1>1, <1>2, <1>3, <1>4, <1>5 DEF SaveOrganization, Save, Write, PutOrg
<1>7. Consistent(d)
  BY <1>1 DEF MemberInv
<1>8. Consistent(e)
  BY <1>6, <1>7, OrgWritten
<1> QED
  BY <1>2, <1>6, <1>8, SaveKeeps

\* Marking it for its task.
LEMMA delete_organizationKeeps ==
  ASSUME MemberInv, NEW u \in Users, NEW o \in Orgs, delete_organization(u, o)
  PROVE  MemberInv'
<1>1. PICK d : d = db
  OBVIOUS
<1>2. PICK e : e = db'
  OBVIOUS
<1>3. Consistent(d)
  BY <1>1 DEF MemberInv
<1>4. PICK open \in BOOLEAN : open = d.open[o]
  BY <1>3 DEF Consistent, Tables
<1>5. PICK deleted \in {"live", "deleted"} : deleted = "deleted"
  OBVIOUS
<1>6. e = [d EXCEPT !.org[o] = deleted] /\ req' = req
  BY <1>1, <1>2, <1>5 DEF delete_organization, Write
<1>7. e = PutOrg(d, o, deleted, open)
  BY <1>3, <1>4, <1>6 DEF Consistent, Tables, PutOrg
<1>8. Consistent(e) /\ e.seat = d.seat /\ e.project = d.project
  BY <1>3, <1>7, OrgWritten
<1>9. RowsStay(d, e, req.id)
  BY <1>8 DEF RowsStay
<1> QED
  BY <1>1, <1>2, <1>6, <1>8, <1>9, StepKeeps

\* The task.
LEMMA RunDeleteOrganizationKeeps ==
  ASSUME MemberInv, NEW o \in Orgs, RunDeleteOrganization(o)
  PROVE  MemberInv'
<1>1. PICK d : d = db
  OBVIOUS
<1>2. PICK e : e = db'
  OBVIOUS
<1>3. Consistent(d)
  BY <1>1 DEF MemberInv
<1>4. (e = d \/ e = DropOrg(d, o)) /\ req' = req
  BY <1>1, <1>2 DEF RunDeleteOrganization, Write
<1>5. /\ Consistent(e)
      /\ \A s \in Seats : e.seat[s] # None => e.seat[s] = d.seat[s]
      /\ \A p \in Projects : e.project[p] # None => e.project[p] = d.project[p]
  BY <1>3, <1>4, DropOrgOK
<1>6. RowsStay(d, e, req.id)
  BY <1>5 DEF RowsStay
<1> QED
  BY <1>1, <1>2, <1>4, <1>5, <1>6, StepKeeps

\* Members and invitations.
LEMMA create_organization_memberKeeps ==
  ASSUME MemberInv, NEW u \in Users, NEW mail \in Users, NEW o \in Orgs, NEW role \in {MEMBER, OWNER},
         NEW t \in Teams, NEW again \in BOOLEAN, create_organization_member(u, o, mail, role, t, again)
  PROVE  MemberInv'
<1>1. PICK d : d = db
  OBVIOUS
<1>2. PICK e : e = db'
  OBVIOUS
<1>3. Consistent(d) /\ req' = req /\ d.org[o] # "absent"
  BY <1>1 DEF MemberInv, create_organization_member, get_organizations_queryset
<1>4. PICK same : same = { s \in SeatsOf(d, o) : d.seat[s].mail = mail }
  OBVIOUS
<1>5. PICK s : s = IF same # {} THEN CHOOSE x \in same : TRUE ELSE FreeSeat(db)
  OBVIOUS
<1>6. PICK row : row = Seat(o, None, mail, role)
  OBVIOUS
<1>7. PICK made : made = IF same = {} THEN SaveSeat(d, s, row) ELSE d
  OBVIOUS
<1>8. PICK members : members = made.team[t].members \cup {s}
  OBVIOUS
<1>9. \/ e = d \/ e = made
      \/ t \in TeamsOf(d, o) /\ e = PutMembers(made, t, members)
  BY <1>1, <1>2, <1>4, <1>5, <1>6, <1>7, <1>8 DEF create_organization_member, Write, PutMembers
<1>10. row \in SeatRow /\ row.org = o /\ row # None
  <2>1. None \in Users \cup {None} /\ mail \in Users \cup {None} /\ role \in MEMBER..OWNER
    BY DEF MEMBER, OWNER
  <2> QED
    BY <1>6, <2>1, SeatIsRow, MemberAssumption
<1>11. /\ Consistent(made) /\ made.project = d.project /\ TeamsStay(d, made)
       /\ s \in Seats /\ made.seat[s] # None /\ made.seat[s].org = o
       /\ \A x \in Seats : made.seat[x] = d.seat[x] \/ (x = s /\ s # req.id)
  <2>1. CASE same = {}
    <3>1. s \in Seats /\ s # req.id /\ d.seat[s] = None
      BY <1>1, <1>4, <1>5, <2>1, FreeSeatOK DEF create_organization_member
    <3>2. Consistent(made) /\ made.seat = [d.seat EXCEPT ![s] = row] /\ made.project = d.project /\ TeamsStay(d, made)
      <4>1. SeatFits(d, s, row) /\ made = SaveSeat(d, s, row) /\ row \in SeatRow
        BY <1>3, <1>7, <1>10, <2>1, <3>1 DEF SeatFits
      <4> QED
        BY <1>3, <3>1, <4>1, SaveSeatOK
    <3>3. d.seat \in [Seats -> SeatRow \cup {None}]
      BY <1>3, RowTypes
    <3> QED
      BY <1>10, <3>1, <3>2, <3>3
  <2>2. CASE same # {}
    <3>1. s \in same
      BY <1>5, <2>2
    <3> QED
      BY <1>3, <1>4, <1>7, <2>2, <3>1 DEF SeatsOf, Taken, TeamsStay
  <2> QED
    BY <2>1, <2>2
<1>12. CASE e = d \/ e = made
  <2>1. RowsStay(d, e, req.id)
    BY <1>11, <1>12 DEF RowsStay
  <2> QED
    BY <1>1, <1>2, <1>3, <1>11, <1>12, <2>1, StepKeeps
<1>13. CASE t \in TeamsOf(d, o) /\ e = PutMembers(made, t, members)
  <2>1. made.team[t] # None /\ made.team[t].org = o
    BY <1>11, <1>13 DEF TeamsOf, TeamsStay
  <2>2. made.team[t].members \subseteq Seats /\ TeamHome(made, t, made.team[t])
    BY <1>11, <2>1, TeamLinks
  <2>3. members \in SUBSET Seats /\ \A x \in members : made.seat[x] # None /\ made.seat[x].org = made.team[t].org
    BY <1>8, <1>11, <2>1, <2>2 DEF TeamHome
  <2>4. Consistent(e) /\ OnlyTeams(made, e)
    BY <1>11, <1>13, <2>1, <2>3, MembersWritten
  <2>5. RowsStay(d, e, req.id)
    BY <1>11, <2>4 DEF RowsStay, OnlyTeams
  <2> QED
    BY <1>1, <1>2, <1>3, <2>4, <2>5, StepKeeps
<1> QED
  BY <1>9, <1>12, <1>13

\* A seat goes.
LEMMA delete_organization_memberKeeps ==
  ASSUME MemberInv, NEW u \in Users, NEW s \in Seats, delete_organization_member(u, s)
  PROVE  MemberInv'
<1>1. PICK d : d = db
  OBVIOUS
<1>2. PICK e : e = db'
  OBVIOUS
<1>3. PICK gone \in SUBSET Seats : gone = {s}
  OBVIOUS
<1>4. Consistent(d) /\ req' = req /\ e = DropSeats(d, gone)
  BY <1>1, <1>2, <1>3 DEF MemberInv, delete_organization_member, Write, Keep
<1>5. Consistent(e)
  BY <1>4, DropSeatsOK
<1>6. e.project = d.project /\ \A x \in Seats : e.seat[x] = IF x \in gone THEN None ELSE d.seat[x]
  BY <1>4, DropSeatsRows
<1>7. RowsStay(d, e, req.id)
  BY <1>6 DEF RowsStay
<1> QED
  BY <1>1, <1>2, <1>4, <1>5, <1>7, StepKeeps

\* Reading a seat for a change of its role.
LEMMA update_organization_memberKeeps ==
  ASSUME MemberInv, NEW u \in Users, NEW s \in Seats, NEW role \in {MEMBER, ADMIN, OWNER},
         update_organization_member(u, s, role)
  PROVE  MemberInv'
<1>1. PICK d : d = db
  OBVIOUS
<1>2. PICK q : q = req'
  OBVIOUS
<1>3. PICK old \in SeatRow : old = d.seat[s]
  BY <1>1, RowTypes DEF MemberInv, update_organization_member, Taken
<1>4. PICK row : row = [old EXCEPT !.role = role]
  OBVIOUS
<1>5. q = [op |-> "seat", id |-> s, row |-> row] /\ db' = db
  BY <1>1, <1>2, <1>3, <1>4 DEF update_organization_member
<1>6. row \in SeatRow /\ row.org = old.org
  BY <1>3, <1>4 DEF SeatRow, MEMBER, ADMIN, OWNER
<1>7. RequestFits(d, q)
  BY <1>3, <1>5, <1>6 DEF RequestFits
<1> QED
  BY <1>1, <1>2, <1>5, <1>7, ReadKeeps

\* Reading it for the acceptance of an invitation.
LEMMA accept_inviteKeeps ==
  ASSUME MemberInv, NEW u \in Users, NEW s \in Seats, accept_invite(u, s)
  PROVE  MemberInv'
<1>1. PICK d : d = db
  OBVIOUS
<1>2. PICK q : q = req'
  OBVIOUS
<1>3. PICK old \in SeatRow : old = d.seat[s]
  BY <1>1, RowTypes DEF MemberInv, accept_invite, Taken
<1>4. PICK row : row = [old EXCEPT !.user = u, !.mail = None]
  OBVIOUS
<1>5. q = [op |-> "seat", id |-> s, row |-> row] /\ db' = db
  BY <1>1, <1>2, <1>3, <1>4 DEF accept_invite
<1>6. row \in SeatRow /\ row.org = old.org
  BY <1>3, <1>4 DEF SeatRow
<1>7. RequestFits(d, q)
  BY <1>3, <1>5, <1>6 DEF RequestFits
<1> QED
  BY <1>1, <1>2, <1>5, <1>7, ReadKeeps

\* Writing the seat, even after its deletion.
LEMMA SaveMemberKeeps ==
  ASSUME MemberInv, SaveMember
  PROVE  MemberInv'
<1>1. PICK d : d = db
  OBVIOUS
<1>2. PICK e : e = db'
  OBVIOUS
<1>3. PICK s \in Seats : s = req.id
  BY DEF MemberInv, RequestFits, SaveMember
<1>4. PICK row \in SeatRow : row = req.row
  BY DEF MemberInv, RequestFits, SaveMember
<1>5. Consistent(d) /\ (d.seat[s] # None => d.seat[s].org = row.org)
  BY <1>1, <1>3, <1>4 DEF MemberInv, RequestFits, SaveMember
<1>6. req' = Idle /\ (e = d \/ (SeatFits(d, s, row) /\ e = SaveSeat(d, s, row)))
  BY <1>1, <1>2, <1>3, <1>4, <1>5 DEF SaveMember, Save, Write, Fits, SeatFits
<1>7. Consistent(e)
  <2>1. CASE e = d
    BY <1>5, <2>1
  <2>2. CASE SeatFits(d, s, row) /\ e = SaveSeat(d, s, row)
    BY <1>5, <2>2, SaveSeatOK
  <2> QED
    BY <1>6, <2>1, <2>2
<1> QED
  BY <1>2, <1>6, <1>7, SaveKeeps

\* The owner row names the seat.
LEMMA set_organization_ownerKeeps ==
  ASSUME MemberInv, NEW u \in Users, NEW s \in Seats, set_organization_owner(u, s)
  PROVE  MemberInv'
<1>1. PICK d : d = db
  OBVIOUS
<1>2. PICK e : e = db'
  OBVIOUS
<1>3. Consistent(d) /\ req' = req /\ d.seat[s] # None
  BY <1>1 DEF MemberInv, set_organization_owner, Keep, Taken
<1>4. PICK o \in Orgs : o = d.seat[s].org
  BY <1>3, RowTypes
<1>5. e = PutOwner(d, o, s)
  BY <1>1, <1>2, <1>4 DEF set_organization_owner, Write, PutOwner
<1>6. Consistent(e) /\ e.seat = d.seat /\ e.project = d.project
  BY <1>3, <1>4, <1>5, OwnerWritten
<1>7. RowsStay(d, e, req.id)
  BY <1>6 DEF RowsStay
<1> QED
  BY <1>1, <1>2, <1>3, <1>6, <1>7, StepKeeps

\* A user leaves.
LEMMA delete_userKeeps ==
  ASSUME MemberInv, NEW u \in Users, delete_user(u)
  PROVE  MemberInv'
<1>1. PICK d : d = db
  OBVIOUS
<1>2. PICK e : e = db'
  OBVIOUS
<1>3. Consistent(d) /\ req' = req /\ e = DropUser(d, u)
  BY <1>1, <1>2 DEF MemberInv, delete_user, Keep, Write
<1>4. /\ Consistent(e) /\ e.project = d.project
      /\ \A s \in Seats : e.seat[s] # None => e.seat[s] = d.seat[s]
  BY <1>3, DropUserOK
<1>5. RowsStay(d, e, req.id)
  BY <1>4 DEF RowsStay
<1> QED
  BY <1>1, <1>2, <1>3, <1>4, <1>5, StepKeeps

\* A user logs in through the organization's social app.
LEMMA add_user_to_socialapp_organizationKeeps ==
  ASSUME MemberInv, NEW u \in Users, add_user_to_socialapp_organization(u)
  PROVE  MemberInv'
<1>1. PICK d : d = db
  OBVIOUS
<1>2. PICK e : e = db'
  OBVIOUS
<1>3. Consistent(d) /\ req' = req /\ d.org[Home] # "absent"
  BY <1>1 DEF MemberInv, add_user_to_socialapp_organization, Keep
<1>4. PICK s \in Seats : s = FreeSeat(db) /\ s # req.id /\ d.seat[s] = None
  BY <1>1, FreeSeatOK DEF add_user_to_socialapp_organization
<1>5. PICK b : b = [d EXCEPT !.social = @ \cup {u}]
  OBVIOUS
<1>6. PICK o \in Orgs : o = Home
  BY MemberAssumption
<1>7. e = aadd_user(b, s, u, o)
  BY <1>1, <1>2, <1>4, <1>5, <1>6 DEF add_user_to_socialapp_organization, Write
<1>8. b \in Tables /\ SameRows(d, b)
  BY <1>3, <1>5 DEF Consistent, Tables, SameRows
<1>9. Consistent(b)
  BY <1>3, <1>8, PeopleWritten
<1>10. b.seat = d.seat /\ b.project = d.project /\ b.org[o] # "absent"
  BY <1>3, <1>6, <1>8 DEF SameRows
<1>11. /\ Consistent(e) /\ e.project = b.project
       /\ \A x \in Seats : x # s => e.seat[x] = b.seat[x]
  BY <1>4, <1>7, <1>9, <1>10, aadd_userOK
<1>12. RowsStay(d, e, req.id)
  BY <1>4, <1>10, <1>11 DEF RowsStay
<1> QED
  BY <1>1, <1>2, <1>3, <1>11, <1>12, StepKeeps

\* The bootstrap's account and organization, and the operator's seat.
Booted(d) == [d EXCEPT !.user = @ \cup {Operator}, !.social = @ \cup {Operator},
                       !.org[Home] = "live", !.open[Home] = FALSE]
OperatorSeats(d) == { s \in SeatsOf(d, Home) : d.seat[s].user = Operator }
OperatorSeat(d) == IF OperatorSeats(d) # {} THEN CHOOSE x \in OperatorSeats(d) : TRUE ELSE FreeSeat(db)

\* The bootstrap, before the rows of the organization's team.
LEMMA BootJoined ==
  ASSUME MemberInv, NEW d, d = db, OperatorSeats(d) # {} \/ HasRoom(db), NEW s, s = OperatorSeat(d),
         NEW e, e = SaveSeat(Booted(d), s, Seat(Home, Operator, None, OWNER))
  PROVE  /\ Consistent(e) /\ s \in Seats /\ e.seat[s] # None /\ e.seat[s].org = Home /\ e.org[Home] # "absent"
         /\ e.project = d.project /\ e.key = d.key
         /\ RowsStay(d, e, req.id)
<1>1. Consistent(d) /\ Home \in Orgs /\ Operator \in Users
  BY MemberAssumption DEF MemberInv
<1>2. PICK b : b = [d EXCEPT !.user = @ \cup {Operator}, !.social = @ \cup {Operator}]
  OBVIOUS
<1>3. PICK live \in {"live", "deleted"} : live = "live"
  OBVIOUS
<1>4. PICK open \in BOOLEAN : open = FALSE
  OBVIOUS
<1>5. PICK c : c = PutOrg(b, Home, live, open)
  OBVIOUS
<1>6. PICK row : row = Seat(Home, Operator, None, OWNER)
  OBVIOUS
<1>7. e = SaveSeat(c, s, row)
  BY <1>2, <1>3, <1>4, <1>5, <1>6 DEF PutOrg, Booted
<1>8. b \in Tables /\ SameRows(d, b)
  BY <1>1, <1>2 DEF Consistent, Tables, SameRows
<1>9. Consistent(b)
  BY <1>1, <1>8, PeopleWritten
<1>10. Consistent(c) /\ c.seat = d.seat /\ c.project = d.project /\ c.org[Home] # "absent"
  <2>1. Consistent(c) /\ c.seat = b.seat /\ c.project = b.project /\ c.org[Home] = live
    BY <1>1, <1>5, <1>9, OrgWritten
  <2> QED
    BY <1>3, <1>8, <2>1 DEF SameRows
<1>11. c.key = d.key
  BY <1>5, <1>8 DEF SameRows, PutOrg, Tables
<1>12. row \in SeatRow /\ row.org = Home /\ row # None
  <2>1. Operator \in Users \cup {None} /\ None \in Users \cup {None} /\ OWNER \in MEMBER..OWNER
    BY <1>1 DEF MEMBER, OWNER
  <2> QED
    BY <1>1, <1>6, <2>1, SeatIsRow, MemberAssumption
<1>13. s \in Seats /\ (d.seat[s] # None => d.seat[s].org = Home) /\ (s = req.id => d.seat[s] # None)
  <2>1. CASE OperatorSeats(d) # {}
    <3>1. s \in OperatorSeats(d)
      BY <2>1 DEF OperatorSeat
    <3> QED
      BY <3>1 DEF OperatorSeats, SeatsOf, Taken
  <2>2. CASE OperatorSeats(d) = {}
    BY <2>2, FreeSeatOK DEF OperatorSeat
  <2> QED
    BY <2>1, <2>2
<1>14. /\ Consistent(e) /\ e.seat = [c.seat EXCEPT ![s] = row] /\ e.org = c.org /\ e.project = c.project
       /\ e.key = c.key
  <2>1. SeatFits(c, s, row)
    BY <1>10, <1>12, <1>13 DEF SeatFits
  <2> QED
    BY <1>7, <1>10, <1>12, <1>13, <2>1, SaveSeatOK
<1>15. d.seat \in [Seats -> SeatRow \cup {None}]
  BY <1>1, RowTypes
<1>16. e.seat[s] = row /\ \A x \in Seats : x # s => e.seat[x] = d.seat[x]
  BY <1>10, <1>13, <1>14, <1>15, SMTT(30)
<1>17. RowsStay(d, e, req.id)
  BY <1>10, <1>12, <1>13, <1>14, <1>16 DEF RowsStay
<1> QED
  BY <1>10, <1>11, <1>12, <1>13, <1>14, <1>16, <1>17

\* The bootstrap's rows, one after the other.
BootKeys(d, first) ==
  [k \in Keys |-> CASE k = GovernedKey -> GovernedProject [] k = first /\ k # GovernedKey -> None [] OTHER -> d.key[k]]
BootDone(j, s, team, row, keys) ==
  [j EXCEPT !.owner[Home] = s, !.team[OperatorTeam] = team, !.project[GovernedProject] = row, !.key = keys]

\* The order in which they are written does not matter.
LEMMA BootDoneIs ==
  ASSUME NEW j \in Tables, NEW s, NEW team, NEW row, NEW keys
  PROVE  BootDone(j, s, team, row, keys) =
           PutKeys(PutTeam(PutProject(PutOwner(j, Home, s), GovernedProject, row), OperatorTeam, team), keys)
BY DEF BootDone, PutKeys, PutTeam, PutProject, PutOwner, Tables

\* The operators' team after the bootstrap.
BootTeam(j, s) ==
  LET old == IF Empty(j.team[OperatorTeam]) THEN Team(Home, {}) ELSE j.team[OperatorTeam] IN
  [old EXCEPT !.members = @ \cup {s}, !.projects = @ \cup {GovernedProject}]

\* It has the operator and the project besides its own links.
LEMMA BootTeamIs ==
  ASSUME NEW j, Consistent(j), NEW s \in Seats, j.seat[s] # None, j.seat[s].org = Home, NEW e, e.seat = j.seat,
         e.project[GovernedProject] # None, e.project[GovernedProject].org = Home, e.org[Home] # "absent",
         \A p \in Projects : j.project[p] # None => e.project[p] # None /\ e.project[p].org = j.project[p].org,
         NEW team, team = BootTeam(j, s)
  PROVE  team \in TeamRow /\ TeamHome(e, OperatorTeam, team)
<1>1. PICK old : old = IF Empty(j.team[OperatorTeam]) THEN Team(Home, {}) ELSE j.team[OperatorTeam]
  OBVIOUS
<1>2. team = [old EXCEPT !.members = @ \cup {s}, !.projects = @ \cup {GovernedProject}]
  BY <1>1 DEF BootTeam
<1>3. Home \in Orgs /\ OperatorTeam \in Teams /\ GovernedProject \in Projects
  BY MemberAssumption
<1>4. /\ old \in TeamRow /\ old.org = Home
      /\ \A x \in old.members : j.seat[x] # None /\ j.seat[x].org = Home
      /\ \A p \in old.projects : j.project[p] # None /\ j.project[p].org = Home
  <2>1. CASE Empty(j.team[OperatorTeam])
    BY <1>1, <1>3, <2>1 DEF Team, TeamRow
  <2>2. CASE ~Empty(j.team[OperatorTeam])
    <3>1. old = j.team[OperatorTeam] /\ j.team[OperatorTeam] # None
      BY <1>1, <2>2 DEF Empty
    <3>2. j.team[OperatorTeam] \in TeamRow /\ TeamHome(j, OperatorTeam, j.team[OperatorTeam])
      BY <1>3, <3>1, TeamLinks
    <3> QED
      BY <3>1, <3>2 DEF TeamHome
  <2> QED
    BY <2>1, <2>2
<1>5. /\ team \in TeamRow /\ team.org = Home /\ team.members = old.members \cup {s}
      /\ team.projects = old.projects \cup {GovernedProject}
  <2>1. PICK members : members = old.members \cup {s}
    OBVIOUS
  <2>2. PICK projects : projects = old.projects \cup {GovernedProject}
    OBVIOUS
  <2>3. members \in SUBSET Seats /\ projects \in SUBSET Projects
    BY <1>3, <1>4, <2>1, <2>2 DEF TeamRow
  <2>4. team = [old EXCEPT !.members = members, !.projects = projects]
    BY <1>2, <2>1, <2>2
  <2> QED
    BY <1>4, <2>1, <2>2, <2>3, <2>4 DEF TeamRow
<1>6. old.projects \subseteq Projects
  BY <1>4 DEF TeamRow
<1> QED
  BY <1>4, <1>5, <1>6 DEF TeamHome

\* The project, and the key that the bootstrap replaces.
BootRow(j) == IF Empty(j.project[GovernedProject]) THEN Project(Home) ELSE j.project[GovernedProject]
BootFirst(d) ==
  LET keys == { k \in Keys : d.key[k] = GovernedProject } IN
  IF keys = {} \/ GovernedKey \in keys THEN GovernedKey ELSE CHOOSE k \in keys : TRUE
BootJoin(d) == SaveSeat(Booted(d), OperatorSeat(d), Seat(Home, Operator, None, OWNER))

\* One boot, or one undone.
LEMMA reconcileKeeps ==
  ASSUME MemberInv, reconcile
  PROVE  MemberInv'
<1>1. PICK d : d = db
  OBVIOUS
<1>2. PICK e : e = db'
  OBVIOUS
<1>3. PICK s : s = OperatorSeat(d)
  OBVIOUS
<1>4. PICK j : j = BootJoin(d)
  OBVIOUS
<1>5. PICK team : team = BootTeam(j, s)
  OBVIOUS
<1>6. PICK row : row = BootRow(j)
  OBVIOUS
<1>7. PICK first : first = BootFirst(d)
  OBVIOUS
<1>8. PICK keys : keys = BootKeys(j, first)
  OBVIOUS
<1>9. req' = req /\ (OperatorSeats(d) # {} \/ HasRoom(db)) /\ (e = d \/ e = BootDone(j, s, team, row, keys))
  <2>1. req' = req /\ (OperatorSeats(db) # {} \/ HasRoom(db))
    BY DEF reconcile, OperatorSeats
  <2>2. \/ db' = db
        \/ db' = BootDone(BootJoin(db), OperatorSeat(db), BootTeam(BootJoin(db), OperatorSeat(db)),
                          BootRow(BootJoin(db)), BootKeys(BootJoin(db), BootFirst(db)))
    BY DEF reconcile, OperatorSeats, OperatorSeat, Booted, BootJoin, BootTeam, BootRow, BootKeys, BootFirst,
           BootDone, Write
  <2> QED
    BY <1>1, <1>2, <1>3, <1>4, <1>5, <1>6, <1>7, <1>8, <2>1, <2>2
<1>10. /\ Consistent(j) /\ s \in Seats /\ j.seat[s] # None /\ j.seat[s].org = Home /\ j.org[Home] # "absent"
       /\ RowsStay(d, j, req.id)
  BY <1>1, <1>3, <1>4, <1>9, BootJoined DEF BootJoin
<1>11. Home \in Orgs /\ OperatorTeam \in Teams /\ GovernedProject \in Projects /\ GovernedKey \in Keys
       /\ None \notin Projects
  BY MemberAssumption
<1>12. CASE e = d
  <2>1. Consistent(e) /\ RowsStay(d, e, req.id)
    BY <1>1, <1>12 DEF MemberInv, RowsStay
  <2> QED
    BY <1>1, <1>2, <1>9, <2>1, StepKeeps
<1>13. CASE e = BootDone(j, s, team, row, keys)
  <2>1. PICK a : a = PutOwner(j, Home, s)
    OBVIOUS
  <2>2. PICK b : b = PutProject(a, GovernedProject, row)
    OBVIOUS
  <2>3. PICK c : c = PutTeam(b, OperatorTeam, team)
    OBVIOUS
  <2>4. e = PutKeys(c, keys)
    <3>1. j \in Tables
      BY <1>10 DEF Consistent
    <3> QED
      BY <1>13, <2>1, <2>2, <2>3, <3>1, BootDoneIs
  <2>5. Consistent(a) /\ a.seat = j.seat /\ a.project = j.project
    BY <1>10, <1>11, <2>1, OwnerWritten
  <2>6. a.org = j.org /\ a.key = j.key
    BY <1>10, <2>1 DEF PutOwner, Consistent, Tables
  <2>7. row \in ProjectRow /\ row.org = Home /\ (a.project[GovernedProject] # None => a.project[GovernedProject].org = row.org)
    <3>1. CASE Empty(j.project[GovernedProject])
      BY <1>6, <1>11, <2>5, <3>1 DEF BootRow, Project, ProjectRow, Empty
    <3>2. CASE ~Empty(j.project[GovernedProject])
      BY <1>6, <1>10, <1>11, <2>5, <3>2, RowTypes DEF BootRow, Empty
    <3> QED
      BY <3>1, <3>2
  <2>8. a.org[row.org] # "absent"
    BY <1>10, <2>6, <2>7
  <2>9. /\ Consistent(b) /\ b.seat = a.seat /\ b.org = a.org /\ b.project = [a.project EXCEPT ![GovernedProject] = row]
        /\ b.team = a.team /\ b.key = a.key
    BY <1>11, <2>2, <2>5, <2>7, <2>8, ProjectWritten
  <2>10. row # None /\ a.project \in [Projects -> ProjectRow \cup {None}]
    BY <2>5, <2>7, MemberAssumption, RowTypes
  <2>11. /\ b.project[GovernedProject] = row
         /\ \A p \in Projects : p # GovernedProject => b.project[p] = j.project[p]
    BY <1>11, <2>5, <2>9, <2>10
  <2>12. team \in TeamRow /\ TeamHome(b, OperatorTeam, team)
    <3>1. \A p \in Projects : j.project[p] # None => b.project[p] # None /\ b.project[p].org = j.project[p].org
      BY <2>5, <2>7, <2>10, <2>11
    <3>2. b.seat = j.seat /\ b.project[GovernedProject] # None /\ b.project[GovernedProject].org = Home /\ b.org[Home] # "absent"
      BY <1>10, <2>5, <2>6, <2>7, <2>9, <2>10, <2>11
    <3> QED
      BY <1>5, <1>10, <3>1, <3>2, BootTeamIs
  <2>13. Consistent(c) /\ OnlyTeams(b, c)
    BY <1>11, <2>3, <2>9, <2>12, TeamWritten
  <2>14. keys \in [Keys -> Projects \cup {None}] /\ \A k \in Keys : keys[k] # None => c.project[keys[k]] # None
    <3>1. \A k \in Keys : keys[k] = GovernedProject \/ keys[k] = None \/ keys[k] = j.key[k]
      BY <1>8 DEF BootKeys
    <3>2. DOMAIN keys = Keys /\ keys = [k \in Keys |-> keys[k]]
      BY <1>8 DEF BootKeys
    <3>3. \A k \in Keys : j.key[k] # None => j.key[k] \in Projects /\ j.project[j.key[k]] # None
      BY <1>10, RowTypes
    <3>4. c.project = b.project /\ c.project[GovernedProject] # None
      BY <2>10, <2>11, <2>13 DEF OnlyTeams
    <3>5. \A k \in Keys : keys[k] \in Projects \cup {None}
      BY <1>11, <3>1, <3>3
    <3> QED
      BY <2>10, <2>11, <3>1, <3>2, <3>3, <3>4, <3>5
  <2>15. Consistent(e) /\ e.seat = c.seat /\ e.project = c.project
    BY <2>4, <2>13, <2>14, KeysWritten
  <2>16. RowsStay(d, e, req.id)
    <3>1. e.seat = j.seat /\ e.project = b.project
      BY <2>5, <2>9, <2>13, <2>15 DEF OnlyTeams
    <3> QED
      BY <1>10, <2>7, <2>11, <3>1 DEF RowsStay
  <2> QED
    BY <1>1, <1>2, <1>9, <2>15, <2>16, StepKeeps
<1> QED
  BY <1>9, <1>12, <1>13

--------------------------------------------------------------------------------
\* Teams.
LEMMA create_teamKeeps ==
  ASSUME MemberInv, NEW u \in Users, NEW o \in Orgs, NEW t \in Teams, create_team(u, o, t)
  PROVE  MemberInv'
<1>1. PICK d : d = db
  OBVIOUS
<1>2. PICK e : e = db'
  OBVIOUS
<1>3. PICK members : members = { s \in SeatsOf(d, o) : d.seat[s].user = u }
  OBVIOUS
<1>4. PICK row : row = Team(o, members)
  OBVIOUS
<1>5. Consistent(d) /\ req' = req /\ e = PutTeam(d, t, row)
  BY <1>1, <1>2, <1>3, <1>4 DEF MemberInv, create_team, Keep, Write, PutTeam
<1>6. AtLeast(d, u, o, ADMIN) /\ (t = OperatorTeam => o = Home)
  BY <1>1 DEF create_team
<1>7. d.org[o] # "absent"
  <2>1. PICK role \in {MEMBER, ADMIN, MANAGER, OWNER} : role = ADMIN
    OBVIOUS
  <2> QED
    BY <1>5, <1>6, <2>1, RankIsRole, RoleHasOrg
<1>8. row \in TeamRow /\ TeamHome(d, t, row)
  BY <1>3, <1>4, <1>6, <1>7 DEF Team, TeamRow, TeamHome, SeatsOf, Taken
<1>9. Consistent(e) /\ OnlyTeams(d, e)
  BY <1>5, <1>8, TeamWritten
<1>10. RowsStay(d, e, req.id)
  BY <1>9 DEF RowsStay, OnlyTeams
<1> QED
  BY <1>1, <1>2, <1>5, <1>9, <1>10, StepKeeps

\* Reading a team for a change.
LEMMA update_teamKeeps ==
  ASSUME MemberInv, NEW u \in Users, NEW t \in Teams, update_team(u, t)
  PROVE  MemberInv'
<1>1. PICK d : d = db
  OBVIOUS
<1>2. PICK q : q = req'
  OBVIOUS
<1>3. Consistent(d) /\ d.team[t] # None
  BY <1>1 DEF MemberInv, update_team, Empty
<1>4. PICK o \in Orgs : o = d.team[t].org
  BY <1>3, TeamLinks
<1>5. t = OperatorTeam => o = Home
  BY <1>3, <1>4, TeamLinks DEF TeamHome
<1>6. q = [op |-> "team", id |-> t, org |-> o] /\ db' = db
  BY <1>1, <1>2, <1>4 DEF update_team
<1>7. RequestFits(d, q)
  BY <1>5, <1>6 DEF RequestFits
<1> QED
  BY <1>1, <1>2, <1>6, <1>7, ReadKeeps

\* Writing it back, without links after its deletion.
LEMMA SaveTeamKeeps ==
  ASSUME MemberInv, SaveTeam
  PROVE  MemberInv'
<1>1. PICK d : d = db
  OBVIOUS
<1>2. PICK e : e = db'
  OBVIOUS
<1>3. PICK t \in Teams : t = req.id
  BY DEF MemberInv, RequestFits, SaveTeam
<1>4. PICK o \in Orgs : o = req.org
  BY DEF MemberInv, RequestFits, SaveTeam
<1>5. Consistent(d) /\ (t = OperatorTeam => o = Home)
  BY <1>1, <1>3, <1>4 DEF MemberInv, RequestFits, SaveTeam
<1>6. PICK row : row = Team(o, {})
  OBVIOUS
<1>7. req' = Idle /\ (e = d \/ (d.org[o] # "absent" /\ e = PutTeam(d, t, row)))
  BY <1>1, <1>2, <1>3, <1>4, <1>6 DEF SaveTeam, Save, Write, PutTeam
<1>8. CASE e = d
  BY <1>2, <1>5, <1>7, <1>8, SaveKeeps
<1>9. CASE d.org[o] # "absent" /\ e = PutTeam(d, t, row)
  <2>1. row \in TeamRow /\ TeamHome(d, t, row)
    BY <1>5, <1>6, <1>9 DEF Team, TeamRow, TeamHome
  <2>2. Consistent(e)
    BY <1>5, <1>9, <2>1, TeamWritten
  <2> QED
    BY <1>2, <1>7, <2>2, SaveKeeps
<1> QED
  BY <1>7, <1>8, <1>9

\* A team goes.
LEMMA delete_teamKeeps ==
  ASSUME MemberInv, NEW u \in Users, NEW t \in Teams, delete_team(u, t)
  PROVE  MemberInv'
<1>1. PICK d : d = db
  OBVIOUS
<1>2. PICK e : e = db'
  OBVIOUS
<1>3. Consistent(d) /\ req' = req /\ e = PutTeam(d, t, None)
  BY <1>1, <1>2 DEF MemberInv, delete_team, Keep, Write, PutTeam
<1>4. Consistent(e) /\ OnlyTeams(d, e)
  BY <1>3, TeamGone
<1>5. RowsStay(d, e, req.id)
  BY <1>4 DEF RowsStay, OnlyTeams
<1> QED
  BY <1>1, <1>2, <1>3, <1>4, <1>5, StepKeeps

\* A seat of the team's organization joins it or leaves.
LEMMA modify_member_for_teamKeeps ==
  ASSUME MemberInv, NEW u \in Users, NEW s \in Seats, NEW t \in Teams, NEW add \in BOOLEAN,
         modify_member_for_team(u, s, t, add)
  PROVE  MemberInv'
<1>1. PICK d : d = db
  OBVIOUS
<1>2. PICK e : e = db'
  OBVIOUS
<1>3. PICK old : old = d.team[t].members
  OBVIOUS
<1>4. PICK members : members = IF add THEN old \cup {s} ELSE old \ {s}
  OBVIOUS
<1>5. Consistent(d) /\ req' = req /\ d.team[t] # None /\ e = PutMembers(d, t, members)
  BY <1>1, <1>2, <1>3, <1>4 DEF MemberInv, modify_member_for_team, Keep, Write, PutMembers, Empty
<1>6. d.seat[s] # None /\ d.seat[s].org = d.team[t].org
  BY <1>1 DEF modify_member_for_team, SeatsOf, Taken
<1>7. old \subseteq Seats /\ TeamHome(d, t, d.team[t])
  BY <1>3, <1>5, TeamLinks
<1>8. members \in SUBSET Seats /\ \A x \in members : d.seat[x] # None /\ d.seat[x].org = d.team[t].org
  BY <1>3, <1>4, <1>6, <1>7 DEF TeamHome
<1>9. Consistent(e) /\ OnlyTeams(d, e)
  BY <1>5, <1>8, MembersWritten
<1>10. RowsStay(d, e, req.id)
  BY <1>9 DEF RowsStay, OnlyTeams
<1> QED
  BY <1>1, <1>2, <1>5, <1>9, <1>10, StepKeeps

\* A team gets a project of its organization.
LEMMA add_team_to_projectKeeps ==
  ASSUME MemberInv, NEW u \in Users, NEW t \in Teams, NEW p \in Projects, add_team_to_project(u, t, p)
  PROVE  MemberInv'
<1>1. PICK d : d = db
  OBVIOUS
<1>2. PICK e : e = db'
  OBVIOUS
<1>3. PICK old : old = d.team[t].projects
  OBVIOUS
<1>4. PICK projects : projects = old \cup {p}
  OBVIOUS
<1>5. Consistent(d) /\ req' = req /\ d.team[t] # None /\ e = PutProjects(d, t, projects)
  BY <1>1, <1>2, <1>3, <1>4 DEF MemberInv, add_team_to_project, Keep, Write, PutProjects, Empty
<1>6. d.project[p] # None /\ d.project[p].org = d.team[t].org
  BY <1>1 DEF add_team_to_project, Empty
<1>7. old \subseteq Projects /\ TeamHome(d, t, d.team[t])
  BY <1>3, <1>5, TeamLinks
<1>8. projects \in SUBSET Projects /\ \A x \in projects : d.project[x] # None /\ d.project[x].org = d.team[t].org
  BY <1>3, <1>4, <1>6, <1>7 DEF TeamHome
<1>9. Consistent(e) /\ OnlyTeams(d, e)
  BY <1>5, <1>8, ProjectsWritten
<1>10. RowsStay(d, e, req.id)
  BY <1>9 DEF RowsStay, OnlyTeams
<1> QED
  BY <1>1, <1>2, <1>5, <1>9, <1>10, StepKeeps

\* A team loses a project.
LEMMA delete_team_from_projectKeeps ==
  ASSUME MemberInv, NEW u \in Users, NEW t \in Teams, NEW p \in Projects, delete_team_from_project(u, t, p)
  PROVE  MemberInv'
<1>1. PICK d : d = db
  OBVIOUS
<1>2. PICK e : e = db'
  OBVIOUS
<1>3. PICK old : old = d.team[t].projects
  OBVIOUS
<1>4. PICK projects : projects = old \ {p}
  OBVIOUS
<1>5. Consistent(d) /\ req' = req /\ d.team[t] # None /\ e = PutProjects(d, t, projects)
  BY <1>1, <1>2, <1>3, <1>4 DEF MemberInv, delete_team_from_project, Keep, Write, PutProjects, Empty
<1>6. old \subseteq Projects /\ TeamHome(d, t, d.team[t])
  BY <1>3, <1>5, TeamLinks
<1>7. projects \in SUBSET Projects /\ \A x \in projects : d.project[x] # None /\ d.project[x].org = d.team[t].org
  BY <1>3, <1>4, <1>6 DEF TeamHome
<1>8. Consistent(e) /\ OnlyTeams(d, e)
  BY <1>5, <1>7, ProjectsWritten
<1>9. RowsStay(d, e, req.id)
  BY <1>8 DEF RowsStay, OnlyTeams
<1> QED
  BY <1>1, <1>2, <1>5, <1>8, <1>9, StepKeeps
--------------------------------------------------------------------------------
\* Projects and keys.
LEMMA create_projectKeeps ==
  ASSUME MemberInv, NEW u \in Users, NEW t \in Teams, NEW p \in Projects, NEW k \in Keys,
         create_project(u, t, p, k)
  PROVE  MemberInv'
<1>1. PICK d : d = db
  OBVIOUS
<1>2. PICK e : e = db'
  OBVIOUS
<1>3. PICK o : o = d.team[t].org
  OBVIOUS
<1>4. PICK row : row = Project(o)
  OBVIOUS
<1>5. PICK a : a = PutProject(d, p, row)
  OBVIOUS
<1>6. PICK b : b = PutKey(a, k, p)
  OBVIOUS
<1>7. PICK projects : projects = b.team[t].projects \cup {p}
  OBVIOUS
<1>8. /\ Consistent(d) /\ req' = req /\ d.team[t] # None /\ d.project[p] = None /\ p # req.id
      /\ p = GovernedProject => o = Home
  BY <1>1, <1>3 DEF MemberInv, create_project, Keep, Empty, Held
<1>9. e = [d EXCEPT !.project[p] = row, !.key[k] = p, !.team[t].projects = @ \cup {p}]
  BY <1>1, <1>2, <1>3, <1>4 DEF create_project, Write
<1>10. e = PutProjects(b, t, projects)
  BY <1>5, <1>6, <1>7, <1>8, <1>9 DEF PutProject, PutKey, PutProjects, Consistent, Tables
<1>11. o \in Orgs /\ TeamHome(d, t, d.team[t])
  BY <1>3, <1>8, TeamLinks
<1>12. row \in ProjectRow /\ row.org = o /\ d.org[row.org] # "absent" /\ row # None
  BY <1>3, <1>4, <1>11, MemberAssumption DEF Project, ProjectRow, TeamHome
<1>13. /\ Consistent(a) /\ a.seat = d.seat /\ a.project = [d.project EXCEPT ![p] = row] /\ a.team = d.team
  BY <1>5, <1>8, <1>12, ProjectWritten
<1>14. d.project \in [Projects -> ProjectRow \cup {None}]
  BY <1>8, RowTypes
<1>15. a.project[p] = row /\ \A x \in Projects : x # p => a.project[x] = d.project[x]
  BY <1>13, <1>14
<1>16. p \in Projects \cup {None} /\ a.project[p] # None
  BY <1>12, <1>15
<1>17. Consistent(b) /\ b.seat = a.seat /\ b.project = a.project /\ b.team = a.team
  <2>1. PICK q \in Projects \cup {None} : q = p
    BY <1>16
  <2>2. (q # None => a.project[q] # None) /\ b = PutKey(a, k, q)
    BY <1>6, <1>16, <2>1
  <2>3. Consistent(a)
    BY <1>13
  <2> QED
    BY <2>2, <2>3, KeyWritten
<1>18. b.team[t] # None /\ b.team[t].org = o
  BY <1>3, <1>8, <1>13, <1>17
<1>19. b.team[t].projects \subseteq Projects /\ TeamHome(b, t, b.team[t])
  BY <1>17, <1>18, TeamLinks
<1>20. projects \in SUBSET Projects /\ \A x \in projects : b.project[x] # None /\ b.project[x].org = b.team[t].org
  BY <1>7, <1>12, <1>15, <1>17, <1>18, <1>19 DEF TeamHome
<1>21. Consistent(e) /\ OnlyTeams(b, e)
  BY <1>10, <1>17, <1>18, <1>20, ProjectsWritten
<1>22. e.seat = d.seat /\ \A x \in Projects : x # p => e.project[x] = d.project[x]
  BY <1>13, <1>15, <1>17, <1>21 DEF OnlyTeams
<1>23. RowsStay(d, e, req.id)
  BY <1>8, <1>22 DEF RowsStay
<1> QED
  BY <1>1, <1>2, <1>8, <1>21, <1>23, StepKeeps

\* Reading a project for a change.
LEMMA update_projectKeeps ==
  ASSUME MemberInv, NEW u \in Users, NEW p \in Projects, update_project(u, p)
  PROVE  MemberInv'
<1>1. PICK d : d = db
  OBVIOUS
<1>2. PICK q : q = req'
  OBVIOUS
<1>3. Consistent(d) /\ d.project[p] # None
  BY <1>1 DEF MemberInv, update_project, get_projects_queryset
<1>4. PICK o \in Orgs : o = d.project[p].org
  BY <1>3, RowTypes
<1>5. p = GovernedProject => o = Home
  BY <1>3, <1>4, RowTypes
<1>6. q = [op |-> "project", id |-> p, org |-> o] /\ db' = db
  BY <1>1, <1>2, <1>4 DEF update_project
<1>7. RequestFits(d, q)
  BY <1>4, <1>5, <1>6 DEF RequestFits
<1> QED
  BY <1>1, <1>2, <1>6, <1>7, ReadKeeps

\* Writing it back, even after its deletion.
LEMMA SaveProjectKeeps ==
  ASSUME MemberInv, SaveProject
  PROVE  MemberInv'
<1>1. PICK d : d = db
  OBVIOUS
<1>2. PICK e : e = db'
  OBVIOUS
<1>3. PICK p \in Projects : p = req.id
  BY DEF MemberInv, RequestFits, SaveProject
<1>4. PICK o \in Orgs : o = req.org
  BY DEF MemberInv, RequestFits, SaveProject
<1>5. Consistent(d) /\ (p = GovernedProject => o = Home) /\ (d.project[p] # None => d.project[p].org = o)
  BY <1>1, <1>3, <1>4 DEF MemberInv, RequestFits, SaveProject
<1>6. PICK row : row = Project(o)
  OBVIOUS
<1>7. req' = Idle /\ (e = d \/ (d.org[o] # "absent" /\ e = PutProject(d, p, row)))
  BY <1>1, <1>2, <1>3, <1>4, <1>6 DEF SaveProject, Save, Write, PutProject
<1>8. CASE e = d
  BY <1>2, <1>5, <1>7, <1>8, SaveKeeps
<1>9. CASE d.org[o] # "absent" /\ e = PutProject(d, p, row)
  <2>1. row \in ProjectRow /\ row.org = o
    BY <1>6 DEF Project, ProjectRow
  <2>2. d.org[row.org] # "absent" /\ (p = GovernedProject => row.org = Home)
        /\ (d.project[p] # None => d.project[p].org = row.org)
    BY <1>5, <1>9, <2>1
  <2>3. Consistent(e)
    BY <1>5, <1>9, <2>1, <2>2, ProjectWritten
  <2> QED
    BY <1>2, <1>7, <2>3, SaveKeeps
<1> QED
  BY <1>7, <1>8, <1>9

\* Marking it for its task.
LEMMA delete_projectKeeps ==
  ASSUME MemberInv, NEW u \in Users, NEW p \in Projects, delete_project(u, p)
  PROVE  MemberInv'
<1>1. PICK d : d = db
  OBVIOUS
<1>2. PICK e : e = db'
  OBVIOUS
<1>3. Consistent(d) /\ req' = req /\ d.project[p] # None
  BY <1>1 DEF MemberInv, delete_project, get_projects_queryset
<1>4. PICK old \in ProjectRow : old = d.project[p]
  BY <1>3, RowTypes
<1>5. PICK row : row = [old EXCEPT !.st = "deleted"]
  OBVIOUS
<1>6. row \in ProjectRow /\ row.org = old.org
  BY <1>4, <1>5 DEF ProjectRow
<1>7. e = PutProject(d, p, row)
  BY <1>1, <1>2, <1>4, <1>5 DEF delete_project, Write, PutProject
<1>8. d.org[row.org] # "absent" /\ (p = GovernedProject => row.org = Home) /\ d.project[p].org = row.org
  BY <1>3, <1>4, <1>6, RowTypes
<1>9. Consistent(e) /\ e.seat = d.seat /\ e.project = [d.project EXCEPT ![p] = row]
  BY <1>3, <1>6, <1>7, <1>8, ProjectWritten
<1>10. d.project \in [Projects -> ProjectRow \cup {None}]
  BY <1>3, RowTypes
<1>11. \A x \in Projects : x # p => e.project[x] = d.project[x]
  BY <1>9, <1>10
<1>12. e.project[p].org = d.project[p].org
  BY <1>4, <1>6, <1>9, <1>10
<1>13. RowsStay(d, e, req.id)
  BY <1>3, <1>9, <1>11, <1>12 DEF RowsStay
<1> QED
  BY <1>1, <1>2, <1>3, <1>9, <1>13, StepKeeps

\* The task.
LEMMA RunDeleteProjectKeeps ==
  ASSUME MemberInv, NEW p \in Projects, RunDeleteProject(p)
  PROVE  MemberInv'
<1>1. PICK d : d = db
  OBVIOUS
<1>2. PICK e : e = db'
  OBVIOUS
<1>3. PICK gone \in SUBSET Projects : gone = {p}
  OBVIOUS
<1>4. Consistent(d) /\ req' = req /\ (e = d \/ e = DropProjects(d, gone))
  BY <1>1, <1>2, <1>3 DEF MemberInv, RunDeleteProject, Write
<1>5. Consistent(e)
  BY <1>4, DropProjectsOK
<1>6. e = d \/ (e.seat = d.seat /\ \A x \in Projects : e.project[x] = IF x \in gone THEN None ELSE d.project[x])
  BY <1>4, DropProjectsRows
<1>7. RowsStay(d, e, req.id)
  BY <1>6 DEF RowsStay
<1> QED
  BY <1>1, <1>2, <1>4, <1>5, <1>7, StepKeeps

\* A key comes.
LEMMA create_project_keyKeeps ==
  ASSUME MemberInv, NEW u \in Users, NEW p \in Projects, NEW k \in Keys, create_project_key(u, p, k)
  PROVE  MemberInv'
<1>1. PICK d : d = db
  OBVIOUS
<1>2. PICK e : e = db'
  OBVIOUS
<1>3. Consistent(d) /\ req' = req /\ d.project[p] # None /\ e = PutKey(d, k, p)
  BY <1>1, <1>2 DEF MemberInv, create_project_key, get_projects_queryset, Keep, Write, PutKey
<1>4. Consistent(e) /\ e.seat = d.seat /\ e.project = d.project
  BY <1>3, KeyWritten
<1>5. RowsStay(d, e, req.id)
  BY <1>4 DEF RowsStay
<1> QED
  BY <1>1, <1>2, <1>3, <1>4, <1>5, StepKeeps

\* A key goes.
LEMMA delete_project_keyKeeps ==
  ASSUME MemberInv, NEW u \in Users, NEW k \in Keys, delete_project_key(u, k)
  PROVE  MemberInv'
<1>1. PICK d : d = db
  OBVIOUS
<1>2. PICK e : e = db'
  OBVIOUS
<1>3. PICK none \in Projects \cup {None} : none = None
  OBVIOUS
<1>4. Consistent(d) /\ req' = req /\ e = PutKey(d, k, none)
  BY <1>1, <1>2, <1>3 DEF MemberInv, delete_project_key, Keep, Write, PutKey
<1>5. Consistent(e) /\ e.seat = d.seat /\ e.project = d.project
  BY <1>3, <1>4, KeyWritten
<1>6. RowsStay(d, e, req.id)
  BY <1>5 DEF RowsStay
<1> QED
  BY <1>1, <1>2, <1>4, <1>5, <1>6, StepKeeps

\* A user's choice for one project.
LEMMA update_user_notification_alertsKeeps ==
  ASSUME MemberInv, NEW u \in Users, NEW p \in Projects, NEW status \in {"default", "on", "off"},
         update_user_notification_alerts(u, p, status)
  PROVE  MemberInv'
<1>1. PICK d : d = db
  OBVIOUS
<1>2. PICK e : e = db'
  OBVIOUS
<1>3. Consistent(d) /\ req' = req /\ e = [d EXCEPT !.alert[<<u, p>>] = status]
  BY <1>1, <1>2 DEF MemberInv, update_user_notification_alerts, Keep, Write
<1>4. e \in Tables /\ SameRows(d, e)
  BY <1>3 DEF Consistent, Tables, SameRows
<1>5. Consistent(e)
  BY <1>3, <1>4, PeopleWritten
<1>6. RowsStay(d, e, req.id)
  BY <1>4 DEF RowsStay, SameRows
<1> QED
  BY <1>1, <1>2, <1>3, <1>5, <1>6, StepKeeps

\* A user's choice for all projects.
LEMMA update_notificationsKeeps ==
  ASSUME MemberInv, NEW u \in Users, update_notifications(u)
  PROVE  MemberInv'
<1>1. PICK d : d = db
  OBVIOUS
<1>2. PICK e : e = db'
  OBVIOUS
<1>3. Consistent(d) /\ req' = req
  BY <1>1 DEF MemberInv, update_notifications, Keep
<1>4. PICK on \in {d.subscribed \cup {u}, d.subscribed \ {u}} : e = [d EXCEPT !.subscribed = on]
  BY <1>1, <1>2 DEF update_notifications, Write
<1>5. e \in Tables /\ SameRows(d, e)
  BY <1>3, <1>4 DEF Consistent, Tables, SameRows
<1>6. Consistent(e)
  BY <1>3, <1>5, PeopleWritten
<1>7. RowsStay(d, e, req.id)
  BY <1>5 DEF RowsStay, SameRows
<1> QED
  BY <1>1, <1>2, <1>3, <1>6, <1>7, StepKeeps
--------------------------------------------------------------------------------
\* The tables stay consistent, and the request under way fits them.
LEMMA MembersStayConsistent == MemberSpec => []MemberInv
<1>1. MemberInit => MemberInv
  <2> SUFFICES ASSUME MemberInit PROVE MemberInv
    OBVIOUS
  <2>1. Consistent(db)
    BY MemberAssumption DEF MemberInit
  <2>2. RequestFits(db, req)
    BY DEF MemberInit, RequestFits, Idle
  <2> QED
    BY <2>1, <2>2 DEF MemberInv
<1>2. MemberInv /\ [MemberNext]_memberVars => MemberInv'
  <2> SUFFICES ASSUME MemberInv, [MemberNext]_memberVars PROVE MemberInv'
    OBVIOUS
  <2>1. CASE UNCHANGED memberVars
    BY <2>1 DEF memberVars, MemberInv
  <2>2. CASE PeopleNext
    BY <2>2, create_organizationKeeps, update_organizationKeeps, delete_organizationKeeps,
       RunDeleteOrganizationKeeps, create_organization_memberKeeps, delete_organization_memberKeeps,
       set_organization_ownerKeeps, accept_inviteKeeps, update_organization_memberKeeps, SaveOrganizationKeeps,
       SaveMemberKeeps, reconcileKeeps, delete_userKeeps, add_user_to_socialapp_organizationKeeps DEF PeopleNext
  <2>3. CASE TeamNext
    BY <2>3, create_teamKeeps, update_teamKeeps, delete_teamKeeps, modify_member_for_teamKeeps,
       add_team_to_projectKeeps, delete_team_from_projectKeeps, create_projectKeeps, update_projectKeeps,
       delete_projectKeeps, create_project_keyKeeps, update_user_notification_alertsKeeps,
       update_notificationsKeeps, delete_project_keyKeeps, RunDeleteProjectKeeps, SaveTeamKeeps, SaveProjectKeeps
       DEF TeamNext
  <2> QED
    BY <2>1, <2>2, <2>3 DEF MemberNext
<1> QED
  BY <1>1, <1>2, PTL DEF MemberSpec

\* Consistent tables send a project's alerts to its organization alone.
LEMMA RecipientsHome ==
  ASSUME NEW d, Consistent(d), NEW p \in Projects, d.project[p] # None, NEW u \in Recipients(d, p)
  PROVE  Role(d, u, d.project[p].org) # None
<1>1. PICK t \in Teams : /\ d.team[t] # None /\ p \in d.team[t].projects
                         /\ \E s \in d.team[t].members : d.seat[s].user = u
  BY DEF Recipients
<1>2. PICK s \in d.team[t].members : d.seat[s].user = u
  BY <1>1
<1>3. s \in Seats /\ TeamHome(d, t, d.team[t])
  BY <1>1, <1>2, TeamLinks
<1>4. PICK o : o = d.project[p].org
  OBVIOUS
<1>5. d.seat[s] # None /\ d.seat[s].org = o
  BY <1>1, <1>2, <1>3, <1>4 DEF TeamHome
<1>6. PICK own : own = { x \in SeatsOf(d, o) : d.seat[x].user = u }
  OBVIOUS
<1>7. s \in own
  BY <1>2, <1>3, <1>5, <1>6 DEF SeatsOf, Taken
<1>8. PICK r \in own : r = CHOOSE x \in own : TRUE
  BY <1>7
<1>9. r \in Seats /\ d.seat[r] # None
  BY <1>6, <1>8 DEF SeatsOf, Taken
<1>10. d.seat[r] \in SeatRow
  BY <1>9, RowTypes
<1>11. d.seat[r].role \in MEMBER..OWNER
  BY <1>10 DEF SeatRow
<1>12. Role(d, u, o) = d.seat[r].role
  BY <1>6, <1>7, <1>8 DEF Role
<1> QED
  BY <1>4, <1>11, <1>12, MemberAssumption

\* LinksStayHome: in every behaviour, for any number of organizations, users and
\* projects and any interleaving of requests, tasks and boots.
THEOREM MemberLinksStayHome == MemberSpec => []LinksStayHome
<1>1. MemberInv => LinksStayHome
  <2> SUFFICES ASSUME MemberInv PROVE LinksStayHome
    OBVIOUS
  <2>1. PICK d : d = db
    OBVIOUS
  <2>2. Consistent(d)
    BY <2>1 DEF MemberInv
  <2>3. ASSUME NEW t \in Teams, d.team[t] # None
        PROVE  /\ d.org[d.team[t].org] # "absent"
               /\ d.team[t].members \subseteq SeatsOf(d, d.team[t].org)
               /\ d.team[t].projects \subseteq ProjectsOf(d, d.team[t].org)
    <3>1. TeamHome(d, t, d.team[t]) /\ d.team[t].members \subseteq Seats /\ d.team[t].projects \subseteq Projects
      BY <2>2, <2>3, TeamLinks
    <3> QED
      BY <3>1 DEF TeamHome, SeatsOf, Taken, ProjectsOf
  <2>4. ASSUME NEW o \in Orgs, d.owner[o] # None PROVE d.owner[o] \in SeatsOf(d, o)
    BY <2>2, <2>4 DEF Consistent, Tables, OwnersHome, SeatsOf, Taken
  <2>5. \A k \in Keys : d.key[k] # None => d.project[d.key[k]] # None
    BY <2>2, RowTypes
  <2>6. \A p \in Projects : d.project[p] # None => \A u \in Recipients(d, p) : Role(d, u, d.project[p].org) # None
    BY <2>2, RecipientsHome
  <2> QED
    BY <2>1, <2>3, <2>4, <2>5, <2>6 DEF LinksStayHome
<1> QED
  BY <1>1, MembersStayConsistent, PTL
--------------------------------------------------------------------------------
\* Credentials.
Operations == {"free", "primary", "codes", "grant", "pair", "renew", "revoke", "dead", "wizard"}
Subjects == Addresses \cup Hashes \cup Nat
Shape ==
  /\ seed \in Nat /\ seeds \in Nat /\ codes \in Nat
  /\ access \subseteq 1..MaxPairs
  /\ refresh \in [1..MaxPairs -> {"none", "live", "revoked"}]
  /\ crashed \subseteq [op : Operations, at : Nat, of : Subjects]
  /\ calls \in [Slots -> [op : Operations, at : Nat, of : Subjects]]

\* What the subject of a request in progress is: a previewed seed, a pair not
\* stored yet, a pair stored before, one whose access token is gone for good.
Subject(c) ==
  /\ c.op = "codes" => c.of \in Nat \ {0}
  /\ c.op = "pair" => c.of \in 1..MaxPairs /\ refresh[c.of] = "none"
  /\ c.op \in {"renew", "revoke", "dead"} => c.of \in 1..MaxPairs /\ refresh[c.of] # "none"
  /\ c.op = "dead" => c.of \notin access
SubjectsKnown == \A j \in Slots : Subject(calls[j])

\* No two requests issue the same pair.
PairsDistinct ==
  \A i, j \in Slots : calls[i].op = "pair" /\ calls[j].op = "pair" /\ calls[i].of = calls[j].of
                        => i = j

\* A request is to drop the access token of pair n, or died there.
Dying(n) == \E c \in Requests : c.op \in {"renew", "revoke"} /\ c.at = 2 /\ c.of = n
RevokedDying == \A n \in access : refresh[n] = "revoked" => Dying(n)

\* A confirmation was answered, or is about to be; one took the codes away to
\* store its own, or has.
Promised == held # {} \/ \E j \in Slots : At(j, "codes", 3)
Replacing(c) ==
  /\ c.op = "codes"
  /\ \/ c.at = 2 /\ codes = 0
     \/ c.at = 3 /\ codes = c.of
CodesKept == Promised => codes \in held \/ \E c \in Requests : Replacing(c)

PairInv == SubjectsKnown /\ PairsDistinct /\ RevokedDying
CredInv == Shape /\ PairInv /\ CodesKept
--------------------------------------------------------------------------------
\* The requests the invariant speaks about.
Watched == {"codes", "pair", "renew", "revoke", "dead"}

\* Slot j is given the request c.
Puts(j, c) == calls' = [calls EXCEPT ![j] = c]
IsCall(c) == c \in [op : Operations, at : Nat, of : Subjects]

\* The other slots keep their requests.
LEMMA PutsOne ==
  ASSUME Shape, NEW j \in Slots, NEW c, IsCall(c), Puts(j, c)
  PROVE  /\ calls' \in [Slots -> [op : Operations, at : Nat, of : Subjects]]
         /\ calls'[j] = c
         /\ \A i \in Slots : i # j => calls'[i] = calls[i]
BY DEF Shape, Puts, IsCall

\* They go on, and so does the request that died.
LEMMA RequestsStay ==
  ASSUME Shape, NEW j \in Slots, NEW c, Puts(j, c), UNCHANGED crashed
  PROVE  /\ c \in Requests'
         /\ \A d \in Requests : d # calls[j] => d \in Requests'
<1>1. calls'[j] = c /\ \A i \in Slots : i # j => calls'[i] = calls[i]
  BY DEF Shape, Puts
<1>2. ASSUME NEW d \in Requests, d # calls[j] PROVE d \in Requests'
  <2>1. CASE d \in crashed
    BY <2>1 DEF Requests
  <2>2. CASE \E i \in Slots : d = calls[i]
    BY <1>1, <1>2, <2>2 DEF Requests
  <2> QED
    BY <1>2, <2>1, <2>2 DEF Requests
<1> QED
  BY <1>1, <1>2 DEF Requests

\* A slot no request runs in.
LEMMA FreeIsCall == IsCall(Free) /\ Free.op = "free"
<1>1. 0 \in Subjects
  BY DEF Subjects
<1> QED
  BY <1>1 DEF Free, IsCall, Operations

\* A request moves on to its next step.
LEMMA GoToPuts ==
  ASSUME Shape, NEW j \in Slots, NEW n \in Nat, GoTo(j, n)
  PROVE  \E c : /\ IsCall(c) /\ Puts(j, c)
                /\ c.op = calls[j].op /\ c.at = n /\ c.of = calls[j].of
<1> DEFINE c == [calls[j] EXCEPT !.at = n]
<1>1. calls[j] \in [op : Operations, at : Nat, of : Subjects]
  BY DEF Shape
<1>2. IsCall(c) /\ c.op = calls[j].op /\ c.at = n /\ c.of = calls[j].of
  BY <1>1 DEF IsCall
<1>3. Puts(j, c)
  BY DEF GoTo, Puts
<1> QED
  BY <1>2, <1>3

\* A step of a request that is not watched, before or after, that leaves the
\* codes and the tokens alone.
LEMMA Bystander ==
  ASSUME CredInv, NEW j \in Slots, NEW c, IsCall(c), Puts(j, c),
         calls[j].op \notin Watched, c.op \notin Watched,
         UNCHANGED <<codeVars, access, refresh, crashed>>
  PROVE  CredInv'
<1> USE DEF CredInv, PairInv
<1>1. /\ calls' \in [Slots -> [op : Operations, at : Nat, of : Subjects]]
      /\ calls'[j] = c
      /\ \A i \in Slots : i # j => calls'[i] = calls[i]
  BY PutsOne
<1>2. Shape'
  BY <1>1 DEF Shape, codeVars
<1>3. SubjectsKnown'
  BY <1>1 DEF SubjectsKnown, Subject, Watched
<1>4. PairsDistinct'
  BY <1>1 DEF PairsDistinct, Watched
<1>5. ASSUME NEW n, Dying(n) PROVE Dying(n)'
  BY <1>5, RequestsStay DEF Dying, Watched
<1>6. RevokedDying'
  BY <1>5 DEF RevokedDying
<1>7. Promised' => Promised
  BY <1>1 DEF Promised, At, Watched, codeVars
<1>8. ASSUME NEW d \in Requests, Replacing(d) PROVE d \in Requests' /\ Replacing(d)'
  BY <1>8, RequestsStay DEF Replacing, Watched, codeVars
<1>9. CodesKept'
  BY <1>7, <1>8 DEF CodesKept, codeVars
<1> QED
  BY <1>2, <1>3, <1>4, <1>6, <1>9

\* So does a step that leaves every request alone.
LEMMA Untouched ==
  ASSUME CredInv, UNCHANGED <<calls, codes, held, access, refresh, crashed>>,
         seed' \in Nat, seeds' \in Nat
  PROVE  CredInv'
<1> USE DEF CredInv, PairInv
<1>1. Shape' /\ SubjectsKnown' /\ PairsDistinct'
  BY DEF Shape, SubjectsKnown, Subject, PairsDistinct
<1>2. RevokedDying'
  BY DEF RevokedDying, Dying, Requests
<1>3. CodesKept'
  BY DEF CodesKept, Promised, Replacing, Requests, At
<1> QED
  BY <1>1, <1>2, <1>3

\* The requests about addresses and tools.
LEMMA MailStep ==
  ASSUME CredInv, MailNext
  PROVE  CredInv'
<1> USE CredBounds DEF CredInv
<1>1. PICK j \in Slots :
        \/ MarkPrimary(j)
        \/ \E a \in Addresses : \/ create_email(j, a) \/ ConfirmEmail(j, a)
                                \/ delete_email(j, a) \/ set_email_as_primary(j, a)
  BY DEF MailNext
<1>2. CASE MarkPrimary(j)
  BY <1>2, FreeIsCall, Bystander DEF MarkPrimary, At, Done, Puts, Watched, codeVars, oauthVars
<1>3. ASSUME NEW a \in Addresses,
             create_email(j, a) \/ ConfirmEmail(j, a) \/ delete_email(j, a)
      PROVE  CredInv'
  BY <1>3, Untouched DEF create_email, ConfirmEmail, delete_email, Atomic, codeVars, oauthVars, Shape
<1>4. ASSUME NEW a \in Addresses, set_email_as_primary(j, a)
      PROVE  CredInv'
  <2>1. IsCall(Call("primary", 1, a)) /\ Call("primary", 1, a).op = "primary"
    BY DEF IsCall, Call, Subjects, Operations
  <2>2. Puts(j, Call("primary", 1, a)) /\ calls[j] = Free
        /\ UNCHANGED <<codeVars, access, refresh, crashed>>
    BY <1>4 DEF set_email_as_primary, Begin, Puts, oauthVars
  <2> QED
    BY <2>1, <2>2, FreeIsCall, Bystander DEF Watched
<1> QED
  BY <1>1, <1>2, <1>3, <1>4

\* A preview, a token or a step of the wizard changes nothing else.
LEMMA ToolsStep ==
  ASSUME CredInv, ToolsNext
  PROVE  CredInv'
<1> USE CredBounds DEF CredInv
<1>1. ASSUME NEW j \in Slots, NEW n \in 1..MaxTokens,
             delete_api_token(j, n) \/ \E s \in {"project:releases", "other"} : create_api_token(j, n, s)
      PROVE  CredInv'
  BY <1>1, Untouched DEF create_api_token, delete_api_token, Atomic, codeVars, oauthVars, Shape
<1>4. ASSUME NEW h \in Hashes,
             ExpireHash(h) \/ \E j \in Slots : setup_wizard(j, h) \/ setup_wizard_delete(j, h)
      PROVE  CredInv'
  BY <1>4, Untouched DEF setup_wizard, setup_wizard_delete, ExpireHash, Atomic, codeVars,
     oauthVars, Shape
<1>2. ASSUME NEW j \in Slots, NEW n \in 1..MaxTokens, NEW h \in Hashes, setup_wizard_set_token(j, h, n)
      PROVE  CredInv'
  <2>1. IsCall(Call("wizard", n, h)) /\ Call("wizard", n, h).op = "wizard"
    BY DEF IsCall, Call, Subjects, Operations
  <2>2. Puts(j, Call("wizard", n, h)) /\ calls[j] = Free
        /\ UNCHANGED <<codeVars, access, refresh, crashed>>
    BY <1>2 DEF setup_wizard_set_token, Begin, Puts, oauthVars
  <2> QED
    BY <2>1, <2>2, FreeIsCall, Bystander DEF Watched
<1>3. ASSUME NEW j \in Slots, StoreWizard(j)
      PROVE  CredInv'
  BY <1>3, FreeIsCall, Bystander DEF StoreWizard, Done, Puts, Watched, codeVars, oauthVars
<1> QED
  BY <1>1, <1>2, <1>3, <1>4 DEF ToolsNext

--------------------------------------------------------------------------------
\* A step of the recovery codes leaves the token pairs as they were.
LEMMA PairsUntouched ==
  ASSUME CredInv, NEW j \in Slots, NEW c, IsCall(c), Puts(j, c),
         calls[j].op \in {"free", "codes"}, c.op \in {"free", "codes"}, Subject(c),
         UNCHANGED <<access, refresh, crashed>>
  PROVE  PairInv'
<1> USE DEF CredInv, PairInv
<1>1. /\ calls'[j] = c
      /\ \A i \in Slots : i # j => calls'[i] = calls[i]
  BY PutsOne
<1>2. SubjectsKnown'
  BY <1>1 DEF SubjectsKnown, Subject
<1>3. PairsDistinct'
  BY <1>1 DEF PairsDistinct
<1>4. ASSUME NEW n, Dying(n) PROVE Dying(n)'
  BY <1>4, RequestsStay DEF Dying
<1>5. RevokedDying'
  BY <1>4 DEF RevokedDying
<1> QED
  BY <1>2, <1>3, <1>5

\* One step per step of set_recovery_codes: who deletes the codes is about to
\* store its own, and who finds somebody else's there leaves them to them.
LEMMA CodesStep ==
  ASSUME CredInv, CodesNext
  PROVE  CredInv'
<1> USE DEF CredInv
<1>1. ASSUME NEW j \in Slots, generate_recovery_codes(j) PROVE CredInv'
  BY <1>1, Untouched DEF generate_recovery_codes, Atomic, Shape, oauthVars
<1>2. ASSUME NEW j \in Slots, set_recovery_codes(j) PROVE CredInv'
  <2> DEFINE c == Call("codes", 1, seed)
  <2>1. IsCall(c) /\ c.op = "codes" /\ c.at = 1 /\ c.of = seed /\ seed # 0
    BY <1>2 DEF set_recovery_codes, IsCall, Call, Subjects, Operations, Shape
  <2>2. Puts(j, c) /\ calls[j] = Free /\ UNCHANGED <<codeVars, access, refresh, crashed>>
    BY <1>2 DEF set_recovery_codes, Begin, Puts, oauthVars
  <2> HIDE DEF c
  <2>3. Subject(c)
    BY <2>1 DEF Subject, Shape
  <2>4. PairInv'
    BY <2>1, <2>2, <2>3, FreeIsCall, PairsUntouched
  <2>5. /\ calls' \in [Slots -> [op : Operations, at : Nat, of : Subjects]]
        /\ calls'[j] = c
        /\ \A i \in Slots : i # j => calls'[i] = calls[i]
    BY <2>1, <2>2, PutsOne
  <2>6. Shape'
    BY <2>2, <2>5 DEF Shape, codeVars
  <2>7. Promised' => Promised
    BY <2>1, <2>2, <2>5, FreeIsCall DEF Promised, At, codeVars
  <2>8. ASSUME NEW d \in Requests, Replacing(d) PROVE d \in Requests' /\ Replacing(d)'
    BY <2>2, <2>8, FreeIsCall, RequestsStay DEF Replacing, codeVars
  <2> QED
    BY <2>2, <2>4, <2>6, <2>7, <2>8 DEF CodesKept, codeVars
<1>3. ASSUME NEW j \in Slots, DeleteCodes(j) PROVE CredInv'
  <2>1. PICK c : /\ IsCall(c) /\ Puts(j, c)
                 /\ c.op = calls[j].op /\ c.at = 2 /\ c.of = calls[j].of
    BY <1>3, GoToPuts DEF DeleteCodes
  <2>2. Subject(calls[j]) /\ calls[j].op = "codes"
    BY <1>3 DEF DeleteCodes, At, SubjectsKnown, PairInv
  <2>3. Subject(c)
    BY <2>1, <2>2 DEF Subject
  <2>4. PairInv'
    BY <1>3, <2>1, <2>2, <2>3, PairsUntouched DEF DeleteCodes, GoTo, oauthVars
  <2>5. /\ calls' \in [Slots -> [op : Operations, at : Nat, of : Subjects]]
        /\ calls'[j] = c
    BY <2>1, PutsOne
  <2>6. Shape'
    BY <1>3, <2>5 DEF Shape, DeleteCodes, GoTo, oauthVars
  <2>7. c \in Requests' /\ Replacing(c)'
    <3>1. codes' = 0 /\ UNCHANGED crashed
      BY <1>3 DEF DeleteCodes, GoTo
    <3> QED
      BY <2>1, <2>2, <3>1, RequestsStay DEF Replacing
  <2> QED
    BY <2>4, <2>6, <2>7 DEF CodesKept
<1>4. ASSUME NEW j \in Slots, ActivateCodes(j) PROVE CredInv'
  <2>1. Subject(calls[j]) /\ At(j, "codes", 2) /\ calls[j].of \in Nat \ {0}
    BY <1>4 DEF ActivateCodes, At, SubjectsKnown, PairInv, Subject
  <2>2. UNCHANGED <<seed, seeds, held, access, refresh, crashed>>
    BY <1>4 DEF ActivateCodes, GoTo, Done, oauthVars
  <2>3. CASE codes' = calls[j].of /\ GoTo(j, 3)
    <3>1. PICK c : /\ IsCall(c) /\ Puts(j, c)
                   /\ c.op = calls[j].op /\ c.at = 3 /\ c.of = calls[j].of
      BY <2>3, GoToPuts
    <3>2. PairInv'
      BY <2>1, <2>2, <3>1, PairsUntouched DEF Subject, At
    <3>3. Shape'
      BY <2>1, <2>2, <2>3, <3>1, PutsOne DEF Shape
    <3>4. c \in Requests' /\ Replacing(c)'
      BY <2>1, <2>2, <2>3, <3>1, RequestsStay DEF Replacing, At
    <3> QED
      BY <3>2, <3>3, <3>4 DEF CodesKept
  <2>4. CASE codes # 0 /\ UNCHANGED codes /\ Done(j)
    <3>1. Puts(j, Free) /\ Subject(Free)
      BY <2>4, FreeIsCall DEF Done, Puts, Subject
    <3>2. PairInv'
      BY <2>1, <2>2, <3>1, FreeIsCall, PairsUntouched DEF At
    <3>3. /\ calls' \in [Slots -> [op : Operations, at : Nat, of : Subjects]]
          /\ calls'[j] = Free
          /\ \A i \in Slots : i # j => calls'[i] = calls[i]
      BY <3>1, FreeIsCall, PutsOne
    <3>4. Shape'
      BY <2>2, <2>4, <3>3 DEF Shape
    <3>5. Promised' => Promised
      BY <2>2, <3>3, FreeIsCall DEF Promised, At
    <3>6. ASSUME NEW d \in Requests, Replacing(d) PROVE d \in Requests' /\ Replacing(d)'
      BY <2>1, <2>2, <2>4, <3>1, <3>6, RequestsStay DEF Replacing, At
    <3> QED
      BY <2>2, <2>4, <3>2, <3>4, <3>5, <3>6 DEF CodesKept
  <2> QED
    BY <1>4, <2>3, <2>4 DEF ActivateCodes
<1>5. ASSUME NEW j \in Slots, ForgetSeed(j) PROVE CredInv'
  <2>1. Puts(j, Free) /\ At(j, "codes", 3) /\ UNCHANGED <<codes, access, refresh, crashed>>
    BY <1>5 DEF ForgetSeed, Done, Puts, oauthVars
  <2>2. Subject(Free)
    BY FreeIsCall DEF Subject
  <2>3. PairInv'
    BY <2>1, <2>2, FreeIsCall, PairsUntouched DEF At
  <2>4. /\ calls' \in [Slots -> [op : Operations, at : Nat, of : Subjects]]
        /\ calls'[j] = Free
        /\ \A i \in Slots : i # j => calls'[i] = calls[i]
    BY <2>1, FreeIsCall, PutsOne
  <2>5. Shape'
    BY <1>5, <2>1, <2>4 DEF Shape, ForgetSeed
  <2>6. CASE codes = calls[j].of
    BY <1>5, <2>1, <2>3, <2>5, <2>6 DEF CodesKept, ForgetSeed
  <2>7. CASE codes # calls[j].of
    <3>1. Promised /\ held \subseteq held'
      BY <1>5, <2>1, <2>7 DEF Promised, ForgetSeed
    <3>2. ASSUME NEW d \in Requests, Replacing(d) PROVE d \in Requests' /\ Replacing(d)'
      BY <2>1, <2>7, <3>2, RequestsStay DEF Replacing, At
    <3> QED
      BY <2>1, <2>3, <2>5, <3>1, <3>2 DEF CodesKept
  <2> QED
    BY <2>6, <2>7
<1>6. ASSUME ExpireSeed PROVE CredInv'
  BY <1>6, Untouched DEF ExpireSeed, oauthVars, Shape
<1> QED
  BY <1>1, <1>2, <1>3, <1>4, <1>5, <1>6 DEF CodesNext
--------------------------------------------------------------------------------
\* A step of a token pair leaves the codes as they were.
LEMMA CodesUntouched ==
  ASSUME CredInv, NEW j \in Slots, NEW c, IsCall(c), Puts(j, c),
         calls[j].op # "codes", c.op # "codes", UNCHANGED <<codeVars, crashed>>
  PROVE  CodesKept'
<1>1. /\ calls'[j] = c
      /\ \A i \in Slots : i # j => calls'[i] = calls[i]
  BY PutsOne DEF CredInv
<1>2. Promised' => Promised
  BY <1>1 DEF Promised, At, codeVars
<1>3. ASSUME NEW d \in Requests, Replacing(d) PROVE d \in Requests' /\ Replacing(d)'
  BY <1>3, RequestsStay DEF Replacing, codeVars, CredInv
<1> QED
  BY <1>2, <1>3 DEF CredInv, CodesKept, codeVars

\* A fresh pair has no request, no access token and no refresh token.
LEMMA FreshIsNew ==
  ASSUME CredInv, NEW n \in Fresh
  PROVE  /\ IsCall(Call("pair", 1, n)) /\ n \in 1..MaxPairs /\ n \notin access /\ refresh[n] = "none"
         /\ \A i \in Slots : calls[i].op = "pair" => calls[i].of # n
<1>1. n \in 1..MaxPairs /\ n \notin Pairs
  BY DEF Fresh
<1>2. IsCall(Call("pair", 1, n))
  BY <1>1, CredBounds DEF IsCall, Call, Subjects, Operations
<1>3. n \notin access /\ \A i \in Slots : calls[i].op = "pair" => calls[i].of # n
  BY <1>1 DEF Pairs
<1>4. refresh[n] = "none"
  BY <1>1 DEF Pairs
<1> QED
  BY <1>1, <1>2, <1>3, <1>4

\* A request that drops the access token it was to drop may end, or go on to
\* issue a fresh pair.
LEMMA PairEnds ==
  ASSUME CredInv, NEW j \in Slots, NEW c, Puts(j, c),
         c = Free \/ \E n \in Fresh : c = Call("pair", 1, n),
         calls[j].op \in Watched \cup {"grant"}, calls[j].op # "codes",
         calls[j].op \in {"renew", "revoke"} => calls[j].of \notin access',
         access' \subseteq access, UNCHANGED <<codeVars, refresh, crashed>>
  PROVE  CredInv'
<1>1. IsCall(c) /\ c.op \in {"free", "pair"}
  BY FreeIsCall, FreshIsNew DEF Call
<1>2. c.op = "pair" => /\ c.of \in 1..MaxPairs /\ refresh[c.of] = "none"
                       /\ \A i \in Slots : calls[i].op = "pair" => calls[i].of # c.of
  BY FreeIsCall, FreshIsNew DEF Call
<1> USE DEF CredInv, PairInv
<1>3. /\ calls' \in [Slots -> [op : Operations, at : Nat, of : Subjects]]
      /\ calls'[j] = c
      /\ \A i \in Slots : i # j => calls'[i] = calls[i]
  BY <1>1, PutsOne
<1>4. Shape'
  BY <1>3 DEF Shape, codeVars
<1>5. SubjectsKnown'
  BY <1>1, <1>2, <1>3 DEF SubjectsKnown, Subject
<1>6. PairsDistinct'
  BY <1>1, <1>2, <1>3 DEF PairsDistinct
<1>7. ASSUME NEW n \in access', Dying(n) PROVE Dying(n)'
  BY <1>7, RequestsStay DEF Dying
<1>8. RevokedDying'
  BY <1>7 DEF RevokedDying
<1>9. CodesKept'
  BY <1>1, CodesUntouched DEF CredInv
<1> QED
  BY <1>4, <1>5, <1>6, <1>8, <1>9

\* A request for a stored pair begins; one that begins by dropping the access
\* token may revoke the refresh token later.
LEMMA PairBegins ==
  ASSUME CredInv, NEW j \in Slots, NEW n \in 1..MaxPairs, NEW op \in {"renew", "revoke", "dead"},
         Puts(j, Call(op, 1, n)), calls[j] = Free, refresh[n] # "none",
         access' = (IF op = "dead" THEN access \ {n} ELSE access),
         UNCHANGED <<codeVars, refresh, crashed>>
  PROVE  CredInv'
<1> DEFINE c == Call(op, 1, n)
<1>1. IsCall(c) /\ c.op = op /\ c.at = 1 /\ c.of = n
  BY CredBounds DEF IsCall, Call, Subjects, Operations
<1> HIDE DEF c
<1>2. calls[j].op = "free"
  BY FreeIsCall
<1> USE DEF CredInv, PairInv
<1>3. /\ calls' \in [Slots -> [op : Operations, at : Nat, of : Subjects]]
      /\ calls'[j] = c
      /\ \A i \in Slots : i # j => calls'[i] = calls[i]
  BY <1>1, PutsOne DEF c
<1>4. Shape'
  BY <1>3 DEF Shape, codeVars
<1>5. SubjectsKnown'
  BY <1>1, <1>3 DEF SubjectsKnown, Subject
<1>6. PairsDistinct'
  BY <1>1, <1>3 DEF PairsDistinct
<1>7. ASSUME NEW m \in access', Dying(m) PROVE Dying(m)'
  BY <1>1, <1>2, <1>7, RequestsStay DEF Dying, c
<1>8. RevokedDying'
  BY <1>7 DEF RevokedDying
<1>9. CodesKept'
  BY <1>1, <1>2, CodesUntouched DEF CredInv, c
<1> QED
  BY <1>4, <1>5, <1>6, <1>8, <1>9

\* The first half of a rotation or revocation: the token is revoked, and the
\* request is about to drop its access token.
LEMMA RevokeOldStep ==
  ASSUME CredInv, NEW j \in Slots, RevokeOld(j)
  PROVE  CredInv'
<1> USE DEF CredInv, PairInv
<1>1. PICK c : /\ IsCall(c) /\ Puts(j, c)
               /\ c.op = calls[j].op /\ c.at = 2 /\ c.of = calls[j].of
  BY GoToPuts DEF RevokeOld
<1>2. c.op \in {"renew", "revoke"} /\ calls[j].at = 1 /\ Subject(calls[j])
  BY <1>1 DEF RevokeOld, SubjectsKnown
<1>3. /\ c.of \in 1..MaxPairs /\ refresh[c.of] # "none"
      /\ refresh' = [refresh EXCEPT ![c.of] = "revoked"]
      /\ UNCHANGED <<access, codeVars, crashed>>
  BY <1>1, <1>2 DEF RevokeOld, GoTo, Subject
<1>4. /\ calls' \in [Slots -> [op : Operations, at : Nat, of : Subjects]]
      /\ calls'[j] = c
      /\ \A i \in Slots : i # j => calls'[i] = calls[i]
  BY <1>1, PutsOne
<1>5. /\ refresh' \in [1..MaxPairs -> {"none", "live", "revoked"}]
      /\ \A n \in 1..MaxPairs : refresh'[n] = IF n = c.of THEN "revoked" ELSE refresh[n]
  BY <1>3 DEF Shape
<1>6. Shape'
  BY <1>3, <1>4, <1>5 DEF Shape, codeVars
<1>7. SubjectsKnown'
  BY <1>1, <1>2, <1>3, <1>4, <1>5 DEF SubjectsKnown, Subject
<1>8. PairsDistinct'
  BY <1>1, <1>2, <1>4 DEF PairsDistinct
<1>9. ASSUME NEW n \in access, refresh'[n] = "revoked" PROVE Dying(n)'
  <2>1. CASE n = c.of
    BY <1>1, <1>2, <1>3, <2>1, RequestsStay DEF Dying
  <2>2. CASE n # c.of
    <3>1. Dying(n)
      BY <1>5, <1>9, <2>2 DEF RevokedDying, Shape
    <3> QED
      BY <1>1, <1>2, <1>3, <2>2, <3>1, RequestsStay DEF Dying
  <2> QED
    BY <2>1, <2>2
<1>10. RevokedDying'
  BY <1>3, <1>9 DEF RevokedDying
<1>11. CodesKept'
  BY <1>1, <1>2, <1>3, CodesUntouched DEF CredInv
<1> QED
  BY <1>6, <1>7, <1>8, <1>10, <1>11

\* The access token of a pair that no refresh token was stored for yet: none of
\* the requests in progress is about it.
LEMMA CacheAccessStep ==
  ASSUME CredInv, NEW j \in Slots, CacheAccess(j)
  PROVE  CredInv'
<1> USE DEF CredInv, PairInv
<1>1. PICK c : /\ IsCall(c) /\ Puts(j, c)
               /\ c.op = calls[j].op /\ c.at = 2 /\ c.of = calls[j].of
  BY GoToPuts DEF CacheAccess
<1>2. /\ c.op = "pair" /\ c.of \in 1..MaxPairs /\ refresh[c.of] = "none"
      /\ access' = access \cup {c.of} /\ UNCHANGED <<refresh, codeVars, crashed>>
  BY <1>1 DEF CacheAccess, GoTo, At, SubjectsKnown, Subject
<1>3. /\ calls' \in [Slots -> [op : Operations, at : Nat, of : Subjects]]
      /\ calls'[j] = c
      /\ \A i \in Slots : i # j => calls'[i] = calls[i]
  BY <1>1, PutsOne
<1>4. Shape'
  BY <1>2, <1>3 DEF Shape, codeVars
<1>5. SubjectsKnown'
  BY <1>1, <1>2, <1>3 DEF SubjectsKnown, Subject
<1>6. PairsDistinct'
  <2>1. \A i \in Slots : calls'[i].op = calls[i].op /\ calls'[i].of = calls[i].of
    BY <1>1, <1>3
  <2> QED
    BY <2>1 DEF PairsDistinct
<1>7. ASSUME NEW n, Dying(n) PROVE Dying(n)'
  BY <1>1, <1>2, <1>7, RequestsStay DEF Dying
<1>8. RevokedDying'
  BY <1>2, <1>7 DEF RevokedDying
<1>9. CodesKept'
  BY <1>1, <1>2, CodesUntouched DEF CredInv
<1> QED
  BY <1>4, <1>5, <1>6, <1>8, <1>9

\* A refresh token is stored, or revoked after its access token was dropped.
LEMMA LastStep ==
  ASSUME CredInv, NEW j \in Slots, StoreRefresh(j) \/ RevokePaired(j)
  PROVE  CredInv'
<1> USE DEF CredInv, PairInv
<1> DEFINE n == calls[j].of
<1>1. /\ Puts(j, Free) /\ UNCHANGED <<access, codeVars, crashed>>
      /\ calls[j].op \in {"pair", "dead"} /\ Subject(calls[j])
  BY DEF StoreRefresh, RevokePaired, At, Done, Puts, SubjectsKnown
<1>2. /\ n \in 1..MaxPairs
      /\ calls[j].op = "pair" => refresh[n] = "none"
      /\ calls[j].op = "dead" => refresh[n] # "none" /\ n \notin access
  BY <1>1 DEF Subject
<1>3. /\ refresh' \in [1..MaxPairs -> {"none", "live", "revoked"}]
      /\ \A m \in 1..MaxPairs : m # n => refresh'[m] = refresh[m]
      /\ refresh'[n] # "none"
      /\ calls[j].op = "pair" => refresh'[n] = "live"
  <2>1. CASE StoreRefresh(j)
    BY <1>2, <2>1 DEF StoreRefresh, At, Shape
  <2>2. CASE RevokePaired(j)
    BY <1>2, <2>2 DEF RevokePaired, At, Shape
  <2> QED
    BY <2>1, <2>2
<1> HIDE DEF n
<1>4. /\ calls' \in [Slots -> [op : Operations, at : Nat, of : Subjects]]
      /\ calls'[j] = Free
      /\ \A i \in Slots : i # j => calls'[i] = calls[i]
  BY <1>1, FreeIsCall, PutsOne
<1>5. Shape'
  BY <1>1, <1>3, <1>4 DEF Shape, codeVars
<1>6. SubjectsKnown'
  <2> SUFFICES ASSUME NEW i \in Slots, i # j PROVE Subject(calls[i])'
    BY <1>4, FreeIsCall DEF SubjectsKnown, Subject
  <2>1. calls'[i] = calls[i] /\ Subject(calls[i])
    BY <1>4 DEF SubjectsKnown
  <2>2. calls[i].op = "pair" => calls[i].of # n
    BY <1>1, <1>2 DEF SubjectsKnown, Subject, PairsDistinct, n
  <2> QED
    BY <1>1, <1>3, <2>1, <2>2 DEF Subject
<1>7. PairsDistinct'
  BY <1>4, FreeIsCall DEF PairsDistinct
<1>8. ASSUME NEW m, Dying(m) PROVE Dying(m)'
  BY <1>1, <1>8, RequestsStay DEF Dying
<1>9. RevokedDying'
  <2> SUFFICES ASSUME NEW m \in access, refresh'[m] = "revoked" PROVE Dying(m)
    BY <1>1, <1>8 DEF RevokedDying
  <2>1. m # n /\ m \in 1..MaxPairs
    BY <1>1, <1>2, <1>3 DEF Shape
  <2> QED
    BY <1>3, <2>1 DEF RevokedDying
<1>10. CodesKept'
  BY <1>1, FreeIsCall, CodesUntouched DEF CredInv
<1> QED
  BY <1>5, <1>6, <1>7, <1>9, <1>10

\* A step of the token endpoint keeps the invariant.
LEMMA OAuthStep ==
  ASSUME CredInv, OAuthNext
  PROVE  CredInv'
<1> USE CredBounds
<1>1. ASSUME NEW j \in Slots, oauth_consent(j) PROVE CredInv'
  BY <1>1, Untouched DEF oauth_consent, Atomic, codeVars, CredInv, Shape
<1>2. ASSUME NEW j \in Slots, NEW c \in 1..MaxGrants, exchange_authorization_code(j, c)
      PROVE  CredInv'
  <2>1. IsCall(Call("grant", 1, c)) /\ Call("grant", 1, c).op = "grant"
    BY DEF IsCall, Call, Subjects, Operations
  <2>2. Puts(j, Call("grant", 1, c)) /\ calls[j] = Free
        /\ UNCHANGED <<codeVars, access, refresh, crashed>>
    BY <1>2 DEF exchange_authorization_code, Begin, Puts, oauthVars
  <2> QED
    BY <2>1, <2>2, FreeIsCall, Bystander DEF Watched
<1>3. ASSUME NEW j \in Slots, DeleteGrant(j) PROVE CredInv'
  BY <1>3, PairEnds DEF DeleteGrant, Issue, At, Puts, Watched
<1>4. ASSUME NEW j \in Slots, CacheAccess(j) PROVE CredInv'
  BY <1>4, CacheAccessStep
<1>5. ASSUME NEW j \in Slots, StoreRefresh(j) \/ RevokePaired(j) PROVE CredInv'
  BY <1>5, LastStep
<1>6. ASSUME NEW j \in Slots, NEW n \in 1..MaxPairs, exchange_refresh_token(j, n) PROVE CredInv'
  BY <1>6, PairBegins DEF exchange_refresh_token, Begin, Puts, oauthVars
<1>7. ASSUME NEW j \in Slots, NEW n \in 1..MaxPairs, RevokeRefresh(j, n) PROVE CredInv'
  BY <1>7, PairBegins DEF RevokeRefresh, Begin, Puts, oauthVars
<1>8. ASSUME NEW j \in Slots, NEW n \in 1..MaxPairs, RevokeAccess(j, n) PROVE CredInv'
  BY <1>8, PairBegins DEF RevokeAccess, Begin, Puts
<1>9. ASSUME NEW j \in Slots, RevokeOld(j) PROVE CredInv'
  BY <1>9, RevokeOldStep
<1>10. ASSUME NEW j \in Slots, DropOldAccess(j) PROVE CredInv'
  BY <1>10, PairEnds DEF DropOldAccess, Issue, At, Done, Puts, Watched
<1>11. ASSUME ExpireOAuth PROVE CredInv'
  <2>1. access' \subseteq access /\ UNCHANGED <<refresh, codeVars, calls, crashed>>
    BY <1>11 DEF ExpireOAuth
  <2>2. Shape' /\ SubjectsKnown' /\ PairsDistinct'
    BY <2>1 DEF CredInv, PairInv, Shape, SubjectsKnown, Subject, PairsDistinct, codeVars
  <2>3. RevokedDying'
    BY <2>1 DEF CredInv, PairInv, RevokedDying, Dying, Requests
  <2>4. CodesKept'
    BY <2>1 DEF CredInv, CodesKept, Promised, Replacing, Requests, At, codeVars
  <2> QED
    BY <2>2, <2>3, <2>4 DEF CredInv, PairInv
<1> QED
  BY <1>1, <1>2, <1>3, <1>4, <1>5, <1>6, <1>7, <1>8, <1>9, <1>10, <1>11 DEF OAuthNext

\* A request that dies is remembered where it died.
LEMMA CrashStep ==
  ASSUME CredInv, NEW j \in Slots, Crash(j)
  PROVE  CredInv'
<1> USE DEF CredInv, PairInv
<1>1. Puts(j, Free) /\ crashed = {} /\ crashed' = {calls[j]} /\ UNCHANGED <<codeVars, access, refresh>>
  BY DEF Crash, Puts, oauthVars
<1>2. /\ calls' \in [Slots -> [op : Operations, at : Nat, of : Subjects]]
      /\ calls'[j] = Free
      /\ \A i \in Slots : i # j => calls'[i] = calls[i]
  BY <1>1, FreeIsCall, PutsOne
<1>3. Shape'
  BY <1>1, <1>2 DEF Shape, codeVars
<1>4. SubjectsKnown'
  BY <1>1, <1>2, FreeIsCall DEF SubjectsKnown, Subject
<1>5. PairsDistinct'
  BY <1>2, FreeIsCall DEF PairsDistinct
<1>6. Requests \subseteq Requests'
  BY <1>1, <1>2 DEF Requests
<1>7. RevokedDying'
  BY <1>1, <1>6 DEF RevokedDying, Dying
<1>8. Promised' => Promised
  BY <1>1, <1>2, FreeIsCall DEF Promised, At, codeVars
<1>9. CodesKept'
  BY <1>1, <1>6, <1>8 DEF CodesKept, Replacing, codeVars
<1> QED
  BY <1>3, <1>4, <1>5, <1>7, <1>9

\* CredInv, the inductive invariant, holds in every behaviour of the credential
\* requests, whichever of them crash.
THEOREM CredInvariant == CredSpec => []CredInv
<1>1. CredInit => CredInv
  <2> SUFFICES ASSUME CredInit PROVE CredInv
    OBVIOUS
  <2> USE DEF CredInit
  <2>1. Shape
    BY FreeIsCall DEF Shape, IsCall
  <2>2. \A j \in Slots : calls[j].op = "free"
    BY FreeIsCall
  <2>3. SubjectsKnown /\ PairsDistinct
    BY <2>2 DEF SubjectsKnown, Subject, PairsDistinct
  <2>4. RevokedDying
    BY DEF RevokedDying
  <2>5. CodesKept
    BY <2>2 DEF CodesKept, Promised, At
  <2> QED
    BY <2>1, <2>3, <2>4, <2>5 DEF CredInv, PairInv
<1>2. CredInv /\ [CredNext]_credVars => CredInv'
  <2> SUFFICES ASSUME CredInv, [CredNext]_credVars PROVE CredInv'
    OBVIOUS
  <2>1. CASE UNCHANGED credVars
    BY <2>1, Untouched DEF credVars, CredInv, Shape
  <2> QED
    BY <2>1, MailStep, CodesStep, OAuthStep, ToolsStep, CrashStep DEF CredNext
<1> QED
  BY <1>1, <1>2, PTL DEF CredSpec

--------------------------------------------------------------------------------
\* Replays.  A spent code or refresh token was exchanged for a pair: it is gone
\* from the cache, or revoked.
Exchanges == {"grant", "renew"}
Spent(op, of) == /\ op = "grant" => of \in (1..consents) \ grants
                 /\ op = "renew" => of \in 1..MaxPairs /\ refresh[of] = "revoked"
IssuedSpent == \A e \in issued : e[1] \in Exchanges /\ Spent(e[1], e[2])
Consented == consents \in Nat /\ grants \subseteq 1..consents
Exchanged(c) == /\ c.op = "grant" => c.of \in 1..consents
                /\ c.op = "renew" => c.at \in {1, 2} /\ (c.at = 2 => refresh[c.of] = "revoked")
ExchangesKnown == \A j \in Slots : Exchanged(calls[j])

\* Two requests that exchange the same thing, or one that exchanges what is
\* spent, met while they did.
Same(c, op, of) == c.op \in Exchanges /\ c.op = op /\ c.of = of
TwiceRaced == \A i, j \in Slots :
                i # j /\ Same(calls[i], calls[j].op, calls[j].of)
                  => <<calls[i].op, calls[i].of>> \in raced
AgainRaced == \A j \in Slots : \A e \in issued :
                Same(calls[j], e[1], e[2]) => <<e[1], e[2]>> \in raced
ReplayInv == /\ IssuedSpent /\ Consented /\ ExchangesKnown
             /\ TwiceRaced /\ AgainRaced /\ ReplaysFindNothing

\* What was spent stays spent when no code comes back and no token comes alive.
Spending ==
  /\ consents' \in Nat /\ consents' >= consents
  /\ grants' \subseteq 1..consents' /\ \A g \in grants' : g \in grants \/ g > consents
  /\ \A n \in 1..MaxPairs : refresh[n] = "revoked" => refresh'[n] = "revoked"

LEMMA SpentStays ==
  ASSUME Consented, Spending, NEW op, NEW of, Spent(op, of)
  PROVE  Spent(op, of)'
BY DEF Spent, Spending, Consented

LEMMA ExchangedStays ==
  ASSUME Consented, Spending, NEW c, Subject(c), Exchanged(c)
  PROVE  Exchanged(c)'
BY DEF Exchanged, Subject, Spending, Consented

\* A request that goes on with what it exchanges, or is about something else.
LEMMA ReplayAside ==
  ASSUME CredInv, ReplayInv, Spending, NEW j \in Slots, NEW c, Puts(j, c),
         \/ c.op \notin Exchanges
         \/ c.op = calls[j].op /\ c.of = calls[j].of /\ Exchanged(c)',
         UNCHANGED <<issued, raced>>
  PROVE  ReplayInv'
<1> USE DEF ReplayInv
<1>1. calls'[j] = c /\ \A i \in Slots : i # j => calls'[i] = calls[i]
  BY DEF CredInv, Shape, Puts
<1>2. IssuedSpent'
  BY SpentStays DEF IssuedSpent
<1>3. Consented'
  BY DEF Consented, Spending
<1>4. ASSUME NEW i \in Slots PROVE Exchanged(calls[i])'
  <2>1. CASE i = j
    BY <1>1, <2>1 DEF Exchanged, Exchanges
  <2>2. CASE i # j
    <3>1. Exchanged(calls[i]) /\ Subject(calls[i]) /\ calls'[i] = calls[i]
      BY <1>1, <2>2 DEF ExchangesKnown, CredInv, PairInv, SubjectsKnown
    <3>2. PICK d : d = calls[i]
      OBVIOUS
    <3>3. Exchanged(d)'
      BY <3>1, <3>2, ExchangedStays
    <3> QED
      BY <3>1, <3>2, <3>3 DEF Exchanged
  <2> QED
    BY <2>1, <2>2
<1>5. TwiceRaced'
  BY <1>1 DEF TwiceRaced, Same, Exchanges
<1>6. AgainRaced'
  BY <1>1 DEF AgainRaced, Same, Exchanges
<1>7. ReplaysFindNothing'
  BY DEF ReplaysFindNothing
<1> QED
  BY <1>2, <1>3, <1>4, <1>5, <1>6, <1>7 DEF ExchangesKnown

\* No request moves.
LEMMA ReplayUntouched ==
  ASSUME CredInv, ReplayInv, Spending, UNCHANGED <<calls, issued, raced>>
  PROVE  ReplayInv'
<1> USE DEF ReplayInv
<1>1. IssuedSpent'
  BY SpentStays DEF IssuedSpent
<1>2. Consented'
  BY DEF Consented, Spending
<1>3. ASSUME NEW i \in Slots PROVE Exchanged(calls[i])'
  <2>1. PICK d : d = calls[i]
    OBVIOUS
  <2>2. Exchanged(d) /\ Subject(d)
    BY <2>1 DEF ExchangesKnown, CredInv, PairInv, SubjectsKnown
  <2>3. Exchanged(d)'
    BY <2>2, ExchangedStays
  <2> QED
    BY <2>1, <2>3 DEF Exchanged
<1>4. TwiceRaced' /\ AgainRaced' /\ ReplaysFindNothing'
  BY DEF TwiceRaced, AgainRaced, ReplaysFindNothing, Same
<1> QED
  BY <1>1, <1>2, <1>3, <1>4 DEF ExchangesKnown

\* An exchange begins with something that is not spent.
LEMMA ExchangeBegins ==
  ASSUME CredInv, ReplayInv, NEW j \in Slots, NEW op \in Exchanges, NEW of,
         Puts(j, Call(op, 1, of)), Meets(op, of), calls[j] = Free, ~Spent(op, of),
         op = "grant" => of \in 1..consents,
         UNCHANGED <<grants, consents, refresh, issued>>
  PROVE  ReplayInv'
<1> DEFINE c == Call(op, 1, of)
<1>1. c.op = op /\ c.at = 1 /\ c.of = of
  BY DEF Call
<1> HIDE DEF c
<1> USE DEF ReplayInv
<1>2. calls'[j] = c /\ \A i \in Slots : i # j => calls'[i] = calls[i]
  BY DEF CredInv, Shape, Puts, c
<1>3. raced \subseteq raced'
      /\ \A i \in Slots : calls[i].op = op /\ calls[i].of = of => <<op, of>> \in raced'
  BY DEF Meets
<1>4. IssuedSpent' /\ Consented'
  BY DEF IssuedSpent, Consented, Spent
<1>5. ExchangesKnown'
  BY <1>1, <1>2 DEF ExchangesKnown, Exchanged
<1>6. TwiceRaced'
  <2> SUFFICES ASSUME NEW i \in Slots, NEW k \in Slots, i # k,
                      Same(calls'[i], calls'[k].op, calls'[k].of)
               PROVE  <<calls'[i].op, calls'[i].of>> \in raced'
    BY DEF TwiceRaced, Same
  <2>1. CASE i = j
    BY <1>1, <1>2, <1>3, <2>1 DEF Same
  <2>2. CASE k = j
    BY <1>1, <1>2, <1>3, <2>2 DEF Same
  <2>3. CASE i # j /\ k # j
    BY <1>2, <1>3, <2>3 DEF Same, TwiceRaced
  <2> QED
    BY <2>1, <2>2, <2>3
<1>7. AgainRaced'
  <2> SUFFICES ASSUME NEW i \in Slots, NEW e \in issued, Same(calls'[i], e[1], e[2])
               PROVE  <<e[1], e[2]>> \in raced'
    BY DEF AgainRaced, Same
  <2>1. CASE i = j
    BY <1>1, <1>2, <2>1 DEF Same, IssuedSpent
  <2>2. CASE i # j
    BY <1>2, <1>3, <2>2 DEF AgainRaced
  <2> QED
    BY <2>1, <2>2
<1>8. ReplaysFindNothing'
  BY <1>3 DEF ReplaysFindNothing
<1> QED
  BY <1>4, <1>5, <1>6, <1>7, <1>8

\* An exchange ends with a pair, and what it exchanged is spent.
LEMMA ExchangeEnds ==
  ASSUME CredInv, ReplayInv, Spending, NEW j \in Slots, NEW op \in Exchanges, NEW of,
         calls[j].op = op, calls[j].of = of, Issue(j), Spent(op, of)', UNCHANGED raced
  PROVE  ReplayInv'
<1> USE DEF ReplayInv
<1>1. PICK n \in Fresh : Puts(j, Call("pair", 1, n))
                         /\ issued' = issued \cup {<<calls[j].op, calls[j].of, n>>}
  BY DEF Issue, Puts
<1>2. /\ calls'[j].op = "pair"
      /\ \A i \in Slots : i # j => calls'[i] = calls[i]
  BY <1>1 DEF CredInv, Shape, Puts, Call
<1> DEFINE new == <<op, of, n>>
<1>3. new[1] = op /\ new[2] = of
  OBVIOUS
<1> HIDE DEF new
<1>4. issued' = issued \cup {new}
  BY <1>1 DEF new
<1>5. ASSUME NEW e \in issued' PROVE e[1] \in Exchanges /\ Spent(e[1], e[2])'
  <2>1. CASE e = new
    BY <1>3, <2>1 DEF Spent
  <2>2. CASE e \in issued
    <3>1. PICK a, b : a = e[1] /\ b = e[2]
      OBVIOUS
    <3>2. a \in Exchanges /\ Spent(a, b)
      BY <2>2, <3>1 DEF IssuedSpent
    <3>3. Spent(a, b)'
      BY <3>2, SpentStays
    <3> QED
      BY <3>1, <3>2, <3>3
  <2> QED
    BY <1>4, <2>1, <2>2
<1>6. IssuedSpent' /\ Consented'
  BY <1>5 DEF IssuedSpent, Consented, Spending
<1>7. ASSUME NEW i \in Slots PROVE Exchanged(calls[i])'
  <2>1. CASE i = j
    BY <1>2, <2>1 DEF Exchanged
  <2>2. CASE i # j
    <3>1. PICK d : d = calls[i]
      OBVIOUS
    <3>2. Exchanged(d) /\ Subject(d) /\ calls'[i] = d
      BY <1>2, <2>2, <3>1 DEF ExchangesKnown, CredInv, PairInv, SubjectsKnown
    <3>3. Exchanged(d)'
      BY <3>2, ExchangedStays
    <3> QED
      BY <3>2, <3>3 DEF Exchanged
  <2> QED
    BY <2>1, <2>2
<1>8. TwiceRaced'
  BY <1>2 DEF TwiceRaced, Same, Exchanges
<1>9. AgainRaced'
  <2> SUFFICES ASSUME NEW i \in Slots, NEW e \in issued', Same(calls'[i], e[1], e[2])
               PROVE  <<e[1], e[2]>> \in raced
    BY DEF AgainRaced, Same
  <2>1. i # j /\ Same(calls[i], e[1], e[2])
    BY <1>2 DEF Same, Exchanges
  <2>2. CASE e = new
    BY <1>3, <2>1, <2>2 DEF TwiceRaced, Same
  <2>3. CASE e \in issued
    BY <2>1, <2>3 DEF AgainRaced
  <2> QED
    BY <1>4, <2>2, <2>3
<1>10. ASSUME NEW e \in issued, e[1] = new[1], e[2] = new[2]
       PROVE  <<e[1], e[2]>> \in raced
  BY <1>3, <1>10 DEF AgainRaced, Same
<1>11. ReplaysFindNothing'
  BY <1>4, <1>10 DEF ReplaysFindNothing
<1> QED
  BY <1>6, <1>7, <1>8, <1>9, <1>11 DEF ExchangesKnown

\* Nothing but the OAuth requests exchanges or revokes anything.
LEMMA OthersReplay ==
  ASSUME CredInv, ReplayInv, MailNext \/ CodesNext \/ ToolsNext \/ \E j \in Slots : Crash(j)
  PROVE  ReplayInv'
<1>1. UNCHANGED oauthVars
  BY DEF MailNext, MarkPrimary, create_email, ConfirmEmail, delete_email, set_email_as_primary,
     CodesNext, generate_recovery_codes, set_recovery_codes, DeleteCodes, ActivateCodes, ForgetSeed,
     ExpireSeed, ToolsNext, create_api_token, delete_api_token, setup_wizard, setup_wizard_delete,
     setup_wizard_set_token, StoreWizard, ExpireHash, Crash, codeVars, mailVars
<1>2. Spending
  BY <1>1 DEF Spending, oauthVars, ReplayInv, Consented
<1>3. \/ UNCHANGED calls
      \/ \E j \in Slots : \E c : Puts(j, c) /\ c.op \notin Exchanges
  <2>1. ASSUME NEW j \in Slots, Done(j) \/ calls' = [calls EXCEPT ![j] = Free]
        PROVE  \E c : Puts(j, c) /\ c.op \notin Exchanges
    BY <2>1, FreeIsCall DEF Done, Puts, Exchanges
  <2>2. ASSUME NEW j \in Slots, NEW op, NEW at, NEW of, Begin(j, Call(op, at, of)), op \notin Exchanges
        PROVE  \E c : Puts(j, c) /\ c.op \notin Exchanges
    <3>1. Puts(j, Call(op, at, of)) /\ Call(op, at, of).op = op
      BY <2>2 DEF Begin, Puts, Call
    <3> QED
      BY <2>2, <3>1
  <2>3. ASSUME NEW j \in Slots, NEW n \in Nat, GoTo(j, n), calls[j].op = "codes"
        PROVE  \E c : Puts(j, c) /\ c.op \notin Exchanges
    BY <2>3, GoToPuts DEF CredInv, Exchanges
  <2>4. CASE MailNext
    BY <2>1, <2>2, <2>4 DEF MailNext, MarkPrimary, create_email, ConfirmEmail, delete_email,
       set_email_as_primary, Atomic, Exchanges
  <2>5. CASE CodesNext
    BY <2>1, <2>2, <2>3, <2>5 DEF CodesNext, generate_recovery_codes, set_recovery_codes,
       DeleteCodes, ActivateCodes, ForgetSeed, ExpireSeed, Atomic, Exchanges, At
  <2>6. CASE ToolsNext
    BY <2>1, <2>2, <2>6 DEF ToolsNext, create_api_token, delete_api_token, setup_wizard,
       setup_wizard_delete, setup_wizard_set_token, StoreWizard, ExpireHash, Atomic, Exchanges
  <2>7. CASE \E j \in Slots : Crash(j)
    BY <2>1, <2>7 DEF Crash
  <2> QED
    BY <2>4, <2>5, <2>6, <2>7
<1>4. UNCHANGED <<issued, raced>>
  BY <1>1 DEF oauthVars
<1> QED
  BY <1>2, <1>3, <1>4, ReplayAside, ReplayUntouched

\* One step per step of the token endpoint.
LEMMA OAuthReplay ==
  ASSUME CredInv, ReplayInv, OAuthNext
  PROVE  ReplayInv'
<1> USE CredBounds
<1>1. Consented /\ refresh \in [1..MaxPairs -> {"none", "live", "revoked"}]
  BY DEF ReplayInv, CredInv, Shape
<1>2. ASSUME NEW j \in Slots, oauth_consent(j) PROVE ReplayInv'
  <2>1. /\ UNCHANGED <<calls, issued, raced, refresh>>
        /\ consents' = consents + 1 /\ grants' = grants \cup {consents + 1}
    BY <1>2 DEF oauth_consent, Atomic
  <2>2. Spending
    BY <1>1, <2>1 DEF Spending, Consented
  <2> QED
    BY <2>1, <2>2, ReplayUntouched
<1>3. ASSUME ExpireOAuth PROVE ReplayInv'
  <2>1. grants' \subseteq grants /\ UNCHANGED <<calls, issued, raced, refresh, consents>>
    BY <1>3 DEF ExpireOAuth
  <2>2. Spending
    BY <1>1, <2>1 DEF Spending, Consented
  <2> QED
    BY <2>1, <2>2, ReplayUntouched
<1>4. ASSUME NEW j \in Slots, NEW c \in 1..MaxGrants, exchange_authorization_code(j, c)
      PROVE  ReplayInv'
  <2>1. ~Spent("grant", c) /\ c \in 1..consents
    BY <1>1, <1>4 DEF exchange_authorization_code, Spent, Consented
  <2> QED
    BY <1>4, <2>1, ExchangeBegins DEF exchange_authorization_code, Begin, Puts, Exchanges
<1>5. ASSUME NEW j \in Slots, NEW n \in 1..MaxPairs, exchange_refresh_token(j, n)
      PROVE  ReplayInv'
  <2>1. ~Spent("renew", n)
    BY <1>5 DEF exchange_refresh_token, Spent
  <2> QED
    BY <1>5, <2>1, ExchangeBegins DEF exchange_refresh_token, Begin, Puts, Exchanges
<1>6. ASSUME NEW j \in Slots, DeleteGrant(j) PROVE ReplayInv'
  <2>1. PICK c : c = calls[j].of
    OBVIOUS
  <2>2. /\ calls[j].op = "grant" /\ c \in 1..consents /\ Issue(j)
        /\ grants' = grants \ {c} /\ UNCHANGED <<consents, refresh, raced>>
    BY <1>6, <2>1 DEF DeleteGrant, At, ReplayInv, ExchangesKnown, Exchanged
  <2>3. Spending
    BY <1>1, <2>2 DEF Spending, Consented
  <2>4. Spent("grant", c)'
    BY <2>2 DEF Spent
  <2> QED
    BY <2>1, <2>2, <2>3, <2>4, ExchangeEnds DEF Exchanges
<1>7. ASSUME NEW j \in Slots, CacheAccess(j) PROVE ReplayInv'
  <2>1. PICK c : IsCall(c) /\ Puts(j, c) /\ c.op = calls[j].op
    BY <1>7, GoToPuts DEF CacheAccess, CredInv
  <2>2. Spending /\ UNCHANGED <<issued, raced>> /\ c.op \notin Exchanges
    BY <1>1, <1>7, <2>1 DEF CacheAccess, Spending, Consented, At, Exchanges
  <2> QED
    BY <2>1, <2>2, ReplayAside
<1>8. ASSUME NEW j \in Slots, StoreRefresh(j) \/ RevokePaired(j) PROVE ReplayInv'
  <2>1. Subject(calls[j]) /\ Puts(j, Free) /\ Free.op \notin Exchanges
    BY <1>8, FreeIsCall DEF StoreRefresh, RevokePaired, Done, Puts, CredInv, PairInv, SubjectsKnown, Exchanges
  <2>2. CASE StoreRefresh(j)
    <3>1. calls[j].of \in 1..MaxPairs /\ refresh[calls[j].of] = "none"
      BY <2>1, <2>2 DEF StoreRefresh, At, Subject
    <3>2. Spending /\ UNCHANGED <<issued, raced>>
      BY <1>1, <2>2, <3>1 DEF StoreRefresh, Spending, Consented
    <3> QED
      BY <2>1, <3>2, ReplayAside
  <2>3. CASE RevokePaired(j)
    <3>1. calls[j].of \in 1..MaxPairs
      BY <2>1, <2>3 DEF RevokePaired, At, Subject
    <3>2. Spending /\ UNCHANGED <<issued, raced>>
      BY <1>1, <2>3, <3>1 DEF RevokePaired, Spending, Consented
    <3> QED
      BY <2>1, <3>2, ReplayAside
  <2> QED
    BY <1>8, <2>2, <2>3
<1>9. ASSUME NEW j \in Slots, RevokeOld(j) PROVE ReplayInv'
  <2>1. PICK c : /\ IsCall(c) /\ Puts(j, c)
                 /\ c.op = calls[j].op /\ c.at = 2 /\ c.of = calls[j].of
    BY <1>9, GoToPuts DEF RevokeOld, CredInv
  <2>2. /\ c.op \in {"renew", "revoke"} /\ c.of \in 1..MaxPairs
        /\ refresh' = [refresh EXCEPT ![c.of] = "revoked"]
    BY <1>9, <2>1 DEF RevokeOld, CredInv, PairInv, SubjectsKnown, Subject
  <2>3. Spending /\ UNCHANGED <<issued, raced>>
    BY <1>1, <1>9, <2>2 DEF RevokeOld, Spending, Consented
  <2>4. Exchanged(c)'
    BY <1>1, <2>1, <2>2 DEF Exchanged
  <2> QED
    BY <2>1, <2>3, <2>4, ReplayAside
<1>10. ASSUME NEW j \in Slots, DropOldAccess(j) PROVE ReplayInv'
  <2>1. Spending /\ UNCHANGED raced
    BY <1>1, <1>10 DEF DropOldAccess, Spending, Consented
  <2>2. CASE At(j, "revoke", 2) /\ Done(j) /\ UNCHANGED issued
    BY <2>1, <2>2, FreeIsCall, ReplayAside DEF Done, Puts, Exchanges
  <2>3. CASE At(j, "renew", 2) /\ Issue(j)
    <3>1. PICK n : n = calls[j].of
      OBVIOUS
    <3>2. n \in 1..MaxPairs /\ refresh[n] = "revoked"
      BY <2>3, <3>1 DEF At, CredInv, PairInv, SubjectsKnown, Subject,
         ReplayInv, ExchangesKnown, Exchanged
    <3>3. Spent("renew", n)'
      BY <1>10, <3>2 DEF DropOldAccess, Spent
    <3> QED
      BY <2>1, <2>3, <3>1, <3>3, ExchangeEnds DEF At, Exchanges
  <2> QED
    BY <1>10, <2>2, <2>3 DEF DropOldAccess
<1>11. ASSUME NEW j \in Slots, NEW n \in 1..MaxPairs, RevokeRefresh(j, n) \/ RevokeAccess(j, n)
       PROVE  ReplayInv'
  <2>1. PICK op \in {"revoke", "dead"} : Begin(j, Call(op, 1, n))
    BY <1>11 DEF RevokeRefresh, RevokeAccess
  <2>2. Puts(j, Call(op, 1, n)) /\ Call(op, 1, n).op \notin Exchanges
    BY <2>1 DEF Begin, Puts, Call, Exchanges
  <2>3. UNCHANGED <<grants, consents, refresh, issued, raced>>
    <3>1. CASE RevokeRefresh(j, n)
      BY <3>1 DEF RevokeRefresh, oauthVars
    <3>2. CASE RevokeAccess(j, n)
      BY <3>2 DEF RevokeAccess
    <3> QED
      BY <1>11, <3>1, <3>2
  <2>4. Spending
    BY <1>1, <2>3 DEF Spending, Consented
  <2> QED
    BY <2>2, <2>3, <2>4, ReplayAside
<1> QED
  BY <1>2, <1>3, <1>4, <1>5, <1>6, <1>7, <1>8, <1>9, <1>10, <1>11 DEF OAuthNext

LEMMA ReplayInvariant == CredSpec => []ReplayInv
<1>1. CredInit => ReplayInv
  <2> SUFFICES ASSUME CredInit PROVE ReplayInv
    OBVIOUS
  <2>1. \A j \in Slots : calls[j].op = "free"
    BY FreeIsCall DEF CredInit
  <2>2. issued = {} /\ grants = {} /\ consents = 0
    BY DEF CredInit
  <2> QED
    BY <2>1, <2>2 DEF ReplayInv, IssuedSpent, Consented, ExchangesKnown, Exchanged, TwiceRaced,
       AgainRaced, ReplaysFindNothing, Same, Exchanges
<1>2. CredInv /\ ReplayInv /\ [CredNext]_credVars => ReplayInv'
  <2> SUFFICES ASSUME CredInv, ReplayInv, [CredNext]_credVars PROVE ReplayInv'
    OBVIOUS
  <2>1. CASE UNCHANGED credVars
    <3>1. Spending /\ UNCHANGED <<calls, issued, raced>>
      BY <2>1 DEF credVars, Spending, ReplayInv, Consented
    <3> QED
      BY <3>1, ReplayUntouched
  <2> QED
    BY <2>1, OthersReplay, OAuthReplay DEF CredNext
<1> QED
  BY <1>1, <1>2, CredInvariant, PTL DEF CredSpec

\* However rotations, revocations, expiries, crashes and confirmations of
\* recovery codes overlap: a revoked pair has no access token unless a request
\* is about to drop it or died there, a code or token is exchanged twice only by
\* requests that did so at once, and the stored codes are those a user was told
\* are set, until another confirmation took them away or died after it had.
THEOREM CredentialsSound == CredSpec => []CredentialsHold
<1>1. CredInv /\ ReplayInv => CredentialsHold
  <2> SUFFICES ASSUME CredInv, ReplayInv PROVE CredentialsHold
    OBVIOUS
  <2>1. RevokedPairsDie
    BY DEF RevokedPairsDie, CredInv, PairInv, RevokedDying, Dying
  <2>2. RecoveryCodesStay
    BY DEF RecoveryCodesStay, CredInv, CodesKept, Promised, Replacing
  <2>3. ReplaysFindNothing
    BY DEF ReplayInv
  <2> QED
    BY <2>1, <2>2, <2>3 DEF CredentialsHold
<1> QED
  BY <1>1, CredInvariant, ReplayInvariant, PTL
--------------------------------------------------------------------------------
\* Alert recipients --------------------------------------------------------------

Types == Hooks \cup {EMAIL}
EditShape == [at : {"free", "fill", "save", "upsert"}, want : Seq(Types), left : Seq(Types), doomed : SUBSET Types]

\* How far a request that is alone has come: an alert being filled is empty; one being
\* changed has the recipients found, less those met again, and the ones asked for
\* so far.
EditAt(e) ==
  /\ edit[e].at # "free" => alive
  /\ edit[e].at = "fill" => recipients = {} /\ wanted = {}
  /\ edit[e].at = "save" => edit[e].left = edit[e].want
  /\ edit[e].at = "upsert" =>
       /\ edit[e].doomed \subseteq recipients
       /\ (recipients \ edit[e].doomed) \cup ToSet(edit[e].left) = ToSet(edit[e].want)
AlertInv ==
  /\ edit \in [Editors -> EditShape] /\ recipients \subseteq Types
  /\ ~mixed => /\ \A e, f \in Editors : edit[e].at # "free" /\ edit[f].at # "free" => e = f
               /\ \A e \in Editors : EditAt(e)
               /\ EditedRecipients

LEMMA NoEditIs == NoEdit \in EditShape /\ NoEdit.at = "free"
BY DEF NoEdit, EditShape

LEMMA ToSetIs ==
  ASSUME NEW s \in Seq(Types)
  PROVE  /\ ToSet(s) \subseteq Types /\ (s = <<>> => ToSet(s) = {})
         /\ s # <<>> => Head(s) \in Types /\ Tail(s) \in Seq(Types) /\ ToSet(s) = {Head(s)} \cup ToSet(Tail(s))
<1>1. Len(s) \in Nat /\ DOMAIN s = 1..Len(s) /\ \A i \in 1..Len(s) : s[i] \in Types
  OBVIOUS
<1>2. ToSet(s) \subseteq Types /\ (s = <<>> => ToSet(s) = {})
  BY <1>1 DEF ToSet
<1>3. ASSUME s # <<>> PROVE Head(s) \in Types /\ Tail(s) \in Seq(Types) /\ ToSet(s) = {Head(s)} \cup ToSet(Tail(s))
  <2>1. Len(s) >= 1 /\ Head(s) = s[1] /\ Tail(s) \in Seq(Types) /\ Len(Tail(s)) = Len(s) - 1
        /\ \A i \in 1..(Len(s) - 1) : Tail(s)[i] = s[i + 1]
    BY <1>3
  <2>2. DOMAIN Tail(s) = 1..(Len(s) - 1)
    BY <1>1, <2>1
  <2>3. ASSUME NEW i \in 1..Len(s), i # 1 PROVE i - 1 \in 1..(Len(s) - 1) /\ s[i] = Tail(s)[i - 1]
    <3>1. PICK n \in Nat : n = Len(s)
      BY <1>1
    <3>2. i \in 1..n /\ i # 1
      BY <2>3, <3>1
    <3>3. i - 1 \in 1..(n - 1) /\ (i - 1) + 1 = i
      BY <3>2
    <3>4. PICK j \in 1..(n - 1) : j = i - 1 /\ j + 1 = i
      BY <3>3
    <3>5. Tail(s)[j] = s[j + 1]
      BY <2>1, <3>1, <3>4
    <3> QED
      BY <3>1, <3>4, <3>5
  <2>4. \A i \in 1..(Len(s) - 1) : i + 1 \in 1..Len(s)
    BY <1>1, <2>1
  <2>5. ToSet(s) \subseteq {Head(s)} \cup ToSet(Tail(s))
    <3> SUFFICES ASSUME NEW i \in 1..Len(s), i # 1 PROVE s[i] \in ToSet(Tail(s))
      BY <1>1, <2>1 DEF ToSet
    <3>1. i - 1 \in DOMAIN Tail(s) /\ s[i] = Tail(s)[i - 1]
      BY <2>2, <2>3
    <3> QED
      BY <3>1 DEF ToSet
  <2>6. ToSet(Tail(s)) \subseteq ToSet(s)
    BY <1>1, <2>1, <2>2, <2>4 DEF ToSet
  <2>7. Head(s) \in ToSet(s)
    BY <1>1, <2>1 DEF ToSet
  <2> QED
    BY <1>1, <2>1, <2>5, <2>6, <2>7
<1> QED
  BY <1>2, <1>3

\* A step of one request.
LEMMA EditStep ==
  ASSUME AlertInv, NEW e \in Editors, NEW x \in EditShape, edit' = [edit EXCEPT ![e] = x],
         recipients' \subseteq Types,
         ~mixed' => /\ \A f \in Editors : f # e => edit[f].at = "free"
                    /\ EditAt(e)'
                    /\ x.at = "free" => recipients' = wanted'
  PROVE  AlertInv'
<1>1. edit'[e] = x /\ edit' \in [Editors -> EditShape] /\ \A f \in Editors : f # e => edit'[f] = edit[f]
  BY DEF AlertInv
<1>2. ASSUME ~mixed' PROVE \A f, g \in Editors : edit'[f].at # "free" /\ edit'[g].at # "free" => f = g
  BY <1>1, <1>2
<1>3. ASSUME ~mixed', NEW f \in Editors PROVE EditAt(f)'
  <2>1. CASE f = e
    BY <1>3, <2>1
  <2>2. CASE f # e
    BY <1>1, <1>3, <2>2 DEF EditAt
  <2> QED
    BY <2>1, <2>2
<1>4. ASSUME ~mixed' PROVE EditedRecipients'
  BY <1>1, <1>4 DEF EditedRecipients
<1> QED
  BY <1>1, <1>2, <1>3, <1>4 DEF AlertInv

\* A delivery changes no recipient.
LEMMA Delivered ==
  Deliver => UNCHANGED <<recipients, alive, edit, mixed, wanted>>
BY DEF Deliver, send_notifications, NotifyUptime, test_project_alert

LEMMA StepAlertInv == AlertInv /\ [DeliveryNext]_deliveryVars => AlertInv'
<1> SUFFICES ASSUME AlertInv, [DeliveryNext]_deliveryVars PROVE AlertInv'
  OBVIOUS
<1>1. edit \in [Editors -> EditShape] /\ recipients \subseteq Types
  BY DEF AlertInv
<1>2. \A want \in Payloads : want \in Seq(Types)
  BY PayloadsAssumption DEF Types
<1>3. ASSUME NEW e \in Editors, NEW want \in Payloads, ~mixed, create_project_alert(e, want) PROVE AlertInv'
  <2>1. PICK x : x = [NoEdit EXCEPT !.at = "fill", !.want = want]
    OBVIOUS
  <2>2. x \in EditShape /\ x.at = "fill"
    BY <1>2, <2>1, NoEditIs DEF EditShape
  <2>3. /\ edit[e].at = "free" /\ edit' = [edit EXCEPT ![e] = x] /\ recipients' = {} /\ wanted' = {} /\ alive' = TRUE
        /\ mixed' = (mixed \/ \E f \in Editors : edit[f].at # "free")
    BY <1>3, <2>1 DEF create_project_alert
  <2>4. edit'[e] = x
    BY <1>1, <2>3
  <2>5. EditAt(e)'
    BY <2>2, <2>3, <2>4 DEF EditAt
  <2> QED
    BY <2>2, <2>3, <2>5, EditStep
<1>4. ASSUME NEW e \in Editors, NEW want \in Payloads, ~mixed, update_project_alert(e, want) PROVE AlertInv'
  <2>1. PICK x : x = [at |-> "save", want |-> want, left |-> want, doomed |-> {}]
    OBVIOUS
  <2>2. x \in EditShape /\ x.at = "save" /\ x.left = x.want
    BY <1>2, <2>1 DEF EditShape
  <2>3. /\ alive /\ edit[e].at = "free" /\ edit' = [edit EXCEPT ![e] = x] /\ UNCHANGED <<recipients, alive, wanted>>
        /\ mixed' = (mixed \/ \E f \in Editors : edit[f].at # "free")
    BY <1>4, <2>1 DEF update_project_alert
  <2>4. edit'[e] = x
    BY <1>1, <2>3
  <2>5. EditAt(e)'
    BY <2>2, <2>3, <2>4 DEF EditAt
  <2> QED
    BY <1>1, <2>2, <2>3, <2>5, EditStep
<1>5. ASSUME NEW e \in Editors, FillAlert(e) PROVE AlertInv'
  <2>1. /\ edit[e].at = "fill" /\ edit' = [edit EXCEPT ![e] = NoEdit] /\ UNCHANGED <<alive, mixed>>
        /\ \/ recipients' = recipients \cup ToSet(edit[e].want) /\ wanted' = ToSet(edit[e].want)
           \/ recipients' = recipients /\ wanted' = wanted
    BY <1>5 DEF FillAlert
  <2>2. edit[e].want \in Seq(Types)
    BY <1>1 DEF EditShape
  <2>3. recipients' \subseteq Types
    BY <1>1, <2>1, <2>2, ToSetIs
  <2>4. ASSUME ~mixed PROVE (\A f \in Editors : f # e => edit[f].at = "free") /\ recipients' = wanted'
    BY <2>1, <2>4 DEF AlertInv, EditAt
  <2>5. EditAt(e)'
    BY <1>1, <2>1, NoEditIs DEF EditAt
  <2> QED
    BY <2>1, <2>3, <2>4, <2>5, NoEditIs, EditStep DEF AlertInv
<1>6. ASSUME NEW e \in Editors, SaveAlert(e) PROVE AlertInv'
  <2>1. PICK g : g = edit[e]
    OBVIOUS
  <2>2. PICK x : x = [g EXCEPT !.at = "upsert", !.doomed = recipients]
    OBVIOUS
  <2>3. g \in EditShape
    BY <1>1, <2>1
  <2>4. x \in EditShape /\ x.at = "upsert" /\ x.doomed = recipients /\ x.left = g.left /\ x.want = g.want
    BY <1>1, <2>2, <2>3 DEF EditShape
  <2>5. edit' = [edit EXCEPT ![e] = x] /\ edit[e].at = "save" /\ alive' = TRUE /\ UNCHANGED <<recipients, mixed, wanted>>
    BY <1>6, <2>1, <2>2 DEF SaveAlert
  <2>6. edit'[e] = x
    BY <1>1, <2>5
  <2>7. ASSUME ~mixed PROVE (\A f \in Editors : f # e => edit[f].at = "free") /\ EditAt(e)'
    <3>1. (\A f \in Editors : f # e => edit[f].at = "free") /\ g.left = g.want
      BY <2>1, <2>5, <2>7 DEF AlertInv, EditAt
    <3> QED
      BY <2>4, <2>5, <2>6, <3>1 DEF EditAt
  <2> QED
    BY <1>1, <2>4, <2>5, <2>7, EditStep
<1>7. ASSUME NEW e \in Editors, Upsert(e) PROVE AlertInv'
  <2>1. PICK g, r : g = edit[e] /\ r = Head(g.left)
    OBVIOUS
  <2>2. g \in EditShape /\ g.left \in Seq(Types) /\ g.left # <<>> /\ g.at = "upsert" /\ UNCHANGED <<alive, mixed, wanted>>
    BY <1>1, <1>7, <2>1 DEF EditShape, Upsert
  <2>3. r \in Types /\ Tail(g.left) \in Seq(Types) /\ ToSet(g.left) = {r} \cup ToSet(Tail(g.left))
    BY <2>1, <2>2, ToSetIs
  <2>4. CASE ~alive
    <3>1. recipients' = recipients /\ edit' = [edit EXCEPT ![e] = NoEdit]
      BY <1>7, <2>4 DEF Upsert
    <3>2. mixed
      BY <2>1, <2>2, <2>4 DEF AlertInv, EditAt
    <3> QED
      BY <1>1, <2>2, <3>1, <3>2, NoEditIs, EditStep
  <2>5. CASE alive
    <3>1. recipients' = recipients \cup {r}
          /\ edit' = [edit EXCEPT ![e] = [g EXCEPT !.left = Tail(g.left), !.doomed = IF r \in recipients THEN g.doomed \ {r} ELSE g.doomed]]
      BY <1>7, <2>1, <2>5 DEF Upsert
    <3>2. PICK x : x = [g EXCEPT !.left = Tail(g.left), !.doomed = IF r \in recipients THEN g.doomed \ {r} ELSE g.doomed]
      OBVIOUS
    <3>3. /\ x \in EditShape /\ x.at = "upsert" /\ x.want = g.want /\ x.left = Tail(g.left)
          /\ x.doomed = IF r \in recipients THEN g.doomed \ {r} ELSE g.doomed
      BY <2>2, <2>3, <3>2 DEF EditShape
    <3>4. edit'[e] = x
      BY <1>1, <3>1, <3>2
    <3>5. ASSUME ~mixed PROVE (\A f \in Editors : f # e => edit[f].at = "free") /\ EditAt(e)'
      <4>1. /\ \A f \in Editors : f # e => edit[f].at = "free"
            /\ g.doomed \subseteq recipients /\ (recipients \ g.doomed) \cup ToSet(g.left) = ToSet(g.want)
        BY <2>1, <2>2, <3>5 DEF AlertInv, EditAt
      <4>2. x.doomed = g.doomed \ {r}
        BY <3>3, <4>1
      <4>3. x.doomed \subseteq recipients' /\ (recipients' \ x.doomed) \cup ToSet(x.left) = ToSet(x.want)
        BY <2>3, <3>1, <3>3, <4>1, <4>2
      <4> QED
        BY <2>2, <2>5, <3>3, <3>4, <4>1, <4>3 DEF EditAt
    <3>6. recipients' \subseteq Types
      BY <1>1, <2>3, <3>1
    <3> QED
      BY <2>2, <3>1, <3>2, <3>3, <3>5, <3>6, EditStep
  <2> QED
    BY <2>4, <2>5
<1>8. ASSUME NEW e \in Editors, DeleteRest(e) PROVE AlertInv'
  <2>1. /\ edit[e].at = "upsert" /\ edit[e].left = <<>> /\ recipients' = recipients \ edit[e].doomed
        /\ edit' = [edit EXCEPT ![e] = NoEdit] /\ wanted' = IF alive THEN ToSet(edit[e].want) ELSE wanted
        /\ UNCHANGED <<alive, mixed>>
    BY <1>8 DEF DeleteRest
  <2>2. ToSet(edit[e].left) = {}
    BY <1>1, <2>1, ToSetIs DEF EditShape
  <2>3. ASSUME ~mixed PROVE (\A f \in Editors : f # e => edit[f].at = "free") /\ recipients' = wanted'
    BY <2>1, <2>2, <2>3 DEF AlertInv, EditAt
  <2>4. EditAt(e)'
    BY <1>1, <2>1, NoEditIs DEF EditAt
  <2> QED
    BY <1>1, <2>1, <2>3, <2>4, NoEditIs, EditStep
<1>9. CASE delete_project_alert
  <2>1. /\ recipients' = {} /\ wanted' = {} /\ edit' = edit
        /\ mixed' = (mixed \/ \E e \in Editors : edit[e].at # "free")
    BY <1>9 DEF delete_project_alert
  <2>2. ASSUME ~mixed', NEW e \in Editors PROVE EditAt(e)' /\ edit'[e].at = "free"
    BY <2>1, <2>2 DEF EditAt
  <2> QED
    BY <1>1, <2>1, <2>2 DEF AlertInv, EditedRecipients
<1>10. CASE UNCHANGED <<recipients, alive, edit, mixed, wanted>>
  BY <1>10 DEF AlertInv, EditAt, EditedRecipients
<1>11. CASE Deliver
  BY <1>10, <1>11, Delivered
<1> QED
  BY <1>3, <1>4, <1>5, <1>6, <1>7, <1>8, <1>9, <1>10, <1>11 DEF DeliveryNext, deliveryVars

\* A request that changes an alert's recipients, and meets no other, leaves the ones it
\* asked for, whatever is delivered or tested meanwhile (alerts/api.py).
THEOREM RecipientsAsAsked == DeliverySpec => []EditedRecipients
<1>1. DeliveryInit => AlertInv
  BY NoEditIs DEF DeliveryInit, AlertInv, EditAt, EditedRecipients
<1>2. AlertInv => EditedRecipients
  BY DEF AlertInv, EditedRecipients
<1> QED
  BY <1>1, <1>2, StepAlertInv, PTL DEF DeliverySpec
================================================================================
