------------------------------- MODULE IssueReads -------------------------------
(***************************************************************************)
(* What the REST endpoints and the MCP tools show of issues and events      *)
(* while events are archived to cold storage, issues are merged and deleted,*)
(* and members come and go.  A reader is an operator: the set of events (by *)
(* their UUIDv7, here their number), issues or projects in its answer,      *)
(* empty for a 404 or an error.  Time is counted in days.                   *)
(***************************************************************************)
EXTENDS Naturals, Integers, Sequences, FiniteSets, FiniteSetsExt

CONSTANTS
  Users, Orgs, Projects, ReadIssues,
  OrgOf,          \* the organization of a project
  ProjectOf,      \* the project of an issue
  MaxReadEvents, MaxDay, \* bounds: events stored, days that pass
  ScanDays        \* how far get_event scans for an SDK event id (90)
ASSUME ReadAssumption ==
  /\ OrgOf \in [Projects -> Orgs] /\ ProjectOf \in [ReadIssues -> Projects]
  /\ ReadIssues \subseteq Nat /\ MaxReadEvents \in Nat /\ MaxDay \in Nat /\ ScanDays \in Nat

VARIABLES
  member,     \* organization users: pairs <<user, org>>
  issue,      \* issue -> "none", "live", "marked" (is_deleted) or "gone"
  last_seen,  \* issue -> the day on its IssueIndex leaf
  event,      \* the events so far, in the order of their ids
  mergedIssues, \* issues that took part in a merge
  today,
  duckdb      \* "on", "busy" (no read slot free) or "off"
readVars == <<member, issue, last_seen, event, mergedIssues, today, duckdb>>

IssueOrg(i) == OrgOf[ProjectOf[i]]
Exists(i) == issue[i] \in {"live", "marked"}
InTier(tiers) == { e \in DOMAIN event : event[e].tier \in tiers }
Newest(S) == IF S = {} THEN {} ELSE {Max(S)}
\* A request names an event by its id or by the id its SDK gave it.
EventRefs == [by : {"id", "sdk"}, e : 1..MaxReadEvents]
--------------------------------------------------------------------------------
\* The readers.  Issues:
IssueOfUser(u, i) == Exists(i) /\ <<u, IssueOrg(i)>> \in member
IssueQueryset(u) == { i \in ReadIssues : IssueOfUser(u, i) }
rest_list_issues(u, org) == { i \in IssueQueryset(u) : IssueOrg(i) = org /\ issue[i] # "marked" }
rest_list_project_issues(u, org, p) == { i \in IssueQueryset(u) : IssueOrg(i) = org /\ ProjectOf[i] = p }
rest_get_issue(u, i) == IssueQueryset(u) \cap {i}
\* issue_stats: the aggregates of the issues asked for, in the organization.
issue_stats(u, org, groups) == { i \in IssueQueryset(u) \cap groups : IssueOrg(i) = org }

\* The hot events of the issues the user may see, of those the route asks for.
EventQueryset(u, issues) ==
  { e \in InTier({"hot"}) : IssueOfUser(u, event[e].issue) /\ event[e].issue \in issues }
list_issue_event(u, i) == EventQueryset(u, {i})
list_project_issue_event(u, org, p) ==
  EventQueryset(u, { x \in ReadIssues : ProjectOf[x] = p /\ OrgOf[p] = org })

\* The cold tier: one directory of daily files per organization.
query_cold_events(org, from, to, wanted) ==
  IF duckdb # "on" THEN {}
  ELSE Newest({ e \in InTier({"cold"}) \cap wanted :
                  event[e].org = org /\ event[e].day >= from /\ event[e].day < to })
GetEventFromAnyFile(org, e, day) == { x \in InTier({"cold"}) \cap {e} : event[x].day = day }
get_event_from_cold(org, e, day) ==
  { x \in InTier({"cold"}) \cap {e} : event[x].org = org /\ event[x].day = day }
\* Only a UUIDv7 says which file to open.
_get_event_from_cold(ref, org) ==
  IF duckdb = "off" \/ ref.by = "sdk" \/ ref.e \notin DOMAIN event THEN {}
  ELSE get_event_from_cold(org, ref.e, event[ref.e].day)
EventsOfIssue(i) == { e \in DOMAIN event : event[e].issue = i }
ColdEventsBeforeLastSeen(i) ==
  query_cold_events(IssueOrg(i), last_seen[i] - 1, last_seen[i], EventsOfIssue(i))
\* The newest event of an issue: hot, else in the files of the days around the
\* issue's last_seen; the end of the range is exclusive.
_get_cold_events_for_issue(i) ==
  query_cold_events(IssueOrg(i), last_seen[i] - 1, last_seen[i] + 1, EventsOfIssue(i))
HotOr(hot, cold) == IF hot # {} THEN hot ELSE cold

get_latest_issue_event(u, i) ==
  IF ~IssueOfUser(u, i) THEN {}
  ELSE HotOr(Newest(list_issue_event(u, i)), _get_cold_events_for_issue(i))
get_issue_event(u, i, ref) ==
  HotOr(list_issue_event(u, i) \cap {ref.e},
        IF IssueOfUser(u, i) THEN _get_event_from_cold(ref, IssueOrg(i)) ELSE {})
get_project_issue_event(u, org, p, ref) ==
  HotOr(list_project_issue_event(u, org, p) \cap {ref.e},
        IF <<u, org>> \in member THEN _get_event_from_cold(ref, org) ELSE {})
get_event_json(u, org, i, ref) ==
  HotOr(EventQueryset(u, { x \in {i} : IssueOrg(x) = org }) \cap {ref.e},
        IF IssueOfUser(u, i) /\ IssueOrg(i) = org THEN _get_event_from_cold(ref, org) ELSE {})
--------------------------------------------------------------------------------
\* The MCP server's queries, for organizations not marked for deletion.  Rows of a
\* project (alerts, monitors, transaction groups, spans, logs) are represented by the
\* project they belong to.
mcp_get_organizations(u) == { o \in Orgs : <<u, o>> \in member }
_get_org_id(u, org) == { o \in {org} : <<u, o>> \in member }
OrgProjects(u, org) == { p \in Projects : OrgOf[p] \in _get_org_id(u, org) }
mcp_get_issues(u, org) == { i \in IssueQueryset(u) : IssueOrg(i) = org }
mcp_get_latest_event(u, i) ==
  IF ~IssueOfUser(u, i) THEN {}
  ELSE HotOr(Newest({ e \in InTier({"hot"}) : event[e].issue = i /\ <<u, event[e].org>> \in member }),
             _get_cold_events_for_issue(i))
_attach_issue(found, u) == { e \in found : IssueOfUser(u, event[e].issue) }
\* Every organization of the user (of the slug, when one is given) is searched; an SDK
\* id is looked for in the files of the last days.
mcp_get_event(u, ref, orgs) ==
  LET mine == { o \in orgs : <<u, o>> \in member }
      Cold(o) == IF ref.by = "id" THEN _get_event_from_cold(ref, o)
                 ELSE query_cold_events(o, today - ScanDays, today + 1, {ref.e}) IN
  HotOr({ e \in InTier({"hot"}) : e = ref.e /\ event[e].org \in mine },
        _attach_issue(UNION { Cold(o) : o \in mine }, u))

\* Performance and logs.  Spans and logs are looked up by the organization alone, so
\* the spans of a group are those of every project with a transaction of its name.
RowsOfOrg(orgs) == { p \in Projects : OrgOf[p] \in orgs }
get_organization_for_user(u, org) == { o \in {org} : <<u, o>> \in member }
list_transaction_groups(u, org) == RowsOfOrg(get_organization_for_user(u, org))
get_transaction_group(u, org, p) == list_transaction_groups(u, org) \cap {p}
list_transaction_spans(u, org, p) ==
  IF get_transaction_group(u, org, p) = {} THEN {} ELSE RowsOfOrg(get_organization_for_user(u, org))
get_transaction_trend(u, org, p) ==
  IF get_transaction_group(u, org, p) = {} THEN {} ELSE RowsOfOrg(get_organization_for_user(u, org))
list_span_groups(u, org) == RowsOfOrg(get_organization_for_user(u, org))
list_n_plus_one_patterns(u, org) == RowsOfOrg(get_organization_for_user(u, org))
rest_get_log(u, org, p) == RowsOfOrg(get_organization_for_user(u, org)) \cap {p}
list_log_resources(u, org) == RowsOfOrg(get_organization_for_user(u, org))

mcp_get_transaction_groups(u, org) == RowsOfOrg(_get_org_id(u, org))
mcp_get_transaction_group(u, org, p) == mcp_get_transaction_groups(u, org) \cap {p}
mcp_get_transaction_spans(u, org, p) ==
  IF mcp_get_transaction_group(u, org, p) = {} THEN {} ELSE RowsOfOrg(_get_org_id(u, org))
mcp_get_transaction_trend(u, org, p) ==
  IF mcp_get_transaction_group(u, org, p) = {} THEN {} ELSE RowsOfOrg(_get_org_id(u, org))
mcp_get_span_groups(u, org) == RowsOfOrg(_get_org_id(u, org))
mcp_get_n_plus_one_patterns(u, org) == RowsOfOrg(_get_org_id(u, org))
mcp_get_logs(u, org) == RowsOfOrg(_get_org_id(u, org))

\* A tool answers a token with one of the scopes it asks for.
_check_scopes(token, scopes, answer) == IF token.scopes \cap scopes = {} THEN {} ELSE answer
EventScopes == {"event:read", "event:write"}
tool_list_organizations(token) == _check_scopes(token, {"org:read"}, mcp_get_organizations(token.user))
tool_list_projects(token, org) == _check_scopes(token, {"project:read"}, OrgProjects(token.user, org))
tool_list_issues(token, org) == _check_scopes(token, EventScopes, mcp_get_issues(token.user, org))
tool_get_issue(token, i) == _check_scopes(token, EventScopes, rest_get_issue(token.user, i))
tool_get_latest_event(token, i) == _check_scopes(token, EventScopes, mcp_get_latest_event(token.user, i))
tool_get_event(token, ref, orgs) == _check_scopes(token, EventScopes, mcp_get_event(token.user, ref, orgs))
tool_list_alerts(token, org) == _check_scopes(token, {"project:read"}, OrgProjects(token.user, org))
tool_list_transaction_groups(token, org) ==
  _check_scopes(token, EventScopes, mcp_get_transaction_groups(token.user, org))
tool_list_transaction_spans(token, org, p) ==
  _check_scopes(token, EventScopes, mcp_get_transaction_spans(token.user, org, p))
tool_list_span_groups(token, org) == _check_scopes(token, EventScopes, mcp_get_span_groups(token.user, org))
tool_detect_n_plus_one(token, org) == _check_scopes(token, EventScopes, mcp_get_n_plus_one_patterns(token.user, org))
tool_get_transaction_trend(token, org, p) ==
  _check_scopes(token, EventScopes, mcp_get_transaction_trend(token.user, org, p))
tool_list_logs(token, org) == _check_scopes(token, EventScopes, mcp_get_logs(token.user, org))
--------------------------------------------------------------------------------
ReadInit ==
  /\ member \in SUBSET (Users \X Orgs)
  /\ issue = [i \in ReadIssues |-> "none"] /\ last_seen = [i \in ReadIssues |-> 0]
  /\ event = <<>> /\ mergedIssues = {} /\ today = 1 /\ duckdb = "on"

\* An event of an issue arrives: its row carries the organization, its id the time it
\* was received, and the leaf's last_seen is raised to it.
Ingest(i) ==
  /\ issue[i] \in {"none", "live"} /\ Len(event) < MaxReadEvents
  /\ issue' = [issue EXCEPT ![i] = "live"]
  /\ event' = Append(event, [issue |-> i, org |-> IssueOrg(i), day |-> today, tier |-> "hot"])
  /\ last_seen' = [last_seen EXCEPT ![i] = today]
  /\ UNCHANGED <<member, mergedIssues, today, duckdb>>
\* The nightly tasks move a day's partition to the cold tier, and drop one that is
\* past its retention: its rows or its files.
MoveDay(d, from, to) ==
  /\ d < today /\ \E e \in InTier(from) : event[e].day = d
  /\ event' = [e \in DOMAIN event |->
       IF event[e].day = d /\ event[e].tier \in from THEN [event[e] EXCEPT !.tier = to] ELSE event[e]]
  /\ UNCHANGED <<member, issue, last_seen, mergedIssues, today, duckdb>>
Archive(d) == duckdb # "off" /\ MoveDay(d, {"hot"}, "cold")
Expire(d) == (\A e \in InTier({"hot", "cold"}) : event[e].day >= d) /\ MoveDay(d, {"hot", "cold"}, "gone")
\* Issues of one organization are merged: the newest keeps its row and its
\* last_seen and takes over the hot events of the others, which are marked.
Merge(target, source) ==
  /\ Exists(target) /\ Exists(source) /\ source < target /\ IssueOrg(source) = IssueOrg(target)
  /\ issue' = [issue EXCEPT ![source] = "marked"]
  /\ event' = [e \in DOMAIN event |-> IF event[e].issue = source /\ event[e].tier = "hot"
                                      THEN [event[e] EXCEPT !.issue = target] ELSE event[e]]
  /\ mergedIssues' = mergedIssues \cup {target, source}
  /\ UNCHANGED <<member, last_seen, today, duckdb>>
MarkDeleted(i) ==
  /\ issue[i] = "live" /\ issue' = [issue EXCEPT ![i] = "marked"]
  /\ UNCHANGED <<member, last_seen, event, mergedIssues, today, duckdb>>
\* The deletion task: the row and its hot events go, cold files stay.
RunDeletion(i) ==
  /\ issue[i] = "marked" /\ issue' = [issue EXCEPT ![i] = "gone"]
  /\ event' = [e \in DOMAIN event |-> IF event[e].issue = i /\ event[e].tier = "hot"
                                      THEN [event[e] EXCEPT !.tier = "gone"] ELSE event[e]]
  /\ UNCHANGED <<member, last_seen, mergedIssues, today, duckdb>>
JoinOrLeave(u, org) ==
  /\ member' = IF <<u, org>> \in member THEN member \ {<<u, org>>} ELSE member \cup {<<u, org>>}
  /\ UNCHANGED <<issue, last_seen, event, mergedIssues, today, duckdb>>
DayPasses ==
  /\ today < MaxDay /\ today' = today + 1
  /\ UNCHANGED <<member, issue, last_seen, event, mergedIssues, duckdb>>
DuckdbBecomes(s) ==
  /\ duckdb # s /\ duckdb' = s
  /\ UNCHANGED <<member, issue, last_seen, event, mergedIssues, today>>
ReadNext ==
  \/ \E i \in ReadIssues : Ingest(i) \/ MarkDeleted(i) \/ RunDeletion(i)
  \/ \E d \in 1..MaxDay : Archive(d) \/ Expire(d)
  \/ \E i, j \in ReadIssues : Merge(i, j)
  \/ \E org \in Orgs, u \in Users : JoinOrLeave(u, org)
  \/ DayPasses
  \/ \E s \in {"on", "busy", "off"} : DuckdbBecomes(s)
ReadSpec == ReadInit /\ [][ReadNext]_readVars
--------------------------------------------------------------------------------
\* A hot event of the issue is older than a cold one.
LeftBehind(i) == \E x \in InTier({"hot"}), y \in InTier({"cold"}) : event[x].issue = i /\ event[y].issue = i /\ x < y
Tokens == [user : Users, scopes : {{"event:read"}}]

\* Whatever was merged, deleted or archived, no endpoint and no tool shows a user an
\* event, an issue or a row of an organization the user is not in at that moment: the
\* cold files are searched by the organization, not by the rows' joins.
ReadsStayHome ==
  \A t \in Tokens : LET u == t.user IN
    /\ \A i \in ReadIssues : IssueOrg(i) \in { m[2] : m \in { x \in member : x[1] = u } }
         \/ rest_get_issue(u, i) \cup issue_stats(u, IssueOrg(i), {i}) \cup tool_get_issue(t, i)
              \cup get_latest_issue_event(u, i) \cup tool_get_latest_event(t, i) = {}
    /\ \A org \in Orgs : <<u, org>> \in member
         \/ rest_list_issues(u, org) \cup tool_list_issues(t, org) \cup tool_list_transaction_groups(t, org)
              \cup tool_list_alerts([t EXCEPT !.scopes = {"project:read"}], org)
              \cup tool_list_projects([t EXCEPT !.scopes = {"project:read"}], org)
              \cup (tool_list_organizations([t EXCEPT !.scopes = {"org:read"}]) \cap {org}) = {}
    /\ \A org \in Orgs, p \in Projects : (<<u, org>> \in member /\ OrgOf[p] = org)
         \/ get_transaction_group(u, org, p) \cup list_transaction_spans(u, org, p)
              \cup get_transaction_trend(u, org, p) \cup tool_list_transaction_spans(t, org, p)
              \cup tool_get_transaction_trend(t, org, p) \cup rest_get_log(u, org, p) = {}
    /\ \A org \in Orgs : \A p \in list_span_groups(u, org) \cup list_n_plus_one_patterns(u, org)
           \cup list_log_resources(u, org) \cup list_transaction_groups(u, org)
           \cup tool_list_span_groups(t, org) \cup tool_detect_n_plus_one(t, org) \cup tool_list_logs(t, org) :
         OrgOf[p] = org /\ <<u, org>> \in member
    /\ \A ref \in EventRefs : ref.e \in DOMAIN event /\ <<u, event[ref.e].org>> \notin member =>
         /\ tool_get_event(t, ref, Orgs) = {}
         /\ \A i \in ReadIssues : get_issue_event(u, i, ref) \cup get_event_json(u, IssueOrg(i), i, ref) = {}
         /\ \A p \in Projects : <<u, OrgOf[p]>> \in member
              \/ get_project_issue_event(u, OrgOf[p], p, ref) \cup list_project_issue_event(u, OrgOf[p], p)
                   \cup rest_list_project_issues(u, OrgOf[p], p) = {}

\* A stored event of an issue that still exists stays readable when its partition
\* moves to the cold tier, by its id at every endpoint and tool, and it is the issue's
\* latest event on both exactly when it is the newest.  Two exceptions give an older
\* one: a merged issue, whose last_seen is not raised, and a day whose archiving failed
\* while that of a later day did not.
EventsStayReadable ==
  \A u \in Users, e \in InTier({"hot", "cold"}) :
    LET i == event[e].issue  org == event[e].org  ref == [by |-> "id", e |-> e]  sdk == [by |-> "sdk", e |-> e] IN
    Exists(i) /\ <<u, org>> \in member =>
      /\ event[e].tier = "hot" \/ duckdb # "off" =>
           /\ get_issue_event(u, i, ref) = {e} /\ get_event_json(u, org, i, ref) = {e}
           /\ get_project_issue_event(u, org, ProjectOf[i], ref) = {e}
           /\ mcp_get_event(u, ref, Orgs) = {e}
      /\ event[e].tier = "hot" \/ (duckdb = "on" /\ event[e].day >= today - ScanDays) =>
           mcp_get_event(u, sdk, {org}) = {e}
      /\ duckdb = "on" /\ i \notin mergedIssues /\ ~LeftBehind(i) =>
           LET newest == Newest({ x \in InTier({"hot", "cold"}) : event[x].issue = i }) IN
           get_latest_issue_event(u, i) = newest /\ mcp_get_latest_event(u, i) = newest
================================================================================
