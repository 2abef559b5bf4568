----------------------------- MODULE AlertDelivery -----------------------------
(***************************************************************************)
(* The recipients of a project alert and the messages they get.  A message *)
(* is what it tells: by which transport, how many issues in all, and of    *)
(* each issue shown its link, project, culprit and tags.                   *)
(***************************************************************************)
EXTENDS Naturals, FiniteSets, SequencesExt

CONSTANTS
  Lists,          \* bound: issues of a notification, records [link, project, culprit, values: tag key -> value]
  CustomTags,     \* bound: the tags_to_add of a recipient
  MaxIssues,      \* MAX_ISSUES_PER_ALERT
  Payloads,       \* bound: recipient lists of a request
  Editors         \* bound: requests at a time

NoValue == ""
EMAIL == "email"
\* RecipientType; FEISHU is not among the channels of uptime alerts.
Hooks == {"webhook", "discord", "googlechat", "ntfy", "teams", "zulip", "feishu"}
\* A request names recipients by their types.
ASSUME PayloadsAssumption == Payloads \subseteq Seq(Hooks \cup {EMAIL})
UptimeHooks == Hooks \ {"feishu"}
STANDARD_TAG_KEYS == <<"environment", "server_name", "release">>

VARIABLES
  recipients,  \* AlertRecipient rows of the alert
  alive,       \* the alert exists
  edit,        \* PUT requests in progress
  mixed,       \* whether two of them overlapped
  wanted,      \* the recipients of the last request served
  sent         \* what the last step delivered: the issues, the tags asked for, the messages
deliveryVars == <<recipients, alive, edit, mixed, wanted, sent>>
--------------------------------------------------------------------------------
\* Standard and custom tags, each once, those the issue has a value for.
gather_issue_tags(issue, extra) ==
  LET Add(seen, k) == IF k \in ToSet(seen) THEN seen ELSE Append(seen, k)
      keys == FoldLeft(Add, <<>>, STANDARD_TAG_KEYS \o extra) IN
  SelectSeq(keys, LAMBDA k : issue.values[k] # NoValue)

Part(issue, extra) ==
  [link |-> issue.link, project |-> issue.project, culprit |-> issue.culprit,
   tags |-> gather_issue_tags(issue, extra)]
PartsOf(issues, extra) == [i \in DOMAIN issues |-> Part(issues[i], extra)]
Message(via, total, parts) == [via |-> via, total |-> total, parts |-> parts]
More(count) == IF count > 1 THEN count ELSE 0

send_issue_as_webhook(issues, count, extra) == Message("webhook", More(count), PartsOf(issues, extra))
send_issue_as_discord_webhook(issues, count, extra) == Message("discord", More(count), PartsOf(issues, extra))
\* One card an issue; the total is not told.
send_issue_as_googlechat_webhook(issues, count, extra) == Message("googlechat", 0, PartsOf(issues, extra))
\* Mutant of send_issue_as_ntfy: the configured tags are left out.
NtfyWithoutTags(issues, count, extra) ==
  Message("ntfy", More(count), PartsOf(issues, <<>>)) @@ [click |-> IF issues = <<>> THEN NoValue ELSE issues[1].link]
\* The message opens the first issue when it is clicked.
send_issue_as_ntfy(issues, count, extra) ==
  LET parts == PartsOf(issues, extra) IN
  Message("ntfy", More(count), parts) @@ [click |-> IF issues = <<>> THEN NoValue ELSE issues[1].link]
send_issue_as_teams_webhook(issues, count, extra) == Message("teams", More(count), PartsOf(issues, extra))
send_issue_as_zulip(issues, count, extra) == Message("zulip", More(count), PartsOf(issues, extra))
send_issue_as_feishu_webhook(issues, count, extra) == Message("feishu", More(count), PartsOf(issues, extra))

\* ISSUE_NOTIFICATION_HANDLERS
Handler(type, issues, count, extra) ==
  CASE type = "discord"    -> send_issue_as_discord_webhook(issues, count, extra)
    [] type = "googlechat" -> send_issue_as_googlechat_webhook(issues, count, extra)
    [] type = "ntfy"       -> send_issue_as_ntfy(issues, count, extra)
    [] type = "teams"      -> send_issue_as_teams_webhook(issues, count, extra)
    [] type = "zulip"      -> send_issue_as_zulip(issues, count, extra)
    [] type = "feishu"     -> send_issue_as_feishu_webhook(issues, count, extra)
    [] OTHER               -> send_issue_as_webhook(issues, count, extra)
\* The mail lists every issue of the notification; the title is the first one's.
AlertEmail(issues) ==
  Message(EMAIL, Len(issues), [i \in DOMAIN issues |-> Part(issues[i], <<>>)]) @@ [click |-> issues[1].link]
\* UPTIME_NOTIFICATION_HANDLERS, the general one for the others.
UptimeMessage(type) == Message(IF type \in UptimeHooks \cup {EMAIL} THEN type ELSE "webhook", 0, <<>>)
--------------------------------------------------------------------------------
Delivery(about, extra, to, Text(_)) ==
  [about |-> about, extra |-> extra, messages |-> [c \in to |-> Text(c)]]
Nothing == Delivery(<<>>, <<>>, {}, LAMBDA c : <<>>)
NoEdit == [at |-> "free", want |-> <<>>, left |-> <<>>, doomed |-> {}]
DeliveryInit ==
  /\ recipients = {} /\ alive = FALSE /\ edit = [e \in Editors |-> NoEdit] /\ mixed = FALSE
  /\ wanted = {} /\ sent = Nothing

\* The alert is there, without recipients, before abulk_create adds them, and
\* remains so when that fails: the alert is gone, or two of the rows are equal.
create_project_alert(e, want) ==
  /\ ~alive /\ edit[e].at = "free" /\ alive' = TRUE /\ recipients' = {} /\ wanted' = {}
  /\ edit' = [edit EXCEPT ![e] = [NoEdit EXCEPT !.at = "fill", !.want = want]]
  /\ mixed' = (mixed \/ \E f \in Editors : edit[f].at # "free")
  /\ sent' = Nothing
FillAlert(e) ==
  /\ edit[e].at = "fill"
  /\ LET want == edit[e].want
         ok == alive /\ IsInjective(want) /\ ToSet(want) \cap recipients = {} IN
     /\ recipients' = IF ok THEN recipients \cup ToSet(want) ELSE recipients
     /\ wanted' = IF ok THEN ToSet(want) ELSE wanted
  /\ edit' = [edit EXCEPT ![e] = NoEdit] /\ sent' = Nothing /\ UNCHANGED <<alive, mixed>>

\* Saves the row it read, which inserts it again, without recipients, if it was
\* deleted meanwhile; looks up the recipients there are, creates or updates each
\* one asked for, and deletes those it had found and was not asked for.
update_project_alert(e, want) ==
  /\ alive /\ edit[e].at = "free"
  /\ edit' = [edit EXCEPT ![e] = [at |-> "save", want |-> want, left |-> want, doomed |-> {}]]
  /\ mixed' = (mixed \/ \E f \in Editors : edit[f].at # "free")
  /\ sent' = Nothing /\ UNCHANGED <<recipients, alive, wanted>>
SaveAlert(e) ==
  /\ edit[e].at = "save" /\ alive' = TRUE
  /\ edit' = [edit EXCEPT ![e].at = "upsert", ![e].doomed = recipients]
  /\ sent' = Nothing /\ UNCHANGED <<recipients, mixed, wanted>>
Upsert(e) ==
  /\ edit[e].at = "upsert" /\ edit[e].left # <<>>
  /\ LET r == Head(edit[e].left) IN
     /\ recipients' = IF alive THEN recipients \cup {r} ELSE recipients
     /\ edit' = IF alive
                THEN [edit EXCEPT ![e].left = Tail(@),
                                  ![e].doomed = IF r \in recipients THEN @ \ {r} ELSE @]
                ELSE [edit EXCEPT ![e] = NoEdit]
  /\ sent' = Nothing /\ UNCHANGED <<alive, mixed, wanted>>
DeleteRest(e) ==
  /\ edit[e].at = "upsert" /\ edit[e].left = <<>>
  /\ recipients' = recipients \ edit[e].doomed
  /\ edit' = [edit EXCEPT ![e] = NoEdit] /\ wanted' = IF alive THEN ToSet(edit[e].want) ELSE wanted
  /\ sent' = Nothing /\ UNCHANGED <<alive, mixed>>
delete_project_alert ==
  /\ alive /\ alive' = FALSE /\ recipients' = {} /\ wanted' = {}
  /\ mixed' = (mixed \/ \E e \in Editors : edit[e].at # "free")
  /\ sent' = Nothing /\ UNCHANGED edit

\* Notification.send_notifications: all recipients at once, a failure of one
\* (fail) does not stop the others; without recipients the mail goes out.
send_notifications(issues, extra, fail) ==
  /\ LET shown == SubSeq(issues, 1, Min({Len(issues), MaxIssues}))
         to == IF recipients = {} THEN {EMAIL} ELSE recipients \ fail
         Text(c) == IF c = EMAIL THEN AlertEmail(issues) ELSE Handler(c, shown, Len(issues), extra) IN
     sent' = Delivery(shown, extra, to, Text)
  /\ UNCHANGED <<recipients, alive, edit, mixed, wanted>>
\* send_monitor_notification: one recipient after the other, in any order, up to
\* the first that raises.
NotifyUptime(told) ==
  /\ alive /\ sent' = Delivery(<<>>, <<>>, told, UptimeMessage)
  /\ UNCHANGED <<recipients, alive, edit, mixed, wanted>>
\* test_project_alert skips the mail; with no issue the message is a plain one.
test_project_alert(last, extra) ==
  /\ alive
  /\ LET Text(c) == IF last = <<>> THEN Message(c, 0, <<>>) ELSE Handler(c, last, 1, extra) IN
     sent' = Delivery(last, extra, recipients \ {EMAIL}, Text)
  /\ UNCHANGED <<recipients, alive, edit, mixed, wanted>>

Deliver ==
  \/ \E issues \in Lists, extra \in CustomTags, fail \in {{}} \cup { {c} : c \in recipients } :
       send_notifications(issues, extra, fail)
  \/ \E told \in SUBSET recipients : NotifyUptime(told)
  \/ \E last \in {<<>>} \cup { s \in Lists : Len(s) = 1 }, extra \in CustomTags : test_project_alert(last, extra)
DeliveryNext ==
  \/ ~mixed /\ \E e \in Editors, want \in Payloads : create_project_alert(e, want) \/ update_project_alert(e, want)
  \/ \E e \in Editors : FillAlert(e) \/ SaveAlert(e) \/ Upsert(e) \/ DeleteRest(e)
  \/ delete_project_alert
  \/ alive /\ sent = Nothing /\ Deliver
DeliverySpec == DeliveryInit /\ [][DeliveryNext]_deliveryVars
--------------------------------------------------------------------------------
\* Two requests that change the recipients may leave the union of both, but one
\* alone, whatever is delivered or tested meanwhile, ends with its own list.
EditedRecipients ==
  (\A e \in Editors : edit[e].at = "free") /\ ~mixed => recipients = wanted

\* Whatever the channel, a message about issues shows each with its link, its
\* project and every tag, standard or asked for, that the issue has a value for.
TagsOf(i, extra) ==
  { k \in ToSet(STANDARD_TAG_KEYS) \cup ToSet(extra) : i.values[k] # NoValue }
ChannelsAgree ==
  \A c \in DOMAIN sent.messages \ {EMAIL} : \A n \in DOMAIN sent.about :
    LET issue == sent.about[n]
        part  == sent.messages[c].parts[n] IN
    /\ part.link = issue.link /\ part.project = issue.project
    /\ ToSet(part.tags) = TagsOf(issue, sent.extra)
    /\ Len(part.tags) = Cardinality(TagsOf(issue, sent.extra))

\* A notification goes to the recipients the last edit asked for, and every
\* channel tells the same.
AlertsAsConfigured == EditedRecipients /\ ChannelsAgree
================================================================================
