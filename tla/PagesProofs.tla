----------------------------- MODULE PagesProofs -----------------------------
(***************************************************************************)
(* Proofs about the pages of the clients, for any of the pages, any items, *)
(* and any number of calls and events.                                     *)
(***************************************************************************)
EXTENDS Pages, FiniteSetTheorems, SequenceTheorems, TLAPS

(***************************************************************************)
(* The tables.  Every page is made of panels and of sound acts.            *)
(***************************************************************************)

FailKinds ==
    {"told", "instead", "walls", "sticks", "first", "silent", "empties", "frame", "parts"}

IsPanel(p) ==
    /\ DOMAIN p = {"key", "poll", "live", "cancels", "refetch", "fails"}
    /\ p.poll \in BOOLEAN /\ p.live \in BOOLEAN /\ p.cancels \in BOOLEAN /\ p.refetch \in BOOLEAN
    /\ p.fails \in FailKinds

FlagKinds == {"page", "item", "last", "dialog", "none"}

IsAct(a) ==
    /\ DOMAIN a = {"name", "per", "via", "flag", "tested", "box", "closes", "heeds", "rereads",
                   "awaits", "needs", "offered", "changes", "refreshes"}
    /\ a.per \in {"page", "item"} /\ a.flag[1] \in FlagKinds
    /\ a.tested \in BOOLEAN /\ a.box \in {"page", "item"}
    /\ a.closes \in {"ok", "always", "before"} /\ a.heeds \in BOOLEAN
    /\ a.rereads \in BOOLEAN /\ a.awaits \in BOOLEAN
    /\ a.needs \in Roles /\ a.offered \in Roles

\* A control is shown to all roles or to those the server serves; a flag that
\* lives in a dialog has a dialog.
Sound(a) ==
    /\ IsAct(a)
    /\ a.offered # "viewer" => a.offered = a.needs
    /\ a.flag[1] = "dialog" => a.via # "button"

SoundPage(q) == (\A p \in q.panels : IsPanel(p)) /\ (\A a \in q.acts : Sound(a))

LEMMA LivePanels ==
    ASSUME NEW p, IsPanel(p)
    PROVE  IsPanel(Live(p)) /\ IsPanel([p EXCEPT !.refetch = TRUE])
BY DEF Live, IsPanel

LEMMA FailingPanels ==
    ASSUME NEW p, IsPanel(p), NEW how \in FailKinds
    PROVE  IsPanel(Failing(how, p))
BY DEF Failing, IsPanel

LEMMA PanelKinds ==
    ASSUME NEW k
    PROVE  IsPanel(Polled(k)) /\ IsPanel(Refetched(k)) /\ IsPanel(Loaded(k)) /\ IsPanel(Fetched(k))
<1>1. IsPanel(Polled(k)) /\ IsPanel(Loaded(k)) /\ IsPanel(Fetched(k))
  BY DEF Polled, Loaded, Fetched, IsPanel, FailKinds
<1> HIDE DEF Polled
<1>2. IsPanel([Polled(k) EXCEPT !.refetch = TRUE])
  BY <1>1, LivePanels
<1>3. IsPanel(Refetched(k))
  BY <1>2, FailingPanels DEF Refetched, FailKinds
<1> QED BY <1>1, <1>3

LEMMA FlagKindOf ==
    /\ \A n : PageFlag(n)[1] = "page" /\ CardFlag(n)[1] = "item"
    /\ LastItem[1] = "last" /\ NoFlag[1] = "none" /\ DialogFlag[1] = "dialog"
BY DEF PageFlag, CardFlag, LastItem, NoFlag, DialogFlag

LEMMA RolesNamed == "viewer" \in Roles /\ "operator" \in Roles /\ "admin" \in Roles
BY DEF Roles, Rank

LEMMA ActSound ==
    ASSUME NEW name, NEW per \in {"page", "item"}, NEW via, NEW flag, flag[1] \in FlagKinds,
           NEW box \in {"page", "item"}, NEW role \in Roles, NEW keys,
           flag[1] = "dialog" => via # "button"
    PROVE  Sound(Act(name, per, via, flag, box, role, keys))
BY DEF Sound, IsAct, Act

LEMMA FormsSound ==
    ASSUME NEW name, NEW box \in {"page", "item"}, NEW role \in Roles, NEW keys
    PROVE  Sound(Create(name, role, keys)) /\ Sound(Edit(name, box, role, keys))
<1>1. DialogFlag[1] \in FlagKinds
  BY FlagKindOf DEF FlagKinds
<1>2. Sound(Create(name, role, keys))
  BY <1>1, ActSound DEF Create
<1>3. Sound(Edit(name, box, role, keys))
  BY <1>1, ActSound DEF Edit
<1> QED BY <1>2, <1>3

LEMMA ConfirmSound ==
    ASSUME NEW name, NEW flag, flag[1] \in FlagKinds \ {"dialog"},
           NEW box \in {"page", "item"}, NEW role \in Roles, NEW keys
    PROVE  Sound(Confirm(name, flag, box, role, keys))
BY ActSound DEF Confirm

LEMMA ButtonSound ==
    ASSUME NEW name, NEW per \in {"page", "item"}, NEW flag, flag[1] \in FlagKinds \ {"dialog"},
           NEW role \in Roles, NEW keys
    PROVE  /\ Sound(Button(name, per, flag, role, keys))
           /\ Sound(Heedless(Button(name, per, flag, role, keys)))
<1>1. Sound(Button(name, per, flag, role, keys))
  BY ActSound DEF Button
<1>2. Button(name, per, flag, role, keys).via = "button"
  BY DEF Button, Act
<1> HIDE DEF Button
<1>3. ASSUME NEW a, Sound(a), a.via = "button" PROVE Sound(Heedless(a))
  BY <1>3 DEF Sound, IsAct, Heedless
<1> QED BY <1>1, <1>2, <1>3

LEMMA VariantsSound ==
    ASSUME NEW a, Sound(a)
    PROVE  /\ Sound(Open(a)) /\ Sound(Rereading(a)) /\ Sound(Awaiting(a)) /\ Sound(Untested(a))
           /\ Sound(Closing("always", a)) /\ Sound(Closing("before", a))
BY RolesNamed DEF Sound, IsAct, Open, Rereading, Awaiting, Untested, Closing

LEMMA ChangingSound ==
    ASSUME NEW a, Sound(a), NEW keys
    PROVE  Sound(Changing(keys, a)) /\ Sound([a EXCEPT !.changes = keys])
BY DEF Sound, IsAct, Changing

\* The flags of the pages are not a dialog's.
LEMMA PlainFlags ==
    /\ \A n : /\ PageFlag(n)[1] \in FlagKinds \ {"dialog"}
              /\ CardFlag(n)[1] \in FlagKinds \ {"dialog"}
    /\ LastItem[1] \in FlagKinds \ {"dialog"} /\ NoFlag[1] \in FlagKinds \ {"dialog"}
    /\ Card[1] \in FlagKinds \ {"dialog"} /\ Busy[1] \in FlagKinds \ {"dialog"}
    /\ TransferBusy[1] \in FlagKinds \ {"dialog"}
BY FlagKindOf DEF FlagKinds, Card, Busy, TransferBusy

LEMMA BackupTable == \A n \in DOMAIN DatabaseBackupsPage : SoundPage(DatabaseBackupsPage[n])
<1> USE RolesNamed, PlainFlags
<1>1. SoundPage(OverviewTab)
  BY PanelKinds, FailingPanels DEF SoundPage, Page, OverviewTab, FailKinds
<1>2. SoundPage(JobsTab)
  <2>1. \A a \in JobModal : Sound(a)
    BY FormsSound DEF JobModal
  <2>2. \A a \in JobCard : Sound(a)
    <3>1. /\ Sound(Button("toggleJob", "item", Card, "operator", {"vg-jobs"}))
          /\ Sound(Button("runJob", "item", Card, "operator", {"vg-jobs"}))
          /\ Sound(Button("preflight", "item", CardFlag("preflight"), "operator", {}))
      BY ButtonSound
    <3>2. Sound(Confirm("deleteJob", Card, "item", "admin", {"vg-jobs"}))
      BY ConfirmSound
    <3> QED BY <3>1, <3>2, ChangingSound DEF JobCard
  <2> QED BY <2>1, <2>2, PanelKinds DEF SoundPage, Page, JobsTab, JobRuns
<1>3. SoundPage(RunsTab)
  <2>1. \A a \in RunCard : Sound(a)
    <3>1. Sound(Button("verifyRun", "item", Card, "operator", {"vg-runs"}))
      BY ButtonSound
    <3>2. Sound(Confirm("cancelRun", Card, "item", "operator", {"vg-runs"}))
      BY ConfirmSound
    <3> QED BY <3>1, <3>2, ChangingSound DEF RunCard
  <2> QED BY <2>1, PanelKinds DEF SoundPage, Page, RunsTab, Artifacts
<1>4. SoundPage(AgentsTab)
  <2>1. \A a \in AgentCard : Sound(a)
    BY ConfirmSound, ButtonSound DEF AgentCard
  <2>2. /\ Sound(Button("mintRegistrationToken", "page", Busy, "admin", AgentKeys))
        /\ Sound(Button("mintEnrollToken", "page", Busy, "admin", AgentKeys))
        /\ Sound(Button("revokeEnrollToken", "item", Busy, "admin", AgentKeys))
    BY ButtonSound
  <2> QED BY <2>1, <2>2, PanelKinds, FailingPanels DEF SoundPage, Page, AgentsTab, FailKinds
<1>5. SoundPage(ConnectionsTab)
  <2>1. \A a \in ConnModal : Sound(a)
    BY FormsSound DEF ConnModal
  <2>2. /\ Sound(Button("testConnection", "item", LastItem, "operator", {"vg-connections"}))
        /\ Sound(Confirm("deleteConnection", Busy, "page", "admin", {"vg-connections"}))
    BY ButtonSound, ConfirmSound
  <2> QED BY <2>1, <2>2, PanelKinds DEF SoundPage, Page, ConnectionsTab
<1>6. SoundPage(RestoresTab)
  BY ActSound, PanelKinds DEF SoundPage, Page, RestoresTab, RestoreModal
<1>7. SoundPage(PoliciesTab)
  BY FormsSound, ConfirmSound, ButtonSound, PanelKinds DEF SoundPage, Page, PoliciesTab, PolicyModal
<1>8. SoundPage(StorageTab)
  <2>1. \A a \in TargetModal : Sound(a)
    BY FormsSound DEF TargetModal
  <2>2. /\ Sound(Button("testTarget", "item", LastItem, "operator", {"vg-targets"}))
        /\ Sound(Confirm("deleteTarget", Busy, "page", "admin", {"vg-targets"}))
    BY ButtonSound, ConfirmSound
  <2> QED BY <2>1, <2>2, PanelKinds DEF SoundPage, Page, StorageTab
<1> QED BY <1>1, <1>2, <1>3, <1>4, <1>5, <1>6, <1>7, <1>8 DEF DatabaseBackupsPage

LEMMA SettingsTable == \A n \in DOMAIN SettingsPage : SoundPage(SettingsPage[n])
<1> USE RolesNamed, PlainFlags
<1>0. \A part : IsPanel(SettingsData(part))
  BY PanelKinds, FailingPanels DEF SettingsData, FailKinds
<1>1. SoundPage(TeamTab)
  <2>1. \A a \in UserActs : Sound(a)
    BY ActSound, ButtonSound, ConfirmSound DEF UserActs
  <2> QED BY <2>1, PanelKinds DEF SoundPage, Page, TeamTab, TeamUsers
<1>2. SoundPage(NotificationsTab)
  <2>1. \A a \in NotifyActs : Sound(a)
    <3>1. /\ Sound(Button("saveNotifySettings", "page", PageFlag("ntBusy"), "admin",
                          {"settings-data"}))
          /\ Sound(Button("testNotify", "page", NoFlag, "admin", {}))
      BY ButtonSound
    <3> QED BY <3>1, VariantsSound DEF NotifyActs
  <2> QED BY <1>0, <2>1 DEF SoundPage, Page, NotificationsTab
<1>3. SoundPage(NotificationGroupManager)
  <2>1. \A a \in GroupActs : Sound(a)
    <3>1. /\ Sound(Button("createNotificationGroup", "page", PageFlag("groupBusy"), "operator",
                          GroupKeys))
          /\ Sound(Button("addGroupMember", "page", PageFlag("groupBusy"), "operator", GroupKeys))
          /\ Sound(Button("removeGroupMember", "item", NoFlag, "operator", GroupKeys))
      BY ButtonSound
    <3>2. Sound(Confirm("deleteNotificationGroup", NoFlag, "page", "admin", {"settings-data"}))
      BY ConfirmSound
    <3> QED BY <3>1, <3>2, VariantsSound DEF GroupActs
  <2> QED BY <1>0, <2>1, PanelKinds DEF SoundPage, Page, NotificationGroupManager, GroupDetail
<1>4. SoundPage(NotificationRulesSection)
  <2>1. \A a \in RuleActs : Sound(a)
    <3>1. Sound(Act("saveNotificationRule", "page", "form", PageFlag("busy"), "page", "operator",
                    {"notification-rules"}))
      BY ActSound
    <3>2. Sound(Button("toggleRule", "item", NoFlag, "operator", {"notification-rules"}))
      BY ButtonSound
    <3>3. Sound(Confirm("deleteNotificationRule", NoFlag, "page", "admin",
                        {"notification-rules"}))
      BY ConfirmSound
    <3> QED BY <3>1, <3>2, <3>3, VariantsSound DEF RuleActs
  <2> QED BY <2>1, PanelKinds DEF SoundPage, Page, NotificationRulesSection, RuleList
<1>5. SoundPage(DiagnosticsTab)
  <2>1. Sound(WipeDeployments)
    BY ActSound DEF WipeDeployments
  <2> QED BY <1>0, <2>1, VariantsSound DEF SoundPage, Page, DiagnosticsTab
<1> QED BY <1>1, <1>2, <1>3, <1>4, <1>5 DEF SettingsPage

LEMMA ServerTable == \A n \in DOMAIN ServerSide : SoundPage(ServerSide[n])
<1> USE RolesNamed, PlainFlags
<1>1. SoundPage(ServersPage)
  <2>1. IsPanel(ServerList)
    BY PanelKinds, LivePanels, FailingPanels DEF ServerList, FailKinds
  <2> QED BY <2>1, PanelKinds DEF SoundPage, Page, ServersPage
<1>2. SoundPage(ServerDetailPage)
  <2>1. Sound(ResolveBanner) /\ Sound(CreateToken) /\ Sound(TokenRow)
    <3>1. /\ Sound(Button("resolveAlert", "item", NoFlag, "operator", {"alerts"}))
          /\ Sound(Button("revokeAgentToken", "item", CardFlag("busy"), "admin", {"agent-tokens"}))
      BY ButtonSound
    <3>2. Sound(Act("createAgentToken", "page", "form", PageFlag("creatingToken"), "page",
                    "admin", {"agent-tokens"}))
      BY ActSound
    <3> QED BY <3>1, <3>2, VariantsSound DEF ResolveBanner, CreateToken, TokenRow
  <2>2. /\ IsPanel(ServerHeader) /\ IsPanel(LatestMetrics) /\ IsPanel(MetricsHistory)
        /\ IsPanel(PrometheusHistory) /\ IsPanel(AgentTokens) /\ IsPanel(ServerAudit)
        /\ IsPanel(ServerAlerts)
    BY PanelKinds, LivePanels, FailingPanels
       DEF ServerHeader, LatestMetrics, MetricsHistory, PrometheusHistory, AgentTokens, ServerAudit,
           ServerAlerts, FailKinds
  <2> QED BY <2>1, <2>2 DEF SoundPage, Page, ServerDetailPage
<1>3. SoundPage(AlertsPage)
  <2>1. Sound(AlertRow)
    BY ButtonSound, VariantsSound DEF AlertRow
  <2>2. IsPanel(AlertList)
    BY PanelKinds, LivePanels, FailingPanels DEF AlertList, FailKinds
  <2> QED BY <2>1, <2>2, PanelKinds DEF SoundPage, Page, AlertsPage
<1>4. SoundPage(HealthChecksPage)
  <2>1. \A a \in CheckCard : Sound(a)
    <3>1. /\ Sound(Button("updateHealthCheck", "item", NoFlag, "operator", {"health-checks"}))
          /\ Sound(Button("deleteHealthCheck", "item", NoFlag, "admin", {"health-checks"}))
      BY ButtonSound
    <3> QED BY <3>1, VariantsSound DEF CheckCard
  <2>2. Sound(AddCheckModal)
    BY FormsSound, VariantsSound DEF AddCheckModal
  <2> QED BY <2>1, <2>2, PanelKinds DEF SoundPage, Page, HealthChecksPage, ResultsPanel, CheckList
<1>5. SoundPage(AuditLogPage)
  BY PanelKinds DEF SoundPage, Page, AuditLogPage
<1>6. SoundPage(DashboardTab)
  <2>1. IsPanel(DashboardAlerts)
    BY PanelKinds, LivePanels, FailingPanels DEF DashboardAlerts, FailKinds
  <2> QED BY <2>1, PanelKinds DEF SoundPage, Page, DashboardTab
<1>7. SoundPage(AlertsTab)
  <2>1. Sound(Act("createSilence", "item", "form", PageFlag("busy"), "page", "operator", {}))
    BY ActSound
  <2>2. Sound(SilenceAlert)
    BY <2>1, VariantsSound, ChangingSound DEF SilenceAlert
  <2> QED BY <2>2, PanelKinds, LivePanels, FailingPanels DEF SoundPage, Page, AlertsTab, FailKinds
<1>8. SoundPage(TargetsTab)
  BY PanelKinds, LivePanels, FailingPanels DEF SoundPage, Page, TargetsTab, FailKinds
<1>9. SoundPage(SilencesTab)
  <2>1. Sound(DeleteSilence)
    BY ButtonSound, VariantsSound DEF DeleteSilence
  <2> QED BY <2>1, PanelKinds, LivePanels, FailingPanels
          DEF SoundPage, Page, SilencesTab, FailKinds
<1>10. SoundPage(FileTransfersPage)
  <2>1. Sound(Upload)
    BY ButtonSound, ChangingSound DEF Upload, TransferRun
  <2>2. Sound(SubmitPrompt)
    <3>1. Sound(Act("submitPrompt", "page", "form", TransferBusy, "page", "operator", TransferKeys))
      BY ActSound
    <3> QED BY <3>1, VariantsSound, ChangingSound DEF SubmitPrompt, TransferRun
  <2>3. \A a \in EntryButtons \cup TrashButtons : Sound(a)
    <3>1. /\ Sound(Button("trashMove", "item", TransferBusy, "operator", TransferKeys))
          /\ Sound(Button("trashRestore", "item", TransferBusy, "operator", TransferKeys))
          /\ Sound(Button("trashPurge", "page", TransferBusy, "operator", TransferKeys))
      BY ButtonSound
    <3> QED BY <3>1, VariantsSound, ChangingSound DEF EntryButtons, TrashButtons, TransferRun
  <2>4. \A p \in TransferPanels : IsPanel(p)
    BY PanelKinds, FailingPanels DEF TransferPanels, FailKinds
  <2> QED BY <2>1, <2>2, <2>3, <2>4 DEF SoundPage, Page, FileTransfersPage
<1> QED BY <1>1, <1>2, <1>3, <1>4, <1>5, <1>6, <1>7, <1>8, <1>9, <1>10 DEF ServerSide

LEMMA PhoneTable == \A n \in DOMAIN Phone : SoundPage(Phone[n])
<1> USE RolesNamed, PlainFlags
<1>1. SoundPage(PhoneDashboardTab) /\ SoundPage(FiringBadge)
  BY PanelKinds, FailingPanels
     DEF SoundPage, Page, PhoneDashboardTab, HostPanels, DashboardCounts, CpuHistory, FiringBadge,
         FailKinds
<1>2. SoundPage(PhoneAlertsTab)
  <2>1. Sound(Act("createSilence", "item", "form", PageFlag("busy"), "page", "operator",
                  {"am-alerts", "am-silences"}))
    BY ActSound
  <2> QED BY <2>1, VariantsSound, PanelKinds, FailingPanels
          DEF SoundPage, Page, PhoneAlertsTab, PhoneAlerts, PhoneSilence, FailKinds
<1>3. SoundPage(PhoneSilencesTab)
  <2>1. Sound(PhoneDeleteSilence)
    BY ButtonSound, VariantsSound DEF PhoneDeleteSilence
  <2> QED BY <2>1, PanelKinds, FailingPanels DEF SoundPage, Page, PhoneSilencesTab, FailKinds
<1>4. SoundPage(NotificationSettingsScreen)
  <2>1. /\ Sound(Button("updatePolicy", "page", PageFlag("saving"), "admin",
                        {"notify-policy", "notify-deliveries"}))
        /\ Sound(SendTest)
        /\ Sound(Button("updateSettings", "page", PageFlag("saving"), "admin", {"notify-settings"}))
    BY ButtonSound DEF SendTest
  <2>2. Sound(SavePolicy) /\ Sound(ToggleChannel)
    BY <2>1, VariantsSound, ChangingSound DEF SavePolicy, ToggleChannel
  <2>3. \A p \in NotifyPanels : IsPanel(p)
    BY PanelKinds, FailingPanels DEF NotifyPanels, FailKinds
  <2> QED BY <2>1, <2>2, <2>3 DEF SoundPage, Page, NotificationSettingsScreen
<1>5. SoundPage(AlertsScreen)
  <2>1. Sound(AlertCard)
    BY ButtonSound, VariantsSound DEF AlertCard
  <2> QED BY <2>1, PanelKinds DEF SoundPage, Page, AlertsScreen
<1>6. SoundPage(NotificationsScreen)
  <2>1. Sound(NotifRow) /\ Sound(MarkAll)
    BY ButtonSound DEF NotifRow, MarkAll
  <2> QED BY <2>1, PanelKinds DEF SoundPage, Page, NotificationsScreen
<1>7. SoundPage(ProjectDetailScreen)
  <2>1. ASSUME NEW name, NEW role \in Roles PROVE Sound(ProjectAction(name, role))
    <3>1. Sound(Act(name, "page", "confirm", PageFlag("pending"), "page", role,
                    {"project", "dashboard"}))
      BY ActSound
    <3> QED BY <3>1, VariantsSound, ChangingSound DEF ProjectAction
  <2>2. \A a \in ProjectActions : Sound(a)
    BY <2>1 DEF ProjectActions
  <2> QED BY <2>2, PanelKinds, FailingPanels
          DEF SoundPage, Page, ProjectDetailScreen, ProjectPanels, FailKinds
<1>8. SoundPage(LogsScreen) /\ SoundPage(ServersScreen)
  BY PanelKinds, FailingPanels DEF SoundPage, Page, LogsScreen, ServersScreen, FailKinds
<1>9. SoundPage(ServerDetailScreen)
  <2>1. Sound(PhoneResolve)
    BY ButtonSound, VariantsSound DEF PhoneResolve
  <2> QED BY <2>1, PanelKinds, FailingPanels
          DEF SoundPage, Page, ServerDetailScreen, PhoneServer, FailKinds
<1>10. SoundPage(DashboardScreen) /\ SoundPage(DeploymentsScreen)
  BY PanelKinds, FailingPanels DEF SoundPage, Page, DashboardScreen, DeploymentsScreen, FailKinds
<1> QED BY <1>1, <1>2, <1>3, <1>4, <1>5, <1>6, <1>7, <1>8, <1>9, <1>10 DEF Phone

LEMMA TablesSound == \A n \in DOMAIN PageTable : SoundPage(PageTable[n])
<1> SUFFICES ASSUME NEW n \in DOMAIN PageTable PROVE SoundPage(PageTable[n])
  OBVIOUS
<1>1. \A t \in Tables : n \in DOMAIN t => SoundPage(t[n])
  BY BackupTable, SettingsTable, ServerTable, PhoneTable DEF Tables
<1>2. PICK s \in Tables : n \in DOMAIN s
  BY DEF PageTable
<1> DEFINE u == CHOOSE t \in Tables : n \in DOMAIN t
<1>3. u \in Tables /\ n \in DOMAIN u
  BY <1>2
<1>4. PageTable[n] = u[n]
  BY DEF PageTable
<1> HIDE DEF u
<1> QED BY <1>1, <1>3, <1>4

(***************************************************************************)
(* What is watched and used: a panel and controls of a page.               *)
(***************************************************************************)

PanelKindSet ==
    [poll : BOOLEAN, live : BOOLEAN, cancels : BOOLEAN, refetch : BOOLEAN, fails : FailKinds]

ControlSet ==
    [per : {"page", "item"}, asks : BOOLEAN, flag : FlagKinds, tested : BOOLEAN,
     box : {"page", "item"}, closes : {"ok", "always", "before"}, heeds : BOOLEAN,
     rereads : BOOLEAN, awaits : BOOLEAN, gated : BOOLEAN, granted : BOOLEAN, changes : BOOLEAN,
     refreshes : BOOLEAN, excused : BOOLEAN]

SoundControl(a) ==
    /\ a \in ControlSet
    /\ a.gated => a.granted
    /\ a.flag = "dialog" => a.asks

PageOK == page.panel \in PanelKindSet /\ \A a \in page.controls : SoundControl(a)

LEMMA ControlSound ==
    ASSUME NEW a, NEW k, Sound(a)
    PROVE  SoundControl(Control(a, k))
<1>1. \A r \in Roles : Rank[r] \in Nat
  BY DEF Roles, Rank
<1>2. Control(a, k) \in ControlSet
  BY <1>1 DEF Control, ControlSet, Sound, IsAct
<1>3. Control(a, k).gated => Control(a, k).granted
  BY <1>1 DEF Control, Sound, IsAct
<1>4. Control(a, k).flag = "dialog" => Control(a, k).asks
  BY DEF Control, Sound
<1> QED BY <1>2, <1>3, <1>4 DEF SoundControl

LEMMA SituationSound == page \in Situations => PageOK
<1> SUFFICES ASSUME page \in Situations PROVE PageOK
  OBVIOUS
<1>1. PICK n \in Shown :
        page \in {[panel |-> Behaviour(p), controls |-> {Control(b, p.key) : b \in pair}]
              : p \in PageTable[n].panels, pair \in Pairs(PageTable[n].acts) \cup {{}}}
  BY DEF Situations
<1>2. PICK p \in PageTable[n].panels, pair \in Pairs(PageTable[n].acts) \cup {{}} :
        page = [panel |-> Behaviour(p), controls |-> {Control(b, p.key) : b \in pair}]
  BY <1>1
<1>3. SoundPage(PageTable[n])
  BY TablesSound, PagesAssumption
<1>4. pair \subseteq PageTable[n].acts
  BY DEF Pairs
<1>5. IsPanel(p)
  BY <1>3 DEF SoundPage
<1>6. Behaviour(p) \in PanelKindSet
  BY <1>5 DEF IsPanel, Behaviour, PanelKindSet
<1>7. \A b \in pair : SoundControl(Control(b, p.key))
  BY <1>3, <1>4, ControlSound DEF SoundPage
<1> QED BY <1>2, <1>6, <1>7 DEF PageOK

(***************************************************************************)
(* Types and bounds.                                                       *)
(***************************************************************************)

USE PagesAssumption

LoadSet == [read : Versions \cup {None}, for : 0..MaxCalls]
PanelState ==
    [data : Versions \cup {None}, status : Statuses, stale : BOOLEAN,
     loads : Seq(LoadSet)]
Acts == page.controls \cup {NoAct}
ItemNames == Items \cup {NoItem}
Stages == {"unused", "sent", "served", "denied", "failed", "rereading", "reloading", "done",
           "rejected"}
CallSet ==
    [act : Acts, item : ItemNames, pc : Stages, made : Versions \cup {None}, mount : Nat,
     late : BOOLEAN]
SeatSet == [open : BOOLEAN, mount : Nat]
DialogSet == [act : Acts, item : ItemNames, busy : 0..MaxCalls]

\* The calls that the server may have served.
Spent == {c \in Calls : call[c].pc \notin {"unused", "sent"}}

PageTyped ==
    /\ PageOK
    /\ seat \in SeatSet
    /\ demoted \in BOOLEAN
    /\ srv \in Nat
    /\ panel \in PanelState
    /\ dialog \in DialogSet
    /\ call \in [Calls -> CallSet]
    /\ events \in 0..MaxEvents

\* Versions are made by calls and events, mounts end with an event, and React
\* Query has one load of a panel under way.
PageBounds ==
    /\ srv <= Cardinality(Spent) + events
    /\ seat.mount + (IF seat.open THEN 0 ELSE 1) <= events
    /\ Row.cancels => Len(panel.loads) <= 1

\* What a call or a dialog is about.
CallsOfControls ==
    \A c \in Calls : /\ call[c].pc # "unused" => call[c].act \in page.controls
                     /\ call[c].mount <= seat.mount
                     /\ call[c].made <= srv
DialogsAsk ==
    /\ dialog.act = NoAct => dialog = NoDialog
    /\ dialog.act # NoAct => dialog.act.asks

PageBase == PageTyped /\ PageBounds /\ CallsOfControls /\ DialogsAsk

LEMMA FewCalls == IsFiniteSet(Calls) /\ Cardinality(Calls) = MaxCalls
BY FS_Interval DEF Calls

LEMMA SpentBounded ==
    ASSUME PageTyped
    PROVE  IsFiniteSet(Spent) /\ Cardinality(Spent) \in 0..MaxCalls
<1>1. IsFiniteSet(Calls) /\ Cardinality(Calls) = MaxCalls
  BY FewCalls
<1>2. Spent \subseteq Calls
  BY DEF Spent
<1>3. IsFiniteSet(Spent) /\ Cardinality(Spent) <= Cardinality(Calls)
  BY <1>1, <1>2, FS_Subset
<1> QED BY <1>1, <1>3, FS_CardinalityType

LEMMA VersionsInRange == PageTyped /\ PageBounds => srv \in Versions
BY SpentBounded DEF PageTyped, PageBounds, Versions

\* A control is not the place holder.
LEMMA ControlsAreNone == ASSUME NEW a, SoundControl(a) PROVE a # NoAct
<1>1. "per" \in DOMAIN a
  BY DEF SoundControl, ControlSet
<1>2. "per" \notin DOMAIN NoAct
  BY DEF NoAct
<1> QED BY <1>1, <1>2

LEMMA LoadTyped == ASSUME NEW c \in 0..MaxCalls PROVE Load(c) \in LoadSet /\ Load(c).read = None
BY DEF Load, LoadSet

LEMMA RemovedAt ==
    ASSUME NEW S, NEW s \in Seq(S), NEW n \in DOMAIN s
    PROVE  /\ RemoveAt(s, n) \in Seq(S)
           /\ Len(RemoveAt(s, n)) = Len(s) - 1
           /\ \A k \in DOMAIN RemoveAt(s, n) : \E j \in DOMAIN s : RemoveAt(s, n)[k] = s[j]
<1>1. n \in 1..Len(s)
  OBVIOUS
<1> DEFINE a == SubSeq(s, 1, n - 1)
           b == SubSeq(s, n + 1, Len(s))
<1>2. a \in Seq(S) /\ Len(a) = n - 1 /\ \A k \in 1..Len(a) : a[k] = s[k]
  BY <1>1
<1>3. b \in Seq(S) /\ Len(b) = Len(s) - n /\ \A k \in 1..Len(b) : b[k] = s[k + n]
  BY <1>1
<1>4. RemoveAt(s, n) = a \o b
  BY DEF RemoveAt
<1> HIDE DEF a, b
<1>5. a \o b \in Seq(S) /\ Len(a \o b) = Len(s) - 1
  BY <1>1, <1>2, <1>3
<1>6. ASSUME NEW k \in DOMAIN (a \o b) PROVE \E j \in DOMAIN s : (a \o b)[k] = s[j]
  <2>1. k \in 1..(Len(a) + Len(b))
    BY <1>2, <1>3, <1>6
  <2>2. (a \o b)[k] = IF k <= Len(a) THEN a[k] ELSE b[k - Len(a)]
    BY <1>2, <1>3, <2>1, ConcatProperties
  <2>3. CASE k <= Len(a)
    <3>1. k \in 1..Len(a) /\ k \in 1..Len(s)
      BY <1>1, <1>2, <2>1, <2>3
    <3> QED BY <1>2, <2>2, <2>3, <3>1
  <2>4. CASE ~(k <= Len(a))
    <3>a. Len(a) = n - 1 /\ Len(b) = Len(s) - n /\ Len(s) \in Nat
      BY <1>2, <1>3
    <3>1. k - Len(a) \in 1..Len(b) /\ k - Len(a) + n \in 1..Len(s)
      <4>1. ASSUME NEW L \in Nat, NEW j \in 1..L, NEW x \in Int, NEW y \in Int,
                   x = j - 1, y = L - j, NEW z \in 1..(x + y), ~(z <= x)
            PROVE  z - x \in 1..y /\ z - x + j \in 1..L
        BY <4>1
      <4>2. Len(a) \in Int /\ Len(b) \in Int
        BY <1>2, <1>3
      <4> QED BY <1>1, <2>1, <2>4, <3>a, <4>1, <4>2
    <3>2. b[k - Len(a)] = s[k - Len(a) + n]
      BY <1>3, <3>1
    <3> QED BY <2>2, <2>4, <3>1, <3>2
  <2> QED BY <2>3, <2>4
<1> QED BY <1>4, <1>5, <1>6

(***************************************************************************)
(* How a panel may change.                                                 *)
(***************************************************************************)

\* Version m is on display, or on its way, or the panel does not claim to be
\* up to date; and no load that has been served will take it away.
Current(p, m) ==
    /\ \A n \in DOMAIN p.loads : p.loads[n].read # None => p.loads[n].read >= m
    /\ p.data >= m \/ p.loads # <<>> \/ p.status # "success"

PanelStep(q) ==
    /\ q \in PanelState
    /\ Row.cancels => Len(q.loads) <= 1
    /\ \A m \in Nat \cup {None} : m <= srv /\ Current(panel, m) => Current(q, m)

LEMMA OneLoadSeq ==
    ASSUME NEW c \in 0..MaxCalls
    PROVE  /\ <<Load(c)>> \in Seq(LoadSet) /\ Len(<<Load(c)>>) = 1 /\ <<Load(c)>> # <<>>
           /\ \A n \in DOMAIN <<Load(c)>> : <<Load(c)>>[n].read = None
<1>1. Load(c) \in LoadSet /\ Load(c).read = None
  BY LoadTyped
<1> QED BY <1>1

LEMMA ReloadedKinds ==
    ASSUME PageTyped, NEW c
    PROVE  \/ Row.cancels /\ FirstLoad /\ Reloaded(c) = panel
           \/ Row.cancels /\ ~FirstLoad /\ Reloaded(c) = [panel EXCEPT !.loads = <<Load(c)>>]
           \/ ~Row.cancels /\ Reloaded(c) = [panel EXCEPT !.loads = Append(panel.loads, Load(c))]
<1>1. Row.cancels \in BOOLEAN
  BY DEF PageTyped, PageOK, PanelKindSet, Row
<1>2. CASE ~Row.cancels
  BY <1>2 DEF Reloaded
<1>3. CASE Row.cancels /\ FirstLoad
  BY <1>3 DEF Reloaded
<1>4. CASE Row.cancels /\ ~FirstLoad
  BY <1>4 DEF Reloaded
<1> QED BY <1>1, <1>2, <1>3, <1>4

LEMMA ReloadedStep ==
    ASSUME PageTyped, PageBounds, NEW c \in 0..MaxCalls
    PROVE  PanelStep(Reloaded(c))
<1>0. panel \in PanelState /\ panel.loads \in Seq(LoadSet)
  BY DEF PageTyped, PanelState
<1>1. CASE Reloaded(c) = panel
  BY <1>0, <1>1 DEF PanelStep, PageBounds
<1>2. CASE Reloaded(c) = [panel EXCEPT !.loads = <<Load(c)>>]
  <2> DEFINE q == [panel EXCEPT !.loads = <<Load(c)>>]
  <2>1. q \in PanelState /\ q.loads = <<Load(c)>>
    BY <1>0, OneLoadSeq DEF PanelState
  <2> HIDE DEF q
  <2>2. \A m : Current(q, m)
    BY <2>1, OneLoadSeq DEF Current
  <2>3. PanelStep(q)
    BY <2>1, <2>2, OneLoadSeq DEF PanelStep
  <2> QED BY <1>2, <2>3 DEF q
<1>3. CASE ~Row.cancels /\ Reloaded(c) = [panel EXCEPT !.loads = Append(panel.loads, Load(c))]
  <2> DEFINE s == Append(panel.loads, Load(c))
             q == [panel EXCEPT !.loads = s]
  <2>0. Load(c) \in LoadSet /\ Load(c).read = None
    BY LoadTyped
  <2>1. s \in Seq(LoadSet) /\ s # <<>> /\ Len(s) = Len(panel.loads) + 1
    BY <1>0, <2>0, AppendProperties
  <2>2. \A n \in DOMAIN s : s[n].read = None \/ (n \in DOMAIN panel.loads /\ s[n] = panel.loads[n])
    BY <1>0, <2>0, <2>1, AppendProperties
  <2> HIDE DEF s
  <2>3. q \in PanelState /\ q.loads = s
    BY <1>0, <2>1 DEF PanelState
  <2> HIDE DEF q
  <2>4. ASSUME NEW m \in Nat \cup {None}, Current(panel, m) PROVE Current(q, m)
    BY <2>1, <2>2, <2>3, <2>4 DEF Current
  <2>5. PanelStep(q)
    BY <1>3, <2>3, <2>4 DEF PanelStep
  <2> QED BY <1>3, <2>5 DEF q, s
<1> QED BY <1>1, <1>2, <1>3, ReloadedKinds

LEMMA StaleStep ==
    ASSUME PageTyped, PageBounds, NEW b \in BOOLEAN
    PROVE  PanelStep([panel EXCEPT !.stale = b])
<1> DEFINE q == [panel EXCEPT !.stale = b]
<1>1. panel \in PanelState
  BY DEF PageTyped
<1>2. /\ q \in PanelState /\ q.loads = panel.loads /\ q.data = panel.data
      /\ q.status = panel.status
  BY <1>1 DEF PanelState
<1> HIDE DEF q
<1>3. PanelStep(q)
  BY <1>2 DEF PanelStep, Current, PageBounds
<1> QED BY <1>3 DEF q

LEMMA InvalidatedStep ==
    ASSUME PageTyped, PageBounds, NEW c \in 0..MaxCalls
    PROVE  PanelStep(Invalidated(c))
BY ReloadedStep, StaleStep DEF Invalidated

LEMMA SameStep ==
    ASSUME PageTyped, PageBounds
    PROVE  PanelStep(panel)
BY DEF PageTyped, PageBounds, PanelStep

\* A load that failed leaves nothing that passes for data.
LEMMA FailuresTyped == Failures \subseteq Statuses \ {"success", "pending"}
BY DEF Failures, Statuses

LEMMA LoadStep ==
    ASSUME PageTyped, PageBounds, NEW n,
           LoadServed(n) \/ LoadDone(n) \/ LoadRetried(n) \/ LoadFails(n)
    PROVE  PanelStep(panel')
<1> DEFINE s == panel.loads
<1>0. panel \in PanelState /\ s \in Seq(LoadSet) /\ n \in DOMAIN s /\ s[n] \in LoadSet
  <2>1. panel \in PanelState /\ s \in Seq(LoadSet)
    BY DEF PageTyped, PanelState
  <2>2. n \in DOMAIN s
    BY DEF LoadServed, LoadDone, LoadRetried, LoadFails
  <2> QED BY <2>1, <2>2
<1>a. srv \in Versions
  BY VersionsInRange
<1>1. ASSUME NEW v \in {None, srv}, panel' = [panel EXCEPT !.loads[n].read = v]
      PROVE  PanelStep(panel')
  <2> DEFINE l == [s[n] EXCEPT !.read = v]
             t == [s EXCEPT ![n] = l]
  <2>1. l \in LoadSet /\ l.read = v
    BY <1>0, <1>a DEF LoadSet
  <2> HIDE DEF l
  <2>2. t \in Seq(LoadSet) /\ Len(t) = Len(s) /\ DOMAIN t = DOMAIN s /\ t # <<>>
    BY <1>0, <2>1
  <2>3. \A k \in DOMAIN s : t[k] = IF k = n THEN l ELSE s[k]
    BY <1>0
  <2> HIDE DEF t
  <2>4. panel' = [panel EXCEPT !.loads = t]
    BY <1>0, <1>1 DEF PanelState, t, l
  <2>5. /\ panel' \in PanelState /\ panel'.loads = t
    BY <1>0, <2>2, <2>4 DEF PanelState
  <2>6. ASSUME NEW m \in Nat \cup {None}, m <= srv, Current(panel, m) PROVE Current(panel', m)
    BY <1>1, <2>1, <2>2, <2>3, <2>5, <2>6 DEF Current
  <2> QED BY <2>2, <2>5, <2>6 DEF PanelStep, PageBounds
<1>2. CASE LoadServed(n) \/ LoadRetried(n)
  BY <1>1, <1>2 DEF LoadServed, LoadRetried
<1> DEFINE t == RemoveAt(s, n)
<1>3. /\ t \in Seq(LoadSet) /\ Len(t) = Len(s) - 1
      /\ \A k \in DOMAIN t : \E j \in DOMAIN s : t[k] = s[j]
  BY <1>0, RemovedAt
<1>4. Row.cancels => Len(t) <= 1
  BY <1>0, <1>3 DEF PageBounds
<1> HIDE DEF t
<1>5. CASE LoadDone(n)
  <2>1. PICK x \in {panel.status, "success"} :
            panel' = [panel EXCEPT !.data = s[n].read, !.status = x, !.stale = FALSE, !.loads = t]
    BY <1>5 DEF LoadDone, t
  <2>2. s[n].read # None /\ s[n].read \in Versions
    BY <1>0, <1>5 DEF LoadDone, LoadSet
  <2>3. panel' \in PanelState /\ panel'.data = s[n].read /\ panel'.loads = t
    <3>1. x \in Statuses
      BY <1>0, <2>1 DEF PanelState, Statuses
    <3> QED BY <1>0, <1>3, <2>1, <2>2, <3>1 DEF PanelState
  <2>4. ASSUME NEW m \in Nat \cup {None}, Current(panel, m) PROVE Current(panel', m)
    BY <1>0, <1>3, <2>2, <2>3, <2>4 DEF Current
  <2> QED BY <1>4, <2>3, <2>4 DEF PanelStep
<1>6. CASE LoadFails(n)
  <2>1. PICK how \in Failures, v \in {None, panel.data} :
            panel' = [panel EXCEPT !.data = v, !.status = how, !.loads = t]
    BY <1>6 DEF LoadFails, t
  <2>2. panel' \in PanelState /\ panel'.status # "success" /\ panel'.loads = t
    <3>1. how \in Statuses \ {"success"}
      BY FailuresTyped
    <3>2. v \in Versions \cup {None}
      BY <1>0 DEF PanelState
    <3> QED BY <1>0, <1>3, <2>1, <3>1, <3>2 DEF PanelState
  <2>3. ASSUME NEW m \in Nat \cup {None}, Current(panel, m) PROVE Current(panel', m)
    BY <1>3, <2>2, <2>3 DEF Current
  <2> QED BY <1>4, <2>2, <2>3 DEF PanelStep
<1> QED BY <1>2, <1>5, <1>6

\* Leaving drops what bare fetches loaded and are loading.
LEMMA LeaveStep ==
    ASSUME PageTyped, PageBounds, Leave
    PROVE  PanelStep(panel')
<1> DEFINE q == [data |-> None, status |-> "pending", stale |-> TRUE, loads |-> <<>>]
<1>1. panel' = panel \/ panel' = q
  BY DEF Leave
<1>2. q \in PanelState /\ q.loads = <<>> /\ q.status = "pending"
  <2>1. <<>> \in Seq(LoadSet)
    OBVIOUS
  <2> QED BY <2>1 DEF PanelState, Statuses
<1> HIDE DEF q
<1>3. PanelStep(q)
  BY <1>2 DEF PanelStep, Current
<1> QED BY <1>1, <1>3, SameStep

LEMMA ReturnStep ==
    ASSUME PageTyped, PageBounds, Return
    PROVE  PanelStep(panel')
<1>1. \/ panel' = Reloaded(Nobody) \/ panel' = [panel EXCEPT !.stale = FALSE] \/ panel' = panel
  BY DEF Return
<1>2. Nobody \in 0..MaxCalls
  BY DEF Nobody
<1> QED BY <1>1, <1>2, ReloadedStep, StaleStep, SameStep

LEMMA ReloadStep ==
    ASSUME PageTyped, PageBounds, Poll \/ RefreshButton \/ BusEvent
    PROVE  PanelStep(panel')
<1>1. Nobody \in 0..MaxCalls
  BY DEF Nobody
<1> QED BY <1>1, ReloadedStep DEF Poll, RefreshButton, BusEvent

(***************************************************************************)
(* Every step keeps types and bounds.                                      *)
(***************************************************************************)

LEMMA NoDialogTyped == NoDialog \in DialogSet /\ NoDialog.act = NoAct /\ NoDialog.busy = Nobody
BY DEF NoDialog, DialogSet, Acts, ItemNames, Nobody

LEMMA BaseStarts == page \in Situations /\ PageStart(TRUE) => PageBase
<1> SUFFICES ASSUME page \in Situations, PageStart(TRUE) PROVE PageBase
  OBVIOUS
<1>1. PageOK
  BY SituationSound
<1>2. /\ seat = [open |-> TRUE, mount |-> 0] /\ demoted = FALSE /\ srv = 0 /\ events = 0
      /\ dialog = NoDialog /\ call = [c \in Calls |-> NoCall]
      /\ panel = [data |-> None, status |-> "pending", stale |-> FALSE, loads |-> <<Load(Nobody)>>]
  BY DEF PageStart
<1>3. <<Load(Nobody)>> \in Seq(LoadSet) /\ Len(<<Load(Nobody)>>) = 1
  <2>1. Nobody \in 0..MaxCalls
    BY DEF Nobody
  <2> QED BY <2>1, OneLoadSeq
<1>4. panel \in PanelState /\ panel.loads = <<Load(Nobody)>>
  BY <1>2, <1>3 DEF PanelState, Statuses
<1>5. NoDialog \in DialogSet /\ NoDialog.act = NoAct
  BY NoDialogTyped
<1>6. NoCall \in CallSet /\ NoCall.pc = "unused" /\ NoCall.mount = 0 /\ NoCall.made = None
  BY DEF NoCall, CallSet, Acts, ItemNames, Stages
<1>7. seat \in SeatSet
  BY <1>2 DEF SeatSet
<1>8. PageTyped
  <2>0. 0 \in 0..MaxEvents
    OBVIOUS
  <2>1. demoted \in BOOLEAN /\ srv \in Nat /\ events \in 0..MaxEvents
    <3>1. demoted = FALSE /\ srv = 0 /\ events = 0
      BY <1>2
    <3> QED BY <2>0, <3>1
  <2>2. dialog \in DialogSet
    BY <1>2, <1>5
  <2>3. call \in [Calls -> CallSet]
    BY <1>2, <1>6
  <2> QED BY <1>1, <1>4, <1>7, <2>1, <2>2, <2>3 DEF PageTyped
<1>9. PageBounds
  <2>1. Cardinality(Spent) \in Nat
    BY <1>8, SpentBounded
  <2> QED BY <1>2, <1>3, <1>4, <2>1 DEF PageBounds
<1>10. CallsOfControls
  BY <1>2, <1>6 DEF CallsOfControls, None
<1> QED BY <1>2, <1>5, <1>8, <1>9, <1>10 DEF PageBase, DialogsAsk

\* The calls are as before; a version, a panel or the seat may have changed,
\* and the dialog may be gone.
LEMMA QuietBase ==
    ASSUME PageBase, PanelStep(panel'), UNCHANGED <<page, call>>,
           dialog' = dialog \/ dialog' = NoDialog,
           demoted' \in BOOLEAN, events' \in 0..MaxEvents, events' >= events,
           srv' \in Nat, srv' >= srv, srv' - srv <= events' - events,
           seat' \in SeatSet, seat'.mount >= seat.mount,
           seat'.mount + (IF seat'.open THEN 0 ELSE 1) <= events'
    PROVE  PageBase'
<1>0. dialog' \in DialogSet
  BY NoDialogTyped DEF PageBase, PageTyped
<1>1. PageTyped'
  BY <1>0
     DEF PageBase, PageTyped, PageOK, PanelStep, PanelState, SeatSet, DialogSet, CallSet, Acts
<1>2. Spent' = Spent
  BY DEF Spent
<1>3. Cardinality(Spent) \in Nat
  BY SpentBounded DEF PageBase
<1>4. PageBounds'
  <2>1. srv' <= Cardinality(Spent)' + events'
    <3>1. srv <= Cardinality(Spent) + events /\ srv \in Nat /\ events \in Nat
      BY DEF PageBase, PageTyped, PageBounds
    <3>2. Cardinality(Spent)' = Cardinality(Spent)
      BY <1>2
    <3>3. events' \in Nat
      OBVIOUS
    <3>4. ASSUME NEW v \in Nat, NEW w \in Nat, NEW e \in Nat, NEW f \in Nat, NEW k \in Nat,
                 v <= k + e, w - v <= f - e
          PROVE  w <= k + f
      BY <3>4
    <3> QED BY <1>3, <3>1, <3>2, <3>3, <3>4
  <2>2. Row'.cancels => Len(panel'.loads) <= 1
    BY DEF PanelStep, Row
  <2> QED BY <2>1, <2>2 DEF PageBounds
<1>5. CallsOfControls'
  <2> SUFFICES ASSUME NEW c \in Calls
               PROVE  /\ call[c].pc # "unused" => call[c].act \in page.controls
                      /\ call[c].mount <= seat'.mount
                      /\ call[c].made <= srv'
    BY DEF CallsOfControls
  <2>1. call[c].mount \in Nat /\ call[c].made \in Nat \cup {None}
    BY DEF PageBase, PageTyped, CallSet, Versions
  <2> QED BY <2>1 DEF PageBase, PageTyped, CallsOfControls, SeatSet, None
<1>6. DialogsAsk'
  BY NoDialogTyped DEF PageBase, DialogsAsk
<1> QED BY <1>1, <1>4, <1>5, <1>6 DEF PageBase

LEMMA QuietSteps ==
    ASSUME PageBase,
           \/ \E n \in 1..3 : LoadServed(n) \/ LoadDone(n) \/ LoadRetried(n) \/ LoadFails(n)
           \/ Poll \/ RefreshButton \/ BusEvent \/ SomebodyElse \/ RoleChanged \/ Return
    PROVE  PageBase' /\ PanelStep(panel')
<1>0. /\ PageTyped /\ PageBounds /\ seat \in SeatSet /\ events \in 0..MaxEvents /\ srv \in Nat
      /\ demoted \in BOOLEAN
  BY DEF PageBase, PageTyped
<1>1. PanelStep(panel')
  BY <1>0, LoadStep, ReloadStep, ReturnStep, SameStep DEF SomebodyElse, RoleChanged
<1>2. UNCHANGED <<page, call>> /\ (dialog' = dialog \/ dialog' = NoDialog)
  BY DEF LoadServed, LoadDone, LoadRetried, LoadFails, Poll, RefreshButton, BusEvent,
         SomebodyElse, RoleChanged, Return
<1>3. /\ events' \in 0..MaxEvents /\ events' >= events /\ srv' \in Nat /\ srv' >= srv
      /\ srv' - srv <= events' - events /\ demoted' \in BOOLEAN
  <2>1. events' = events \/ Event
    BY DEF LoadServed, LoadDone, LoadRetried, LoadFails, Poll, RefreshButton, BusEvent,
           SomebodyElse, RoleChanged, Return
  <2>2. events' \in 0..MaxEvents /\ events' >= events
    BY <1>0, <2>1 DEF Event
  <2>3. srv' = srv \/ (Event /\ srv' = srv + 1)
    BY DEF LoadServed, LoadDone, LoadRetried, LoadFails, Poll, RefreshButton, BusEvent,
           SomebodyElse, RoleChanged, Return
  <2>4. srv' \in Nat /\ srv' >= srv /\ srv' - srv <= events' - events
    BY <1>0, <2>2, <2>3 DEF Event
  <2>5. demoted' = demoted \/ demoted' = TRUE
    BY DEF LoadServed, LoadDone, LoadRetried, LoadFails, Poll, RefreshButton, BusEvent,
           SomebodyElse, RoleChanged, Return
  <2> QED BY <1>0, <2>2, <2>4, <2>5
<1>4. seat' \in SeatSet /\ seat'.mount >= seat.mount
        /\ seat'.mount + (IF seat'.open THEN 0 ELSE 1) <= events'
  <2>1. CASE UNCHANGED seat
    BY <1>0, <1>3, <2>1 DEF PageBounds, SeatSet
  <2>2. CASE Return
    BY <1>0, <2>2 DEF PageBounds, SeatSet, Return
  <2>3. CASE Event /\ seat.open /\ seat' = [seat EXCEPT !.mount = seat.mount + 1]
    <3>1. seat'.open /\ seat'.mount = seat.mount + 1 /\ seat' \in SeatSet /\ seat.mount \in Nat
      BY <1>0, <2>3 DEF SeatSet
    <3>2. seat.mount <= events /\ events' = events + 1
      <4>1. seat.mount + 0 <= events
        BY <1>0, <2>3 DEF PageBounds
      <4> QED BY <2>3, <3>1, <4>1 DEF Event
    <3> QED BY <1>0, <3>1, <3>2
  <2> QED BY <2>1, <2>2, <2>3 DEF LoadServed, LoadDone, LoadRetried, LoadFails, Poll, RefreshButton,
              BusEvent, SomebodyElse, RoleChanged, Return
<1> QED BY <1>1, <1>2, <1>3, <1>4, QuietBase

LEMMA LeaveBase ==
    ASSUME PageBase, Leave
    PROVE  PageBase' /\ PanelStep(panel')
<1>0. PageTyped /\ PageBounds /\ seat \in SeatSet /\ events \in 0..MaxEvents /\ srv \in Nat
  BY DEF PageBase, PageTyped
<1>1. PanelStep(panel')
  BY <1>0, LeaveStep
<1>2. /\ UNCHANGED <<page, demoted, srv, call>> /\ dialog' = NoDialog
      /\ events' = events + 1 /\ events < MaxEvents
      /\ seat.open /\ seat' = [seat EXCEPT !.open = FALSE]
  BY DEF Leave, Event
<1>3. seat' \in SeatSet /\ seat'.mount = seat.mount /\ ~seat'.open /\ seat.mount \in Nat
  BY <1>0, <1>2 DEF SeatSet
<1>4. NoDialog \in DialogSet /\ NoDialog.act = NoAct
  BY NoDialogTyped
<1>5. dialog' \in DialogSet' /\ DialogsAsk'
  BY <1>2, <1>4 DEF DialogSet, Acts, DialogsAsk
<1>6. events' \in 0..MaxEvents /\ events \in Nat
  BY <1>0, <1>2
<1>7. PageTyped'
  BY <1>1, <1>2, <1>3, <1>5, <1>6
     DEF PageBase, PageTyped, PageOK, PanelStep, PanelState, SeatSet, CallSet, Acts
<1>8. PageBounds'
  <2>1. Spent' = Spent
    BY <1>2 DEF Spent
  <2>2. Cardinality(Spent) \in Nat
    BY <1>0, SpentBounded
  <2>3. srv' <= Cardinality(Spent)' + events'
    <3>1. srv <= Cardinality(Spent) + events /\ Cardinality(Spent)' = Cardinality(Spent)
      BY <1>0, <2>1 DEF PageBounds
    <3> QED BY <1>0, <1>2, <1>6, <2>2, <3>1
  <2>4. seat'.mount + 1 <= events'
    BY <1>0, <1>2, <1>3, <1>6 DEF PageBounds
  <2>5. Row'.cancels => Len(panel'.loads) <= 1
    BY <1>1, <1>2 DEF PanelStep, Row
  <2> QED BY <1>3, <2>3, <2>4, <2>5 DEF PageBounds
<1>9. CallsOfControls'
  BY <1>2, <1>3 DEF PageBase, CallsOfControls
<1> QED BY <1>1, <1>5, <1>7, <1>8, <1>9 DEF PageBase

\* A call moves on, or is made: it becomes k.
LEMMA CallBase ==
    ASSUME PageBase, PanelStep(panel'), UNCHANGED <<page, seat, demoted>>,
           dialog' \in DialogSet, DialogsAsk',
           NEW c \in Calls, NEW k \in CallSet, call' = [call EXCEPT ![c] = k],
           k.act \in page.controls, k.mount <= seat.mount, k.made <= srv', k.pc # "unused",
           events' \in 0..MaxEvents, events' >= events,
           k.pc = "sent" => call[c].pc = "unused",
           \/ srv' = srv
           \/ srv' = srv + 1 /\ call[c].pc = "sent" /\ k.pc # "sent"
    PROVE  PageBase'
<1>0. /\ PageTyped /\ PageBounds /\ call \in [Calls -> CallSet] /\ srv \in Nat
      /\ events \in Nat /\ events' \in Nat
  BY DEF PageBase, PageTyped
<1>1. srv' \in Nat /\ srv' >= srv
  BY <1>0
<1>2. call' \in [Calls -> CallSet] /\ \A d \in Calls : call'[d] = IF d = c THEN k ELSE call[d]
  BY <1>0
<1>3. PageTyped'
  BY <1>1, <1>2 DEF PageBase, PageTyped, PageOK, PanelStep, PanelState, SeatSet, CallSet, Acts,
                    DialogSet
<1>4. IsFiniteSet(Spent) /\ IsFiniteSet(Spent') /\ Cardinality(Spent) \in Nat
      /\ Cardinality(Spent)' \in Nat
  <2>1. Spent \subseteq Calls /\ Spent' \subseteq Calls
    BY DEF Spent, Calls
  <2>2. IsFiniteSet(Calls)
    BY FewCalls
  <2> QED BY <2>1, <2>2, FS_Subset, FS_CardinalityType
<1>5. srv <= Cardinality(Spent) + events
  BY <1>0 DEF PageBounds
<1>6. srv' <= Cardinality(Spent)' + events'
  <2>1. CASE srv' = srv
    <3>1. Spent \subseteq Spent'
      BY <1>2 DEF Spent
    <3>2. Cardinality(Spent) <= Cardinality(Spent)'
      BY <1>4, <3>1, FS_Subset
    <3> QED BY <1>0, <1>4, <1>5, <2>1, <3>2
  <2>2. CASE srv' = srv + 1 /\ call[c].pc = "sent" /\ k.pc # "sent"
    <3>1. Spent' = Spent \cup {c} /\ c \notin Spent
      BY <1>2, <2>2 DEF Spent
    <3>2. Cardinality(Spent)' = Cardinality(Spent) + 1
      BY <1>4, <3>1, FS_AddElement
    <3> QED BY <1>0, <1>4, <1>5, <2>2, <3>2
  <2> QED BY <2>1, <2>2
<1>7. PageBounds'
  <2>1. seat'.mount + (IF seat'.open THEN 0 ELSE 1) <= events'
    BY <1>0 DEF PageBounds, PageTyped, SeatSet
  <2>2. Row'.cancels => Len(panel'.loads) <= 1
    BY DEF PanelStep, Row
  <2> QED BY <1>6, <2>1, <2>2 DEF PageBounds
<1>8. CallsOfControls'
  <2> SUFFICES ASSUME NEW d \in Calls
               PROVE  /\ call'[d].pc # "unused" => call'[d].act \in page.controls
                      /\ call'[d].mount <= seat.mount
                      /\ call'[d].made <= srv'
    BY DEF CallsOfControls
  <2>1. CASE d = c
    BY <1>2, <2>1
  <2>2. CASE d # c
    <3>1. call[d].made \in Nat \cup {None} /\ call[d].made <= srv
      BY <1>0 DEF CallSet, Versions, PageBase, CallsOfControls
    <3> QED BY <1>0, <1>1, <1>2, <2>2, <3>1 DEF PageBase, CallsOfControls, None
  <2> QED BY <2>1, <2>2
<1> QED BY <1>3, <1>7, <1>8 DEF PageBase

LEMMA DialogBase ==
    ASSUME PageBase, CloseDialog \/ \E a \in page.controls : \E i \in ItemsOf(a) : OpenDialog(a, i)
    PROVE  PageBase' /\ PanelStep(panel')
<1>0. UNCHANGED <<page, seat, demoted, srv, panel, call, events>>
  BY DEF CloseDialog, OpenDialog
<1>1. dialog' \in DialogSet /\ DialogsAsk'
  <2>1. CASE CloseDialog
    BY <2>1, NoDialogTyped DEF CloseDialog, DialogsAsk
  <2>2. CASE \E a \in page.controls : \E i \in ItemsOf(a) : OpenDialog(a, i)
    <3>1. PICK a \in page.controls : \E i \in ItemsOf(a) : OpenDialog(a, i)
      BY <2>2
    <3>2. PICK i \in ItemsOf(a) : OpenDialog(a, i)
      BY <3>1
    <3>3. dialog' = [act |-> a, item |-> i, busy |-> Nobody] /\ a.asks
      BY <3>2 DEF OpenDialog
    <3>4. a # NoAct
      BY ControlsAreNone DEF PageBase, PageTyped, PageOK
    <3>5. i \in ItemNames
      BY DEF ItemsOf, ItemNames
    <3> QED BY <3>3, <3>4, <3>5 DEF DialogSet, Acts, DialogsAsk, Nobody
  <2> QED BY <2>1, <2>2
<1>2. PageTyped'
  BY <1>0, <1>1 DEF PageBase, PageTyped, PageOK, PanelState, SeatSet, CallSet, Acts, DialogSet
<1>3. PageBounds'
  BY <1>0 DEF PageBase, PageBounds, Spent, Row
<1>4. CallsOfControls'
  BY <1>0 DEF PageBase, CallsOfControls
<1>5. PanelStep(panel')
  BY <1>0, SameStep DEF PageBase
<1> QED BY <1>1, <1>2, <1>3, <1>4, <1>5 DEF PageBase

LEMMA DialogIdle ==
    ASSUME NEW b \in 0..MaxCalls, dialog \in DialogSet
    PROVE  /\ [dialog EXCEPT !.busy = b] \in DialogSet
           /\ [dialog EXCEPT !.busy = b].act = dialog.act
           /\ [dialog EXCEPT !.busy = b].item = dialog.item
           /\ [dialog EXCEPT !.busy = b].busy = b
           /\ dialog = NoDialog /\ b = Nobody => [dialog EXCEPT !.busy = b] = NoDialog
<1>1. /\ [dialog EXCEPT !.busy = b] \in DialogSet
      /\ [dialog EXCEPT !.busy = b].act = dialog.act
      /\ [dialog EXCEPT !.busy = b].item = dialog.item
      /\ [dialog EXCEPT !.busy = b].busy = b
  BY DEF DialogSet
<1>2. ASSUME dialog = NoDialog, b = Nobody PROVE [dialog EXCEPT !.busy = b] = NoDialog
  <2> DEFINE h == [NoDialog EXCEPT !.busy = Nobody]
  <2>1. DOMAIN h = {"act", "item", "busy"} /\ h = [y \in {"act", "item", "busy"} |-> h[y]]
    BY DEF NoDialog
  <2>2. h["act"] = NoAct /\ h["item"] = NoItem /\ h["busy"] = Nobody
    BY DEF NoDialog
  <2> HIDE DEF h
  <2>3. h = [act |-> NoAct, item |-> NoItem, busy |-> Nobody]
    BY <2>1, <2>2, Zenon
  <2> QED BY <1>2, <2>3 DEF h, NoDialog
<1> QED BY <1>1, <1>2

\* What a submitted call is.
LEMMA SubmitBase ==
    ASSUME PageBase, NEW a \in page.controls, NEW i \in ItemsOf(a), NEW c \in Calls, Submit(a, i, c)
    PROVE  PageBase' /\ PanelStep(panel')
<1>0. /\ PageTyped /\ PageBounds /\ dialog \in DialogSet /\ DialogsAsk /\ SoundControl(a)
      /\ seat \in SeatSet /\ srv \in Nat /\ events \in 0..MaxEvents
  BY DEF PageBase, PageTyped, PageOK
<1>1. a # NoAct
  BY <1>0, ControlsAreNone
<1> DEFINE k == [act |-> a, item |-> i, pc |-> "sent", made |-> None, mount |-> seat.mount,
                 late |-> FALSE]
<1>2. UNCHANGED <<page, seat, demoted, srv, panel, events>> /\ call' = [call EXCEPT ![c] = k]
      /\ call[c] = NoCall
  BY DEF Submit
<1>3. /\ k \in CallSet /\ k.act = a /\ k.mount = seat.mount /\ k.made = None /\ k.pc = "sent"
      /\ seat.mount \in Nat
  BY <1>0 DEF CallSet, Acts, ItemsOf, ItemNames, Stages, SeatSet
<1> HIDE DEF k
<1>4. PanelStep(panel')
  BY <1>0, <1>2, SameStep
<1>5. call[c].pc = "unused"
  BY <1>2 DEF NoCall
<1>6. dialog' \in DialogSet /\ DialogsAsk'
  <2>1. IF a.asks THEN dialog.act = a ELSE dialog = NoDialog
    BY DEF Submit
  <2>2. CASE a.closes = "before"
    <3>1. dialog' = NoDialog
      BY <2>2 DEF Submit
    <3> QED BY <3>1, NoDialogTyped DEF DialogsAsk
  <2>3. CASE a.closes # "before"
    <3> DEFINE b == IF a.flag = "dialog" THEN c ELSE dialog.busy
    <3>1. b \in 0..MaxCalls
      BY <1>0 DEF DialogSet, Calls
    <3>2. dialog' = [dialog EXCEPT !.busy = b]
      BY <2>3 DEF Submit
    <3>a. a.flag # "dialog" => b = dialog.busy
      OBVIOUS
    <3> HIDE DEF b
    <3>3. CASE a.asks
      <4>1. dialog' \in DialogSet /\ dialog'.act = a
        BY <1>0, <2>1, <3>1, <3>2, <3>3, DialogIdle
      <4> QED BY <1>1, <3>3, <4>1 DEF DialogsAsk
    <3>4. CASE ~a.asks
      <4>1. b = Nobody
        BY <1>0, <2>1, <3>a, <3>4, NoDialogTyped DEF SoundControl
      <4>2. dialog' = NoDialog
        BY <1>0, <2>1, <3>1, <3>2, <3>4, <4>1, DialogIdle
      <4> QED BY <4>2, NoDialogTyped DEF DialogsAsk
    <3> QED BY <3>3, <3>4
  <2> QED BY <2>2, <2>3
<1>7. k.made <= srv' /\ k.mount <= seat.mount /\ events' \in 0..MaxEvents /\ events' >= events
  BY <1>0, <1>2, <1>3 DEF None
<1> QED BY <1>2, <1>3, <1>4, <1>5, <1>6, <1>7, CallBase

LEMMA CallTyped ==
    ASSUME PageBase, NEW c \in Calls, call[c].pc # "unused"
    PROVE  /\ call[c] \in CallSet /\ call[c].act \in page.controls /\ SoundControl(call[c].act)
           /\ call[c].mount <= seat.mount /\ call[c].made <= srv
BY DEF PageBase, PageTyped, PageOK, CallsOfControls

\* How the server answers; an answer that was not asked for is a denial.
LEMMA AnswersTyped ==
    ASSUME NEW a, NEW answer \in Answers(a)
    PROVE  /\ answer \in {"served", "denied"}
           /\ answer = "denied" /\ a.gated /\ a.granted /\ demoted \in BOOLEAN => demoted
BY DEF Answers

LEMMA ServeKind ==
    ASSUME PageBase, NEW c \in Calls, Serve(c)
    PROVE  \E answer \in Answers(call[c].act), m \in Versions \cup {None} :
             /\ call' = [call EXCEPT ![c] = [call[c] EXCEPT !.pc = answer, !.made = m]]
             /\ \/ srv' = srv /\ m = None
                \/ srv' = srv + 1 /\ m = srv' /\ answer = "served"
<1>0. call \in [Calls -> CallSet] /\ srv \in Versions /\ srv \in Nat
  BY VersionsInRange DEF PageBase, PageTyped
<1> DEFINE a == call[c].act
<1>1. PICK answer \in Answers(a) :
        LET made == answer = "served" /\ a.changes IN
        /\ srv' = IF made THEN srv + 1 ELSE srv
        /\ call' = [call EXCEPT ![c].pc = answer, ![c].made = IF made THEN srv' ELSE None]
  BY DEF Serve
<1>2. ASSUME NEW m, call' = [call EXCEPT ![c].pc = answer, ![c].made = m]
      PROVE  call' = [call EXCEPT ![c] = [call[c] EXCEPT !.pc = answer, !.made = m]]
  BY <1>0, <1>2 DEF CallSet
<1>3. CASE ~(answer = "served" /\ a.changes)
  BY <1>1, <1>2, <1>3
<1>4. CASE answer = "served" /\ a.changes
  <2>1. srv' = srv + 1 /\ call' = [call EXCEPT ![c].pc = answer, ![c].made = srv']
    BY <1>1, <1>4
  <2>2. srv' \in Versions
    <3>1. c \notin Spent
      BY DEF Spent, Serve
    <3>2. IsFiniteSet(Spent) /\ Cardinality(Spent) \in 0..MaxCalls
      BY SpentBounded DEF PageBase
    <3>3. Cardinality(Spent) # MaxCalls
      <4>1. IsFiniteSet(Calls) /\ Cardinality(Calls) = MaxCalls /\ Spent \subseteq Calls
        BY FewCalls DEF Spent
      <4> QED BY <3>1, <4>1, FS_Subset
    <3>4. srv <= Cardinality(Spent) + events /\ events \in 0..MaxEvents
      BY DEF PageBase, PageBounds, PageTyped
    <3> QED BY <1>0, <2>1, <3>2, <3>3, <3>4 DEF Versions
  <2> QED BY <1>2, <1>4, <2>1, <2>2
<1> QED BY <1>3, <1>4

LEMMA ServeBase ==
    ASSUME PageBase, NEW c \in Calls, Serve(c)
    PROVE  PageBase' /\ PanelStep(panel')
<1>0. /\ call[c].pc = "sent" /\ UNCHANGED <<page, seat, demoted, panel, dialog, flags, events>>
      /\ PageTyped /\ PageBounds /\ events \in 0..MaxEvents /\ srv \in Nat
  BY DEF PageBase, PageTyped, Serve
<1>1. PICK answer \in Answers(call[c].act), m \in Versions \cup {None} :
        /\ call' = [call EXCEPT ![c] = [call[c] EXCEPT !.pc = answer, !.made = m]]
        /\ \/ srv' = srv /\ m = None
           \/ srv' = srv + 1 /\ m = srv' /\ answer = "served"
  BY ServeKind
<1>2. call[c] \in CallSet /\ call[c].act \in page.controls /\ call[c].mount <= seat.mount
  BY <1>0, CallTyped
<1>3. answer \in {"served", "denied"}
  BY AnswersTyped
<1> DEFINE k == [call[c] EXCEPT !.pc = answer, !.made = m]
<1>4. /\ k \in CallSet /\ k.act = call[c].act /\ k.mount = call[c].mount /\ k.made = m
      /\ k.pc = answer
  BY <1>2, <1>3 DEF CallSet, Stages
<1>5. call' = [call EXCEPT ![c] = k]
  BY <1>1
<1> HIDE DEF k
<1>6. PanelStep(panel')
  BY <1>0, SameStep
<1>7. m <= srv'
  BY <1>0, <1>1 DEF None
<1>8. dialog' \in DialogSet /\ DialogsAsk'
  BY <1>0 DEF PageBase, PageTyped, DialogsAsk
<1>9. events' \in 0..MaxEvents /\ events' >= events
  BY <1>0
<1> QED BY <1>0, <1>1, <1>2, <1>3, <1>4, <1>5, <1>6, <1>7, <1>8, <1>9, CallBase

\* Only the stage of the call changes.
LEMMA FailBase ==
    ASSUME PageBase, NEW c \in Calls, CallFails(c) \/ Finish(c) \/ RereadFails(c)
    PROVE  PageBase' /\ PanelStep(panel')
<1>0. /\ UNCHANGED <<page, seat, demoted, srv, panel, dialog>>
      /\ PageTyped /\ PageBounds /\ events \in 0..MaxEvents /\ srv \in Nat
      /\ call[c].pc # "unused"
  BY DEF PageBase, PageTyped, CallFails, Finish, RereadFails
<1>1. PICK x \in {"failed", "done", "rejected"} : call' = [call EXCEPT ![c].pc = x]
  BY DEF CallFails, Finish, RereadFails
<1>2. /\ call[c] \in CallSet /\ call[c].act \in page.controls /\ call[c].mount <= seat.mount
      /\ call[c].made <= srv
  BY <1>0, CallTyped
<1> DEFINE k == [call[c] EXCEPT !.pc = x]
<1>3. /\ k \in CallSet /\ k.act = call[c].act /\ k.mount = call[c].mount /\ k.made = call[c].made
      /\ k.pc = x
  BY <1>2 DEF CallSet, Stages
<1>4. call' = [call EXCEPT ![c] = k]
  BY <1>0, <1>1 DEF PageTyped
<1> HIDE DEF k
<1>5. PanelStep(panel')
  BY <1>0, SameStep
<1>6. dialog' \in DialogSet /\ DialogsAsk'
  BY <1>0 DEF PageBase, PageTyped, DialogsAsk
<1>7. events' \in 0..MaxEvents /\ events' >= events
  BY <1>0 DEF CallFails, Finish, RereadFails, Event
<1> QED BY <1>0, <1>2, <1>3, <1>4, <1>5, <1>6, <1>7, CallBase

\* The outcomes that Settle and Reread make of an answer.
LEMMA SettleKind ==
    ASSUME PageBase, NEW c \in Calls, Settle(c) \/ Reread(c)
    PROVE  \E x \in {"rereading", "reloading", "done", "rejected"} :
             /\ call' = [call EXCEPT ![c] = [call[c] EXCEPT !.pc = x, !.late = Late]]
             /\ x \in {"reloading", "done"} => panel' = Refreshed(call[c].act, c)
             /\ x \notin {"reloading", "done"} => panel' = panel
             /\ x \in {"rereading", "reloading"} => flags' = flags
             /\ x \notin {"rereading", "reloading"} => flags' = Released(call[c].act, c)
<1> DEFINE a == call[c].act
           ok == call[c].pc = "served" \/ ~a.heeds
<1>0. call \in [Calls -> CallSet] /\ call[c].pc # "unused"
  BY DEF PageBase, PageTyped, Settle, Reread
<1>1. a.awaits \in BOOLEAN /\ a.heeds \in BOOLEAN /\ a.rereads \in BOOLEAN
  BY <1>0, CallTyped DEF SoundControl, ControlSet
<1>2. ASSUME NEW x, call' = [call EXCEPT ![c].pc = x, ![c].late = Late]
      PROVE  call' = [call EXCEPT ![c] = [call[c] EXCEPT !.pc = x, !.late = Late]]
  BY <1>0, <1>2 DEF CallSet
<1>3. CASE (Settle(c) /\ ok /\ ~a.rereads) \/ Reread(c)
  <2>1. /\ call' = [call EXCEPT ![c].pc = AfterSuccess(a), ![c].late = Late]
        /\ panel' = Refreshed(a, c)
        /\ flags' = IF a.awaits THEN flags ELSE Released(a, c)
    BY <1>1, <1>3 DEF Settle, Reread
  <2>2. CASE a.awaits
    BY <1>2, <2>1, <2>2 DEF AfterSuccess
  <2>3. CASE ~a.awaits
    BY <1>2, <2>1, <2>3 DEF AfterSuccess
  <2> QED BY <2>2, <2>3
<1>4. CASE Settle(c) /\ ok /\ a.rereads
  <2>1. call' = [call EXCEPT ![c].pc = "rereading", ![c].late = Late]
    BY <1>4 DEF Settle
  <2>2. panel' = panel /\ flags' = flags
    BY <1>4 DEF Settle
  <2> QED BY <1>2, <2>1, <2>2
<1>5. CASE Settle(c) /\ ~ok
  <2>1. call' = [call EXCEPT ![c].pc = "rejected", ![c].late = Late]
    BY <1>5 DEF Settle
  <2>2. panel' = panel /\ flags' = Released(a, c)
    BY <1>5 DEF Settle
  <2> QED BY <1>2, <2>1, <2>2
<1> QED BY <1>3, <1>4, <1>5

\* A call that has its outcome is no longer what a dialog waits for.
LEMMA SettledDialog ==
    ASSUME NEW c \in Calls, Settle(c)
    PROVE  \/ Here(c) /\ dialog' = NoDialog
           \/ Here(c) /\ dialog' = [dialog EXCEPT !.busy = IF dialog.busy = c THEN Nobody
                                                           ELSE dialog.busy]
           \/ ~Here(c) /\ dialog' = dialog
BY DEF Settle, DialogAfter

LEMMA SettleBase ==
    ASSUME PageBase, NEW c \in Calls, Settle(c) \/ Reread(c)
    PROVE  PageBase' /\ PanelStep(panel')
<1>0. /\ UNCHANGED <<page, seat, demoted, srv, events>>
      /\ PageTyped /\ PageBounds /\ events \in 0..MaxEvents /\ srv \in Nat
      /\ call[c].pc # "unused" /\ dialog \in DialogSet /\ DialogsAsk
  BY DEF PageBase, PageTyped, Settle, Reread
<1>1. PICK x \in {"rereading", "reloading", "done", "rejected"} :
        call' = [call EXCEPT ![c] = [call[c] EXCEPT !.pc = x, !.late = Late]]
  BY SettleKind
<1>2. /\ call[c] \in CallSet /\ call[c].act \in page.controls /\ call[c].mount <= seat.mount
      /\ call[c].made <= srv
  BY <1>0, CallTyped
<1>3. Late \in BOOLEAN
  BY DEF Late
<1> DEFINE k == [call[c] EXCEPT !.pc = x, !.late = Late]
<1>4. /\ k \in CallSet /\ k.act = call[c].act /\ k.mount = call[c].mount /\ k.made = call[c].made
      /\ k.pc = x
  BY <1>2, <1>3 DEF CallSet, Stages
<1>5. call' = [call EXCEPT ![c] = k]
  BY <1>1
<1> HIDE DEF k
<1>6. PanelStep(panel')
  <2>1. c \in 0..MaxCalls
    BY DEF Calls
  <2>2. panel' = Invalidated(c) \/ panel' = panel
    BY SettleKind DEF Refreshed
  <2> QED BY <1>0, <2>1, <2>2, InvalidatedStep, SameStep
<1>7. dialog' \in DialogSet /\ DialogsAsk'
  <2> DEFINE b == IF dialog.busy = c THEN Nobody ELSE dialog.busy
  <2>1. dialog' = dialog \/ dialog' = NoDialog \/ dialog' = [dialog EXCEPT !.busy = b]
    BY SettledDialog DEF Reread
  <2>2. CASE dialog' = dialog \/ dialog' = NoDialog
    BY <1>0, <2>2, NoDialogTyped DEF DialogsAsk
  <2>3. CASE dialog' = [dialog EXCEPT !.busy = b]
    <3>1. b \in 0..MaxCalls /\ (dialog = NoDialog => b = Nobody)
      BY <1>0, NoDialogTyped DEF DialogSet, Nobody
    <3> HIDE DEF b
    <3>2. /\ dialog' \in DialogSet /\ dialog'.act = dialog.act
          /\ dialog = NoDialog => dialog' = NoDialog
      BY <1>0, <2>3, <3>1, DialogIdle
    <3> QED BY <1>0, <3>2 DEF DialogsAsk
  <2> QED BY <2>1, <2>2, <2>3
<1>8. events' \in 0..MaxEvents /\ events' >= events
  BY <1>0
<1> QED BY <1>0, <1>2, <1>4, <1>5, <1>6, <1>7, <1>8, CallBase

LEMMA BaseStep == PageBase /\ [PageNext]_pageVars => PageBase' /\ PanelStep(panel')
<1> SUFFICES ASSUME PageBase, [PageNext]_pageVars PROVE PageBase' /\ PanelStep(panel')
  OBVIOUS
<1>1. CASE PageNext
  <2>1. CASE \/ \E n \in 1..3 : LoadServed(n) \/ LoadDone(n) \/ LoadRetried(n) \/ LoadFails(n)
             \/ Poll \/ RefreshButton \/ BusEvent \/ SomebodyElse \/ RoleChanged \/ Return
    BY <2>1, QuietSteps
  <2>2. CASE \E c \in Calls : \/ Serve(c) \/ Settle(c) \/ Reread(c) \/ Finish(c)
                             \/ CallFails(c) \/ RereadFails(c)
    BY <2>2, ServeBase, SettleBase, FailBase
  <2>3. CASE \E a \in page.controls : \E i \in ItemsOf(a) :
                OpenDialog(a, i) \/ \E c \in Calls : Submit(a, i, c)
    BY <2>3, DialogBase, SubmitBase
  <2>4. CASE CloseDialog
    BY <2>4, DialogBase
  <2>5. CASE Leave
    BY <2>5, LeaveBase
  <2> QED BY <1>1, <2>1, <2>2, <2>3, <2>4, <2>5 DEF PageNext, Loading, Answering
<1>2. CASE UNCHANGED pageVars
  <2>1. PageTyped'
    BY <1>2 DEF pageVars, PageBase, PageTyped, PageOK, PanelState, SeatSet, CallSet, Acts, DialogSet
  <2>2. PageBounds' /\ CallsOfControls' /\ DialogsAsk'
    BY <1>2 DEF pageVars, PageBase, PageBounds, Spent, Row, CallsOfControls, DialogsAsk
  <2>3. PanelStep(panel')
    BY <1>2, SameStep DEF PageBase, pageVars
  <2> QED BY <2>1, <2>2, <2>3 DEF PageBase
<1> QED BY <1>1, <1>2

\* The part of the invariant that all the others need: types, the bounds on
\* versions and mounts, and that calls and dialogs are of the page's controls.
THEOREM PageBaseHolds == PageSpec => []PageBase
BY BaseStarts, BaseStep, PTL DEF PageSpec

\* Types: versions stay within the calls and events there are, and React Query
\* never has two loads of a panel under way (fetch with cancelRefetch).
THEOREM PageTypes == PageSpec => []PageTypeOK
<1>1. PageBase => PageTypeOK
  <2> SUFFICES ASSUME PageBase PROVE PageTypeOK
    OBVIOUS
  <2>1. srv \in Versions
    BY VersionsInRange DEF PageBase
  <2>2. seat \in [open : BOOLEAN, mount : 0..MaxEvents]
    <3>1. seat \in SeatSet /\ seat.open \in BOOLEAN /\ seat.mount \in Nat
      BY DEF PageBase, PageTyped, SeatSet
    <3>2. seat.mount \in 0..MaxEvents
      BY <3>1 DEF PageBase, PageTyped, PageBounds
    <3> QED BY <3>1, <3>2 DEF SeatSet
  <2>3. /\ panel.data \in Versions \cup {None} /\ panel.status \in Statuses
        /\ panel.stale \in BOOLEAN
    BY DEF PageBase, PageTyped, PanelState
  <2>4. \A c \in Calls : call[c].pc \in Stages /\ call[c].made \in Versions \cup {None}
    BY DEF PageBase, PageTyped, CallSet
  <2>5. demoted \in BOOLEAN /\ events \in 0..MaxEvents /\ (Row.cancels => Len(panel.loads) <= 1)
    BY DEF PageBase, PageTyped, PageBounds
  <2> QED BY <2>1, <2>2, <2>3, <2>4, <2>5 DEF PageTypeOK, Stages
<1> QED BY <1>1, PageBaseHolds, PTL

(***************************************************************************)
(* What the user changed is shown.                                         *)
(***************************************************************************)

Reflected(c) == call[c].pc \in {"reloading", "done"} /\ ~call[c].late /\ call[c].act.refreshes
ShownInTime == \A c \in Calls : Reflected(c) => Current(panel, call[c].made)

\* The reload that follows an answer in time starts with nothing read.
LEMMA SettledInTime ==
    ASSUME PageBase, NEW c \in Calls, panel' = Invalidated(c), ~Late
    PROVE  \A m : Current(panel', m)
<1>1. seat.open /\ ~FirstLoad /\ (Row.cancels \/ panel.loads = <<>>)
  BY DEF Late
<1>2. panel' = Reloaded(c)
  BY <1>1 DEF Invalidated
<1>3. panel \in PanelState /\ panel.loads \in Seq(LoadSet) /\ c \in 0..MaxCalls
  BY DEF PageBase, PageTyped, PanelState, Calls
<1>4. panel'.loads = <<Load(c)>>
  <2>1. CASE Row.cancels
    <3>1. panel' = [panel EXCEPT !.loads = <<Load(c)>>]
      BY <1>1, <1>2, <2>1, ReloadedKinds DEF PageBase
    <3> QED BY <1>3, <3>1 DEF PanelState
  <2>2. CASE ~Row.cancels
    <3>1. panel' = [panel EXCEPT !.loads = Append(panel.loads, Load(c))]
      BY <1>2, <2>2, ReloadedKinds DEF PageBase
    <3>2. Append(panel.loads, Load(c)) = <<Load(c)>>
      <4>1. panel.loads = <<>>
        BY <1>1, <2>2
      <4>2. \A l \in LoadSet : Append(<<>>, l) = <<l>>
        OBVIOUS
      <4>3. Load(c) \in LoadSet
        BY <1>3, LoadTyped
      <4> QED BY <4>1, <4>2, <4>3
    <3> QED BY <1>3, <3>1, <3>2 DEF PanelState
  <2> QED BY <2>1, <2>2
<1> QED BY <1>3, <1>4, OneLoadSeq DEF Current

LEMMA ShownStep == PageBase /\ ShownInTime /\ [PageNext]_pageVars => ShownInTime'
<1> SUFFICES ASSUME PageBase, ShownInTime, [PageNext]_pageVars, NEW c \in Calls, Reflected(c)'
             PROVE  Current(panel', call'[c].made)
  BY DEF ShownInTime, Calls
<1>1. PanelStep(panel')
  BY BaseStep
<1>2. call \in [Calls -> CallSet] /\ srv \in Nat
  BY DEF PageBase, PageTyped
<1>3. call[c].made \in Nat \cup {None} /\ call[c].made <= srv
  BY <1>2 DEF CallSet, Versions, PageBase, CallsOfControls
<1>4. CASE Reflected(c) /\ call'[c].made = call[c].made
  BY <1>1, <1>3, <1>4 DEF PanelStep, ShownInTime
<1>5. ASSUME NEW d \in Calls, d # c, NEW k, call' = [call EXCEPT ![d] = k]
      PROVE  Reflected(c) /\ call'[c].made = call[c].made
  BY <1>2, <1>5 DEF Reflected
<1>6. CASE call' = call
  BY <1>4, <1>6 DEF Reflected
<1>7. CASE \E d \in Calls : Settle(d) \/ Reread(d)
  <2>1. PICK d \in Calls : Settle(d) \/ Reread(d)
    BY <1>7
  <2>2. PICK x \in {"rereading", "reloading", "done", "rejected"} :
          /\ call' = [call EXCEPT ![d] = [call[d] EXCEPT !.pc = x, !.late = Late]]
          /\ x \in {"reloading", "done"} => panel' = Refreshed(call[d].act, d)
    BY <2>1, SettleKind
  <2>3. CASE d # c
    BY <1>4, <1>5, <2>2, <2>3
  <2>4. CASE d = c
    <3>1. call'[c].pc = x /\ call'[c].late = Late /\ call'[c].act = call[c].act
      BY <1>2, <2>2, <2>4 DEF CallSet
    <3>2. x \in {"reloading", "done"} /\ ~Late /\ call[c].act.refreshes
      BY <2>2, <2>4, <3>1 DEF Reflected
    <3>3. panel' = Invalidated(c)
      BY <2>2, <2>4, <3>2 DEF Refreshed
    <3> QED BY <3>2, <3>3, SettledInTime
  <2> QED BY <2>3, <2>4
<1>8. CASE \E d \in Calls : Finish(d)
  <2>1. PICK d \in Calls : Finish(d)
    BY <1>8
  <2>2. call[d].pc = "reloading" /\ call' = [call EXCEPT ![d].pc = "done"]
    BY <2>1 DEF Finish
  <2>3. /\ call'[c].act = call[c].act /\ call'[c].late = call[c].late
        /\ call'[c].made = call[c].made
        /\ call'[c].pc = call[c].pc \/ call[c].pc = "reloading"
    BY <1>2, <2>2 DEF CallSet
  <2> QED BY <1>4, <2>3 DEF Reflected
<1>9. CASE \E d \in Calls : Serve(d) \/ CallFails(d) \/ RereadFails(d)
  <2>1. PICK d \in Calls : Serve(d) \/ CallFails(d) \/ RereadFails(d)
    BY <1>9
  <2>2. PICK x \in {"served", "denied", "failed", "rejected"}, m \in Versions \cup {None} :
            call' = [call EXCEPT ![d] = [call[d] EXCEPT !.pc = x, !.made = m]]
    <3>1. CASE Serve(d)
      <4>1. PICK answer \in Answers(call[d].act), m \in Versions \cup {None} :
                call' = [call EXCEPT ![d] = [call[d] EXCEPT !.pc = answer, !.made = m]]
        BY <3>1, ServeKind
      <4>2. answer \in {"served", "denied"}
        BY AnswersTyped
      <4> QED BY <4>1, <4>2
    <3>2. CASE CallFails(d) \/ RereadFails(d)
      <4>1. PICK x \in {"failed", "rejected"} : call' = [call EXCEPT ![d].pc = x]
        BY <3>2 DEF CallFails, RereadFails
      <4>2. call' = [call EXCEPT ![d] = [call[d] EXCEPT !.pc = x, !.made = call[d].made]]
        BY <1>2, <4>1 DEF CallSet
      <4>3. call[d].made \in Versions \cup {None}
        BY <1>2 DEF CallSet
      <4> QED BY <4>2, <4>3
    <3> QED BY <2>1, <3>1, <3>2
  <2>3. CASE d = c
    BY <1>2, <2>2, <2>3 DEF CallSet, Reflected
  <2>4. CASE d # c
    BY <1>4, <1>5, <2>2, <2>4
  <2> QED BY <2>3, <2>4
<1>10. CASE \E a \in page.controls : \E i \in ItemsOf(a) : \E d \in Calls : Submit(a, i, d)
  <2>1. PICK a \in page.controls : \E i \in ItemsOf(a) : \E d \in Calls : Submit(a, i, d)
    BY <1>10
  <2>2. PICK i \in ItemsOf(a) : \E d \in Calls : Submit(a, i, d)
    BY <2>1
  <2>3. PICK d \in Calls : Submit(a, i, d)
    BY <2>2
  <2>4. call' = [call EXCEPT ![d] = [act |-> a, item |-> i, pc |-> "sent", made |-> None,
                                     mount |-> seat.mount, late |-> FALSE]]
    BY <2>3 DEF Submit
  <2>5. d # c
    BY <1>2, <2>4 DEF Reflected
  <2> QED BY <1>4, <1>5, <2>4, <2>5
<1> QED
  BY <1>6, <1>7, <1>8, <1>9, <1>10
     DEF PageNext, Loading, Answering, pageVars, LoadServed, LoadDone, LoadRetried, LoadFails, Poll,
         RefreshButton, BusEvent, OpenDialog, CloseDialog, SomebodyElse, RoleChanged, Leave, Return

\* A page at rest shows what its user changed and the page loads again, for
\* any number of loads, calls, faults and other users' changes.
THEOREM RestIsCurrent == PageSpec => []RestShowsLatest
<1>1. page \in Situations /\ PageStart(TRUE) => ShownInTime
  BY DEF PageStart, ShownInTime, Reflected, NoCall
<1>2. PageSpec => []ShownInTime
  BY <1>1, PageBaseHolds, ShownStep, PTL DEF PageSpec
<1>3. ShownInTime => RestShowsLatest
  BY DEF ShownInTime, Reflected, Current, RestShowsLatest
<1> QED BY <1>2, <1>3, PTL

(***************************************************************************)
(* What is offered is served.                                              *)
(***************************************************************************)

LEMMA OfferedStep == PageBase /\ OfferedIsServed /\ [PageNext]_pageVars => OfferedIsServed'
<1> SUFFICES ASSUME PageBase, OfferedIsServed, [PageNext]_pageVars, NEW c \in Calls,
                    call'[c].pc = "denied", call'[c].act.gated
             PROVE  demoted'
  BY DEF OfferedIsServed, Calls
<1>0. call \in [Calls -> CallSet] /\ demoted \in BOOLEAN
  BY DEF PageBase, PageTyped
<1>1. demoted => demoted'
  BY DEF PageNext, Loading, Answering, pageVars, LoadServed, LoadDone, LoadRetried, LoadFails, Poll,
         RefreshButton, BusEvent, OpenDialog, CloseDialog, SomebodyElse, RoleChanged, Leave, Return,
         Serve, Settle, Reread, RereadFails, Finish, CallFails, Submit
<1>2. CASE call[c].pc = "denied" /\ call[c].act.gated
  BY <1>1, <1>2 DEF OfferedIsServed
<1>3. CASE call' = call
  BY <1>2, <1>3
<1>4. ASSUME NEW d \in Calls, NEW k, call' = [call EXCEPT ![d] = k], k.pc # "denied"
      PROVE  demoted'
  BY <1>0, <1>2, <1>4
<1>5. CASE \E d \in Calls : Settle(d) \/ Reread(d)
  <2>1. PICK d \in Calls : Settle(d) \/ Reread(d)
    BY <1>5
  <2>2. PICK x \in {"rereading", "reloading", "done", "rejected"} :
            call' = [call EXCEPT ![d] = [call[d] EXCEPT !.pc = x, !.late = Late]]
    BY <2>1, SettleKind
  <2>3. [call[d] EXCEPT !.pc = x, !.late = Late].pc = x
    BY <1>0 DEF CallSet
  <2> QED BY <1>4, <2>2, <2>3
<1>6. CASE \E d \in Calls : Finish(d) \/ CallFails(d) \/ RereadFails(d)
  <2>1. PICK d \in Calls : Finish(d) \/ CallFails(d) \/ RereadFails(d)
    BY <1>6
  <2>2. PICK x \in {"failed", "done", "rejected"} : call' = [call EXCEPT ![d].pc = x]
    BY <2>1 DEF Finish, CallFails, RereadFails
  <2>3. call' = [call EXCEPT ![d] = [call[d] EXCEPT !.pc = x]]
    BY <1>0, <2>2
  <2>4. [call[d] EXCEPT !.pc = x].pc = x
    BY <1>0 DEF CallSet
  <2> QED BY <1>4, <2>3, <2>4
<1>7. CASE \E d \in Calls : Serve(d)
  <2>1. PICK d \in Calls : Serve(d)
    BY <1>7
  <2>2. PICK answer \in Answers(call[d].act), m \in Versions \cup {None} :
            call' = [call EXCEPT ![d] = [call[d] EXCEPT !.pc = answer, !.made = m]]
    BY <2>1, ServeKind
  <2>3. CASE d # c
    BY <1>0, <1>2, <2>2, <2>3
  <2>4. CASE d = c
    <3>1. call'[c].pc = answer /\ call'[c].act = call[c].act
      BY <1>0, <2>2, <2>4 DEF CallSet
    <3>2. call[c].pc # "unused"
      BY <2>1, <2>4 DEF Serve
    <3>3. SoundControl(call[c].act)
      BY <3>2, CallTyped
    <3>4. demoted
      BY <1>0, <2>2, <2>4, <3>1, <3>3, AnswersTyped DEF SoundControl
    <3> QED BY <1>1, <3>4
  <2> QED BY <2>3, <2>4
<1>8. CASE \E a \in page.controls : \E i \in ItemsOf(a) : \E d \in Calls : Submit(a, i, d)
  <2>1. PICK a \in page.controls : \E i \in ItemsOf(a) : \E d \in Calls : Submit(a, i, d)
    BY <1>8
  <2>2. PICK i \in ItemsOf(a) : \E d \in Calls : Submit(a, i, d)
    BY <2>1
  <2>3. PICK d \in Calls : Submit(a, i, d)
    BY <2>2
  <2> DEFINE k == [act |-> a, item |-> i, pc |-> "sent", made |-> None,
                   mount |-> seat.mount, late |-> FALSE]
  <2>4. call' = [call EXCEPT ![d] = k] /\ k.pc = "sent"
    BY <2>3 DEF Submit
  <2> HIDE DEF k
  <2> QED BY <1>4, <2>4
<1> QED
  BY <1>3, <1>5, <1>6, <1>7, <1>8
     DEF PageNext, Loading, Answering, pageVars, LoadServed, LoadDone, LoadRetried, LoadFails, Poll,
         RefreshButton, BusEvent, OpenDialog, CloseDialog, SomebodyElse, RoleChanged, Leave, Return

\* Every control of the 36 pages that some roles only see is served by the
\* route it calls, until the role is changed behind the session's back.
THEOREM OfferedControlsServed == PageSpec => []OfferedIsServed
<1>1. page \in Situations /\ PageStart(TRUE) => OfferedIsServed
  BY DEF PageStart, OfferedIsServed, NoCall
<1> QED BY <1>1, PageBaseHolds, OfferedStep, PTL DEF PageSpec

(***************************************************************************)
(* No call is made twice at a time.                                        *)
(***************************************************************************)

AllTested == \A a \in page.controls : a.tested

\* A call that keeps a flag of the page or of an item.
Keeps(c) ==
    /\ call[c].pc \in {"sent", "served", "denied", "failed", "rereading", "reloading"}
    /\ call[c].act.flag \in {"page", "item"}
FlagsOf(c) == FlagOf(call[c].act, call[c].item)

FlagsApart ==
    AllTested =>
      /\ \A c \in Calls : Keeps(c) /\ Here(c) => FlagsOf(c) \subseteq flags
      /\ \A c, d \in Calls :
            c # d /\ Keeps(c) /\ Keeps(d) /\ call[c].mount = call[d].mount
              => FlagsOf(c) \cap FlagsOf(d) = {}

\* The flag of a control that keeps one, and of one that does not.
LEMMA FlagShapes ==
    ASSUME NEW a, NEW i
    PROVE  /\ a.flag \in {"page", "item"} => FlagOf(a, i) # {}
           /\ \A f \in FlagOf(a, i) : f[1] = a.flag
<1>1. CASE a.flag \in {"item", "last"}
  <2>1. FlagOf(a, i) = {<<a.flag, i>>}
    BY <1>1 DEF FlagOf
  <2> QED BY <2>1
<1>2. CASE a.flag = "page"
  <2>1. FlagOf(a, i) = {<<a.flag, NoItem>>}
    BY <1>2 DEF FlagOf
  <2> QED BY <2>1
<1>3. CASE a.flag \notin {"item", "last", "page"}
  BY <1>3 DEF FlagOf
<1> QED BY <1>1, <1>2, <1>3

LEMMA FlagsKept ==
    ASSUME PageBase, NEW a, NEW c \in Calls, Keeps(c), FlagsOf(c) \subseteq flags
    PROVE  /\ FlagsOf(c) \subseteq Others(a)
           /\ a.flag \notin {"page", "item"} => \A i : FlagsOf(c) \cap FlagOf(a, i) = {}
BY FlagShapes DEF Others, FlagsOf, Keeps

\* A call that is made moves on.
Moves(c) ==
    Serve(c) \/ CallFails(c) \/ Settle(c) \/ Reread(c) \/ RereadFails(c) \/ Finish(c)

\* The stages at which the handler of a call has not ended.
Unended == {"sent", "served", "denied", "failed", "rereading", "reloading"}

\* A call that moves on is about what it was about; the flags are those of
\* before, or it has ended and has released its own.
LEMMA MovedCall ==
    ASSUME PageBase, NEW d \in Calls, Moves(d)
    PROVE  /\ UNCHANGED <<page, seat>>
           /\ \A c \in Calls : /\ call'[c].act = call[c].act /\ call'[c].item = call[c].item
                               /\ call'[c].mount = call[c].mount
                               /\ c # d => call'[c].pc = call[c].pc
           /\ call[d].pc \in Unended
           /\ \/ flags' = flags /\ call'[d].pc \in Unended
              \/ flags' = Released(call[d].act, d) /\ call'[d].pc \notin Unended
<1>0. call \in [Calls -> CallSet]
  BY DEF PageBase, PageTyped
<1>1. UNCHANGED <<page, seat>> /\ call[d].pc \in Unended
  BY DEF Moves, Serve, CallFails, Settle, Reread, RereadFails, Finish, Unended
<1>2. ASSUME NEW k, call' = [call EXCEPT ![d] = k],
             k.act = call[d].act, k.item = call[d].item, k.mount = call[d].mount,
             \/ flags' = flags /\ k.pc \in Unended
             \/ flags' = Released(call[d].act, d) /\ k.pc \notin Unended
      PROVE  /\ \A c \in Calls : /\ call'[c].act = call[c].act /\ call'[c].item = call[c].item
                                 /\ call'[c].mount = call[c].mount
                                 /\ c # d => call'[c].pc = call[c].pc
             /\ \/ flags' = flags /\ call'[d].pc \in Unended
                \/ flags' = Released(call[d].act, d) /\ call'[d].pc \notin Unended
  BY <1>0, <1>2
<1>3. CASE Serve(d)
  <2>1. PICK answer \in Answers(call[d].act), m \in Versions \cup {None} :
            call' = [call EXCEPT ![d] = [call[d] EXCEPT !.pc = answer, !.made = m]]
    BY <1>3, ServeKind
  <2> DEFINE k == [call[d] EXCEPT !.pc = answer, !.made = m]
  <2>2. k.act = call[d].act /\ k.item = call[d].item /\ k.mount = call[d].mount /\ k.pc = answer
    BY <1>0 DEF CallSet
  <2>3. call' = [call EXCEPT ![d] = k] /\ flags' = flags
    BY <1>3, <2>1 DEF Serve
  <2>4. answer \in Unended
    BY AnswersTyped DEF Unended
  <2> HIDE DEF k
  <2> QED BY <1>1, <1>2, <2>2, <2>3, <2>4
<1>4. CASE CallFails(d) \/ Finish(d) \/ RereadFails(d)
  <2>1. PICK x \in {"failed", "done", "rejected"} :
            /\ call' = [call EXCEPT ![d].pc = x]
            /\ \/ flags' = flags /\ x = "failed"
               \/ flags' = Released(call[d].act, d) /\ x # "failed"
    BY <1>4 DEF CallFails, Finish, RereadFails
  <2> DEFINE k == [call[d] EXCEPT !.pc = x]
  <2>2. k.act = call[d].act /\ k.item = call[d].item /\ k.mount = call[d].mount /\ k.pc = x
    BY <1>0 DEF CallSet
  <2>3. call' = [call EXCEPT ![d] = k]
    BY <1>0, <2>1
  <2> HIDE DEF k
  <2>4. x \in Unended <=> x = "failed"
    BY <2>1 DEF Unended
  <2> QED BY <1>1, <1>2, <2>1, <2>2, <2>3, <2>4
<1>5. CASE Settle(d) \/ Reread(d)
  <2>1. PICK x \in {"rereading", "reloading", "done", "rejected"} :
          /\ call' = [call EXCEPT ![d] = [call[d] EXCEPT !.pc = x, !.late = Late]]
          /\ x \in {"rereading", "reloading"} => flags' = flags
          /\ x \notin {"rereading", "reloading"} => flags' = Released(call[d].act, d)
    BY <1>5, SettleKind
  <2> DEFINE k == [call[d] EXCEPT !.pc = x, !.late = Late]
  <2>2. k.act = call[d].act /\ k.item = call[d].item /\ k.mount = call[d].mount /\ k.pc = x
    BY <1>0 DEF CallSet
  <2>3. call' = [call EXCEPT ![d] = k]
    BY <2>1
  <2> HIDE DEF k
  <2>4. x \in Unended <=> x \in {"rereading", "reloading"}
    BY <2>1 DEF Unended
  <2> QED BY <1>1, <1>2, <2>1, <2>2, <2>3, <2>4
<1> QED BY <1>3, <1>4, <1>5 DEF Moves

LEMMA FlagsMoved ==
    ASSUME PageBase, FlagsApart, NEW d \in Calls, Moves(d)
    PROVE  FlagsApart'
<1>1. SUFFICES ASSUME AllTested PROVE FlagsApart'
  BY MovedCall DEF FlagsApart, AllTested
<1>2. \A c \in Calls : /\ FlagsOf(c)' = FlagsOf(c) /\ Here(c)' = Here(c)
                       /\ call'[c].mount = call[c].mount /\ (Keeps(c)' => Keeps(c))
  BY MovedCall DEF FlagsOf, FlagOf, Here, Keeps, Unended
<1>3. \A c, e \in Calls : c # e /\ Keeps(c)' /\ Keeps(e)' /\ call'[c].mount = call'[e].mount
                            => FlagsOf(c)' \cap FlagsOf(e)' = {}
  BY <1>1, <1>2 DEF FlagsApart
<1>4. ASSUME NEW c \in Calls, Keeps(c)', Here(c)' PROVE FlagsOf(c)' \subseteq flags'
  <2>1. Keeps(c) /\ Here(c) /\ FlagsOf(c) \subseteq flags
    BY <1>1, <1>2, <1>4 DEF FlagsApart
  <2>2. CASE flags' = flags
    BY <1>2, <2>1, <2>2
  <2>3. CASE ~Keeps(d)' /\ flags' = Released(call[d].act, d)
    <3>1. c # d
      BY <1>4, <2>3
    <3>2. CASE ~Here(d)
      BY <1>2, <2>1, <2>3, <3>2 DEF Released
    <3>3. CASE Here(d)
      <4>1. flags' = Others(call[d].act) \ FlagsOf(d)
        BY <2>3, <3>3 DEF Released, FlagsOf
      <4>2. FlagsOf(c) \subseteq Others(call[d].act)
        BY <2>1, FlagsKept
      <4>3. FlagsOf(c) \cap FlagsOf(d) = {}
        <5>1. CASE call[d].act.flag \in {"page", "item"}
          <6>1. Keeps(d)
            BY <5>1, MovedCall DEF Keeps, Unended
          <6>2. call[c].mount = call[d].mount
            BY <2>1, <3>3 DEF Here
          <6> QED BY <1>1, <2>1, <3>1, <6>1, <6>2 DEF FlagsApart
        <5>2. CASE call[d].act.flag \notin {"page", "item"}
          BY <2>1, <5>2, FlagsKept DEF FlagsOf
        <5> QED BY <5>1, <5>2
      <4> QED BY <1>2, <4>1, <4>2, <4>3
    <3> QED BY <3>2, <3>3
  <2>4. call'[d].pc \notin Unended => ~Keeps(d)'
    BY DEF Keeps, Unended
  <2> QED BY <2>2, <2>3, <2>4, MovedCall
<1> QED BY <1>3, <1>4 DEF FlagsApart, Calls

\* The control that submits found its flag clear, and sets it.
LEMMA FlagsSubmitted ==
    ASSUME PageBase, FlagsApart, NEW a \in page.controls, NEW i \in ItemsOf(a), NEW d \in Calls,
           Submit(a, i, d)
    PROVE  FlagsApart'
<1> DEFINE k == [act |-> a, item |-> i, pc |-> "sent", made |-> None, mount |-> seat.mount,
                 late |-> FALSE]
<1>0. /\ call \in [Calls -> CallSet] /\ call' = [call EXCEPT ![d] = k] /\ UNCHANGED <<page, seat>>
      /\ flags' = Others(a) \cup FlagOf(a, i) /\ Enabled(a, i) /\ seat.open
  BY DEF PageBase, PageTyped, Submit, Visible
<1>1. SUFFICES ASSUME AllTested PROVE FlagsApart'
  BY <1>0 DEF FlagsApart, AllTested
<1>2. k.act = a /\ k.item = i /\ k.mount = seat.mount
  OBVIOUS
<1> HIDE DEF k
<1>3. /\ call'[d].act = a /\ call'[d].mount = seat.mount /\ FlagsOf(d)' = FlagOf(a, i)
      /\ (Keeps(d)' => a.flag \in {"page", "item"})
  BY <1>0, <1>2 DEF FlagsOf, FlagOf, Keeps
<1>4. \A c \in Calls : c # d => /\ call'[c] = call[c] /\ FlagsOf(c)' = FlagsOf(c)
                                /\ Keeps(c)' = Keeps(c) /\ Here(c)' = Here(c)
  BY <1>0 DEF FlagsOf, FlagOf, Keeps, Here
<1>5. a.flag \in {"page", "item"} => FlagOf(a, i) \cap flags = {}
  BY <1>0, <1>1 DEF Enabled, AllTested
<1>6. ASSUME NEW c \in Calls, Keeps(c)', Here(c)' PROVE FlagsOf(c)' \subseteq flags'
  <2>1. CASE c = d
    BY <1>0, <1>3, <2>1
  <2>2. CASE c # d
    <3>1. Keeps(c) /\ FlagsOf(c) \subseteq flags
      BY <1>1, <1>4, <1>6, <2>2 DEF FlagsApart
    <3> QED BY <1>0, <1>4, <2>2, <3>1, FlagsKept
  <2> QED BY <2>1, <2>2
<1>7. ASSUME NEW c \in Calls, c # d, Keeps(c)', Keeps(d)', call'[c].mount = call'[d].mount
      PROVE  FlagsOf(c)' \cap FlagsOf(d)' = {}
  <2>1. Keeps(c) /\ Here(c)
    BY <1>0, <1>3, <1>4, <1>7 DEF Here
  <2>2. FlagsOf(c) \subseteq flags
    BY <1>1, <2>1 DEF FlagsApart
  <2> QED BY <1>3, <1>4, <1>5, <1>7, <2>2
<1>8. ASSUME NEW c \in Calls, NEW e \in Calls, c # e, Keeps(c)', Keeps(e)',
             call'[c].mount = call'[e].mount
      PROVE  FlagsOf(c)' \cap FlagsOf(e)' = {}
  <2>1. CASE c # d /\ e # d
    BY <1>1, <1>4, <1>8, <2>1 DEF FlagsApart
  <2>2. CASE e = d
    BY <1>7, <1>8, <2>2
  <2>3. CASE c = d
    BY <1>7, <1>8, <2>3
  <2> QED BY <2>1, <2>2, <2>3
<1> QED BY <1>6, <1>8 DEF FlagsApart, Calls

\* The skeleton takes the place of the tabs.
Unmounts ==
    /\ UNCHANGED <<page, call>>
    /\ seat' = [seat EXCEPT !.mount = @ + 1]
    /\ flags' = {} /\ dialog' = NoDialog

LEMMA FailedLoads ==
    ASSUME NEW n, LoadFails(n)
    PROVE  UNCHANGED <<page, seat, dialog, flags, call>> \/ Unmounts
BY DEF LoadFails, Unmounts

LEMMA FlagsStep == PageBase /\ FlagsApart /\ [PageNext]_pageVars => FlagsApart'
<1> SUFFICES ASSUME PageBase, FlagsApart, [PageNext]_pageVars PROVE FlagsApart'
  OBVIOUS
<1>1. CASE \E d \in Calls : Moves(d)
  BY <1>1, FlagsMoved
<1>2. CASE \E a \in page.controls : \E i \in ItemsOf(a) : \E d \in Calls : Submit(a, i, d)
  BY <1>2, FlagsSubmitted
<1>3. CASE UNCHANGED <<page, seat, flags, call>>
  <2>1. AllTested' = AllTested
    BY <1>3 DEF AllTested
  <2>2. \A c \in Calls : FlagsOf(c)' = FlagsOf(c) /\ Keeps(c)' = Keeps(c) /\ Here(c)' = Here(c)
    BY <1>3 DEF FlagsOf, FlagOf, Keeps, Here
  <2> QED BY <1>3, <2>1, <2>2 DEF FlagsApart, Calls
<1>4. CASE Leave \/ Return \/ Unmounts
  <2>1. UNCHANGED <<page, call>>
    BY <1>4 DEF Leave, Return, Unmounts
  <2>2. \A c \in Calls : FlagsOf(c)' = FlagsOf(c) /\ Keeps(c)' = Keeps(c)
    BY <2>1 DEF FlagsOf, FlagOf, Keeps
  <2>3. ASSUME NEW c \in Calls PROVE ~Here(c)'
    <3>1. seat \in SeatSet /\ call[c].mount \in Nat /\ call[c].mount <= seat.mount
      BY DEF PageBase, PageTyped, CallSet, CallsOfControls
    <3>2. CASE Leave
      BY <3>1, <3>2 DEF Leave, Here, SeatSet
    <3>3. CASE Return
      BY <2>1, <3>1, <3>3 DEF Return, Here, SeatSet
    <3>4. CASE Unmounts
      BY <2>1, <3>1, <3>4 DEF Unmounts, Here, SeatSet
    <3> QED BY <1>4, <3>2, <3>3, <3>4
  <2>4. AllTested' = AllTested
    BY <2>1 DEF AllTested
  <2> QED BY <2>1, <2>2, <2>3, <2>4 DEF FlagsApart, Calls
<1>5. CASE \E n \in 1..3 : LoadFails(n)
  BY <1>3, <1>4, <1>5, FailedLoads
<1> QED
  BY <1>1, <1>2, <1>3, <1>4, <1>5
     DEF PageNext, Loading, Answering, pageVars, Moves, LoadServed, LoadDone, LoadRetried, Poll,
         RefreshButton, BusEvent, OpenDialog, CloseDialog, SomebodyElse, RoleChanged

\* Controls that look at the flag of the page, or of the item, that they set
\* never make the same call twice at a time, however the page is left and
\* entered again.
THEOREM NoneSubmittedTwice == PageSpec => []NoDoubleSubmit
<1>1. page \in Situations /\ PageStart(TRUE) => FlagsApart
  BY DEF PageStart, FlagsApart, Keeps, NoCall
<1>2. PageSpec => []FlagsApart
  BY <1>1, PageBaseHolds, FlagsStep, PTL DEF PageSpec
<1>3. PageBase /\ FlagsApart => NoDoubleSubmit
  <2> SUFFICES ASSUME PageBase, FlagsApart, NEW c \in Calls, NEW d \in Calls, c # d,
                      call[c].pc \in {"sent", "served"}, call[d].pc \in {"sent", "served"},
                      call[c].act = call[d].act, call[c].item = call[d].item,
                      call[c].mount = call[d].mount,
                      call[c].act.flag \notin {"dialog", "last", "none"}, AllTested
               PROVE  FALSE
    BY DEF NoDoubleSubmit, AllTested
  <2>1. call[c].act.flag \in {"page", "item"}
    BY CallTyped DEF SoundControl, ControlSet, FlagKinds
  <2>2. Keeps(c) /\ Keeps(d) /\ FlagsOf(c) = FlagsOf(d)
    BY <2>1 DEF Keeps, FlagsOf
  <2>3. FlagsOf(c) # {}
    BY <2>1, FlagShapes DEF FlagsOf
  <2> QED BY <2>2, <2>3 DEF FlagsApart
<1> QED BY <1>2, <1>3, PageBaseHolds, PTL

(***************************************************************************)
(* A control that is busy is at work.                                      *)
(***************************************************************************)

\* What is not mounted has no state, and a dialog waits for a call only until
\* its answer is taken.
BusyInv ==
    /\ ~seat.open => flags = {} /\ dialog = NoDialog
    /\ \A f \in flags : \E c \in Calls : Working(c) /\ f \in FlagsOf(c)
    /\ dialog.busy # Nobody =>
          /\ dialog.busy \in Calls
          /\ call[dialog.busy].pc \in {"sent", "served", "denied", "failed"}
          /\ call[dialog.busy].mount = seat.mount

\* A step that leaves the flags, the calls and the seat alone, and the dialog
\* or its busy call.
LEMMA BusyQuiet ==
    ASSUME PageBase, BusyInv, UNCHANGED <<seat, flags, call>>,
           \/ dialog' = dialog \/ dialog' = NoDialog
           \/ seat.open /\ dialog'.busy = Nobody
    PROVE  BusyInv'
<1>1. \A c \in Calls : Working(c)' = Working(c) /\ FlagsOf(c)' = FlagsOf(c)
  BY DEF Working, FlagsOf, FlagOf
<1>2. ~seat.open => flags = {} /\ dialog' = NoDialog
  BY DEF BusyInv, PageBase, PageTyped, SeatSet
<1>3. dialog'.busy # Nobody => dialog' = dialog
  BY NoDialogTyped
<1>4. (\A f \in flags : \E c \in Calls : Working(c) /\ f \in FlagsOf(c))'
  BY <1>1 DEF BusyInv, Calls
<1> QED BY <1>2, <1>3, <1>4 DEF BusyInv, Calls

\* A step after which there are no flags and no dialog.
LEMMA BusyGone ==
    ASSUME flags' = {}, dialog' = NoDialog
    PROVE  BusyInv'
BY NoDialogTyped DEF BusyInv, NoDialog, Nobody, NoAct, NoItem

LEMMA BusySubmitted ==
    ASSUME PageBase, BusyInv, NEW a \in page.controls, NEW i \in ItemsOf(a), NEW d \in Calls,
           Submit(a, i, d)
    PROVE  BusyInv'
<1> DEFINE k == [act |-> a, item |-> i, pc |-> "sent", made |-> None, mount |-> seat.mount,
                 late |-> FALSE]
<1>0. /\ call \in [Calls -> CallSet] /\ call' = [call EXCEPT ![d] = k] /\ UNCHANGED seat
      /\ flags' = Others(a) \cup FlagOf(a, i) /\ seat.open /\ dialog \in DialogSet
      /\ call[d].pc = "unused"
  BY DEF PageBase, PageTyped, Submit, Visible, NoCall
<1>1. k.act = a /\ k.item = i /\ k.mount = seat.mount /\ k.pc = "sent"
  OBVIOUS
<1> HIDE DEF k
<1>2. /\ call'[d].pc = "sent" /\ call'[d].mount = seat'.mount /\ FlagsOf(d)' = FlagOf(a, i)
      /\ Working(d)'
  BY <1>0, <1>1 DEF FlagsOf, FlagOf, Working
<1>3. \A c \in Calls : c # d => /\ call'[c] = call[c] /\ FlagsOf(c)' = FlagsOf(c)
                                /\ Working(c)' = Working(c)
  BY <1>0 DEF FlagsOf, FlagOf, Working
<1>4. ASSUME NEW f \in flags' PROVE \E c \in Calls : Working(c)' /\ f \in FlagsOf(c)'
  <2>1. CASE f \in FlagOf(a, i)
    BY <1>2, <2>1
  <2>2. CASE f \in flags
    <3>1. PICK c \in Calls : Working(c) /\ f \in FlagsOf(c)
      BY <2>2 DEF BusyInv
    <3>2. c # d
      BY <1>0, <3>1 DEF Working
    <3> QED BY <1>3, <3>1, <3>2
  <2> QED BY <1>0, <2>1, <2>2 DEF Others
<1>5. dialog'.busy \in {Nobody, d, dialog.busy}
  <2>1. \/ dialog' = NoDialog \/ dialog' = [dialog EXCEPT !.busy = d]
        \/ dialog' = [dialog EXCEPT !.busy = dialog.busy]
    BY DEF Submit
  <2>2. d \in 0..MaxCalls /\ dialog.busy \in 0..MaxCalls
    BY <1>0 DEF DialogSet, Calls
  <2> QED BY <1>0, <2>1, <2>2, DialogIdle, NoDialogTyped
<1>6. dialog'.busy # Nobody =>
          /\ dialog'.busy \in Calls
          /\ call'[dialog'.busy].pc \in {"sent", "served", "denied", "failed"}
          /\ call'[dialog'.busy].mount = seat'.mount
  <2>1. CASE dialog'.busy = d
    BY <1>2, <2>1
  <2>2. CASE dialog'.busy = dialog.busy /\ dialog.busy # d
    BY <1>0, <1>3, <2>2 DEF BusyInv
  <2> QED BY <1>5, <2>1, <2>2
<1> QED BY <1>0, <1>4, <1>6 DEF BusyInv, Calls

LEMMA BusyMoved ==
    ASSUME PageBase, BusyInv, NEW d \in Calls, Moves(d)
    PROVE  BusyInv'
<1>0. /\ dialog \in DialogSet /\ seat \in SeatSet /\ seat.open \in BOOLEAN /\ UNCHANGED seat
      /\ call[d].pc \in Unended
  BY MovedCall DEF PageBase, PageTyped, SeatSet
<1>1. \A c \in Calls : /\ FlagsOf(c)' = FlagsOf(c) /\ call'[c].mount = call[c].mount
                       /\ c # d => call'[c].pc = call[c].pc
                       /\ c # d => Working(c)' = Working(c)
  BY MovedCall DEF FlagsOf, FlagOf, Working
<1>2. CASE ~seat.open
  <2>1. flags = {} /\ dialog = NoDialog
    BY <1>2 DEF BusyInv
  <2>2. ~Here(d)
    BY <1>2 DEF Here
  <2>3. flags' = {}
    BY <2>1, <2>2, MovedCall DEF Released
  <2>4. dialog' = NoDialog
    BY <2>1, <2>2, SettledDialog DEF Moves, Serve, CallFails, Reread, RereadFails, Finish
  <2> QED BY <2>3, <2>4, BusyGone
<1>3. CASE seat.open
  <2>1. ASSUME NEW f \in flags' PROVE \E c \in Calls : Working(c)' /\ f \in FlagsOf(c)'
    <3>1. CASE flags' = flags /\ call'[d].pc \in Unended
      <4>1. Working(d) => Working(d)'
        BY <1>0, <1>1, <3>1 DEF Working, Unended
      <4>2. PICK c \in Calls : Working(c) /\ f \in FlagsOf(c)
        BY <2>1, <3>1 DEF BusyInv
      <4> QED BY <1>1, <4>1, <4>2
    <3>2. CASE flags' = Released(call[d].act, d)
      <4>1. f \in flags /\ (Here(d) => f \notin FlagsOf(d))
        BY <2>1, <3>2 DEF Released, Others, FlagsOf
      <4>2. PICK c \in Calls : Working(c) /\ f \in FlagsOf(c)
        BY <4>1 DEF BusyInv
      <4>3. c # d
        BY <1>3, <4>1, <4>2 DEF Working, Here
      <4> QED BY <1>1, <4>2, <4>3
    <3> QED BY <3>1, <3>2, MovedCall
  <2>2. dialog'.busy # Nobody => dialog'.busy = dialog.busy
    <3> DEFINE b == IF dialog.busy = d THEN Nobody ELSE dialog.busy
    <3>1. dialog' = dialog \/ dialog' = NoDialog \/ dialog' = [dialog EXCEPT !.busy = b]
      BY SettledDialog DEF Moves, Serve, CallFails, Reread, RereadFails, Finish
    <3>2. b \in 0..MaxCalls /\ b \in {Nobody, dialog.busy}
      BY <1>0 DEF DialogSet, Nobody
    <3> HIDE DEF b
    <3> QED BY <1>0, <3>1, <3>2, DialogIdle, NoDialogTyped
  <2>3. ASSUME dialog'.busy # Nobody
        PROVE  /\ dialog'.busy \in Calls
               /\ call'[dialog'.busy].pc \in {"sent", "served", "denied", "failed"}
               /\ call'[dialog'.busy].mount = seat'.mount
    <3>1. /\ dialog'.busy = dialog.busy /\ dialog.busy \in Calls
          /\ call[dialog.busy].pc \in {"sent", "served", "denied", "failed"}
          /\ call[dialog.busy].mount = seat.mount
      BY <2>2, <2>3 DEF BusyInv
    <3>2. CASE dialog.busy # d
      BY <1>0, <1>1, <3>1, <3>2
    <3>3. CASE dialog.busy = d
      <4>1. Here(d)
        BY <1>3, <3>1, <3>3 DEF Here
      <4>2. ~Settle(d)
        <5>1. ASSUME Settle(d) PROVE FALSE
          <6>1. Nobody \in 0..MaxCalls
            BY DEF Nobody
          <6>2. dialog' = NoDialog \/ dialog' = [dialog EXCEPT !.busy = Nobody]
            BY <3>3, <4>1, <5>1, SettledDialog
          <6> QED BY <1>0, <2>3, <6>1, <6>2, DialogIdle, NoDialogTyped
        <5> QED BY <5>1
      <4>3. Serve(d) \/ CallFails(d)
        BY <3>1, <3>3, <4>2 DEF Moves, Reread, RereadFails, Finish
      <4>4. call'[d].pc \in {"served", "denied", "failed"}
        <5>0. call \in [Calls -> CallSet]
          BY DEF PageBase, PageTyped
        <5>1. CASE Serve(d)
          <6>1. PICK answer \in Answers(call[d].act), m \in Versions \cup {None} :
                    call' = [call EXCEPT ![d] = [call[d] EXCEPT !.pc = answer, !.made = m]]
            BY <5>1, ServeKind
          <6>2. call'[d].pc = answer
            BY <5>0, <6>1 DEF CallSet
          <6> QED BY <6>2, AnswersTyped
        <5>2. CASE CallFails(d)
          BY <5>0, <5>2 DEF CallFails, CallSet
        <5> QED BY <4>3, <5>1, <5>2
      <4> QED BY <1>0, <1>1, <3>1, <3>3, <4>4
    <3> QED BY <3>2, <3>3
  <2> QED BY <1>0, <1>3, <2>1, <2>3 DEF BusyInv, Calls
<1> QED BY <1>0, <1>2, <1>3

LEMMA BusyStep == PageBase /\ BusyInv /\ [PageNext]_pageVars => BusyInv'
<1> SUFFICES ASSUME PageBase, BusyInv, [PageNext]_pageVars PROVE BusyInv'
  OBVIOUS
<1>1. CASE \E d \in Calls : Moves(d)
  BY <1>1, BusyMoved
<1>2. CASE \E a \in page.controls : \E i \in ItemsOf(a) : \E d \in Calls : Submit(a, i, d)
  BY <1>2, BusySubmitted
<1>3. CASE UNCHANGED <<seat, dialog, flags, call>> \/ CloseDialog
  BY <1>3, BusyQuiet DEF CloseDialog
<1>4. CASE \E a \in page.controls : \E i \in ItemsOf(a) : OpenDialog(a, i)
  <2>1. PICK a \in page.controls : \E i \in ItemsOf(a) : OpenDialog(a, i)
    BY <1>4
  <2>2. PICK i \in ItemsOf(a) : OpenDialog(a, i)
    BY <2>1
  <2>3. seat.open /\ dialog'.busy = Nobody /\ UNCHANGED <<seat, flags, call>>
    BY <2>2 DEF OpenDialog, Visible
  <2> QED BY <2>3, BusyQuiet
<1>5. CASE Leave \/ Unmounts
  BY <1>5, BusyGone DEF Leave, Unmounts
<1>6. CASE Return
  BY <1>6, BusyGone DEF Return, BusyInv
<1>7. CASE \E n \in 1..3 : LoadFails(n)
  BY <1>3, <1>5, <1>7, FailedLoads
<1> QED
  BY <1>1, <1>2, <1>3, <1>4, <1>5, <1>6, <1>7
     DEF PageNext, Loading, Answering, pageVars, Moves, LoadServed, LoadDone, LoadRetried, Poll,
         RefreshButton, BusEvent, SomebodyElse, RoleChanged

\* No control stays disabled for good: whichever calls and loads fail, and
\* however dialogs are closed and opened and tabs unmounted meanwhile, a busy
\* flag that is set belongs to a handler that is still to release it.
THEOREM BusyControlsWork == PageSpec => []BusyMeansWorking
<1>1. page \in Situations /\ PageStart(TRUE) => BusyInv
  BY NoDialogTyped DEF PageStart, BusyInv, NoDialog
<1>2. PageSpec => []BusyInv
  BY <1>1, PageBaseHolds, BusyStep, PTL DEF PageSpec
<1>3. BusyInv => BusyMeansWorking
  BY DEF BusyInv, BusyMeansWorking, Working, FlagsOf
<1> QED BY <1>2, <1>3, PTL
=============================================================================
