----------------------------- MODULE MobilePages -----------------------------
(***************************************************************************)
(* The screens of the phone app (mobile/app).                              *)
(***************************************************************************)
EXTENDS PageRows

\* monitoring.tsx: DashboardTab.
HostPanels == {Polled("monitoring-overview"),
               Polled("prom-status"),
               Polled("am-status")}
DashboardCounts == {Polled("am-alerts"), Polled("prom-targets")}
CpuHistory == Failing("walls", Polled("cpu-history"))
PhoneDashboardTab == Page(HostPanels \cup DashboardCounts \cup {CpuHistory}, {})

\* AlertsTab: doSilence, from the list or from the detail sheet.
PhoneAlerts == Failing("walls", Polled("am-alerts"))
PhoneSilence ==
    Open(Act("createSilence", "item", "form", PageFlag("busy"), "page", "operator",
             {"am-alerts", "am-silences"}))
PhoneAlertsTab == Page({PhoneAlerts}, {PhoneSilence})

\* SilencesTab: doDelete.
PhoneDeleteSilence ==
    Open(Button("deleteSilence", "item", LastItem, "operator", {"am-silences"}))
PhoneSilencesTab == Page({Failing("walls", Polled("am-silences"))}, {PhoneDeleteSilence})

\* MonitoringScreen counts the firing alerts in the tab's label.
FiringBadge == Page({Polled("am-alerts")}, {})

\* notification-settings.tsx: savePolicy, sendTest and the channel switches
\* share saving.
NotifyPanels == {Failing("walls", Loaded("notify-settings")),
                 Failing("walls", Loaded("notify-policy")),
                 Polled("notify-deliveries")}
SavePolicy == Awaiting(Changing({"notify-policy"},
    Button("updatePolicy", "page", PageFlag("saving"), "admin", {"notify-policy", "notify-deliveries"})))
SendTest == Button("testNotify", "page", PageFlag("saving"), "admin", {"notify-deliveries"})
ToggleChannel ==
    Awaiting(Button("updateSettings", "page", PageFlag("saving"), "admin", {"notify-settings"}))
NotificationSettingsScreen == Page(NotifyPanels, {SavePolicy, SendTest, ToggleChannel})

\* alerts.tsx: an error is not looked at; nor is the failure of a call.
AlertCard == Open(Button("resolveAlert", "item", CardFlag("busy"), "operator", {"alerts"}))
AlertsScreen == Page({Polled("alerts")}, {AlertCard})

\* notifications.tsx.
NotifRow == Heedless(Button("markRead", "item", NoFlag, "viewer", {"notifications"}))
MarkAll == Heedless(Button("markAllRead", "page", NoFlag, "viewer", {"notifications"}))
NotificationsScreen == Page({Polled("notifications")}, {NotifRow, MarkAll})

\* projects/[id].tsx: actionMutation, for start, stop and restart.  The call
\* does not change the project's row: the health checker does, later, and what
\* the screen loads again at once is still the row of before.
ProjectPanels == {Failing("walls", Loaded("project")), Loaded("services"),
                  Loaded("deployments")}
ProjectAction(name, role) ==
    Open(Changing({}, Act(name, "page", "confirm", PageFlag("pending"), "page", role,
                          {"project", "dashboard"})))
ProjectActions == {ProjectAction("start", "operator"), ProjectAction("stop", "admin"),
                   ProjectAction("restart", "admin")}
ProjectDetailScreen == Page(ProjectPanels, ProjectActions)

LogsScreen == Page({Failing("walls", Polled("logs"))}, {})

\* servers/[id].tsx and servers.tsx.
PhoneServer == {Failing("first", Polled("server")), Polled("server-metrics-latest"),
                Polled("alerts")}
PhoneResolve == Open(Heedless(Button("resolveAlert", "item", NoFlag, "operator", {"alerts"})))
ServerDetailScreen == Page(PhoneServer, {PhoneResolve})

ServersScreen == Page({Polled("servers"), Loaded("server-groups")}, {})

\* (tabs)/index.tsx and (tabs)/deployments.tsx share one query.
DashboardScreen == Page({Failing("told", Polled("dashboard"))}, {})
DeploymentsScreen == Page({Failing("walls", Polled("dashboard"))}, {})

Phone ==
    [phoneDashboard |-> PhoneDashboardTab, phoneAlertsTab |-> PhoneAlertsTab,
     phoneSilences |-> PhoneSilencesTab, phoneBadge |-> FiringBadge,
     phoneNotify |-> NotificationSettingsScreen, phoneAlerts |-> AlertsScreen,
     phoneNotifications |-> NotificationsScreen, phoneProject |-> ProjectDetailScreen,
     phoneLogs |-> LogsScreen, phoneServer |-> ServerDetailScreen,
     phoneServers |-> ServersScreen, phoneHome |-> DashboardScreen,
     phoneDeployments |-> DeploymentsScreen]
==============================================================================
