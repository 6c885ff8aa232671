----------------------------- MODULE ServerPages -----------------------------
(***************************************************************************)
(* The web client's pages about servers, alerts, checks, monitoring and    *)
(* files (features/dashboard, features/transfers).                         *)
(***************************************************************************)
EXTENDS PageRows

\* ServersPage; AddServerModal is module AddServer.
ServerList == Failing("told", Live(Polled("servers")))
ServersPage == Page({ServerList, Loaded("server-groups")}, {})

\* ServerDetailPage: what the page loads whatever the tab, and per tab.
ServerHeader == Failing("first", Live(Loaded("server")))
LatestMetrics == Live(Polled("server-metrics-latest"))
MetricsHistory == Loaded("server-metrics")
PrometheusHistory == Failing("told", Loaded("server-prometheus"))
AgentTokens == [Loaded("agent-tokens") EXCEPT !.refetch = TRUE]
ServerAudit == Loaded("audit-server")
ServerAlerts == Live(Polled("alerts"))

\* Resolve of the alert banner.
ResolveBanner == Open(Button("resolveAlert", "item", NoFlag, "operator", {"alerts"}))
CreateToken == Open(Act("createAgentToken", "page", "form", PageFlag("creatingToken"), "page",
                        "admin", {"agent-tokens"}))
TokenRow == Open(Button("revokeAgentToken", "item", CardFlag("busy"), "admin", {"agent-tokens"}))

ServerDetailPage ==
    Page({ServerHeader, LatestMetrics, MetricsHistory, PrometheusHistory,
          AgentTokens, ServerAudit, ServerAlerts},
         {ResolveBanner, CreateToken, TokenRow})

\* AlertsPage: an error is told while no alert is listed.
AlertList == Failing("first", Live(Polled("alerts")))
AlertRow == Open(Button("resolveAlert", "item", CardFlag("busy"), "operator", {"alerts"}))
AlertsPage == Page({AlertList, Loaded("servers")}, {AlertRow})

\* HealthChecksPage: an error is not looked at.
ResultsPanel == Polled("hc-results")
CheckList == Polled("health-checks")
CheckCard == {Open(Button("updateHealthCheck", "item", NoFlag, "operator", {"health-checks"})),
              Open(Button("deleteHealthCheck", "item", NoFlag, "admin", {"health-checks"}))}
AddCheckModal == Open(Create("createHealthCheck", "operator", {"health-checks"}))
HealthChecksPage == Page({ResultsPanel, CheckList}, CheckCard \cup {AddCheckModal})

AuditLogPage == Page({Polled("audit")}, {})

\* The tabs of MonitoringPage fetch bare and again on events.  The dashboard
\* takes alerts that could not be loaded for none, unless an event loaded them;
\* the error of the alerts and of the silences is never cleared.
DashboardAlerts == Failing("empties", Live(Fetched("mon-alerts")))
DashboardTab ==
    Page({Fetched("mon-overview"), Fetched("prom-targets"),
          DashboardAlerts}, {})

\* Silencing an alert changes how it is listed, and nothing is loaded again.
SilenceAlert ==
    [Open(Act("createSilence", "item", "form", PageFlag("busy"), "page", "operator", {}))
        EXCEPT !.changes = {"mon-alerts", "mon-silences"}]
AlertsTab == Page({Failing("sticks", Live(Fetched("mon-alerts")))}, {SilenceAlert})

TargetsTab == Page({Failing("walls", Live(Fetched("prom-targets")))}, {})

DeleteSilence == Open(Button("deleteSilence", "item", LastItem, "operator", {"mon-silences"}))
SilencesTab == Page({Failing("sticks", Live(Fetched("mon-silences")))}, {DeleteSilence})

\* FileTransfersPage: refreshAll loads all but the search again.
TransferKeys == {"transfers-list", "transfers-storage", "transfers-breakdown",
                 "transfers-trash", "transfers-activity"}
Searched == "transfers-search"

TransferPanels ==
    {Failing("first", Polled("transfers-storage")), Polled("transfers-breakdown"),
     Failing("instead", Loaded("transfers-list")), Loaded("transfers-trash"),
     Polled("transfers-activity"), Loaded(Searched)}

\* run sets busy for every call; the buttons of an entry and of
\* the trash do not look at it.
TransferRun(act) == Changing(TransferKeys \cup {Searched}, act)
TransferBusy == PageFlag("busy")

Upload == TransferRun(Button("upload", "page", TransferBusy, "operator", TransferKeys))

\* mkdir, rename, move and copy share one prompt, which closes whatever the
\* outcome; Enter in it does not look at busy.
SubmitPrompt ==
    TransferRun(Closing("always", Untested(
        Act("submitPrompt", "page", "form", TransferBusy, "page", "operator", TransferKeys))))

EntryButtons ==
    {TransferRun(Untested(Button("trashMove", "item", TransferBusy, "operator", TransferKeys)))}

TrashButtons ==
    {TransferRun(Untested(Button("trashRestore", "item", TransferBusy, "operator", TransferKeys))),
     TransferRun(Untested(Button("trashPurge", "page", TransferBusy, "operator", TransferKeys)))}

FileTransfersPage == Page(TransferPanels, {Upload, SubmitPrompt} \cup EntryButtons \cup TrashButtons)

TransferNames == {act.name : act \in FileTransfersPage.acts}

ServerSide ==
    [servers |-> ServersPage, serverDetail |-> ServerDetailPage, alerts |-> AlertsPage,
     checks |-> HealthChecksPage, audit |-> AuditLogPage, monitoring |-> DashboardTab,
     monAlerts |-> AlertsTab, targets |-> TargetsTab, silences |-> SilencesTab,
     transfers |-> FileTransfersPage]
==============================================================================
