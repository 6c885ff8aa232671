---------------------------- MODULE SettingsPages ----------------------------
(***************************************************************************)
(* The tabs of the settings page (features/settings).                      *)
(***************************************************************************)
EXTENDS PageRows

\* TeamTab: accounts, fetched bare; of a load that fails a toast tells, and the
\* list stays as it was, or empty.
TeamUsers == Fetched("users")

UserActs == {Act("createUser", "page", "form", PageFlag("addBusy"), "page", "admin", {"users"}),
             Button("setUserRole", "item", NoFlag, "admin", {"users"}),
             Confirm("deleteUser", NoFlag, "page", "admin", {"users"})}

TeamTab == Page({TeamUsers}, UserActs)

\* settings-data asks for three things and never fails.  Groups that did not
\* come are an empty list; without the server's facts or the routing the page
\* is its skeleton, and every tab with its state is gone.
SettingsData(part) ==
    Failing(IF part = "groups" THEN "parts" ELSE "frame", Loaded("settings-data"))

\* saveNotify, which reads the routing back before it reloads, and probeNotify,
\* which changes nothing.
NotifyActs ==
    {Open(Rereading(Awaiting(Button("saveNotifySettings", "page", PageFlag("ntBusy"), "admin",
                                    {"settings-data"})))),
     Open(Button("testNotify", "page", NoFlag, "admin", {}))}

NotificationsTab == Page({SettingsData("notify")}, NotifyActs)

\* NotificationGroupManager: the groups of settings-data and the selected one.
\* Enter in the address field does not look at groupBusy.  deleteGroup closes
\* its question at the answer and then reads the routing back.
GroupDetail == Fetched("notification-group")
GroupKeys == {"settings-data", "notification-group"}

GroupActs ==
    {Awaiting(Button("createNotificationGroup", "page", PageFlag("groupBusy"), "operator", GroupKeys)),
     Untested(Awaiting(Button("addGroupMember", "page", PageFlag("groupBusy"), "operator", GroupKeys))),
     Awaiting(Button("removeGroupMember", "item", NoFlag, "operator", GroupKeys)),
     Rereading(Confirm("deleteNotificationGroup", NoFlag, "page", "admin", {"settings-data"}))}

NotificationGroupManager == Page({SettingsData("groups"), GroupDetail}, GroupActs)

\* NotificationRulesSection: submit creates and updates; the question of
\* remove is closed before the call is made.
RuleList == Fetched("notification-rules")

RuleActs ==
    {Awaiting(Act("saveNotificationRule", "page", "form", PageFlag("busy"), "page", "operator",
                  {"notification-rules"})),
     Button("toggleRule", "item", NoFlag, "operator", {"notification-rules"}),
     Closing("before", Confirm("deleteNotificationRule", NoFlag, "page", "admin",
                               {"notification-rules"}))}

NotificationRulesSection == Page({RuleList}, RuleActs)

\* The wipe of DiagnosticsTab, shown to every role; restart copies a command.
WipeDeployments == Act("wipeDeployments", "page", "confirm", NoFlag, "page", "admin", {})

DiagnosticsTab == Page({SettingsData("info")}, {Open(WipeDeployments)})

\* One tab is mounted at a time; MonitoringTab keeps its switches locally.
SettingsPage ==
    [team |-> TeamTab, notifications |-> NotificationsTab,
     groups |-> NotificationGroupManager, rules |-> NotificationRulesSection,
     diagnostics |-> DiagnosticsTab]
==============================================================================
