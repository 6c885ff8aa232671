----------------------------- MODULE BackupPages -----------------------------
(***************************************************************************)
(* The tabs of the database backups page (features/dbbackups), with the    *)
(* roles the routes of dbbackups in main.go ask for.                       *)
(***************************************************************************)
EXTENDS PageRows

Card == CardFlag("busy")
Busy == PageFlag("busy")

\* JobModal, opened by New job of the tab and by Edit of a card.
JobModal == {Create("createJob", "operator", {"vg-jobs"}),
             Edit("updateJob", "item", "operator", {"vg-jobs"})}

\* act and runPreflight of a JobCard.
JobCard == {Button("toggleJob", "item", Card, "operator", {"vg-jobs"}),
            Changing({"vg-jobs", "vg-runs(job)"},
                     Button("runJob", "item", Card, "operator", {"vg-jobs"})),
            Confirm("deleteJob", Card, "item", "admin", {"vg-jobs"}),
            Button("preflight", "item", CardFlag("preflight"), "operator", {})}

\* The runs of an expanded card.
JobRuns == Polled("vg-runs(job)")

JobsTab == Page({Refetched("vg-jobs"), JobRuns}, JobModal \cup JobCard)

\* A RunCard; verifying rewrites the artifacts, and the list of runs is
\* what is loaded again.
RunCard == {Confirm("cancelRun", Card, "item", "operator", {"vg-runs"}),
            Changing({"vg-artifacts"},
                     Button("verifyRun", "item", Card, "operator", {"vg-runs"}))}

Artifacts == Loaded("vg-artifacts")

RunsTab == Page({Refetched("vg-runs"), Artifacts}, RunCard)

AgentKeys == {"vg-agents", "vg-machines", "vg-enroll-tokens"}

AgentCard == {Button("rotateAgentToken", "item", Card, "admin", AgentKeys),
              Confirm("revokeAgent", Card, "item", "admin", AgentKeys)}

AgentsTab ==
    Page({Refetched("vg-agents"), Failing("told", Polled("vg-machines")),
          Failing("told", Polled("vg-enroll-tokens"))},
         AgentCard \cup {Button("mintRegistrationToken", "page", Busy, "admin", AgentKeys),
                         Button("mintEnrollToken", "page", Busy, "admin", AgentKeys),
                         Button("revokeEnrollToken", "item", Busy, "admin", AgentKeys)})

ConnModal == {Create("createConnection", "operator", {"vg-connections"}),
              Edit("updateConnection", "page", "operator", {"vg-connections"})}

ConnectionsTab ==
    Page({Refetched("vg-connections")},
         ConnModal \cup {Button("testConnection", "item", LastItem, "operator", {"vg-connections"}),
                         Confirm("deleteConnection", Busy, "page", "admin", {"vg-connections"})})

\* RestoreModal only collects; the question that follows it makes the call.
RestoreModal == {Act("createRestore", "page", "confirm", Busy, "page",
                     "operator", {"vg-restores"})}

RestoresTab == Page({Refetched("vg-restores")}, RestoreModal)

PolicyModal == {Create("createPolicy", "operator", {"vg-policies"}),
                Edit("updatePolicy", "page", "operator", {"vg-policies"})}

PoliciesTab ==
    Page({Refetched("vg-policies")},
         PolicyModal \cup {Confirm("deletePolicy", Busy, "page", "admin", {"vg-policies"})})

\* Mutant: the form for a storage target is shown to operators, and the
\* route asks for an administrator.
TargetModalForAdmins ==
    {[Create("createTarget", "admin", {"vg-targets"}) EXCEPT !.offered = "operator"]}

TargetModal == {Create("createTarget", "operator", {"vg-targets"})}

StorageTab ==
    Page({Refetched("vg-targets")},
         TargetModal \cup {Button("testTarget", "item", LastItem, "operator", {"vg-targets"}),
                           Confirm("deleteTarget", Busy, "page", "admin", {"vg-targets"})})

OverviewTab == Page({Failing("walls", Polled("dbbackups-dashboard"))}, {})

\* One tab is mounted at a time.
DatabaseBackupsPage ==
    [overview |-> OverviewTab, jobs |-> JobsTab, runs |-> RunsTab,
     agents |-> AgentsTab, connections |-> ConnectionsTab,
     restores |-> RestoresTab, policies |-> PoliciesTab, storage |-> StorageTab]
===============================================================================
