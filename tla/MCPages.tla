------------------------------- MODULE MCPages -------------------------------
(***************************************************************************)
(* The user has one screen of the clients before them: a page of the       *)
(* tables, or one of those that have a module of their own.                *)
(***************************************************************************)
EXTENDS Pages, AddServer, DatabaseBrowser, RuleForm

CONSTANT Screens

VARIABLE screen

vars == <<screen, pageVars, wizVars, dbVars, ruleVars>>

AllPages == DOMAIN PageTable

\* Two database servers that each hold a database of the same name.
TwoDbServers == ("a" :> {"orders", "cache"}) @@ ("b" :> {"users", "cache"})

RuleOf(cooldown, severity, condition, channels) ==
    [cooldown |-> cooldown, severity |-> severity, condition |-> condition,
     channels |-> channels, described |-> TRUE, enabled |-> TRUE]

\* Cooldowns of whole hours, of whole minutes only, and of seconds.
SomeRules == {RuleOf(7200, "CRITICAL", "none", {"EMAIL"}),
              RuleOf(5400, "CRITICAL", "plain", {"EMAIL", "TELEGRAM"}),
              RuleOf(90, "blank", "foreign", {"EMAIL"})}

\* The components that are not on the screen are at rest.
PageAway ==
    /\ page = [panel |-> Behaviour(Polled("none")), controls |-> {}]
    /\ PageStart(FALSE)

Init ==
    /\ screen \in Screens
    /\ IF screen = "page" THEN page \in Situations /\ PageStart(TRUE) ELSE PageAway
    /\ WizardStart(screen = "wizard")
    /\ BrowserInit
    /\ RuleInit
    /\ screen # "rule" => rule = RuleOf(7200, "CRITICAL", "none", {"EMAIL"})

Next ==
    /\ UNCHANGED screen
    /\ \/ screen = "page" /\ PageNext /\ UNCHANGED <<wizVars, dbVars, ruleVars>>
       \/ screen = "wizard" /\ WizardNext /\ UNCHANGED <<pageVars, dbVars, ruleVars>>
       \/ screen = "databases" /\ BrowserNext /\ UNCHANGED <<pageVars, wizVars, ruleVars>>
       \/ screen = "rule" /\ RuleNext /\ UNCHANGED <<pageVars, wizVars, dbVars>>

Spec == Init /\ [][Next]_vars /\ PageFairness /\ WizardFairness
==============================================================================
