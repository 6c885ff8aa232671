------------------------------- MODULE RuleForm -------------------------------
(***************************************************************************)
(* The form of NotificationRulesSection over a rule that several editors   *)
(* save and switch, and the PATCH handler, which merges a body into the    *)
(* row it has loaded and writes all columns.  Cooldowns are kept in        *)
(* seconds and shown as an amount of a unit.                               *)
(***************************************************************************)
EXTENDS Naturals, FiniteSets

CONSTANTS
    Users,              \* users who switch the rule on and off
    Editors,            \* those of them who also edit it
    FirstRules,         \* rows a rule may start as
    Amounts,            \* amounts an editor may enter
    MaxTouches,         \* fields set in one form
    MaxSaves            \* calls made in all

\* A blank severity applies to all.  A condition is "none", "plain", or
\* "foreign": on a field the form does not know.
Severities == {"blank", "CRITICAL"}
Rows ==
    [cooldown : Nat, severity : Severities, condition : {"none", "plain", "foreign"},
     channels : SUBSET {"EMAIL", "TELEGRAM", "IN_APP"}, described : BOOLEAN, enabled : BOOLEAN]

ASSUME RuleAssumption ==
    /\ Editors \subseteq Users /\ FirstRules \subseteq Rows
    /\ Amounts \subseteq Nat /\ MaxTouches \in Nat /\ MaxSaves \in Nat

VARIABLES
    rule,       \* the row: [cooldown, severity, condition, channels, described, enabled]
    seen,       \* [Users -> the row as listed]
    form,       \* [Users -> [on, values, touched, from]]
    patch,      \* [Users -> [pc, body, current, touched, from, saving]]: the
                \* call under way, one of a user at a time
    saves

ruleVars == <<rule, seen, form, patch, saves>>

Fields == {"cooldown", "severity", "condition", "channels", "described", "enabled"}

Units == [seconds |-> 1, minutes |-> 60, hours |-> 3600]

ToSeconds(amount, unit) == amount * Units[unit]

\* Mutant: an hour and a half is shown as one hour.
UnitOfLonger(cd) ==
    CASE cd >= 3600 -> "hours"
      [] cd >= 60 /\ cd < 3600 -> "minutes"
      [] OTHER -> "seconds"

\* startEdit: the largest unit that divides the cooldown.
UnitOf(cd) ==
    CASE cd >= 3600 /\ cd % 3600 = 0 -> "hours"
      [] cd >= 60 /\ cd % 60 = 0 /\ ~(cd >= 3600 /\ cd % 3600 = 0) -> "minutes"
      [] OTHER -> "seconds"

NoPatch == [pc |-> "idle"]
Sent(body, touched, from, saving) ==
    [pc |-> "sent", body |-> body, touched |-> touched, from |-> from, saving |-> saving,
     current |-> from]
Closed == [on |-> FALSE]

RuleInit ==
    /\ rule \in FirstRules
    /\ seen = [e \in Users |-> rule]
    /\ form = [e \in Users |-> Closed]
    /\ patch = [e \in Users |-> NoPatch]
    /\ saves = 0

\* refresh.
Relist(e) ==
    /\ seen' = [seen EXCEPT ![e] = rule]
    /\ UNCHANGED <<rule, form, patch, saves>>

\* startEdit: from the list, not from the server, also over an open form; the
\* description is left out, and so is the channel that has no box.
StartEdit(e) ==
    LET r == seen[e] IN
    /\ e \in Editors
    /\ saves < MaxSaves
    /\ form' = [form EXCEPT ![e] =
        [on |-> TRUE, from |-> r, touched |-> {}, values |->
          [amount |-> r.cooldown \div Units[UnitOf(r.cooldown)], unit |-> UnitOf(r.cooldown),
           severity |-> r.severity, condition |-> IF r.condition = "plain" THEN "plain" ELSE "none",
           channels |-> r.channels \ {"TELEGRAM"}, described |-> FALSE,
           enabled |-> r.enabled]]]
    /\ UNCHANGED <<rule, seen, patch, saves>>

Touched(e, field, vals) ==
    form' = [form EXCEPT ![e].touched = @ \cup {field}, ![e].values = vals]

\* set: a field of the form.
SetField(e) ==
    LET v == form[e].values IN
    /\ form[e].on
    /\ Cardinality(form[e].touched) < MaxTouches
    /\ \/ \E amount \in Amounts, unit \in DOMAIN Units :
            Touched(e, "cooldown", [v EXCEPT !.amount = amount, !.unit = unit])
       \/ \E s \in Severities : Touched(e, "severity", [v EXCEPT !.severity = s])
       \/ \E c \in {"none", "plain"} : Touched(e, "condition", [v EXCEPT !.condition = c])
       \/ Touched(e, "channels", [v EXCEPT !.channels = {"IN_APP"}])
       \/ Touched(e, "enabled", [v EXCEPT !.enabled = ~@])
    /\ UNCHANGED <<rule, seen, patch, saves>>

\* The body submit sends: what is blank is left out (undefined).
Body(v) ==
    [f \in Fields \ ((IF v.severity = "blank" THEN {"severity"} ELSE {})
                       \cup (IF v.condition = "none" THEN {"condition"} ELSE {})) |->
       CASE f = "cooldown" -> ToSeconds(v.amount, v.unit)
         [] f = "severity" -> v.severity
         [] f = "condition" -> v.condition
         [] f = "channels" -> v.channels
         [] f = "described" -> v.described
         [] OTHER -> v.enabled]

\* submit: without a channel nothing is sent.
SubmitForm(e) ==
    /\ form[e].on
    /\ patch[e] = NoPatch
    /\ form[e].values.channels # {}
    /\ saves < MaxSaves
    /\ saves' = saves + 1
    /\ patch' = [patch EXCEPT ![e] = Sent(Body(form[e].values), form[e].touched, form[e].from, TRUE)]
    /\ UNCHANGED <<rule, seen, form>>

\* toggleEnabled: the switch of the list sends one field.
ToggleEnabled(e) ==
    /\ patch[e] = NoPatch
    /\ saves < MaxSaves
    /\ saves' = saves + 1
    /\ patch' = [patch EXCEPT ![e] =
                   Sent([enabled |-> ~seen[e].enabled], {"enabled"}, seen[e], FALSE)]
    /\ UNCHANGED <<rule, seen, form>>

\* Update: loadRule.
UpdateLoads(e) ==
    /\ patch[e].pc = "sent"
    /\ patch' = [patch EXCEPT ![e].pc = "loaded", ![e].current = rule]
    /\ UNCHANGED <<rule, seen, form, saves>>

\* What the body leaves out keeps the value loaded.
Merged(cur, body) == [f \in Fields |-> IF f \in DOMAIN body THEN body[f] ELSE cur[f]]

\* Update: all columns are written.
UpdateWrites(e) ==
    /\ patch[e].pc = "loaded"
    /\ rule' = Merged(patch[e].current, patch[e].body)
    /\ patch' = [patch EXCEPT ![e].pc = "written"]
    /\ UNCHANGED <<seen, form, saves>>

\* The answer.  submit closes the form that is open by then; the list is
\* loaded again, and a failure of that is ignored.
Updated(e) ==
    /\ patch[e].pc = "written"
    /\ patch' = [patch EXCEPT ![e] = NoPatch]
    /\ form' = IF patch[e].saving THEN [form EXCEPT ![e] = Closed] ELSE form
    /\ \/ seen' = [seen EXCEPT ![e] = rule]
       \/ seen' = seen
    /\ UNCHANGED <<rule, saves>>

\* The call fails, or its answer is lost: the form stays as it is.
UpdateFails(e) ==
    /\ patch[e] # NoPatch
    /\ patch' = [patch EXCEPT ![e] = NoPatch]
    /\ UNCHANGED <<rule, seen, form, saves>>

CancelForm(e) ==
    /\ form[e].on
    /\ form' = [form EXCEPT ![e] = Closed]
    /\ UNCHANGED <<rule, seen, patch, saves>>

RuleNext ==
    \E e \in Users :
        \/ Relist(e) \/ StartEdit(e) \/ SetField(e) \/ SubmitForm(e) \/ ToggleEnabled(e)
        \/ UpdateLoads(e) \/ UpdateWrites(e) \/ Updated(e) \/ UpdateFails(e)
        \/ CancelForm(e)

RuleSpec == RuleInit /\ [][RuleNext]_ruleVars

(***************************************************************************)
(* Properties.                                                             *)
(***************************************************************************)

\* A save that nobody disturbs since the form was opened changes only what the
\* editor touched: a cooldown comes back from its unit unchanged, a condition
\* the form cannot show survives, and so does a severity.  The description
\* and the channel without a box are not kept, so a rule comes out without
\* them unless it is only switched.
Survives(f) ==
    IF f = "channels" THEN rule'[f] = rule[f] \ {"TELEGRAM"} \/ rule'[f] = rule[f]
    ELSE rule'[f] = rule[f]
UntouchedSurvivesStep ==
    \A e \in Users :
        (patch[e].pc = "loaded" /\ patch'[e].pc = "written" /\ patch[e].current = rule
           /\ patch[e].from = rule)
          => \A f \in Fields \ ({"described"} \cup patch[e].touched) : Survives(f)
UntouchedSurvives == [][UntouchedSurvivesStep]_ruleVars
===============================================================================
