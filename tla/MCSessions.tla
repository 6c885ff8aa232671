----------------------------- MODULE MCSessions -----------------------------
(***************************************************************************)
(* A browser with two tabs, or a phone.                                    *)
(***************************************************************************)
EXTENDS Sessions

\* The two requests come from the same tab, or from one tab each; the tabs
\* are alike.  The phone's runs need no tabs.
Init ==
    /\ SessionInit
    /\ tabOf["r1"] = "a"
    /\ device = "phone" => tabOf["r2"] = "a"

Spec ==
    /\ Init
    /\ [][SessionNext]_vars
    /\ WebFairness
    /\ PhoneFairness
=============================================================================
