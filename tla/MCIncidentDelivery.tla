------------------------- MODULE MCIncidentDelivery -------------------------
(* Model-checking instances of IncidentDelivery. *)
EXTENDS IncidentDelivery, TLC

CONSTANTS k1, d1, d2

DispatcherSymmetry == Permutations({d1, d2})

\* Constraint: at most one gate is closed at a time.
OneGate ==
    \/ ~policy.pause /\ ~policy.maintenance
    \/ ~policy.pause /\ ~policy.quiet
    \/ ~policy.maintenance /\ ~policy.quiet
=============================================================================
