------------------------------ MODULE MCDigests ------------------------------
(* Model-checking instances of Digests. *)
EXTENDS Digests

CONSTANTS k1, k2, e1, e2, e3, f1, f2

\* e1 goes to two channels; e2 and e3 join it in the batch of the first.
MCKeysOf == [e \in Events |-> IF e = e1 THEN {k1, k2} ELSE {k1}]

=============================================================================
