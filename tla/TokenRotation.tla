---------------------------- MODULE TokenRotation ----------------------------
(***************************************************************************)
(* What the refresh endpoint promises of one login: the login has at most  *)
(* one refresh token at a time, each rotation replaces it by the next one, *)
(* and a login that has ended is never continued, save by a rotation that  *)
(* had already taken the token when the end came.                          *)
(***************************************************************************)
EXTENDS Integers

CONSTANT Logins

VARIABLES
    phase,      \* [Logins -> "unborn", "live", "taken" or "ended"]
    rotations   \* [Logins -> number of tokens the login was given]

rotationVars == <<phase, rotations>>

RotationInit ==
    \E born \in SUBSET Logins :
        /\ phase = [l \in Logins |-> IF l \in born THEN "live" ELSE "unborn"]
        /\ rotations = [l \in Logins |-> IF l \in born THEN 1 ELSE 0]

Begin(l) ==
    /\ phase[l] = "unborn"
    /\ phase' = [phase EXCEPT ![l] = "live"]
    /\ rotations' = [rotations EXCEPT ![l] = 1]

\* The presented token is claimed: from here on nobody else can.
Take(l) ==
    /\ phase[l] = "live"
    /\ phase' = [phase EXCEPT ![l] = "taken"]
    /\ UNCHANGED rotations

Replace(l) ==
    /\ phase[l] = "taken"
    /\ phase' = [phase EXCEPT ![l] = "live"]
    /\ rotations' = [rotations EXCEPT ![l] = @ + 1]

\* Logout, password change, expiry, reuse detection: of any set of logins.
End(L) ==
    /\ \A l \in L : phase[l] \in {"live", "taken"}
    /\ phase' = [l \in Logins |-> IF l \in L THEN "ended" ELSE phase[l]]
    /\ UNCHANGED rotations

RotationNext ==
    \/ \E l \in Logins : Begin(l) \/ Take(l) \/ Replace(l)
    \/ \E L \in SUBSET Logins : End(L)

RotationSpec == RotationInit /\ [][RotationNext]_rotationVars
==============================================================================
