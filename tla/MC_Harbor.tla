------------------------------ MODULE MC_Harbor ------------------------------
(* Small instances of Harbor for TLC.                                       *)
EXTENDS Harbor, TLC

CONSTANTS c1, c2, r1, r2

\* One host task drives the lifecycle, as in a normal deployment.
MC_OneCaller == {c1}
\* Two host tasks whose start()/stop() calls may overlap.
MC_TwoCallers == {c1, c2}
MC_Requests == {r1, r2}
MC_OneRequest == {r1}
\* A success, the smallest error status, a server error.
MC_Statuses == {200, 400, 502}
MC_Symmetry == Permutations(MC_Requests)
\* The inductive strengthening used by the session-hygiene proof, for the
\* one caller of the one-caller runs.
MC_HygieneInv == HygieneInv(c1)
=============================================================================
