----------------------------- MODULE MCDashboard -----------------------------
(* Dashboard for TLC.                                                       *)
EXTENDS Dashboard

\* The orchs are interchangeable (safety runs only).
OrchSymmetry == Permutations(Orchs)
=============================================================================
