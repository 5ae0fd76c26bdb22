---------------------------- MODULE MCAuditTrail ----------------------------
(* AuditTrail for TLC.                                                      *)
EXTENDS AuditTrail, TLC

\* Requests are interchangeable (safety runs only).
RequestSymmetry == Permutations(Requests)
=============================================================================
