---------------------------- MODULE MCAuditPoll ----------------------------
(* AuditPoll for TLC.                                                       *)
EXTENDS AuditPoll, TLC

\* Ticks are interchangeable (safety runs only).
TickSymmetry == Permutations(Ticks)
=============================================================================
