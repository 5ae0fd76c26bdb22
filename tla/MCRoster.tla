------------------------------ MODULE MCRoster ------------------------------
(* The resolver has one orch's address with its checksum's capitals.       *)
EXTENDS Roster

CONSTANTS o1, o2

MCSpelled == (o1 :> "mixed") @@ (o2 :> "lower")
=============================================================================
