---------------------------- MODULE MCLifecycle ----------------------------
(* Lifecycle for TLC.                                                       *)
EXTENDS Lifecycle

\* .env.example through compose.yaml, with the registry's address filled in,
\* and with every variable set to every kind of text, one at a time.
Working   == Compose([Example EXCEPT !.SERVICE_REGISTRY_ADDRESS = "valid"])
Variants  == {[Working EXCEPT ![v] = text] : v \in Variables, text \in Texts}
AsShipped == {Compose(Example)}
=============================================================================
