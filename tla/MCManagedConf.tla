--------------------------- MODULE MCManagedConf ---------------------------
(* Model-checking instances of ManagedConf: every start has its own port. *)
EXTENDS ManagedConf

PortsInTurn == [w \in Starts |-> w]
=============================================================================
