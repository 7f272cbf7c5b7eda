------------------------------ MODULE MCSystem ------------------------------
(* Model-checking instances of System: the programs that prepare and serve a *)
(* directory come out of the archive before those that reach the server.     *)
EXTENDS System

TwoParts == [b \in Binaries |-> IF b \in {"initdb", "postgres"} THEN 1 ELSE 2]
=============================================================================
