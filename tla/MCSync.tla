------------------------------- MODULE MCSync -------------------------------
(* Model-checking instance of Sync: the tables are alike, and the clients are. *)
EXTENDS Sync, TLC

CONSTANTS t1, t2, c1, c2

TwoTables == {t1, t2}
TwoClients == {c1, c2}

Alike == Permutations(TwoTables) \cup Permutations(TwoClients)
=============================================================================
