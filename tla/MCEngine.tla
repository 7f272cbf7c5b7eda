------------------------------ MODULE MCEngine ------------------------------
(* Model-checking instances of Engine: who shares what with whom.  Instances, *)
(* directories and ports are numbers.                                         *)
EXTENDS Engine

OwnDir == [i \in Instances |-> i]
SharedDir == [i \in Instances |-> 1]

Ephemeral == [i \in Instances |-> 0]

AllTemporary == [i \in Instances |-> TRUE]
AllPersistent == [i \in Instances |-> FALSE]
=============================================================================
