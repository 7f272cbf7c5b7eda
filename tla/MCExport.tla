------------------------------ MODULE MCExport ------------------------------
(* Model-checking instances of Export: the column types of the query.        *)
EXTENDS Export

Uuid == {<<"UUID">>}
=============================================================================
