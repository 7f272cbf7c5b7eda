------------------------------ MODULE MCImport ------------------------------
(* Model-checking instances of Import: files that can be restored, one whose *)
(* dates make it fail, but only from the third row on, and one of a type     *)
(* that has no column.                                                       *)
EXTENDS Import

Mixed == [schema |-> <<"Int16", "LargeUtf8">>,
          rows |-> << <<2, 5>>, <<2, -1>>, <<2, 30>>, <<-1, 0>>, <<2, 1>> >>]
Dated == [schema |-> <<"Int16", "Date32">>,
          rows |-> << <<2, -1>>, <<-1, -1>>, <<2, 4>>, <<2, -1>> >>]
Listed == [schema |-> <<"List">>, rows |-> << <<3>> >>]
NoRows == [schema |-> <<"Utf8">>, rows |-> <<>>]

SomeFiles == {Mixed, Dated, Listed, NoRows}
=============================================================================
