---------------------------- MODULE MCRoundTrip ----------------------------
(* Model-checking instances of RoundTrip: a table that gains or loses        *)
(* columns, down to none, or has one that cannot be dumped.                  *)
EXTENDS RoundTrip

Reshaped == {<<"INT2", "TEXT">>, <<"INT2">>, <<"DATE">>, <<>>, <<"POINT">>}
=============================================================================
