----------------------------- MODULE MCPayload -----------------------------
(* Model-checking instances of Payload; the .cfg files give the constants. *)
EXTENDS Payload, TLC

\* The calls that take their archive from the cache are interchangeable.
CallSymmetry == Permutations(Calls \ Given)
=============================================================================
