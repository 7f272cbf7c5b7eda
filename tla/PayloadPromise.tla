--------------------------- MODULE PayloadPromise ---------------------------
(***************************************************************************)
(* What a caller of extract_payload may count on, without the way it is     *)
(* done: each call ends in success or failure, a success leaves the         *)
(* binaries in place, and once in place they stay.                          *)
(***************************************************************************)

CONSTANT Calls

VARIABLES
    usable,   \* the install directory holds every binary
    outcome   \* outcome[c]: what call c returned, if it has

Init ==
    /\ usable = FALSE
    /\ outcome = [c \in Calls |-> "pending"]

Succeed(c) ==
    /\ outcome[c] = "pending"
    /\ outcome' = [outcome EXCEPT ![c] = "ok"]
    /\ usable' = TRUE

Fail(c) ==
    /\ outcome[c] = "pending"
    /\ outcome' = [outcome EXCEPT ![c] = "failed"]
    /\ UNCHANGED usable

Next == \E c \in Calls : Succeed(c) \/ Fail(c)

Spec == Init /\ [][Next]_<<usable, outcome>>

=============================================================================
