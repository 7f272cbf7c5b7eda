------------------------------ MODULE Transfer ------------------------------
(***************************************************************************)
(* What "postg dump" and "postg restore" promise together, without the way  *)
(* it is done: the rows that were there at one moment arrive in the table   *)
(* at one moment, all of them, or never, and have arrived when success is   *)
(* reported.                                                                *)
(***************************************************************************)
EXTENDS Sequences

CONSTANT Rows   \* what a row may be

VARIABLES
    taken,      \* the rows were read
    snapshot,   \* the rows as they were then
    delivered,  \* what has arrived
    reported    \* the restore said that it succeeded

Init ==
    /\ taken = FALSE
    /\ snapshot = <<>>
    /\ delivered = <<>>
    /\ reported = FALSE

Take ==
    /\ ~taken
    /\ taken' = TRUE
    /\ snapshot' \in Seq(Rows)
    /\ UNCHANGED <<delivered, reported>>

Deliver ==
    /\ taken
    /\ delivered = <<>>
    /\ delivered' = snapshot
    /\ UNCHANGED <<taken, snapshot, reported>>

Report ==
    /\ taken
    /\ delivered = snapshot
    /\ reported' = TRUE
    /\ UNCHANGED <<taken, snapshot, delivered>>

Next == Take \/ Deliver \/ Report

Spec == Init /\ [][Next]_<<taken, snapshot, delivered, reported>>

=============================================================================
