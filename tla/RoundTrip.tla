----------------------------- MODULE RoundTrip -----------------------------
(***************************************************************************)
(* A dump to a Parquet file and its restore into another database: Export,  *)
(* followed by Import of the file that Export wrote.  Both may fail at any  *)
(* point; the restore is tried on what the dump left.                       *)
(*                                                                          *)
(* The Parquet reader and writer are external: they give back the schema    *)
(* and the values that were written, if the footer was.                     *)
(***************************************************************************)
EXTENDS Export

CONSTANTS
    FlushAt,    \* as in Import
    ReadBatch,  \* rows the Parquet reader gives at a time
    NoTable     \* the table does not exist

ASSUME RoundTripAssumption ==
    /\ FlushAt \in Nat
    /\ ReadBatch \in Nat \ {0}
    /\ NoTable \notin Seq(Nat)

VARIABLES
    rpc,                          \* Import's pc
    tries, oks, next, buf, sent,  \* as in Import
    table                         \* the table restored to

restore == <<rpc, tries, oks, next, buf, sent, table>>
all == <<vars, restore>>

NumWritten == IF schema = <<>> THEN 0 ELSE Len(Written(1))

\* The bytes a value takes in the restore; garbage has some.
Size(cell) ==
    IF cell = Null THEN -1
    ELSE IF cell = Empty THEN 0
    ELSE IF cell = Garbage THEN 1
    ELSE rows[cell[1]][cell[2]]

Dumped ==
    [schema |-> schema,
     rows |-> [r \in 1..NumWritten |-> [c \in DOMAIN schema |-> Size(Written(c)[r])]]]

Import == INSTANCE Import
    WITH file <- Dumped, pc <- rpc, Files <- {}, BatchSize <- ReadBatch, MaxTries <- 1

RoundTripInit ==
    /\ Init
    /\ rpc = "idle"
    /\ tries = 0 /\ oks = 0
    /\ next = 1 /\ buf = <<>> /\ sent = <<>>
    /\ table \in {NoTable, <<>>}

Dump == Next /\ UNCHANGED restore

\* ParquetRecordBatchStreamBuilder::new finds a footer.
CanBeRead == file = "complete"

Restore ==
    /\ pc \in Over
    /\ file # "old"
    /\ UNCHANGED vars
    /\ IF CanBeRead THEN Import!Next
       ELSE /\ rpc = "idle"
            /\ rpc' = "failed"
            /\ UNCHANGED <<tries, oks, next, buf, sent, table>>

RoundTripNext == Dump \/ Restore

RoundTripSpec == RoundTripInit /\ [][RoundTripNext]_all

\* As in Export.
RoundTripFairSpec == RoundTripSpec /\ WF_all(Step /\ UNCHANGED restore)

-----------------------------------------------------------------------------
(* Properties.                                                              *)

\* Every column a dump can have, a restore can create and fill (types.rs:7-55,
\* import.rs:57-110).
DumpIsRestorable ==
    CanBeRead => \A c \in DOMAIN schema : schema[c] \in DOMAIN ArrowToPg \cap Importable

\* The columns that are copied as they were described and sent as what they are
\* mapped to.
Faithful == {c \in DOMAIN schema \cap DOMAIN shape :
                SameType(c) /\ (schema[c] = "LargeUtf8" => shape[c] \in SentAsText)}

Taken == pc \notin {"describe", "copy"}

Snapshot == [r \in DOMAIN rows |-> [c \in Faithful |-> Expected(r, c)]]

\* The rows of the table, as the values the file has in their place.
Delivered == [k \in DOMAIN table |-> [c \in Faithful |-> Written(c)[table[k]]]]

Promise == INSTANCE Transfer
    WITH Rows <- UNION {[C -> Cells] : C \in SUBSET Columns},
         taken <- Taken,
         snapshot <- IF Taken /\ Faithful # {} THEN Snapshot ELSE <<>>,
         delivered <- IF table = NoTable \/ Faithful = {} THEN <<>> ELSE Delivered,
         reported <- rpc = "ok"

\* What a restore puts into the table is what the dump's COPY saw, value for
\* value and all at once, whatever failed in either of them
\* (export.rs:83-205, main.rs:151-158, import.rs:46-122).
ImplementsTransfer == Promise!Spec

\* A dump ends, with or without success, if its connection goes on.
DumpEnds == <>(pc \in Over)

=============================================================================
