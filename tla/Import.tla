------------------------------- MODULE Import -------------------------------
(***************************************************************************)
(* "postg restore --format parquet": arrow_to_table of                      *)
(* src/postg-arrow/src/import.rs, which creates a table if asked to and     *)
(* sends the batches of a Parquet file through one binary COPY, as main.rs  *)
(* calls it.  The user may run the command again, after a failure or a      *)
(* success.                                                                 *)
(*                                                                          *)
(* The rows of the file are known by their numbers.  PostgreSQL is          *)
(* external: CREATE TABLE is a transaction of its own; the rows of a COPY   *)
(* appear when it is finished, and not at all when it is not.               *)
(***************************************************************************)
EXTENDS ArrowTypes, Functions, Sequences

CONSTANTS
    Files,      \* Parquet files: the Arrow types of the columns (schema), and
                \* the sizes of the values of each row (rows), -1 for NULL
    BatchSize,  \* rows the reader gives at a time
    FlushAt,    \* buf is sent when it is longer, 8192 bytes in the code
    MaxTries,   \* how often the command is run
    Faults,     \* TRUE: the file, the connection or the server may fail
    NoTable     \* the table does not exist

ASSUME ImportAssumption ==
    /\ \A f \in Files :
          /\ f.schema \in Seq(STRING)
          /\ f.rows \in Seq([DOMAIN f.schema -> Nat \cup {-1}])
    /\ BatchSize \in Nat \ {0}
    /\ FlushAt \in Nat
    /\ MaxTries \in Nat
    /\ Faults \in BOOLEAN
    /\ NoTable \notin Seq(Nat)

VARIABLES
    file,     \* the file that is restored
    pc,       \* where the command is
    tries,    \* how often it was run
    oks,      \* how often it succeeded
    next,     \* the next row to be encoded
    buf,      \* the rows encoded and not sent
    sent,     \* the rows the server has received in this COPY
    table     \* the rows of the table, or NoTable

copy == <<next, buf, sent>>
vars == <<file, pc, tries, oks, copy, table>>

Schema == file.schema
Rows == file.rows

Resting == {"idle", "ok", "failed"}

TypeOK ==
    /\ file \in Files
    /\ pc \in Resting \cup {"ddl", "copy", "rows", "flush", "finish", "reply"}
    /\ tries \in 0..MaxTries
    /\ oks \in 0..tries
    /\ next \in 1..(Len(Rows) + 1)
    /\ buf \in Seq(DOMAIN Rows)
    /\ sent \in Seq(DOMAIN Rows)
    /\ table \in Seq(DOMAIN Rows) \cup {NoTable}

\* The rows in the order of the file, up to row n.
FirstRows(n) == [r \in 1..n |-> r]

Init ==
    /\ file \in Files
    /\ pc = "idle"
    /\ tries = 0 /\ oks = 0
    /\ next = 1 /\ buf = <<>> /\ sent = <<>>
    /\ table \in {NoTable, <<>>}

Goto(from, to) ==
    /\ pc = from
    /\ pc' = to

\* The bytes of row r: a count, and for each value its length and its data.
RowSize(r) ==
    2 + SumFunction([c \in DOMAIN Schema |-> IF Rows[r][c] > 0 THEN 4 + Rows[r][c] ELSE 4])

BufSize(b) == SumFunction([k \in DOMAIN b |-> RowSize(b[k])])

-----------------------------------------------------------------------------

\* The user runs the command, with or without --create-table.
RunFrom(first) ==
    /\ pc \in Resting
    /\ tries < MaxTries
    /\ tries' = tries + 1
    /\ pc' \in {"ddl", "copy"}
    /\ next' = first /\ buf' = <<>> /\ sent' = <<>>
    /\ UNCHANGED <<file, oks, table>>

\* Wrong variant: the rows are counted from 0.
RunFromZero == RunFrom(0)

Run == RunFrom(1)

\* A type without a PostgreSQL type, or a table of that name, is an error.
CreateTable ==
    LET possible == table = NoTable /\ \A c \in DOMAIN Schema : Schema[c] \in DOMAIN ArrowToPg
    IN  /\ Goto("ddl", IF possible THEN "copy" ELSE "failed")
        /\ table' = IF possible THEN <<>> ELSE table
        /\ UNCHANGED <<file, tries, oks, copy>>

\* COPY FROM STDIN, and the header.
BeginCopy ==
    /\ Goto("copy", IF table = NoTable THEN "failed" ELSE "rows")
    /\ UNCHANGED <<file, tries, oks, copy, table>>

Encodable(r) == \A c \in DOMAIN Schema : Rows[r][c] = -1 \/ Schema[c] \in Importable

\* buf.len() > 8192
Overfull(b) == BufSize(b) > FlushAt

EncodeTo(then) ==
    /\ next <= Len(Rows)
    /\ Encodable(next)
    /\ Goto("rows", then)
    /\ buf' = Append(buf, next)
    /\ next' = next + 1
    /\ UNCHANGED <<file, tries, oks, sent, table>>

\* Wrong variant: the size is looked at when a batch has been encoded.
EncodeRowFlushLate ==
    EncodeTo(IF next % BatchSize = 0 /\ Overfull(Append(buf, next)) THEN "flush" ELSE "rows")

EncodeRow == EncodeTo(IF Overfull(Append(buf, next)) THEN "flush" ELSE "rows")

\* Wrong variant: such a row ends the loop, and the COPY is finished.
UnsupportedValueEndsLoop ==
    /\ pc = "rows"
    /\ next <= Len(Rows)
    /\ ~Encodable(next)
    /\ pc' = "finish"
    /\ sent' = sent \o buf
    /\ UNCHANGED <<file, tries, oks, next, buf, table>>

\* A value of a type the match does not know; NULL is looked for before.
UnsupportedValue ==
    /\ pc = "rows"
    /\ next <= Len(Rows)
    /\ ~Encodable(next)
    /\ pc' = "failed"
    /\ UNCHANGED <<file, tries, oks, copy, table>>

\* Wrong variant: a copy of buf is sent.
FlushKeeps ==
    /\ Goto("flush", "rows")
    /\ sent' = sent \o buf
    /\ UNCHANGED <<file, tries, oks, next, buf, table>>

Flush ==
    /\ Goto("flush", "rows")
    /\ sent' = sent \o buf
    /\ buf' = <<>>
    /\ UNCHANGED <<file, tries, oks, next, table>>

\* The stream has ended: the trailer goes with what is left in buf.
SendTrailer ==
    /\ next > Len(Rows)
    /\ Goto("rows", "finish")
    /\ sent' = sent \o buf
    /\ buf' = <<>>
    /\ UNCHANGED <<file, tries, oks, next, table>>

\* finish(): the server takes the rows, then says so.
Commit ==
    /\ Goto("finish", "reply")
    /\ table' = table \o sent
    /\ UNCHANGED <<file, tries, oks, copy>>

Reply ==
    /\ Goto("reply", "ok")
    /\ oks' = oks + 1
    /\ UNCHANGED <<file, tries, copy, table>>

\* Wrong variant: the result of finish() is dropped.
RefusedIgnored ==
    /\ Faults
    /\ Goto("finish", "ok")
    /\ oks' = oks + 1
    /\ UNCHANGED <<file, tries, copy, table>>

\* A row that a constraint forbids, or that is not binary data of its column.
Refused ==
    /\ Faults
    /\ Goto("finish", "failed")
    /\ UNCHANGED <<file, tries, oks, copy, table>>

\* The next batch cannot be read; an error return drops the COPY.
ReadFails ==
    /\ Faults
    /\ next % BatchSize = 1 % BatchSize
    /\ Goto("rows", "failed")
    /\ UNCHANGED <<file, tries, oks, copy, table>>

\* A statement or send() fails, or the answer to finish() is lost.
Fail ==
    /\ Faults
    /\ pc \in {"ddl", "copy", "flush", "reply"}
    /\ pc' = "failed"
    /\ UNCHANGED <<file, tries, oks, copy, table>>

Next ==
    \/ Run \/ CreateTable \/ BeginCopy
    \/ EncodeRow \/ UnsupportedValue \/ Flush \/ SendTrailer
    \/ Commit \/ Reply \/ Refused \/ ReadFails \/ Fail

Spec == Init /\ [][Next]_vars

-----------------------------------------------------------------------------
(* Properties.                                                              *)

\* The table only ever gains the whole file, in its order: no failure leaves a
\* part of it behind (import.rs:46-122).
RowsComeWhole ==
    [][table' # table =>
          \/ table = NoTable /\ table' = <<>>
          \/ table # NoTable /\ table' = table \o FirstRows(Len(Rows))]_vars

\* The file is in the table once for each success, and once more at most for
\* each failure: one whose answer was lost cannot be told from one that left
\* nothing, and running the command again doubles the rows (import.rs:122).
OncePerSuccess ==
    LET copies == IF table = NoTable THEN 0 ELSE Len(table)
    IN  /\ copies >= oks * Len(Rows)
        /\ copies <= tries * Len(Rows)

\* What was sent and what is in buf are the rows that were encoded, each once
\* and in order (import.rs:114-121).
SentInOrder ==
    pc \in {"rows", "flush"} => sent \o buf = FirstRows(next - 1)

\* The memory a restore needs does not grow with the file: buf is longer than
\* FlushAt by one row at most, and is sent before another is encoded
\* (import.rs:114-116).
BufBounded ==
    /\ pc = "rows" => ~Overfull(buf)
    /\ pc = "flush" => ~Overfull(SubSeq(buf, 1, Len(buf) - 1))

=============================================================================
