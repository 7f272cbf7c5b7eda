------------------------------- MODULE Export -------------------------------
(***************************************************************************)
(* "postg dump --format parquet": query_to_arrow of                         *)
(* src/postg-arrow/src/export.rs, which decodes the binary COPY stream of a *)
(* query into Arrow batches, and the loop of main.rs that writes them into  *)
(* a Parquet file.                                                          *)
(*                                                                          *)
(* The stream comes in chunks cut anywhere.  It is a sequence of bytes, of  *)
(* which the first of each field stands for the field and the others are    *)
(* "rest"; the sizes are those of the protocol.  A value is known by its    *)
(* row and column, if it is not NULL or empty.  The table may change        *)
(* between the statement that gives the columns and the one that copies     *)
(* the rows.                                                                *)
(***************************************************************************)
EXTENDS ArrowTypes, SequencesExt

CONSTANTS
    Shapes,     \* the sequences of column types the query may have
    Altered,    \* TRUE: another session may change them before the COPY
    MaxRows,    \* at most so many rows
    BatchSize,  \* rows in a batch, 1000 in the code
    Faults      \* TRUE: the connection or the file may fail

ASSUME ExportAssumption ==
    /\ \A s \in Shapes : s \in Seq(STRING)
    /\ Altered \in BOOLEAN
    /\ MaxRows \in Nat
    /\ BatchSize \in Nat \ {0}
    /\ Faults \in BOOLEAN

VARIABLES
    pc,        \* where the dump is
    schema,    \* the Arrow types of the described columns
    shape,     \* the types of the columns that are copied
    rows,      \* rows[r][c]: the size of the value, -1 for NULL
    wire,      \* the COPY stream of those rows
    received,  \* bytes of it that have arrived
    consumed,  \* bytes of it taken out of buf
    header,    \* header_parsed
    builders,  \* builders[c]: the values appended since the last batch
    row_count,
    out,       \* the batches written to the file
    file       \* the Parquet file: "old", "partial" or "complete"

query == <<schema, shape, rows, wire>>
vars == <<pc, query, received, consumed, header, builders, row_count, out, file>>

Over == {"done", "failed", "panicked"}

\* The values that are not known by their place.
Null == <<0, 0>>
Empty == <<0, 1>>
Garbage == <<0, 2>>
Columns == UNION {DOMAIN s : s \in Shapes}
Cells == {Null, Empty, Garbage} \cup ((1..MaxRows) \X Columns)

TypeOK ==
    /\ pc \in {"describe", "copy", "create", "poll", "rows", "batch", "last_batch", "close"} \cup Over
    /\ schema \in Seq(Builders)
    /\ shape \in Shapes \cup {<<>>}
    /\ Len(rows) <= MaxRows
    /\ 0 <= consumed /\ consumed <= received /\ received <= Len(wire)
    /\ header \in BOOLEAN
    /\ builders \in Seq(Seq(Cells))
    /\ row_count \in 0..BatchSize
    /\ out \in Seq(Seq(Seq(Cells)))
    /\ file \in {"old", "partial", "complete"}

-----------------------------------------------------------------------------
(* The stream the server sends (external).                                  *)

HeaderSize == 19

Bytes(field, value, n) ==
    [k \in 1..n |-> [field |-> IF k = 1 THEN field ELSE "rest", value |-> value]]

ValueBytes(size, r, c) ==
    Bytes("len", size, 4) \o (IF size > 0 THEN Bytes("data", <<r, c>>, size) ELSE <<>>)

RowBytes(row, r) ==
    Bytes("count", Len(row), 2)
    \o FlattenSeq([c \in DOMAIN row |-> ValueBytes(row[c], r, c)])

Stream(rs) ==
    Bytes("header", 0, HeaderSize)
    \o FlattenSeq([r \in DOMAIN rs |-> RowBytes(rs[r], r)])
    \o Bytes("count", -1, 2)

RowsOf(s) == {row \in [DOMAIN s -> -1..16] :
                 \A c \in DOMAIN s : row[c] \in SentSizes(s[c]) \cup {-1}}

-----------------------------------------------------------------------------
(* buf: the bytes that have arrived and were not taken out.                 *)

Avail == received - consumed

At(offset) == wire[consumed + offset + 1]

\* Wrong variant: an off-by-one.
BeyondPlusOne(offset) == offset > Avail + 1

Beyond(offset) == offset > Avail

Short == -1

\* Scan(n)[k]: the offset behind the k-th of the n values of the row at the
\* head of buf, Short if buf does not hold it.
Scan(n) ==
    LET end[k \in 0..n] ==
          IF k = 0 THEN 2
          ELSE IF end[k - 1] = Short \/ Beyond(end[k - 1] + 4) THEN Short
          ELSE LET len == At(end[k - 1]).value
                   next == end[k - 1] + 4 + Max({len, 0})
               IN  IF len > 0 /\ Beyond(next) THEN Short ELSE next
    IN  end

NumCols == At(0).value

AtTrailer == Avail >= 2 /\ NumCols = -1

AtRow == Avail >= 2 /\ NumCols # -1 /\ Scan(NumCols)[NumCols] # Short

\* The length of value c of the row at the head of buf, and its data.
ColLen(c) == At(Scan(NumCols)[c - 1]).value
ColData(c) == At(Scan(NumCols)[c - 1] + 4).value

\* A builders[i], get_i32, split_to or data[..w] out of range.
Panics(c) ==
    c \in DOMAIN builders /\ Scan(NumCols)[c] <= Avail =>
        /\ schema[c] \in DOMAIN FixedWidth
        /\ ColLen(c) \in 0..(FixedWidth[schema[c]] - 1)

\* The column still has the type it was described with.
SameType(c) == shape[c] \in DOMAIN PgToArrow /\ schema[c] = PgToArrow[shape[c]]

\* The bytes in a text column are not those of a text.
NotText(c) == schema[c] = "LargeUtf8" /\ ColLen(c) > 0 /\ shape[c] \notin SentAsText

\* What is appended for value c.
Value(c) ==
    IF ColLen(c) = -1 THEN Null
    ELSE IF ~SameType(c) \/ NotText(c) THEN Garbage
    ELSE IF ColLen(c) = 0 THEN Empty
    ELSE ColData(c)

-----------------------------------------------------------------------------
(* query_to_arrow, up to the stream it returns.                             *)

Init ==
    /\ pc = "describe"
    /\ schema = <<>> /\ shape = <<>> /\ rows = <<>> /\ wire = <<>>
    /\ received = 0 /\ consumed = 0
    /\ header = FALSE
    /\ builders = <<>> /\ row_count = 0
    /\ out = <<>>
    /\ file = "old"

Goto(from, to) ==
    /\ pc = from
    /\ pc' = to

decoder == <<received, consumed, header, builders, row_count>>

Describe ==
    \E s \in Shapes :
        LET known == \A c \in DOMAIN s : s[c] \in DOMAIN PgToArrow
        IN  /\ Goto("describe", IF known THEN "copy" ELSE "failed")
            /\ schema' = IF known THEN [c \in DOMAIN s |-> PgToArrow[s[c]]] ELSE <<>>
            /\ shape' = s
            /\ UNCHANGED <<rows, wire, decoder, out, file>>

\* The COPY sees the columns as they are by now.
Copy ==
    /\ Goto("copy", "create")
    /\ \E s \in IF Altered THEN Shapes ELSE {shape}, n \in 0..MaxRows :
          /\ shape' = s
          /\ rows' \in [1..n -> RowsOf(s)]
    /\ wire' = Stream(rows')
    /\ UNCHANGED <<schema, decoder, out, file>>

-----------------------------------------------------------------------------
(* The loop of main.rs, and the stream it polls.                            *)

NewBuilders == [c \in DOMAIN schema |-> <<>>]

\* File::create truncates what an earlier dump wrote.  The builders are made
\* when the stream is polled for the first time.
Create ==
    /\ Goto("create", IF \A c \in DOMAIN schema : schema[c] \in Builders
                      THEN "poll" ELSE "failed")
    /\ file' = "partial"
    /\ builders' = NewBuilders
    /\ UNCHANGED <<query, received, consumed, header, row_count, out>>

\* A chunk is put behind buf; the header is taken out once it is all there.
Chunk ==
    /\ pc = "poll"
    /\ \E n \in 1..(Len(wire) - received) : received' = received + n
    /\ header' = (header \/ received' - consumed >= HeaderSize)
    /\ consumed' = IF ~header /\ header' THEN consumed + HeaderSize ELSE consumed
    /\ pc' = IF header' THEN "rows" ELSE "poll"
    /\ UNCHANGED <<query, builders, row_count, out, file>>

NeedMore ==
    /\ pc = "rows"
    /\ ~AtRow /\ ~AtTrailer
    /\ pc' = "poll"
    /\ UNCHANGED <<query, decoder, out, file>>

\* Wrong variant: the trailer stays in buf, and the loop goes on.
TrailerStays ==
    /\ pc = "rows"
    /\ AtTrailer
    /\ UNCHANGED vars

Trailer ==
    /\ pc = "rows"
    /\ AtTrailer
    /\ pc' = "poll"
    /\ consumed' = consumed + 2
    /\ UNCHANGED <<query, received, header, builders, row_count, out, file>>

\* The row at the head of buf goes into the builders.
AppendRow(next) ==
    /\ Goto("rows", next)
    /\ AtRow
    /\ \A c \in 1..NumCols : ~Panics(c)
    /\ builders' = [c \in DOMAIN builders |->
                       IF c <= NumCols THEN Append(builders[c], Value(c)) ELSE builders[c]]
    /\ consumed' = consumed + Scan(NumCols)[NumCols]
    /\ row_count' = row_count + 1
    /\ UNCHANGED <<query, received, header, out, file>>

\* Wrong variant: a batch is full with the row after the last.
DecodeRowLate == AppendRow(IF row_count >= BatchSize THEN "batch" ELSE "rows")

DecodeRow == AppendRow(IF row_count + 1 >= BatchSize THEN "batch" ELSE "rows")

\* from_utf8 may accept such bytes, or refuse them.
BadText ==
    /\ pc = "rows"
    /\ AtRow
    /\ \E c \in 1..NumCols : (\A b \in 1..c : ~Panics(b)) /\ NotText(c)
    /\ pc' = "failed"
    /\ UNCHANGED <<query, decoder, out, file>>

Panic ==
    /\ pc = "rows"
    /\ AtRow
    /\ \E c \in 1..NumCols : Panics(c)
    /\ pc' = "panicked"
    /\ UNCHANGED <<query, decoder, out, file>>

\* RecordBatch::try_new: at least one column, one for each field, all of the
\* same length.
ValidBatch(arrays) ==
    /\ Len(arrays) = Len(schema) /\ arrays # <<>>
    /\ \A c \in DOMAIN arrays : Len(arrays[c]) = Len(arrays[1])

\* Wrong variant: the builders are not replaced.
WriteBatchKeeps ==
    /\ Goto("batch", "rows")
    /\ out' = Append(out, builders)
    /\ row_count' = 0
    /\ UNCHANGED <<query, received, consumed, header, builders, file>>

\* The arrays of a full batch: as many as the row before had columns.
WriteBatch ==
    /\ pc = "batch"
    /\ LET width == Len(rows[1])
           arrays == SubSeq(builders, 1, width)
       IN  IF ValidBatch(arrays)
           THEN /\ out' = Append(out, arrays)
                /\ builders' = NewBuilders
                /\ row_count' = 0
                /\ pc' = "rows"
           ELSE /\ pc' = "failed"
                /\ UNCHANGED <<out, builders, row_count>>
    /\ UNCHANGED <<query, received, consumed, header, file>>

EndOfStream ==
    /\ pc = "poll"
    /\ received = Len(wire)
    /\ pc' = IF row_count > 0 THEN "last_batch" ELSE "close"
    /\ UNCHANGED <<query, decoder, out, file>>

WriteLastBatch ==
    /\ Goto("last_batch", IF ValidBatch(builders) THEN "close" ELSE "failed")
    /\ out' = IF ValidBatch(builders) THEN Append(out, builders) ELSE out
    /\ builders' = NewBuilders
    /\ UNCHANGED <<query, received, consumed, header, row_count, file>>

\* Wrong variant: an error of the stream ends the loop like its end.
StreamErrorIsEnd ==
    /\ Faults
    /\ pc \notin Over
    /\ pc' = IF pc = "poll" THEN "close" ELSE "failed"
    /\ UNCHANGED <<query, decoder, out, file>>

\* Any statement, chunk or write may fail; `?` ends the dump.
Fail ==
    /\ Faults
    /\ pc \notin Over \cup {"rows"}
    /\ pc' = "failed"
    /\ UNCHANGED <<query, decoder, out, file>>

\* close() writes the footer, without which the file cannot be read.
Close ==
    /\ Goto("close", "done")
    /\ file' = "complete"
    /\ UNCHANGED <<query, decoder, out>>

Step ==
    \/ Describe \/ Copy \/ Create
    \/ Chunk \/ NeedMore \/ Trailer \/ DecodeRow \/ BadText \/ Panic
    \/ WriteBatch \/ EndOfStream \/ WriteLastBatch \/ Close

Next == Step \/ Fail

Spec == Init /\ [][Next]_vars

-----------------------------------------------------------------------------
(* Properties.                                                              *)

\* The values of a column of the file, over all batches.
Written(c) == FlattenSeq([b \in DOMAIN out |-> out[b][c]])

\* The values of column c that were written or wait in the builders.
Column(c) == Written(c) \o builders[c]

Expected(r, c) ==
    IF rows[r][c] = -1 THEN Null ELSE IF rows[r][c] = 0 THEN Empty ELSE <<r, c>>

\* However the stream is cut, every column holds the values of the first rows,
\* each once, in order and in its own column, if it is copied as it was
\* described and sent as what it is mapped to (export.rs:96-205).
RowsInOrder ==
    \A c \in DOMAIN builders \cap DOMAIN shape :
        SameType(c) /\ (schema[c] = "LargeUtf8" => shape[c] \in SentAsText) =>
            /\ Len(Column(c)) <= Len(rows)
            /\ \A r \in DOMAIN Column(c) : Column(c)[r] = Expected(r, c)

\* A file that can be read is the old one, or has all rows in all the columns
\* that were described, also when the connection fails or the table gains or
\* loses columns before the COPY, unless it loses them all
\* (export.rs:74-86, main.rs:151-158).
WholeOrUnreadable ==
    file = "complete" /\ rows # [r \in DOMAIN rows |-> <<>>] =>
        /\ Len(rows[1]) = Len(schema)
        /\ \A c \in DOMAIN schema : Len(Written(c)) = Len(rows)

\* The decoder reads or slices out of range only when the copied columns are
\* not those that were described (export.rs:118-181).
PanicNeedsAlter ==
    pc = "panicked" => Len(shape) # Len(schema) \/ \E c \in DOMAIN shape : ~SameType(c)

\* A text column holds the text of each value (types.rs:16-22).
TextIsText ==
    \A c \in DOMAIN builders : \A r \in DOMAIN builders[c] : builders[c][r] # Garbage

=============================================================================
