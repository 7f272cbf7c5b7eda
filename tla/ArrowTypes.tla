----------------------------- MODULE ArrowTypes -----------------------------
(***************************************************************************)
(* The type mappings of src/postg-arrow: which PostgreSQL types a dump      *)
(* accepts and the Arrow type it gives them, which Arrow types a restore    *)
(* can create a column for, and which ones the two coders handle.  Time     *)
(* units, time zones and decimal scales are left out; "TimestampTz" is      *)
(* Timestamp(_, Some(_)).                                                   *)
(***************************************************************************)
EXTENDS Integers

\* pg_type_enum_to_arrow; a type that is not in the domain is refused.
PgToArrow ==
    [INT2 |-> "Int16", INT4 |-> "Int32", INT8 |-> "Int64",
     FLOAT4 |-> "Float32", FLOAT8 |-> "Float64", BOOL |-> "Boolean",
     BYTEA |-> "LargeBinary",
     TEXT |-> "LargeUtf8", VARCHAR |-> "LargeUtf8",
     DATE |-> "LargeUtf8", TIME |-> "LargeUtf8",
     TIMESTAMP |-> "LargeUtf8", TIMESTAMPTZ |-> "LargeUtf8",
     NUMERIC |-> "LargeUtf8", UUID |-> "LargeUtf8",
     JSON |-> "LargeUtf8", JSONB |-> "LargeUtf8"]

\* arrow_to_pg_type
ArrowToPg ==
    [Int16 |-> "INT2", Int32 |-> "INT4", Int64 |-> "INT8",
     Float32 |-> "FLOAT4", Float64 |-> "FLOAT8", Boolean |-> "BOOL",
     Utf8 |-> "TEXT", LargeUtf8 |-> "TEXT",
     Binary |-> "BYTEA", LargeBinary |-> "BYTEA",
     Date32 |-> "DATE", Time64 |-> "TIME",
     Timestamp |-> "TIMESTAMP", TimestampTz |-> "TIMESTAMPTZ",
     Decimal128 |-> "NUMERIC"]

\* The Arrow types with a fixed number of bytes in the COPY stream.
FixedWidth ==
    [Int16 |-> 2, Int32 |-> 4, Int64 |-> 8, Float32 |-> 4, Float64 |-> 8, Boolean |-> 1]

\* ColumnBuilder::new_from_datatype
Builders == DOMAIN FixedWidth \cup {"LargeBinary", "LargeUtf8"}

\* Wrong variant: the variants with long offsets are forgotten.
ImportableShort == DOMAIN FixedWidth \cup {"Binary", "Utf8"}

\* The match of arrow_to_table.
Importable == Builders \cup {"Utf8"}

(***************************************************************************)
(* External: what PostgreSQL sends for a value in the binary format.  Only  *)
(* these types send the characters of the value; a date is a day number, a  *)
(* UUID sixteen raw bytes, a jsonb text with a version byte before it.      *)
(***************************************************************************)
SentAsText == {"TEXT", "VARCHAR", "JSON"}

\* The byte counts of a value, those of variable length cut to a few.
SentSizes(t) ==
    CASE t \in {"INT2"} -> {2}
      [] t \in {"INT4", "FLOAT4", "DATE"} -> {4}
      [] t \in {"INT8", "FLOAT8", "TIME", "TIMESTAMP", "TIMESTAMPTZ"} -> {8}
      [] t = "BOOL" -> {1}
      [] t = "UUID" -> {16}
      [] t = "NUMERIC" -> {8, 10}
      [] t = "JSONB" -> {1, 3}
      [] OTHER -> {0, 3}
=============================================================================
