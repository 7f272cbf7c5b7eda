--------------------------- MODULE RoundTripProofs ---------------------------
(***************************************************************************)
(* Theorems about Export and RoundTrip, for any table, any batch size and   *)
(* any way to cut the stream into chunks.                                   *)
(*                                                                          *)
(* The argument about Export: whenever the decoder looks at buf, what it    *)
(* has taken out of it ends where a row ends, so that the count, the        *)
(* lengths and the data it reads are those of the next row (Progress); and  *)
(* a scan that has all its bytes finds the places of exactly that row's     *)
(* values (ScanFinds).  So a file that can be read holds what was copied,   *)
(* and a restore of it delivers that in one step (Restored).                *)
(***************************************************************************)
EXTENDS RoundTrip, SequenceFacts

-----------------------------------------------------------------------------
(* Where the rows and the values are in the stream.                         *)

RowParts(rs) == [r \in DOMAIN rs |-> RowBytes(rs[r], r)]

\* The place behind the n-th row.
RowAt(rs, n) == HeaderSize + Offset(RowParts(rs), n)

ValueParts(row, r) == [c \in DOMAIN row |-> ValueBytes(row[c], r, c)]

\* The place in row r behind its c-th value.
ColAt(row, r, c) == 2 + Offset(ValueParts(row, r), c)

Fields == {"header", "count", "len", "data", "rest"}

Known == Int \cup (Nat \X Nat)

Atoms == [field : Fields, value : Known]

LEMMA KnownValues ==
    /\ \A i \in Int : i \in Known
    /\ \A r, c \in Nat : <<r, c>> \in Known
  BY DEF Known

LEMMA KnownFields ==
    "header" \in Fields /\ "count" \in Fields /\ "len" \in Fields /\ "data" \in Fields
  BY DEF Fields

LEMMA MaxWithZero ==
    ASSUME NEW size \in Int
    PROVE  Max({size, 0}) = (IF size > 0 THEN size ELSE 0)
<1>1. \E m \in {size, 0} : \A k \in {size, 0} : m >= k
  OBVIOUS
<1>2. Max({size, 0}) \in {size, 0} /\ \A k \in {size, 0} : Max({size, 0}) >= k
  BY <1>1 DEF Max
<1>3. QED
  BY <1>2

LEMMA BytesFacts ==
    ASSUME NEW field \in Fields, NEW value \in Known, NEW n \in Nat
    PROVE  /\ Bytes(field, value, n) \in Seq(Atoms)
           /\ Len(Bytes(field, value, n)) = n
           /\ n # 0 => Bytes(field, value, n)[1].value = value
<1>1. \A k \in 1..n : [field |-> IF k = 1 THEN field ELSE "rest", value |-> value] \in Atoms
  BY DEF Atoms, Fields
<1>2. QED
  BY <1>1 DEF Bytes

\* The fields of a row.
LEMMA LenBytes ==
    ASSUME NEW size \in Int
    PROVE  /\ Bytes("len", size, 4) \in Seq(Atoms)
           /\ Len(Bytes("len", size, 4)) = 4
           /\ Bytes("len", size, 4)[1].value = size
<1> DEFINE field == "len"
           n == 4
<1>1. size \in Known /\ field \in Fields /\ n \in Nat /\ n # 0
  BY KnownValues, KnownFields
<1> HIDE DEF field, n
<1>2. /\ Bytes(field, size, n) \in Seq(Atoms)
      /\ Len(Bytes(field, size, n)) = n
      /\ n # 0 => Bytes(field, size, n)[1].value = size
  BY <1>1, BytesFacts
<1>3. QED
  BY <1>1, <1>2 DEF field, n

LEMMA CountBytes ==
    ASSUME NEW count \in Int
    PROVE  /\ Bytes("count", count, 2) \in Seq(Atoms)
           /\ Len(Bytes("count", count, 2)) = 2
           /\ Bytes("count", count, 2)[1].value = count
<1> DEFINE field == "count"
           n == 2
<1>1. count \in Known /\ field \in Fields /\ n \in Nat /\ n # 0
  BY KnownValues, KnownFields
<1> HIDE DEF field, n
<1>2. /\ Bytes(field, count, n) \in Seq(Atoms)
      /\ Len(Bytes(field, count, n)) = n
      /\ n # 0 => Bytes(field, count, n)[1].value = count
  BY <1>1, BytesFacts
<1>3. QED
  BY <1>1, <1>2 DEF field, n

LEMMA DataBytes ==
    ASSUME NEW r \in Nat, NEW c \in Nat, NEW size \in Nat \ {0}
    PROVE  /\ Bytes("data", <<r, c>>, size) \in Seq(Atoms)
           /\ Len(Bytes("data", <<r, c>>, size)) = size
           /\ Bytes("data", <<r, c>>, size)[1].value = <<r, c>>
<1> DEFINE field == "data"
           value == <<r, c>>
<1>1. value \in Known /\ field \in Fields /\ size \in Nat /\ size # 0
  BY KnownValues, KnownFields
<1> HIDE DEF field, value
<1>2. /\ Bytes(field, value, size) \in Seq(Atoms)
      /\ Len(Bytes(field, value, size)) = size
      /\ size # 0 => Bytes(field, value, size)[1].value = value
  BY <1>1, BytesFacts
<1>3. QED
  BY <1>1, <1>2 DEF field, value

LEMMA ValueFacts ==
    ASSUME NEW size \in Int, NEW r \in Nat, NEW c \in Nat
    PROVE  /\ ValueBytes(size, r, c) \in Seq(Atoms)
           /\ Len(ValueBytes(size, r, c)) = 4 + Max({size, 0})
           /\ ValueBytes(size, r, c)[1].value = size
           /\ size > 0 => ValueBytes(size, r, c)[5].value = <<r, c>>
<1> DEFINE l == Bytes("len", size, 4)
           d == Bytes("data", <<r, c>>, size)
<1>1. l \in Seq(Atoms) /\ Len(l) = 4 /\ l[1].value = size
  BY LenBytes
<1>2. CASE size > 0
  <2>1. d \in Seq(Atoms) /\ Len(d) = size /\ d[1].value = <<r, c>>
    <3>1. size \in Nat \ {0}
      BY <1>2
    <3>2. QED
      BY <3>1, DataBytes
  <2>2. ValueBytes(size, r, c) = l \o d
    BY <1>2 DEF ValueBytes
  <2> HIDE DEF l, d
  <2>3. l \o d \in Seq(Atoms) /\ Len(l \o d) = 4 + size
    BY <1>1, <2>1, ConcatType
  <2>4. (l \o d)[1] = l[1] /\ (l \o d)[5] = d[1]
    <3>0. l \in Seq(Atoms) /\ d \in Seq(Atoms)
      BY <1>1, <2>1
    <3>1. /\ \A i \in 1..Len(l) : (l \o d)[i] = l[i]
          /\ \A i \in 1..Len(d) : (l \o d)[Len(l) + i] = d[i]
      BY <3>0, ConcatAt
    <3>2. 1 \in 1..Len(l) /\ 1 \in 1..Len(d) /\ Len(l) + 1 = 5
      BY <1>1, <1>2, <2>1
    <3>3. QED
      BY <3>1, <3>2
  <2>5. Max({size, 0}) = size
    BY <1>2, MaxWithZero
  <2>6. QED
    BY <1>1, <1>2, <2>1, <2>2, <2>3, <2>4, <2>5
<1>3. CASE ~(size > 0)
  <2>1. l \o <<>> = l
    <3> HIDE DEF l
    <3>1. QED
      BY <1>1
  <2>2. ValueBytes(size, r, c) = l
    BY <1>3, <2>1 DEF ValueBytes
  <2> HIDE DEF l
  <2>3. QED
    BY <1>1, <1>3, <2>2, MaxWithZero
<1>4. QED
  BY <1>2, <1>3

LEMMA ValuePartsType ==
    ASSUME NEW row \in Seq(Int), NEW r \in Nat
    PROVE  /\ ValueParts(row, r) \in Seq(Seq(Atoms)) /\ Len(ValueParts(row, r)) = Len(row)
           /\ \A c \in 1..Len(row) : ValueParts(row, r)[c] = ValueBytes(row[c], r, c)
<1>1. DOMAIN row = 1..Len(row) /\ Len(row) \in Nat /\ \A c \in 1..Len(row) : row[c] \in Int
  OBVIOUS
<1>2. \A c \in 1..Len(row) : ValueBytes(row[c], r, c) \in Seq(Atoms)
  <2> SUFFICES ASSUME NEW c \in 1..Len(row) PROVE ValueBytes(row[c], r, c) \in Seq(Atoms)
    OBVIOUS
  <2>1. row[c] \in Int /\ c \in Nat
    BY <1>1
  <2>2. QED
    BY <2>1, ValueFacts
<1>3. QED
  BY <1>1, <1>2 DEF ValueParts

LEMMA RowFacts ==
    ASSUME NEW row \in Seq(Int), NEW r \in Nat
    PROVE  /\ RowBytes(row, r) \in Seq(Atoms)
           /\ RowBytes(row, r)[1].value = Len(row)
           /\ Len(RowBytes(row, r)) = ColAt(row, r, Len(row))
           /\ ColAt(row, r, 0) = 2
           /\ Len(RowBytes(row, r)) >= 2
<1> DEFINE h == Bytes("count", Len(row), 2)
           t == FlattenSeq(ValueParts(row, r))
<1>1. h \in Seq(Atoms) /\ Len(h) = 2 /\ h[1].value = Len(row)
  <2>1. Len(row) \in Int
    OBVIOUS
  <2>2. QED
    BY <2>1, CountBytes
<1>2. t \in Seq(Atoms) /\ Len(t) \in Nat
  BY ValuePartsType, FlattenType
<1>3. RowBytes(row, r) = h \o t
  BY DEF RowBytes, ValueParts
<1>4. Offset(ValueParts(row, r), 0) = 0 /\ Offset(ValueParts(row, r), Len(row)) = Len(t)
  BY ValuePartsType, OffsetEnds
<1> HIDE DEF h, t
<1>5. h \o t \in Seq(Atoms) /\ Len(h \o t) = 2 + Len(t) /\ (h \o t)[1] = h[1]
  <2>1. h \in Seq(Atoms) /\ t \in Seq(Atoms)
    BY <1>1, <1>2
  <2>2. h \o t \in Seq(Atoms) /\ Len(h \o t) = Len(h) + Len(t)
    BY <2>1, ConcatType
  <2>3. \A i \in 1..Len(h) : (h \o t)[i] = h[i]
    BY <2>1, ConcatAt
  <2>4. 1 \in 1..Len(h)
    BY <1>1
  <2>5. QED
    BY <1>1, <2>2, <2>3, <2>4
<1>6. QED
  BY <1>1, <1>2, <1>3, <1>4, <1>5 DEF ColAt

LEMMA ColFacts ==
    ASSUME NEW row \in Seq(Int), NEW r \in Nat, NEW c \in 0..(Len(row) - 1)
    PROVE  /\ ColAt(row, r, c) \in Nat /\ ColAt(row, r, c) >= 2
           /\ ColAt(row, r, c + 1) = ColAt(row, r, c) + 4 + Max({row[c + 1], 0})
           /\ ColAt(row, r, c + 1) <= Len(RowBytes(row, r))
           /\ RowBytes(row, r)[ColAt(row, r, c) + 1].value = row[c + 1]
           /\ row[c + 1] > 0 => RowBytes(row, r)[ColAt(row, r, c) + 5].value = <<r, c + 1>>
<1> DEFINE h == Bytes("count", Len(row), 2)
           v == ValueParts(row, r)
           t == FlattenSeq(v)
           o == Offset(v, c)
<1>0. Len(row) \in Nat /\ c + 1 \in 1..Len(row) /\ row[c + 1] \in Int
  OBVIOUS
<1>1. h \in Seq(Atoms) /\ Len(h) = 2
  <2>1. Len(row) \in Int
    OBVIOUS
  <2>2. QED
    BY <2>1, CountBytes
<1>2. v \in Seq(Seq(Atoms)) /\ Len(v) = Len(row) /\ v[c + 1] = ValueBytes(row[c + 1], r, c + 1)
  BY <1>0, ValuePartsType
<1> HIDE DEF v
<1>3. t \in Seq(Atoms)
  BY <1>2, FlattenType
<1>4. /\ o \in Nat /\ Offset(v, c + 1) = o + Len(v[c + 1]) /\ Offset(v, c + 1) <= Len(t)
      /\ \A i \in 1..Len(v[c + 1]) : t[o + i] = v[c + 1][i]
  <2>1. v \in Seq(Seq(Atoms)) /\ c \in 0..(Len(v) - 1)
    BY <1>2
  <2>2. QED
    BY <2>1, OffsetNext
<1>5. RowBytes(row, r) = h \o t
  BY DEF RowBytes, ValueParts, v
<1>6. ColAt(row, r, c) = 2 + o /\ ColAt(row, r, c + 1) = 2 + Offset(v, c + 1)
  BY DEF ColAt, v
<1>7. /\ Len(v[c + 1]) = 4 + Max({row[c + 1], 0})
      /\ v[c + 1][1].value = row[c + 1]
      /\ row[c + 1] > 0 => v[c + 1][5].value = <<r, c + 1>>
  <2> DEFINE m == c + 1
             size == row[m]
  <2>1. m \in Nat /\ size \in Int /\ v[m] = ValueBytes(size, r, m)
    BY <1>0, <1>2
  <2> HIDE DEF m, size
  <2>2. /\ Len(ValueBytes(size, r, m)) = 4 + Max({size, 0})
        /\ ValueBytes(size, r, m)[1].value = size
        /\ size > 0 => ValueBytes(size, r, m)[5].value = <<r, m>>
    <3>1. m \in Nat /\ size \in Int
      BY <2>1
    <3>2. QED
      BY <3>1, ValueFacts
  <2>3. QED
    BY <2>1, <2>2 DEF m, size
<1>8. Max({row[c + 1], 0}) = (IF row[c + 1] > 0 THEN row[c + 1] ELSE 0)
  BY <1>0, MaxWithZero
<1>t. Len(t) \in Nat
  BY <1>3
<1> HIDE DEF h, t, o
<1>9. Len(h \o t) = 2 + Len(t) /\ \A i \in 1..Len(t) : (h \o t)[2 + i] = t[i]
  <2>0. h \in Seq(Atoms) /\ t \in Seq(Atoms)
    BY <1>1, <1>3
  <2>1. Len(h \o t) = Len(h) + Len(t)
    BY <2>0, ConcatType
  <2>2. \A i \in 1..Len(t) : (h \o t)[Len(h) + i] = t[i]
    BY <2>0, ConcatAt
  <2>3. QED
    BY <1>1, <2>1, <2>2
<1> DEFINE size == row[c + 1]
           len == Len(v[c + 1])
           end == Offset(v, c + 1)
           whole == Len(t)
           at == ColAt(row, r, c)
           then == ColAt(row, r, c + 1)
           bytes == Len(RowBytes(row, r))
           zero == Max({size, 0})
<1>10. /\ size \in Int /\ len = 4 + zero /\ zero = (IF size > 0 THEN size ELSE 0)
       /\ o \in Nat /\ end = o + len /\ end <= whole /\ whole \in Nat
       /\ at = 2 + o /\ then = 2 + end /\ bytes = 2 + whole
  <2>1. size \in Int /\ len = 4 + zero /\ zero = (IF size > 0 THEN size ELSE 0)
    BY <1>0, <1>7, <1>8
  <2>2. o \in Nat /\ end = o + len /\ end <= whole
    BY <1>4
  <2>3. bytes = 2 + whole
    BY <1>5, <1>9
  <2> HIDE DEF size, len, end, whole, at, then, bytes, zero
  <2>4. whole \in Nat
    BY <1>t DEF whole
  <2>5. at = 2 + o /\ then = 2 + end
    BY <1>6 DEF at, then, end
  <2>6. QED
    BY <2>1, <2>2, <2>3, <2>4, <2>5
<1> HIDE DEF size, len, end, whole, at, then, bytes, zero
<1>11. /\ at \in Nat /\ at >= 2 /\ then = at + 4 + zero /\ then <= bytes
       /\ 1 \in 1..len /\ o + 1 \in 1..whole /\ at + 1 = 2 + (o + 1)
       /\ size > 0 => 5 \in 1..len /\ o + 5 \in 1..whole /\ at + 5 = 2 + (o + 5)
  BY <1>10
<1>12. \A i \in 1..len : t[o + i] = v[c + 1][i]
  BY <1>4 DEF len
<1>13. \A i \in 1..whole : (h \o t)[2 + i] = t[i]
  BY <1>9 DEF whole
<1>14. (h \o t)[at + 1].value = size
  <2>1. t[o + 1] = v[c + 1][1]
    BY <1>11, <1>12
  <2>2. (h \o t)[2 + (o + 1)] = t[o + 1]
    BY <1>11, <1>13
  <2>3. v[c + 1][1].value = size
    BY <1>7 DEF size
  <2>4. QED
    BY <1>11, <2>1, <2>2, <2>3
<1>15. ASSUME size > 0 PROVE (h \o t)[at + 5].value = <<r, c + 1>>
  <2>1. t[o + 5] = v[c + 1][5]
    BY <1>11, <1>12, <1>15
  <2>2. (h \o t)[2 + (o + 5)] = t[o + 5]
    BY <1>11, <1>13, <1>15
  <2>3. v[c + 1][5].value = <<r, c + 1>>
    BY <1>7, <1>15 DEF size
  <2>4. QED
    BY <1>11, <1>15, <2>1, <2>2, <2>3
<1>16. QED
  BY <1>5, <1>11, <1>14, <1>15 DEF size, at, then, bytes, zero

LEMMA HeaderBytes ==
    Bytes("header", 0, HeaderSize) \in Seq(Atoms) /\ Len(Bytes("header", 0, HeaderSize)) = HeaderSize
<1> DEFINE field == "header"
           value == 0
           n == HeaderSize
<1>1. value \in Known /\ field \in Fields /\ n \in Nat
  BY KnownValues, KnownFields DEF HeaderSize
<1> HIDE DEF field, value, n
<1>2. Bytes(field, value, n) \in Seq(Atoms) /\ Len(Bytes(field, value, n)) = n
  BY <1>1, BytesFacts
<1>3. QED
  BY <1>2 DEF field, value, n

LEMMA RowPartsType ==
    ASSUME NEW rs \in Seq(Seq(Int))
    PROVE  /\ RowParts(rs) \in Seq(Seq(Atoms)) /\ Len(RowParts(rs)) = Len(rs)
           /\ \A r \in 1..Len(rs) : RowParts(rs)[r] = RowBytes(rs[r], r)
<1>1. DOMAIN rs = 1..Len(rs) /\ Len(rs) \in Nat /\ \A r \in 1..Len(rs) : rs[r] \in Seq(Int)
  OBVIOUS
<1>2. ASSUME NEW r \in 1..Len(rs) PROVE RowBytes(rs[r], r) \in Seq(Atoms)
  <2>1. rs[r] \in Seq(Int) /\ r \in Nat
    BY <1>1
  <2>2. QED
    BY <2>1, RowFacts
<1>3. QED
  BY <1>1, <1>2 DEF RowParts

\* The stream is the header, the rows and the trailer.
LEMMA StreamFacts ==
    ASSUME NEW rs \in Seq(Seq(Int))
    PROVE  /\ Stream(rs) \in Seq(Atoms)
           /\ RowAt(rs, 0) = HeaderSize
           /\ RowAt(rs, Len(rs)) \in Nat /\ RowAt(rs, Len(rs)) >= HeaderSize
           /\ Len(Stream(rs)) = RowAt(rs, Len(rs)) + 2
           /\ Stream(rs)[RowAt(rs, Len(rs)) + 1].value = -1
           /\ \A i \in 1..Len(FlattenSeq(RowParts(rs))) :
                 Stream(rs)[HeaderSize + i] = FlattenSeq(RowParts(rs))[i]
<1> DEFINE h == Bytes("header", 0, HeaderSize)
           m == FlattenSeq(RowParts(rs))
           t == Bytes("count", -1, 2)
<1>1. h \in Seq(Atoms) /\ Len(h) = HeaderSize
  BY HeaderBytes
<1>2. m \in Seq(Atoms)
  BY RowPartsType, FlattenType
<1>3. t \in Seq(Atoms) /\ Len(t) = 2 /\ t[1].value = -1
  <2>1. -1 \in Int
    OBVIOUS
  <2>2. QED
    BY <2>1, CountBytes
<1>4. Stream(rs) = (h \o m) \o t
  BY DEF Stream, RowParts
<1>5. RowAt(rs, 0) = HeaderSize /\ RowAt(rs, Len(rs)) = HeaderSize + Len(m)
  BY RowPartsType, OffsetEnds DEF RowAt, HeaderSize
<1> HIDE DEF h, m, t
<1>6. Len(m) \in Nat /\ HeaderSize \in Nat
  BY <1>2 DEF HeaderSize
<1>h. h \in Seq(Atoms) /\ t \in Seq(Atoms)
  BY <1>1, <1>3
<1>7. h \o m \in Seq(Atoms) /\ Len(h \o m) = HeaderSize + Len(m)
  BY <1>1, <1>2, <1>h, ConcatType
<1>8. \A i \in 1..Len(m) : (h \o m)[Len(h) + i] = m[i]
  BY <1>2, <1>h, ConcatAt
<1> DEFINE p == h \o m
<1>9. p \in Seq(Atoms) /\ Len(p) = HeaderSize + Len(m)
  BY <1>7
<1>10. \A i \in 1..Len(m) : p[HeaderSize + i] = m[i]
  BY <1>1, <1>8
<1> HIDE DEF p
<1>11. p \o t \in Seq(Atoms) /\ Len(p \o t) = Len(p) + Len(t)
  BY <1>9, <1>h, ConcatType
<1>12. /\ \A i \in 1..Len(p) : (p \o t)[i] = p[i]
       /\ \A i \in 1..Len(t) : (p \o t)[Len(p) + i] = t[i]
  BY <1>9, <1>h, ConcatAt
<1>13. 1 \in 1..Len(t)
  BY <1>3
<1>14. (p \o t)[Len(p) + 1].value = -1
  BY <1>3, <1>12, <1>13
<1>15. ASSUME NEW i \in 1..Len(m) PROVE (p \o t)[HeaderSize + i] = m[i]
  <2>1. HeaderSize + i \in 1..Len(p)
    BY <1>6, <1>9
  <2>2. QED
    BY <1>10, <1>12, <2>1
<1>16. Stream(rs) = p \o t
  BY <1>4 DEF p
<1>17. RowAt(rs, Len(rs)) \in Nat /\ RowAt(rs, Len(rs)) >= HeaderSize
  BY <1>5, <1>6
<1>18. Len(Stream(rs)) = RowAt(rs, Len(rs)) + 2
  BY <1>3, <1>5, <1>9, <1>11, <1>16
<1>19. Stream(rs)[RowAt(rs, Len(rs)) + 1].value = -1
  BY <1>5, <1>9, <1>14, <1>16
<1>20. QED
  BY <1>5, <1>11, <1>15, <1>16, <1>17, <1>18, <1>19 DEF m

\* Where row n + 1 is in the stream.
LEMMA RowInStream ==
    ASSUME NEW rs \in Seq(Seq(Int)), NEW n \in 0..(Len(rs) - 1)
    PROVE  /\ RowAt(rs, n) \in Nat /\ RowAt(rs, n) >= HeaderSize
           /\ RowAt(rs, n + 1) = RowAt(rs, n) + Len(RowBytes(rs[n + 1], n + 1))
           /\ RowAt(rs, n + 1) + 2 <= Len(Stream(rs))
           /\ \A i \in 1..Len(RowBytes(rs[n + 1], n + 1)) :
                 Stream(rs)[RowAt(rs, n) + i] = RowBytes(rs[n + 1], n + 1)[i]
<1> DEFINE ps == RowParts(rs)
           m == FlattenSeq(ps)
           x == RowBytes(rs[n + 1], n + 1)
           o == Offset(ps, n)
           w == Stream(rs)
<1>0. n + 1 \in 1..Len(rs) /\ Len(rs) \in Nat /\ HeaderSize \in Nat
  BY DEF HeaderSize
<1>1. ps \in Seq(Seq(Atoms)) /\ Len(ps) = Len(rs) /\ ps[n + 1] = x
  BY <1>0, RowPartsType
<1>2. m \in Seq(Atoms) /\ Len(m) \in Nat
  <2>1. m \in Seq(Atoms)
    BY <1>1, FlattenType
  <2>2. QED
    BY <2>1
<1>3. /\ Len(w) = HeaderSize + Len(m) + 2
      /\ \A i \in 1..Len(m) : w[HeaderSize + i] = m[i]
  <2>1. RowAt(rs, Len(rs)) = HeaderSize + Len(m)
    BY <1>1, OffsetEnds DEF RowAt
  <2>2. QED
    BY <2>1, StreamFacts
<1>4. RowAt(rs, n) = HeaderSize + o /\ RowAt(rs, n + 1) = HeaderSize + Offset(ps, n + 1)
  BY DEF RowAt
<1> HIDE DEF ps, w
<1>5. /\ o \in Nat /\ Offset(ps, n + 1) = o + Len(ps[n + 1])
      /\ Offset(ps, n + 1) <= Len(m)
      /\ \A i \in 1..Len(ps[n + 1]) : m[o + i] = ps[n + 1][i]
  <2>1. n \in 0..(Len(ps) - 1)
    BY <1>1
  <2>2. QED
    BY <1>1, <2>1, OffsetNext
<1>6. Len(x) \in Nat
  BY <1>0, RowFacts
<1> HIDE DEF m, x, o
<1>7. ASSUME NEW i \in 1..Len(x) PROVE w[RowAt(rs, n) + i] = x[i]
  <2>1. o + i \in 1..Len(m) /\ RowAt(rs, n) + i = HeaderSize + (o + i)
    BY <1>0, <1>1, <1>2, <1>4, <1>5, <1>6
  <2>2. w[HeaderSize + (o + i)] = m[o + i]
    BY <1>3, <2>1
  <2>3. QED
    BY <1>1, <1>5, <2>1, <2>2
<1>8. /\ RowAt(rs, n) \in Nat /\ RowAt(rs, n) >= HeaderSize
      /\ RowAt(rs, n + 1) = RowAt(rs, n) + Len(x)
      /\ RowAt(rs, n + 1) + 2 <= Len(w)
  BY <1>0, <1>1, <1>2, <1>3, <1>4, <1>5, <1>6
<1>9. QED
  BY <1>7, <1>8 DEF w, x

-----------------------------------------------------------------------------
(* What the decoder reads of the row at the head of buf.                    *)

\* The fields of the next row are at the places of its values.
LEMMA NextRow ==
    ASSUME rows \in Seq(Seq(Int)), wire = Stream(rows),
           NEW n \in 0..(Len(rows) - 1), consumed = RowAt(rows, n)
    PROVE  /\ NumCols = Len(rows[n + 1])
           /\ ColAt(rows[n + 1], n + 1, 0) = 2
           /\ consumed + ColAt(rows[n + 1], n + 1, Len(rows[n + 1])) = RowAt(rows, n + 1)
           /\ \A c \in 0..(Len(rows[n + 1]) - 1) :
                 /\ At(ColAt(rows[n + 1], n + 1, c)).value = rows[n + 1][c + 1]
                 /\ rows[n + 1][c + 1] > 0 =>
                       At(ColAt(rows[n + 1], n + 1, c) + 4).value = <<n + 1, c + 1>>
<1> DEFINE r == n + 1
           row == rows[r]
           x == RowBytes(row, r)
<1>0. r \in Nat /\ row \in Seq(Int) /\ n + 1 = r
  OBVIOUS
<1> HIDE DEF r, row
<1>1. /\ consumed \in Nat /\ RowAt(rows, r) = consumed + Len(x)
      /\ \A i \in 1..Len(x) : wire[consumed + i] = x[i]
  BY RowInStream DEF r, row
<1>2. /\ x[1].value = Len(row) /\ Len(x) = ColAt(row, r, Len(row))
      /\ ColAt(row, r, 0) = 2 /\ Len(x) >= 2
  BY <1>0, RowFacts
<1>3. Len(x) \in Nat
  <2>1. x \in Seq(Atoms)
    BY <1>0, RowFacts
  <2>2. QED
    BY <2>1
<1> HIDE DEF x
<1>4. \A i \in 0..(Len(x) - 1) : At(i) = x[i + 1]
  BY <1>1, <1>3 DEF At
<1>5. NumCols = Len(row)
  <2>1. 0 \in 0..(Len(x) - 1) /\ x[0 + 1] = x[1]
    BY <1>2, <1>3
  <2>2. At(0) = x[1]
    BY <1>4, <2>1
  <2>3. QED
    BY <1>2, <2>2 DEF NumCols
<1>6. ASSUME NEW c \in 0..(Len(row) - 1)
      PROVE  /\ At(ColAt(row, r, c)).value = row[c + 1]
             /\ row[c + 1] > 0 => At(ColAt(row, r, c) + 4).value = <<r, c + 1>>
  <2> DEFINE e == ColAt(row, r, c)
  <2>1. /\ e \in Nat /\ ColAt(row, r, c + 1) = e + 4 + Max({row[c + 1], 0})
        /\ ColAt(row, r, c + 1) <= Len(x)
        /\ x[e + 1].value = row[c + 1]
        /\ row[c + 1] > 0 => x[e + 5].value = <<r, c + 1>>
    BY <1>0, ColFacts DEF x
  <2>2. row[c + 1] \in Int
    BY <1>0
  <2> HIDE DEF e
  <2>3. Max({row[c + 1], 0}) = (IF row[c + 1] > 0 THEN row[c + 1] ELSE 0)
    BY <2>2, MaxWithZero
  <2>4. e \in 0..(Len(x) - 1) /\ (row[c + 1] > 0 => e + 4 \in 0..(Len(x) - 1) /\ (e + 4) + 1 = e + 5)
    BY <1>3, <2>1, <2>2, <2>3, SMTT(60)
  <2>5. QED
    BY <1>4, <2>1, <2>4 DEF e
<1>7. QED
  BY <1>1, <1>2, <1>5, <1>6 DEF r, row

IsScan(end, n) ==
    end = [k \in 0..n |->
              IF k = 0 THEN 2
              ELSE IF end[k - 1] = Short \/ Beyond(end[k - 1] + 4) THEN Short
              ELSE LET len == At(end[k - 1]).value
                       behind == end[k - 1] + 4 + Max({len, 0})
                   IN  IF len > 0 /\ Beyond(behind) THEN Short ELSE behind]

\* A scan finds the places behind the values that buf holds, and no others.
LEMMA ScanFinds ==
    ASSUME rows \in Seq(Seq(Int)), wire = Stream(rows),
           NEW n \in 0..(Len(rows) - 1), consumed = RowAt(rows, n),
           received \in Nat, Avail >= 2
    PROVE  \A k \in 0..Len(rows[n + 1]) :
              Scan(Len(rows[n + 1]))[k] =
                  IF ColAt(rows[n + 1], n + 1, k) <= Avail
                  THEN ColAt(rows[n + 1], n + 1, k) ELSE Short
<1> DEFINE r == n + 1
           row == rows[r]
           width == Len(row)
           e(k) == ColAt(row, r, k)
           f == [k \in 0..width |-> IF e(k) <= Avail THEN e(k) ELSE Short]
           Entry(g, k) ==
              IF k = 0 THEN 2
              ELSE IF g[k - 1] = Short \/ Beyond(g[k - 1] + 4) THEN Short
              ELSE LET len == At(g[k - 1]).value
                       behind == g[k - 1] + 4 + Max({len, 0})
                   IN  IF len > 0 /\ Beyond(behind) THEN Short ELSE behind
<1>0. r \in Nat /\ row \in Seq(Int) /\ width \in Nat
  OBVIOUS
<1>1. e(0) = 2 /\ \A c \in 0..(width - 1) : At(e(c)).value = row[c + 1]
  BY NextRow
<1>2. Avail \in Int
  <2>1. consumed \in Nat
    BY RowInStream
  <2>2. QED
    BY <2>1 DEF Avail
<1> HIDE DEF r, row, width
<1>3. ASSUME NEW c \in 0..(width - 1)
      PROVE  /\ e(c) \in Nat /\ e(c) >= 2
             /\ e(c + 1) = e(c) + 4 + Max({row[c + 1], 0})
  BY <1>0, ColFacts DEF width
<1> HIDE DEF e
<1>4. ASSUME NEW g, NEW k \in 0..width,
             k # 0 => g[k - 1] = IF e(k - 1) <= Avail THEN e(k - 1) ELSE Short
      PROVE  Entry(g, k) = IF e(k) <= Avail THEN e(k) ELSE Short
  <2>1. CASE k = 0
    BY <1>1, <2>1
  <2>2. CASE k # 0
    <3> DEFINE c == k - 1
               len == row[k]
               d == e(c)
    <3>1. c \in 0..(width - 1) /\ c + 1 = k
      BY <1>0, <2>2
    <3>2. len \in Int
      BY <1>0, <3>1 DEF width
    <3>3. d \in Nat /\ d >= 2 /\ e(k) = d + 4 + Max({len, 0}) /\ At(d).value = len
      <4>1. /\ e(c) \in Nat /\ e(c) >= 2
            /\ e(c + 1) = e(c) + 4 + Max({row[c + 1], 0})
        BY <1>3, <3>1
      <4>2. At(e(c)).value = row[c + 1]
        BY <1>1, <3>1
      <4>3. QED
        BY <3>1, <4>1, <4>2
    <3>4. Max({len, 0}) = (IF len > 0 THEN len ELSE 0)
      BY <3>2, MaxWithZero
    <3>5. g[k - 1] = IF d <= Avail THEN d ELSE Short
      BY <1>4, <2>2
    <3> HIDE DEF c, d, len
    <3>6. CASE d > Avail
      <4>1. g[k - 1] = Short /\ e(k) > Avail
        BY <1>2, <3>2, <3>3, <3>4, <3>5, <3>6
      <4>2. Entry(g, k) = Short
        BY <2>2, <4>1
      <4>3. ~(e(k) <= Avail)
        BY <1>2, <3>2, <3>3, <3>4, <4>1
      <4>4. QED
        BY <4>2, <4>3
    <3>7. CASE d <= Avail
      <4>1. g[k - 1] = d /\ d # Short
        BY <3>3, <3>5, <3>7 DEF Short
      <4>2. CASE d + 4 > Avail
        <5>1. Beyond(g[k - 1] + 4)
          BY <4>1, <4>2 DEF Beyond
        <5>2. Entry(g, k) = Short
          BY <2>2, <5>1
        <5>3. ~(e(k) <= Avail)
          BY <1>2, <3>2, <3>3, <3>4, <4>2
        <5>4. QED
          BY <5>2, <5>3
      <4>3. CASE ~(d + 4 > Avail)
        <5>1. ~Beyond(g[k - 1] + 4)
          BY <4>1, <4>3 DEF Beyond
        <5>2. Entry(g, k) = IF len > 0 /\ Beyond(e(k)) THEN Short ELSE e(k)
          BY <2>2, <3>3, <4>1, <5>1
        <5>3. (len > 0 /\ Beyond(e(k))) <=> ~(e(k) <= Avail)
          BY <1>2, <3>2, <3>3, <3>4, <4>3 DEF Beyond
        <5>4. QED
          BY <5>2, <5>3
      <4>4. QED
        BY <4>2, <4>3
    <3>8. d > Avail \/ d <= Avail
      BY <1>2, <3>3
    <3>9. QED
      BY <3>6, <3>7, <3>8
  <2>3. QED
    BY <2>1, <2>2
<1>5. \A g : IsScan(g, width) <=> g = [k \in 0..width |-> Entry(g, k)]
  BY DEF IsScan
<1> HIDE DEF Entry
<1>6. IsScan(f, width)
  <2>1. \A k \in 0..width : f[k] = Entry(f, k)
    <3> SUFFICES ASSUME NEW k \in 0..width PROVE f[k] = Entry(f, k)
      OBVIOUS
    <3>1. k # 0 => k - 1 \in 0..width
      BY <1>0
    <3>2. k # 0 => f[k - 1] = IF e(k - 1) <= Avail THEN e(k - 1) ELSE Short
      BY <3>1
    <3> HIDE DEF f
    <3>3. Entry(f, k) = IF e(k) <= Avail THEN e(k) ELSE Short
      BY <1>4, <3>2
    <3>4. QED
      BY <3>3 DEF f
  <2>2. f = [k \in 0..width |-> f[k]]
    OBVIOUS
  <2> HIDE DEF f
  <2>3. f = [k \in 0..width |-> Entry(f, k)]
    BY <2>1, <2>2
  <2>4. QED
    BY <1>5, <2>3
<1> DEFINE F == CHOOSE end : IsScan(end, width)
<1>7. IsScan(F, width)
  BY <1>6
<1>8. Scan(width) = F
  BY DEF Scan, IsScan
<1> HIDE DEF F
<1>9. \A k \in 0..width : F[k] = Entry(F, k)
  <2>1. F = [k \in 0..width |-> Entry(F, k)]
    BY <1>5, <1>7
  <2>2. QED
    BY <2>1
<1> DEFINE S == {k \in Nat : k <= width => F[k] = IF e(k) <= Avail THEN e(k) ELSE Short}
<1>10. 0 \in S
  <2>1. 0 \in 0..width
    BY <1>0
  <2>2. Entry(F, 0) = IF e(0) <= Avail THEN e(0) ELSE Short
    BY <1>4, <2>1
  <2>3. QED
    BY <1>9, <2>1, <2>2
<1>11. ASSUME NEW k \in Nat, k \in S PROVE k + 1 \in S
  <2> SUFFICES ASSUME k + 1 <= width
               PROVE  F[k + 1] = IF e(k + 1) <= Avail THEN e(k + 1) ELSE Short
    OBVIOUS
  <2> DEFINE m == k + 1
  <2>1. m \in 0..width /\ m # 0 /\ m - 1 = k /\ k <= width
    BY <1>0
  <2>2. F[k] = IF e(k) <= Avail THEN e(k) ELSE Short
    BY <1>11, <2>1
  <2> HIDE DEF m
  <2>3. F[m] = IF e(m) <= Avail THEN e(m) ELSE Short
    BY <1>4, <1>9, <2>1, <2>2
  <2>4. QED
    BY <2>3 DEF m
<1> HIDE DEF S
<1>12. Nat \subseteq S
  BY <1>10, <1>11, InductionOnSet
<1>13. \A k \in 0..width : F[k] = IF e(k) <= Avail THEN e(k) ELSE Short
  BY <1>0, <1>12 DEF S
<1>14. QED
  BY <1>8, <1>13 DEF width, row, r, e

\* There is a row, or the trailer, where there is one in the stream.
LEMMA HeadOfBuf ==
    ASSUME rows \in Seq(Seq(Int)), wire = Stream(rows), received \in 0..Len(wire),
           NEW n \in 0..Len(rows), consumed = RowAt(rows, n)
    PROVE  /\ consumed \in Nat
           /\ AtTrailer <=> n = Len(rows) /\ received = Len(wire)
           /\ n = Len(rows) => ~AtRow /\ Len(wire) = consumed + 2
           /\ n < Len(rows) => (AtRow <=> RowAt(rows, n + 1) <= received)
           /\ n < Len(rows) => RowAt(rows, n + 1) + 2 <= Len(wire)
<1>0. Len(rows) \in Nat /\ received \in Nat /\ received <= Len(wire) /\ Len(wire) \in Nat
  <2>1. wire \in Seq(Atoms)
    BY StreamFacts
  <2>2. QED
    BY <2>1
<1>1. CASE n = Len(rows)
  <2>1. consumed \in Nat /\ Len(wire) = consumed + 2 /\ wire[consumed + 1].value = -1
    BY <1>1, StreamFacts
  <2>2. NumCols = -1
    <3>1. consumed + 0 + 1 = consumed + 1
      BY <2>1
    <3>2. QED
      BY <2>1, <3>1 DEF NumCols, At
  <2>3. Avail >= 2 <=> received = Len(wire)
    BY <1>0, <2>1 DEF Avail
  <2>4. QED
    BY <1>0, <1>1, <2>1, <2>2, <2>3 DEF AtTrailer, AtRow
<1>2. CASE n < Len(rows)
  <2> DEFINE row == rows[n + 1]
             width == Len(row)
             e == ColAt(row, n + 1, width)
  <2>1. n \in 0..(Len(rows) - 1) /\ n # Len(rows)
    BY <1>0, <1>2
  <2>2. row \in Seq(Int) /\ width \in Nat
    BY <1>0, <2>1
  <2>3. NumCols = width /\ consumed + e = RowAt(rows, n + 1)
    BY <2>1, NextRow
  <2>4. consumed \in Nat /\ RowAt(rows, n + 1) + 2 <= Len(wire) /\ RowAt(rows, n + 1) \in Nat
        /\ RowAt(rows, n + 1) >= consumed + 2
    <3>1. Len(RowBytes(row, n + 1)) \in Nat /\ Len(RowBytes(row, n + 1)) >= 2
      <4>1. n + 1 \in Nat
        BY <2>1
      <4>2. RowBytes(row, n + 1) \in Seq(Atoms) /\ Len(RowBytes(row, n + 1)) >= 2
        BY <2>2, <4>1, RowFacts
      <4>3. QED
        BY <4>2
    <3>2. /\ RowAt(rows, n) \in Nat
          /\ RowAt(rows, n + 1) = RowAt(rows, n) + Len(RowBytes(rows[n + 1], n + 1))
          /\ RowAt(rows, n + 1) + 2 <= Len(Stream(rows))
      BY <2>1, RowInStream
    <3>3. QED
      BY <3>1, <3>2
  <2>5. ~AtTrailer
    BY <2>2, <2>3 DEF AtTrailer
  <2>6. Avail >= 2 => Scan(width)[width] = IF e <= Avail THEN e ELSE Short
    <3>1. width \in 0..width
      BY <2>2
    <3>2. QED
      BY <1>0, <2>1, <3>1, ScanFinds
  <2>7. e = RowAt(rows, n + 1) - consumed
    <3>1. Len(RowBytes(row, n + 1)) = e /\ Len(RowBytes(row, n + 1)) \in Nat
      <4>1. n + 1 \in Nat
        BY <2>1
      <4>2. RowBytes(row, n + 1) \in Seq(Atoms) /\ Len(RowBytes(row, n + 1)) = e
        BY <2>2, <4>1, RowFacts
      <4>3. QED
        BY <4>2
    <3>2. QED
      BY <2>3, <2>4, <3>1
  <2> HIDE DEF row, width, e
  <2>8. AtRow <=> Avail >= 2 /\ Scan(width)[width] # Short
    BY <2>2, <2>3 DEF AtRow
  <2>9. e \in Nat /\ e >= 2 /\ Avail = received - consumed /\ e # Short
    BY <2>4, <2>7 DEF Avail, Short
  <2>10. AtRow <=> RowAt(rows, n + 1) <= received
    <3>1. e <= Avail <=> RowAt(rows, n + 1) <= received
      BY <1>0, <2>4, <2>7, <2>9
    <3>2. e <= Avail => Avail >= 2
      BY <1>0, <2>4, <2>9
    <3>3. CASE e <= Avail
      BY <2>6, <2>8, <2>9, <3>1, <3>2, <3>3
    <3>4. CASE ~(e <= Avail)
      BY <2>6, <2>8, <3>1, <3>4
    <3>5. QED
      BY <3>3, <3>4
  <2>11. QED
    BY <2>1, <2>4, <2>5, <2>10
<1>3. n = Len(rows) \/ n < Len(rows)
  BY <1>0
<1>4. QED
  BY <1>1, <1>2, <1>3

\* What a row that is all there is read as.
LEMMA RowIsRead ==
    ASSUME rows \in Seq(Seq(Int)), wire = Stream(rows), received \in 0..Len(wire),
           NEW n \in 0..Len(rows), consumed = RowAt(rows, n), AtRow
    PROVE  /\ n + 1 \in 1..Len(rows) /\ n \in 0..(Len(rows) - 1)
           /\ NumCols = Len(rows[n + 1])
           /\ consumed + Scan(NumCols)[NumCols] = RowAt(rows, n + 1)
           /\ RowAt(rows, n + 1) <= received
           /\ RowAt(rows, n + 1) + 2 <= Len(wire)
           /\ \A c \in 1..Len(rows[n + 1]) :
                 /\ Scan(NumCols)[c] <= Avail
                 /\ ColLen(c) = rows[n + 1][c]
                 /\ rows[n + 1][c] > 0 => ColData(c) = <<n + 1, c>>
<1> DEFINE row == rows[n + 1]
           width == Len(row)
           e(k) == ColAt(row, n + 1, k)
<1>1. /\ n < Len(rows) /\ RowAt(rows, n + 1) <= received
      /\ RowAt(rows, n + 1) + 2 <= Len(wire) /\ consumed \in Nat
  <2>1. n = Len(rows) \/ n < Len(rows)
    OBVIOUS
  <2>2. QED
    BY <2>1, HeadOfBuf
<1>2. /\ n \in 0..(Len(rows) - 1) /\ n + 1 \in 1..Len(rows)
      /\ row \in Seq(Int) /\ width \in Nat /\ n + 1 \in Nat
  BY <1>1
<1>w. received \in Nat /\ Len(wire) \in Nat
  <2>1. wire \in Seq(Atoms)
    BY StreamFacts
  <2>2. QED
    BY <2>1
<1>3. /\ NumCols = width /\ e(0) = 2 /\ consumed + e(width) = RowAt(rows, n + 1)
      /\ \A c \in 0..(width - 1) :
            /\ At(e(c)).value = row[c + 1]
            /\ row[c + 1] > 0 => At(e(c) + 4).value = <<n + 1, c + 1>>
  BY <1>2, NextRow
<1>4. \A k \in 0..width : Scan(width)[k] = IF e(k) <= Avail THEN e(k) ELSE Short
  <2>1. Avail >= 2
    BY DEF AtRow
  <2>2. QED
    BY <1>2, <1>w, <2>1, ScanFinds
<1>5. e(width) <= Avail /\ \A k \in 0..width : e(k) \in Nat /\ e(k) <= e(width)
  <2> DEFINE x == RowBytes(row, n + 1)
  <2>1. x \in Seq(Atoms) /\ Len(x) = e(width)
    BY <1>2, RowFacts
  <2>2. e(width) \in Nat
    BY <2>1
  <2>3. e(width) <= Avail
    BY <1>1, <1>3, <1>w, <2>2 DEF Avail
  <2>4. ASSUME NEW k \in 0..width PROVE e(k) \in Nat /\ e(k) <= e(width)
    <3>1. CASE k = width
      BY <2>2, <3>1
    <3>2. CASE k # width
      <4>1. k \in 0..(width - 1) /\ row[k + 1] \in Int
        BY <1>2, <3>2
      <4>2. e(k) \in Nat /\ e(k + 1) = e(k) + 4 + Max({row[k + 1], 0}) /\ e(k + 1) <= Len(x)
        BY <1>2, <4>1, ColFacts
      <4>3. Max({row[k + 1], 0}) = (IF row[k + 1] > 0 THEN row[k + 1] ELSE 0)
        BY <4>1, MaxWithZero
      <4> HIDE DEF e, x, row
      <4>4. QED
        BY <2>1, <2>2, <4>1, <4>2, <4>3
    <3>3. QED
      BY <3>1, <3>2
  <2>5. QED
    BY <2>3, <2>4
<1> HIDE DEF row, width, e
<1>6. \A k \in 0..width : Scan(width)[k] = e(k) /\ e(k) <= Avail
  <2>1. Avail \in Int
    BY <1>1, <1>w DEF Avail
  <2>2. width \in 0..width
    BY <1>2
  <2>3. \A k \in 0..width : e(k) <= Avail
    BY <1>5, <2>1, <2>2
  <2>4. QED
    BY <1>4, <2>3
<1>7. ASSUME NEW c \in 1..width
      PROVE  /\ Scan(NumCols)[c] <= Avail
             /\ ColLen(c) = row[c]
             /\ row[c] > 0 => ColData(c) = <<n + 1, c>>
  <2>1. c - 1 \in 0..(width - 1) /\ c - 1 \in 0..width /\ c \in 0..width /\ (c - 1) + 1 = c
    BY <1>2
  <2>2. Scan(width)[c - 1] = e(c - 1) /\ Scan(width)[c] <= Avail
    BY <1>6, <2>1
  <2>3. /\ At(e(c - 1)).value = row[c]
        /\ row[c] > 0 => At(e(c - 1) + 4).value = <<n + 1, c>>
    BY <1>3, <2>1
  <2>4. QED
    BY <1>3, <2>2, <2>3 DEF ColLen, ColData
<1>8. consumed + Scan(NumCols)[NumCols] = RowAt(rows, n + 1)
  <2>1. width \in 0..width
    BY <1>2
  <2>2. QED
    BY <1>3, <1>6, <2>1
<1>9. QED
  BY <1>1, <1>2, <1>3, <1>7, <1>8 DEF width, row

-----------------------------------------------------------------------------
(* The invariant.                                                           *)

TextLike(c) == schema[c] = "LargeUtf8" => shape[c] \in SentAsText

\* Before the COPY nothing is known of the rows, and nothing is written.
Early ==
    /\ pc \in {"describe", "copy", "failed"}
    /\ rows = <<>> /\ wire = <<>> /\ received = 0 /\ consumed = 0
    /\ ~header
    /\ builders = <<>> /\ row_count = 0 /\ out = <<>> /\ file = "old"
    /\ pc = "copy" => shape \in Shapes

\* The decoder has taken the header and n rows out of the stream, or these and
\* the trailer, and nothing else.
Position(n) ==
    /\ received \in 0..Len(wire)
    /\ \/ /\ ~header /\ n = 0 /\ consumed = 0 /\ received < HeaderSize
          /\ pc \in {"create", "poll", "failed"}
       \/ /\ header /\ consumed = RowAt(rows, n) /\ consumed <= received
          /\ pc \in {"poll", "rows", "batch", "failed", "panicked"}
          /\ pc = "poll" => received < Len(wire)
       \/ /\ header /\ n = Len(rows) /\ consumed = Len(wire) /\ received = Len(wire)
          /\ pc \in {"poll", "last_batch", "close", "done", "failed"}

\* A batch that was written has a column for each that was described.
Batches ==
    /\ \A b \in DOMAIN out : Len(out[b]) = Len(schema)
    /\ out # <<>> /\ shape # <<>> => Len(shape) = Len(schema)

\* The values of the n rows are in the columns, as far as the copied rows have
\* them; a dump that has failed may have dropped the last of them.
Values(n) ==
    \A c \in DOMAIN builders :
        /\ Len(Column(c)) <= n
        /\ c \notin DOMAIN shape => Column(c) = <<>>
        /\ c \in DOMAIN shape =>
              /\ pc # "failed" => Len(Column(c)) = n
              /\ pc \notin {"failed", "close", "done"} => Len(builders[c]) = row_count
              /\ SameType(c) /\ TextLike(c) =>
                    \A r \in 1..Len(Column(c)) : Column(c)[r] = Expected(r, c)

Counted(n) ==
    /\ row_count \in 0..BatchSize /\ row_count <= n
    /\ pc \in {"poll", "rows"} => row_count < BatchSize
    /\ pc \in {"batch", "last_batch"} => row_count > 0
    /\ pc \in {"close", "done"} => \A c \in DOMAIN builders : builders[c] = <<>>

Progress(n) ==
    /\ pc \notin {"describe", "copy"}
    /\ wire = Stream(rows)
    /\ \/ builders = <<>> /\ out = <<>> /\ n = 0 /\ ~header /\ pc \in {"create", "failed"}
       \/ Len(builders) = Len(schema) /\ pc # "create"
    /\ n > 0 => Len(shape) <= Len(schema)
    /\ Position(n) /\ Batches /\ Values(n) /\ Counted(n)

Types ==
    /\ pc \in {"describe", "copy", "create", "poll", "rows", "batch", "last_batch", "close"} \cup Over
    /\ schema \in Seq(Builders)
    /\ shape \in Shapes \cup {<<>>}
    /\ rows \in Seq(RowsOf(shape)) /\ Len(rows) <= MaxRows
    /\ rows # <<>> => shape \in Shapes
    /\ header \in BOOLEAN
    /\ builders \in Seq(Seq(Cells))
    /\ out \in Seq(Seq(Seq(Cells)))
    /\ file \in {"old", "partial", "complete"}
    /\ file = "complete" => pc = "done"

IInv ==
    /\ Types
    /\ Early \/ \E n \in 0..Len(rows) : Progress(n)
    /\ PanicNeedsAlter

-----------------------------------------------------------------------------
(* What the invariant says of the rows, the stream and the columns.         *)

LEMMA RowTyped ==
    ASSUME NEW s \in Seq(STRING), NEW row \in RowsOf(s)
    PROVE  /\ row \in Seq(Int) /\ Len(row) = Len(s) /\ DOMAIN row = DOMAIN s
           /\ \A c \in DOMAIN s : row[c] \in -1..16 /\ row[c] \in SentSizes(s[c]) \cup {-1}
<1>1. Len(s) \in Nat /\ DOMAIN s = 1..Len(s)
  OBVIOUS
<1>2. row \in [DOMAIN s -> -1..16]
  BY DEF RowsOf
<1>3. \A c \in DOMAIN s : row[c] \in SentSizes(s[c]) \cup {-1}
  BY DEF RowsOf
<1>4. row \in [1..Len(s) -> Int]
  BY <1>1, <1>2
<1>5. row \in Seq(Int) /\ Len(row) = Len(s)
  BY <1>1, <1>4
<1>6. QED
  BY <1>2, <1>3, <1>5

LEMMA RowsTyped ==
    ASSUME NEW s \in Seq(STRING), NEW rs \in Seq(RowsOf(s))
    PROVE  rs \in Seq(Seq(Int)) /\ \A r \in 1..Len(rs) : rs[r] \in RowsOf(s)
<1>1. \A r \in 1..Len(rs) : rs[r] \in RowsOf(s)
  OBVIOUS
<1>2. \A r \in 1..Len(rs) : rs[r] \in Seq(Int)
  BY <1>1, RowTyped
<1>3. QED
  BY <1>1, <1>2, ElementsIn

LEMMA RowsAreNumbers ==
    ASSUME Types
    PROVE  /\ rows \in Seq(Seq(Int)) /\ Len(rows) \in Nat
           /\ Len(shape) \in Nat /\ DOMAIN shape = 1..Len(shape)
           /\ \A r \in 1..Len(rows) :
                 /\ Len(rows[r]) = Len(shape) /\ DOMAIN rows[r] = DOMAIN shape
                 /\ \A c \in DOMAIN shape :
                       /\ rows[r][c] \in -1..16
                       /\ rows[r][c] \in SentSizes(shape[c]) \cup {-1}
<1>1. shape \in Seq(STRING)
  BY ExportAssumption DEF Types
<1>2. Len(shape) \in Nat /\ DOMAIN shape = 1..Len(shape)
  BY <1>1
<1>3. rows \in Seq(RowsOf(shape)) /\ Len(rows) \in Nat
  BY DEF Types
<1>4. rows \in Seq(Seq(Int)) /\ \A r \in 1..Len(rows) : rows[r] \in RowsOf(shape)
  BY <1>1, <1>3, RowsTyped
<1>5. QED
  BY <1>1, <1>2, <1>3, <1>4, RowTyped

\* A type that is mapped to one of fixed width is sent with that width.
LEMMA FixedSize ==
    ASSUME NEW t \in DOMAIN PgToArrow, PgToArrow[t] \in DOMAIN FixedWidth
    PROVE  SentSizes(t) = {FixedWidth[PgToArrow[t]]}
<1>1. t \in {"INT2", "INT4", "INT8", "FLOAT4", "FLOAT8", "BOOL"}
  BY DEF PgToArrow, FixedWidth
<1>2. QED
  BY <1>1 DEF PgToArrow, FixedWidth, SentSizes

LEMMA PositionFacts ==
    ASSUME Types, NEW n \in 0..Len(rows), Progress(n)
    PROVE  /\ rows \in Seq(Seq(Int)) /\ wire = Stream(rows)
           /\ Len(wire) \in Nat /\ received \in Nat /\ received <= Len(wire)
           /\ RowAt(rows, 0) = HeaderSize /\ HeaderSize \in Nat
           /\ RowAt(rows, n) \in Nat /\ RowAt(rows, n) >= HeaderSize
           /\ RowAt(rows, n) + 2 <= Len(wire)
           /\ consumed \in Nat /\ consumed <= received
<1>1. rows \in Seq(Seq(Int)) /\ Len(rows) \in Nat /\ wire = Stream(rows) /\ HeaderSize \in Nat
  BY RowsAreNumbers DEF Progress, HeaderSize
<1>2. Len(wire) \in Nat
  <2>1. wire \in Seq(Atoms)
    BY <1>1, StreamFacts
  <2>2. QED
    BY <2>1
<1>3. /\ RowAt(rows, 0) = HeaderSize
      /\ RowAt(rows, n) \in Nat /\ RowAt(rows, n) >= HeaderSize
      /\ RowAt(rows, n) + 2 <= Len(wire)
  <2>0. RowAt(rows, 0) = HeaderSize
    BY <1>1, StreamFacts
  <2>1. CASE n = Len(rows)
    <3>1. /\ RowAt(rows, Len(rows)) \in Nat /\ RowAt(rows, Len(rows)) >= HeaderSize
          /\ Len(Stream(rows)) = RowAt(rows, Len(rows)) + 2
      BY <1>1, StreamFacts
    <3>2. QED
      BY <1>1, <1>2, <2>0, <2>1, <3>1
  <2>2. CASE n # Len(rows)
    <3>1. n \in 0..(Len(rows) - 1) /\ n + 1 \in Nat
      BY <1>1, <2>2
    <3>2. /\ RowAt(rows, n) \in Nat /\ RowAt(rows, n) >= HeaderSize
          /\ RowAt(rows, n + 1) = RowAt(rows, n) + Len(RowBytes(rows[n + 1], n + 1))
          /\ RowAt(rows, n + 1) + 2 <= Len(Stream(rows))
      BY <1>1, <3>1, RowInStream
    <3>3. Len(RowBytes(rows[n + 1], n + 1)) \in Nat
      <4>1. rows[n + 1] \in Seq(Int)
        BY <1>1, <3>1
      <4>2. RowBytes(rows[n + 1], n + 1) \in Seq(Atoms)
        BY <3>1, <4>1, RowFacts
      <4>3. QED
        BY <4>2
    <3>4. QED
      BY <1>1, <1>2, <2>0, <3>2, <3>3
  <2>3. QED
    BY <2>1, <2>2
<1>4. received \in 0..Len(wire)
  BY DEF Progress, Position
<1>5. consumed \in Nat /\ consumed <= received
  BY <1>2, <1>3, <1>4 DEF Progress, Position
<1>6. QED
  BY <1>1, <1>2, <1>3, <1>4, <1>5

\* Column c of some batches.
Col(o, c) == FlattenSeq([b \in DOMAIN o |-> o[b][c]])

LEMMA ColType ==
    ASSUME NEW S, NEW o \in Seq(Seq(Seq(S))), NEW c, \A b \in DOMAIN o : c \in DOMAIN o[b]
    PROVE  Col(o, c) \in Seq(S)
<1>1. \A b \in DOMAIN o : o[b][c] \in Seq(S)
  OBVIOUS
<1>d. DOMAIN o = 1..Len(o) /\ Len(o) \in Nat
  OBVIOUS
<1>2. [b \in DOMAIN o |-> o[b][c]] \in Seq(Seq(S))
  BY <1>1, <1>d
<1>3. QED
  BY <1>2, FlattenType DEF Col

LEMMA OneMore ==
    ASSUME NEW n \in Nat, NEW k \in 1..(n + 1)
    PROVE  k \in 1..n \/ k = n + 1
  OBVIOUS

LEMMA ColAppend ==
    ASSUME NEW S, NEW o \in Seq(Seq(Seq(S))), NEW c, \A b \in DOMAIN o : c \in DOMAIN o[b],
           NEW x \in Seq(Seq(S)), c \in DOMAIN x
    PROVE  Col(Append(o, x), c) = Col(o, c) \o x[c]
<1> DEFINE p == [b \in DOMAIN o |-> o[b][c]]
           q == Append(o, x)
<1>1. \A b \in DOMAIN o : o[b][c] \in Seq(S)
  OBVIOUS
<1>d. DOMAIN o = 1..Len(o) /\ Len(o) \in Nat
  OBVIOUS
<1>x. x[c] \in Seq(S)
  OBVIOUS
<1>2. p \in Seq(Seq(S)) /\ Len(p) = Len(o) /\ \A b \in 1..Len(o) : p[b] = o[b][c]
  BY <1>1, <1>d
<1>3. /\ DOMAIN q = 1..(Len(o) + 1) /\ q[Len(o) + 1] = x /\ Len(o) \in Nat
      /\ \A b \in 1..Len(o) : q[b] = o[b]
  OBVIOUS
<1> HIDE DEF q, p
<1>4. [b \in DOMAIN q |-> q[b][c]] = Append(p, x[c])
  <2> DEFINE f == [b \in DOMAIN q |-> q[b][c]]
             g == Append(p, x[c])
  <2>1. \A b \in DOMAIN q : q[b][c] \in Seq(S)
    <3> SUFFICES ASSUME NEW b \in DOMAIN q PROVE q[b][c] \in Seq(S)
      OBVIOUS
    <3>1. CASE b \in 1..Len(o)
      BY <1>1, <1>3, <1>d, <3>1
    <3>2. CASE b = Len(o) + 1
      BY <1>3, <1>x, <3>2
    <3>3. QED
      BY <1>3, <3>1, <3>2
  <2>2. f \in Seq(Seq(S)) /\ Len(f) = Len(o) + 1 /\ \A b \in 1..(Len(o) + 1) : f[b] = q[b][c]
    BY <1>3, <2>1
  <2>3. /\ g \in Seq(Seq(S)) /\ Len(g) = Len(o) + 1 /\ g[Len(o) + 1] = x[c]
        /\ \A b \in 1..Len(o) : g[b] = p[b]
    <3> DEFINE y == x[c]
    <3>1. p \in Seq(Seq(S)) /\ y \in Seq(S)
      BY <1>2, <1>x
    <3> HIDE DEF y
    <3>2. /\ Append(p, y) \in Seq(Seq(S))
          /\ Len(Append(p, y)) = Len(p) + 1 /\ Append(p, y)[Len(p) + 1] = y
          /\ \A b \in 1..Len(p) : p[b] = Append(p, y)[b]
      BY <3>1, AppendFacts
    <3>3. g = Append(p, y)
      BY DEF y
    <3>4. Len(p) = Len(o)
      BY <1>2
    <3> HIDE DEF g
    <3>5. g \in Seq(Seq(S)) /\ Len(g) = Len(o) + 1 /\ g[Len(o) + 1] = y
      BY <3>2, <3>3, <3>4
    <3>6. \A b \in 1..Len(o) : g[b] = p[b]
      BY <3>2, <3>3, <3>4
    <3>7. QED
      BY <3>5, <3>6 DEF y
  <2> HIDE DEF f, g
  <2>4. ASSUME NEW b \in 1..(Len(o) + 1) PROVE f[b] = g[b]
    <3>0. f[b] = q[b][c]
      BY <2>2
    <3>1. CASE b \in 1..Len(o)
      <4>1. q[b] = o[b]
        BY <1>3, <3>1
      <4>2. p[b] = o[b][c]
        BY <1>2, <3>1
      <4>3. g[b] = p[b]
        BY <2>3, <3>1
      <4>4. QED
        BY <3>0, <4>1, <4>2, <4>3
    <3>2. CASE b = Len(o) + 1
      <4>1. q[b] = x
        BY <1>3, <3>2
      <4>2. g[b] = x[c]
        BY <2>3, <3>2
      <4>3. QED
        BY <3>0, <4>1, <4>2
    <3>3. b \in 1..Len(o) \/ b = Len(o) + 1
      BY <1>d, OneMore, ZenonT(30)
    <3>4. QED
      BY <3>1, <3>2, <3>3
  <2>5. f = g
    BY <2>2, <2>3, <2>4, SameElements
  <2>6. QED
    BY <2>5 DEF f, g
<1>5. FlattenSeq(Append(p, x[c])) = FlattenSeq(p) \o x[c]
  BY <1>2, <1>x, FlattenAppend
<1>6. QED
  BY <1>4, <1>5 DEF Col, p, q

LEMMA ColumnFacts ==
    ASSUME Types, Batches, Len(builders) = Len(schema), NEW c \in DOMAIN builders
    PROVE  /\ Written(c) \in Seq(Cells) /\ builders[c] \in Seq(Cells)
           /\ Column(c) \in Seq(Cells)
           /\ Len(Column(c)) = Len(Written(c)) + Len(builders[c])
           /\ \A r \in 1..Len(Written(c)) : Column(c)[r] = Written(c)[r]
           /\ \A b \in DOMAIN out : c \in DOMAIN out[b]
<1>1. \A b \in DOMAIN out : c \in DOMAIN out[b]
  <2>1. builders \in Seq(Seq(Cells)) /\ out \in Seq(Seq(Seq(Cells)))
    BY DEF Types
  <2>2. \A b \in DOMAIN out : Len(out[b]) = Len(builders)
    BY DEF Batches
  <2>3. QED
    BY <2>1, <2>2
<1>2. builders[c] \in Seq(Cells)
  BY DEF Types
<1>3. Written(c) \in Seq(Cells)
  <2>1. out \in Seq(Seq(Seq(Cells)))
    BY DEF Types
  <2>2. Col(out, c) \in Seq(Cells)
    BY <1>1, <2>1, ColType
  <2>3. QED
    BY <2>2 DEF Col, Written
<1> DEFINE w == Written(c)
           b == builders[c]
<1>4. w \in Seq(Cells) /\ b \in Seq(Cells)
  BY <1>2, <1>3
<1> HIDE DEF w, b
<1>5. w \o b \in Seq(Cells) /\ Len(w \o b) = Len(w) + Len(b)
  BY <1>4, ConcatType
<1>6. \A r \in 1..Len(w) : (w \o b)[r] = w[r]
  BY <1>4, ConcatAt
<1>7. Column(c) = w \o b
  BY DEF Column, w, b
<1>8. QED
  BY <1>1, <1>2, <1>3, <1>5, <1>6, <1>7 DEF w, b

LEMMA ConcatAppend ==
    ASSUME NEW S, NEW s \in Seq(S), NEW t \in Seq(S), NEW x \in S
    PROVE  s \o Append(t, x) = Append(s \o t, x)
  OBVIOUS

-----------------------------------------------------------------------------
(* What each step does to the invariant.                                    *)

\* A dump that has gone on is in the same columns with the same values.
LEMMA ValuesKept ==
    ASSUME NEW n, Values(n), pc # "failed",
           pc \in {"close", "done"} => pc' \in {"failed", "close", "done"},
           UNCHANGED <<query, builders, row_count, out>>
    PROVE  Values(n)'
<1>1. \A c : Column(c)' = Column(c) /\ Expected(n, c)' = Expected(n, c)
  BY DEF query, Column, Written, Expected
<1>2. \A r, c : Expected(r, c)' = Expected(r, c)
  BY DEF query, Expected
<1>3. \A c : SameType(c)' = SameType(c) /\ TextLike(c)' = TextLike(c)
  BY DEF query, SameType, TextLike
<1> SUFFICES ASSUME NEW c \in DOMAIN builders'
             PROVE  /\ Len(Column(c)') <= n
                    /\ c \notin DOMAIN shape' => Column(c)' = <<>>
                    /\ c \in DOMAIN shape' =>
                          /\ pc' # "failed" => Len(Column(c)') = n
                          /\ pc' \notin {"failed", "close", "done"} => Len(builders'[c]) = row_count'
                          /\ SameType(c)' /\ TextLike(c)' =>
                                \A r \in 1..Len(Column(c)') : Column(c)'[r] = Expected(r, c)'
  BY DEF Values
<1>4. builders' = builders /\ shape' = shape /\ row_count' = row_count
  BY DEF query
<1>5. /\ Len(Column(c)) <= n
      /\ c \notin DOMAIN shape => Column(c) = <<>>
      /\ c \in DOMAIN shape =>
            /\ pc # "failed" => Len(Column(c)) = n
            /\ pc \notin {"failed", "close", "done"} => Len(builders[c]) = row_count
            /\ SameType(c) /\ TextLike(c) =>
                  \A r \in 1..Len(Column(c)) : Column(c)[r] = Expected(r, c)
  BY <1>4 DEF Values
<1>6. QED
  BY <1>1, <1>2, <1>3, <1>4, <1>5

LEMMA StepDescribe ==
    ASSUME Types, Early, Describe
    PROVE  Types' /\ Early'
<1>1. PICK s \in Shapes :
        LET known == \A c \in DOMAIN s : s[c] \in DOMAIN PgToArrow
        IN  /\ Goto("describe", IF known THEN "copy" ELSE "failed")
            /\ schema' = IF known THEN [c \in DOMAIN s |-> PgToArrow[s[c]]] ELSE <<>>
            /\ shape' = s
            /\ UNCHANGED <<rows, wire, decoder, out, file>>
  BY DEF Describe
<1>2. pc' \in {"copy", "failed"} /\ shape' = s
  BY <1>1 DEF Goto
<1>3. schema' \in Seq(Builders)
  <2>1. CASE \A c \in DOMAIN s : s[c] \in DOMAIN PgToArrow
    <3>1. schema' = [c \in DOMAIN s |-> PgToArrow[s[c]]]
      BY <1>1, <2>1
    <3>2. \A t \in DOMAIN PgToArrow : PgToArrow[t] \in Builders
      BY DEF PgToArrow, Builders, FixedWidth
    <3>3. s \in Seq(STRING)
      BY ExportAssumption
    <3>4. DOMAIN s = 1..Len(s) /\ Len(s) \in Nat
      BY <3>3
    <3>5. QED
      BY <2>1, <3>1, <3>2, <3>4
  <2>2. CASE ~(\A c \in DOMAIN s : s[c] \in DOMAIN PgToArrow)
    BY <1>1, <2>2
  <2>3. QED
    BY <2>1, <2>2
<1>4. /\ rows' = <<>> /\ wire' = wire /\ received' = received /\ consumed' = consumed
      /\ header' = header /\ builders' = builders /\ row_count' = row_count
      /\ out' = out /\ file' = file
  BY <1>1 DEF decoder, Early
<1>5. rows' \in Seq(RowsOf(shape)') /\ Len(rows') <= MaxRows
  <2>1. <<>> \in Seq(RowsOf(shape)') /\ Len(<<>>) = 0
    OBVIOUS
  <2>2. 0 <= MaxRows
    BY ExportAssumption
  <2>3. QED
    BY <1>4, <2>1, <2>2
<1>6. Types'
  BY <1>2, <1>3, <1>4, <1>5 DEF Types, Early, Over
<1>7. Early'
  BY <1>2, <1>4 DEF Early
<1>8. QED
  BY <1>6, <1>7

LEMMA StepCopy ==
    ASSUME Types, Early, Copy
    PROVE  Types' /\ Progress(0)' /\ 0 \in 0..Len(rows')
<1>1. PICK s \in IF Altered THEN Shapes ELSE {shape}, k \in 0..MaxRows :
        shape' = s /\ rows' \in [1..k -> RowsOf(s)]
  BY DEF Copy
<1>2. /\ pc = "copy" /\ pc' = "create" /\ wire' = Stream(rows)'
      /\ schema' = schema /\ received' = received /\ consumed' = consumed
      /\ header' = header /\ builders' = builders /\ row_count' = row_count
      /\ out' = out /\ file' = file
  BY DEF Copy, Goto, decoder
<1>3. shape' \in Shapes
  BY <1>1, <1>2 DEF Early
<1>4. rows' \in Seq(RowsOf(shape)') /\ Len(rows') <= MaxRows /\ Len(rows') \in Nat
  <2>1. k \in Nat /\ k <= MaxRows
    BY ExportAssumption
  <2>2. RowsOf(shape)' = RowsOf(s)
    BY <1>1 DEF RowsOf
  <2> HIDE DEF RowsOf
  <2>3. rows' \in Seq(RowsOf(s)) /\ Len(rows') = k
    BY <1>1, <2>1
  <2>4. QED
    BY <2>1, <2>2, <2>3
<1>5. Types'
  BY <1>2, <1>3, <1>4 DEF Types
<1>6. rows' \in Seq(Seq(Int))
  <2>1. s \in Seq(STRING)
    BY <1>1, <1>3, ExportAssumption
  <2>2. rows' \in Seq(RowsOf(s))
    <3>1. k \in Nat
      BY ExportAssumption
    <3> HIDE DEF RowsOf
    <3>2. QED
      BY <1>1, <3>1
  <2>3. QED
    BY <2>1, <2>2, RowsTyped
<1>7. Len(wire') \in Nat /\ Len(wire') >= HeaderSize
  <2>1. /\ Stream(rows') \in Seq(Atoms)
        /\ RowAt(rows', Len(rows')) \in Nat /\ RowAt(rows', Len(rows')) >= HeaderSize
        /\ Len(Stream(rows')) = RowAt(rows', Len(rows')) + 2
    BY <1>6, StreamFacts
  <2>2. wire' = Stream(rows')
    BY <1>2 DEF Stream
  <2>3. QED
    BY <2>1, <2>2 DEF HeaderSize
<1>8. Position(0)'
  BY <1>2, <1>7 DEF Position, Early, HeaderSize
<1>9. Batches' /\ Values(0)' /\ Counted(0)'
  BY <1>2, ExportAssumption DEF Batches, Values, Counted, Early
<1>10. Progress(0)'
  BY <1>2, <1>8, <1>9 DEF Progress, Early
<1>11. QED
  BY <1>4, <1>5, <1>10

LEMMA StepCreate ==
    ASSUME Types, NEW n \in 0..Len(rows), Progress(n), Create
    PROVE  Types' /\ Progress(n)'
<1>1. /\ pc = "create" /\ builders' = NewBuilders /\ file' = "partial"
      /\ schema' = schema /\ shape' = shape /\ rows' = rows /\ wire' = wire
      /\ received' = received /\ consumed' = consumed
      /\ header' = header /\ row_count' = row_count /\ out' = out
  BY DEF Create, Goto, query
<1>2. schema \in Seq(Builders) /\ DOMAIN schema = 1..Len(schema) /\ Len(schema) \in Nat
  BY DEF Types
<1>3. pc' = "poll"
  BY <1>2 DEF Create, Goto
<1>4. /\ NewBuilders \in Seq(Seq(Cells)) /\ Len(NewBuilders) = Len(schema)
      /\ \A c \in DOMAIN NewBuilders : NewBuilders[c] = <<>>
  BY <1>2 DEF NewBuilders
<1>5. builders = <<>> /\ out = <<>> /\ n = 0 /\ ~header
  BY <1>1 DEF Progress
<1>6. Types'
  BY <1>1, <1>3, <1>4 DEF Types, RowsOf
<1>7. Position(n)'
  BY <1>1, <1>3, <1>5 DEF Progress, Position
<1>8. Batches'
  BY <1>1, <1>5 DEF Batches
<1>9. row_count = 0
  BY <1>5, ExportAssumption DEF Progress, Counted
<1>10. Values(n)'
  <2>1. ASSUME NEW c \in DOMAIN builders' PROVE Column(c)' = <<>> /\ builders'[c] = <<>>
    <3>1. Written(c)' = FlattenSeq(<<>>)
      BY <1>1, <1>5 DEF Written
    <3>2. <<>> \o <<>> = <<>>
      OBVIOUS
    <3>3. QED
      BY <1>1, <1>4, <3>1, <3>2, FlattenEmpty DEF Column
  <2>2. Len(<<>>) = 0 /\ 1..0 = {}
    OBVIOUS
  <2>3. QED
    BY <1>1, <1>5, <1>9, <2>1, <2>2 DEF Values
<1>11. Counted(n)'
  BY <1>1, <1>3, <1>5, <1>9, ExportAssumption DEF Counted
<1>12. Progress(n)'
  BY <1>1, <1>3, <1>4, <1>5, <1>7, <1>8, <1>10, <1>11 DEF Progress, Stream
<1>13. QED
  BY <1>6, <1>12

LEMMA TypesKept ==
    ASSUME Types, UNCHANGED <<query, builders, out>>, header' \in BOOLEAN,
           pc' \in {"poll", "rows", "batch", "last_batch", "close"} \cup Over,
           file' \in {"old", "partial", "complete"}, file' = "complete" => pc' = "done"
    PROVE  Types'
  BY DEF Types, query, RowsOf

LEMMA TypesGo ==
    ASSUME Types,
           schema' = schema, shape' = shape, rows' = rows, header' = header, file' = file,
           file # "complete",
           builders' \in Seq(Seq(Cells)), out' \in Seq(Seq(Seq(Cells))),
           pc' \in {"poll", "rows", "batch", "last_batch", "close"} \cup Over
    PROVE  Types'
  BY DEF Types, RowsOf

LEMMA ProgressKept ==
    ASSUME NEW n, Progress(n), UNCHANGED <<query, builders, row_count, out>>,
           pc # "failed", pc' \notin {"describe", "copy", "create"},
           pc = "create" => pc' = "failed" /\ header' = header,
           pc \in {"close", "done"} => pc' \in {"failed", "close", "done"},
           Position(n)', Counted(n)'
    PROVE  Progress(n)'
<1>1. Values(n)'
  BY ValuesKept DEF Progress
<1>2. Batches'
  BY DEF Progress, Batches, query
<1>3. /\ wire' = Stream(rows)'
      /\ n > 0 => Len(shape') <= Len(schema')
      /\ Len(builders') = Len(builders) /\ Len(schema') = Len(schema)
      /\ builders' = builders /\ out' = out
  BY DEF Progress, query, Stream
<1>4. QED
  BY <1>1, <1>2, <1>3 DEF Progress

LEMMA StepChunk ==
    ASSUME Types, NEW n \in 0..Len(rows), Progress(n), Chunk
    PROVE  Types' /\ Progress(n)'
<1>1. PICK k \in 1..(Len(wire) - received) : received' = received + k
  BY DEF Chunk
<1>2. /\ pc = "poll" /\ pc' = IF header' THEN "rows" ELSE "poll"
      /\ header' = (header \/ received' - consumed >= HeaderSize)
      /\ consumed' = IF ~header /\ header' THEN consumed + HeaderSize ELSE consumed
      /\ UNCHANGED <<query, builders, row_count, out, file>>
  BY DEF Chunk
<1>3. header' \in BOOLEAN /\ pc' \in {"poll", "rows"}
  BY <1>2 DEF Types
<1>4. Types'
  BY <1>2, <1>3, TypesKept DEF Types
<1>5. /\ Len(wire) \in Nat /\ received \in Nat /\ received <= Len(wire)
      /\ RowAt(rows, 0) = HeaderSize /\ HeaderSize \in Nat
      /\ consumed \in Nat /\ consumed <= received
      /\ RowAt(rows, n) \in Nat
  BY PositionFacts
<1>6. RowAt(rows, n)' = RowAt(rows, n) /\ Len(rows') = Len(rows) /\ Len(wire') = Len(wire)
  BY <1>2 DEF query, RowAt, Offset, RowParts
<1>7. received' \in 0..Len(wire') /\ received' >= received
  BY <1>1, <1>5, <1>6
<1>h. header' <=> header \/ received' - consumed >= HeaderSize
  <2> DEFINE there == received' - consumed >= HeaderSize
  <2>1. header' = (header \/ there)
    BY <1>2
  <2> HIDE DEF there
  <2>2. header' <=> header \/ there
    BY <2>1, Zenon
  <2>3. QED
    BY <2>2 DEF there
<1>8. Position(n)'
  <2>1. CASE ~header
    <3>1. n = 0 /\ consumed = 0
      BY <1>2, <2>1 DEF Progress, Position
    <3>r. received' - consumed = received'
      BY <1>1, <1>5, <3>1
    <3>2. CASE header'
      <4>0. received' >= HeaderSize
        BY <1>h, <2>1, <3>2, <3>r
      <4>1. consumed' = RowAt(rows, n)' /\ consumed' <= received'
        <5>1. consumed' = consumed + HeaderSize
          BY <1>2, <2>1, <3>2
        <5>2. consumed' = HeaderSize
          BY <1>5, <3>1, <5>1
        <5>3. RowAt(rows, n)' = HeaderSize
          BY <1>5, <1>6, <3>1
        <5>4. QED
          BY <4>0, <5>2, <5>3
      <4>2. QED
        BY <1>2, <1>7, <3>2, <4>1 DEF Position
    <3>3. CASE ~header'
      <4>0. ~(received' >= HeaderSize)
        BY <1>h, <3>3, <3>r
      <4>1. consumed' = 0 /\ received' < HeaderSize
        <5>1. consumed' = 0
          BY <1>2, <3>1, <3>3
        <5>2. received' \in Nat
          BY <1>1, <1>5
        <5>3. QED
          BY <1>5, <4>0, <5>1, <5>2
      <4>2. QED
        BY <1>2, <1>7, <3>1, <3>3, <4>1 DEF Position
    <3>4. QED
      BY <3>2, <3>3
  <2>2. CASE header
    <3>1. header' /\ consumed' = consumed /\ pc' = "rows"
      BY <1>2, <2>2
    <3>2. received < Len(wire)
      BY <1>1, <1>5
    <3>3. consumed = RowAt(rows, n)
      BY <1>5, <2>2, <3>2 DEF Progress, Position
    <3>4. consumed' <= received'
      BY <1>5, <1>7, <3>1
    <3>5. QED
      BY <1>6, <1>7, <3>1, <3>3, <3>4 DEF Position
  <2>3. QED
    BY <2>1, <2>2
<1>9. Counted(n)'
  BY <1>2, <1>3 DEF Progress, Counted
<1>10. Progress(n)'
  BY <1>2, <1>3, <1>8, <1>9, ProgressKept
<1>11. QED
  BY <1>4, <1>10

LEMMA StepNeedMore ==
    ASSUME Types, NEW n \in 0..Len(rows), Progress(n), NeedMore
    PROVE  Types' /\ Progress(n)'
<1>1. /\ pc = "rows" /\ pc' = "poll" /\ ~AtRow /\ ~AtTrailer
      /\ UNCHANGED <<query, decoder, out, file>>
  BY DEF NeedMore
<1>2. UNCHANGED <<query, builders, row_count, out>> /\ header' = header /\ file' = file
      /\ received' = received /\ consumed' = consumed
  BY <1>1 DEF decoder
<1>3. Types'
  BY <1>1, <1>2, TypesKept DEF Types
<1>4. header /\ consumed = RowAt(rows, n) /\ consumed <= received /\ received \in 0..Len(wire)
  BY <1>1 DEF Progress, Position
<1>5. rows \in Seq(Seq(Int)) /\ wire = Stream(rows) /\ Len(wire) \in Nat
  BY PositionFacts
<1>6. received < Len(wire)
  <2>0. Len(rows) \in Nat
    BY <1>5
  <2>1. CASE n = Len(rows)
    <3>1. received # Len(wire)
      BY <1>1, <1>4, <1>5, <2>1, HeadOfBuf
    <3>2. QED
      BY <1>4, <1>5, <3>1
  <2>2. CASE n # Len(rows)
    <3>1. n < Len(rows) /\ n \in 0..(Len(rows) - 1)
      BY <2>0, <2>2
    <3>2. ~(RowAt(rows, n + 1) <= received) /\ RowAt(rows, n + 1) + 2 <= Len(wire)
      BY <1>1, <1>4, <1>5, <3>1, HeadOfBuf
    <3>3. RowAt(rows, n + 1) \in Nat
      <4>1. rows[n + 1] \in Seq(Int) /\ n + 1 \in Nat
        BY <1>5, <3>1
      <4>2. RowBytes(rows[n + 1], n + 1) \in Seq(Atoms)
        BY <4>1, RowFacts
      <4>3. RowAt(rows, n + 1) = RowAt(rows, n) + Len(RowBytes(rows[n + 1], n + 1)) /\ RowAt(rows, n) \in Nat
        BY <1>5, <3>1, RowInStream
      <4>4. Len(RowBytes(rows[n + 1], n + 1)) \in Nat
        BY <4>2
      <4>5. QED
        BY <4>3, <4>4
    <3>4. QED
      BY <1>4, <1>5, <3>2, <3>3
  <2>3. QED
    BY <2>1, <2>2
<1>7. Position(n)'
  <2>1. RowAt(rows, n)' = RowAt(rows, n) /\ Len(rows') = Len(rows) /\ Len(wire') = Len(wire)
    BY <1>2 DEF query, RowAt, Offset, RowParts
  <2>2. QED
    BY <1>1, <1>2, <1>4, <1>6, <2>1 DEF Position
<1>8. Counted(n)'
  BY <1>1, <1>2 DEF Progress, Counted
<1>9. Progress(n)'
  BY <1>1, <1>2, <1>7, <1>8, ProgressKept
<1>10. QED
  BY <1>3, <1>9

LEMMA StepTrailer ==
    ASSUME Types, NEW n \in 0..Len(rows), Progress(n), Trailer
    PROVE  Types' /\ Progress(n)'
<1>1. /\ pc = "rows" /\ pc' = "poll" /\ AtTrailer
      /\ consumed' = consumed + 2
      /\ UNCHANGED <<query, received, header, builders, row_count, out, file>>
  BY DEF Trailer
<1>2. Types'
  BY <1>1, TypesKept DEF Types
<1>3. header /\ consumed = RowAt(rows, n) /\ received \in 0..Len(wire)
  BY <1>1 DEF Progress, Position
<1>4. rows \in Seq(Seq(Int)) /\ wire = Stream(rows) /\ Len(wire) \in Nat
  BY PositionFacts
<1>5. n = Len(rows) /\ received = Len(wire) /\ Len(wire) = consumed + 2
  BY <1>1, <1>3, <1>4, HeadOfBuf
<1>6. Position(n)'
  <2>1. Len(rows') = Len(rows) /\ Len(wire') = Len(wire)
    BY <1>1 DEF query
  <2>2. QED
    BY <1>1, <1>3, <1>4, <1>5, <2>1 DEF Position
<1>7. Counted(n)'
  BY <1>1 DEF Progress, Counted
<1>8. Progress(n)'
  BY <1>1, <1>6, <1>7, ProgressKept
<1>9. QED
  BY <1>2, <1>8

LEMMA StepEndOfStream ==
    ASSUME Types, NEW n \in 0..Len(rows), Progress(n), EndOfStream
    PROVE  Types' /\ Progress(n)'
<1>1. /\ pc = "poll" /\ received = Len(wire)
      /\ pc' = IF row_count > 0 THEN "last_batch" ELSE "close"
      /\ UNCHANGED <<query, decoder, out, file>>
  BY DEF EndOfStream
<1>2. UNCHANGED <<query, builders, row_count, out>> /\ header' = header /\ file' = file
      /\ received' = received /\ consumed' = consumed
  BY <1>1 DEF decoder
<1>3. Types'
  BY <1>1, <1>2, TypesKept DEF Types
<1>4. header /\ n = Len(rows) /\ consumed = Len(wire)
  <2>1. Len(wire) \in Nat /\ HeaderSize <= RowAt(rows, n) /\ RowAt(rows, n) + 2 <= Len(wire)
        /\ RowAt(rows, n) \in Nat /\ HeaderSize \in Nat
    BY PositionFacts
  <2>2. ~(received < HeaderSize) /\ ~(received < Len(wire))
    BY <1>1, <2>1
  <2>3. QED
    BY <1>1, <2>2 DEF Progress, Position
<1>5. Position(n)'
  <2>1. Len(rows') = Len(rows) /\ Len(wire') = Len(wire)
    BY <1>2 DEF query
  <2>2. received \in 0..Len(wire)
    BY DEF Progress, Position
  <2>3. QED
    BY <1>1, <1>2, <1>4, <2>1, <2>2 DEF Position
<1>6. Counted(n)'
  <2>1. row_count \in Nat
    BY ExportAssumption DEF Progress, Counted
  <2>2. ASSUME row_count = 0, NEW c \in DOMAIN builders PROVE builders[c] = <<>>
    <3>1. Batches /\ Len(builders) = Len(schema) /\ Values(n)
      BY <1>1 DEF Progress
    <3>2. /\ builders[c] \in Seq(Cells) /\ Written(c) \in Seq(Cells)
          /\ Len(Column(c)) = Len(Written(c)) + Len(builders[c])
      BY <3>1, ColumnFacts
    <3>3. CASE c \in DOMAIN shape
      <4>1. Len(builders[c]) = 0
        BY <1>1, <2>2, <3>1, <3>3 DEF Values
      <4>2. QED
        BY <3>2, <4>1
    <3>4. CASE c \notin DOMAIN shape
      <4>1. Column(c) = <<>>
        BY <3>1, <3>4 DEF Values
      <4>2. Len(Column(c)) = 0
        BY <4>1
      <4>3. Len(builders[c]) \in Nat /\ Len(Written(c)) \in Nat
        BY <3>2
      <4>4. Len(builders[c]) = 0
        <5> DEFINE written == Len(Written(c))
                   waiting == Len(builders[c])
        <5>1. written + waiting = 0 /\ written \in Nat /\ waiting \in Nat
          BY <3>2, <4>2, <4>3
        <5> HIDE DEF written, waiting
        <5>2. waiting = 0
          BY <5>1
        <5>3. QED
          BY <5>2 DEF waiting
      <4>5. QED
        BY <3>2, <4>4
    <3>5. QED
      BY <3>3, <3>4
  <2>3. CASE row_count > 0
    BY <1>1, <1>2, <2>3 DEF Progress, Counted
  <2>4. CASE row_count = 0
    BY <1>1, <1>2, <2>1, <2>2, <2>4 DEF Progress, Counted
  <2>5. QED
    BY <2>1, <2>3, <2>4
<1>7. Progress(n)'
  BY <1>1, <1>2, <1>5, <1>6, ProgressKept
<1>8. QED
  BY <1>3, <1>7

\* The steps that end the dump, or fail.
LEMMA StepEnds ==
    ASSUME Types, NEW n \in 0..Len(rows), Progress(n),
           pc \notin {"failed", "done"}, UNCHANGED <<query, decoder, out>>,
           \/ pc' = "failed" /\ file' = file /\ pc # "done"
           \/ pc' = "panicked" /\ file' = file /\ pc = "rows"
           \/ pc' = "done" /\ file' = "complete" /\ pc = "close"
    PROVE  Types' /\ Progress(n)'
<1>1. UNCHANGED <<query, builders, row_count, out>> /\ header' = header
      /\ received' = received /\ consumed' = consumed
  BY DEF decoder
<1>2. Types'
  <2>1. /\ header' \in BOOLEAN /\ file' \in {"old", "partial", "complete"}
        /\ file' = "complete" => pc' = "done" /\ pc' \in Over
    BY <1>1 DEF Types, Over
  <2>2. QED
    BY <1>1, <2>1, TypesKept DEF Over
<1>3. Position(n)'
  <2>1. RowAt(rows, n)' = RowAt(rows, n) /\ Len(rows') = Len(rows) /\ Len(wire') = Len(wire)
    BY <1>1 DEF query, RowAt, Offset, RowParts
  <2>2. QED
    BY <1>1, <2>1 DEF Progress, Position
<1>4. Counted(n)'
  BY <1>1 DEF Progress, Counted
<1>5. Progress(n)'
  BY <1>1, <1>3, <1>4, ProgressKept
<1>6. QED
  BY <1>2, <1>5

\* A row that is read is appended to the columns as what it holds.
LEMMA StepDecodeRow ==
    ASSUME Types, NEW n \in 0..Len(rows), Progress(n), DecodeRow
    PROVE  Types' /\ n + 1 \in 0..Len(rows') /\ Progress(n + 1)'
<1> DEFINE r == n + 1
           row == rows[r]
<1>1. /\ pc = "rows" /\ pc' = IF row_count + 1 >= BatchSize THEN "batch" ELSE "rows"
      /\ AtRow
      /\ \A c \in 1..NumCols : ~Panics(c)
      /\ builders' = [c \in DOMAIN builders |->
                         IF c <= NumCols THEN Append(builders[c], Value(c)) ELSE builders[c]]
      /\ consumed' = consumed + Scan(NumCols)[NumCols]
      /\ row_count' = row_count + 1
      /\ UNCHANGED <<query, received, header, out, file>>
  BY DEF DecodeRow, AppendRow, Goto
<1>2. header /\ consumed = RowAt(rows, n) /\ received \in 0..Len(wire)
  BY <1>1 DEF Progress, Position
<1>3. /\ rows \in Seq(Seq(Int)) /\ wire = Stream(rows) /\ Len(wire) \in Nat
      /\ consumed \in Nat /\ Len(rows) \in Nat
  BY PositionFacts
<1>4. /\ r \in 1..Len(rows)
      /\ NumCols = Len(row)
      /\ consumed + Scan(NumCols)[NumCols] = RowAt(rows, r)
      /\ RowAt(rows, r) <= received
      /\ RowAt(rows, r) + 2 <= Len(wire)
      /\ \A c \in 1..Len(row) :
            /\ Scan(NumCols)[c] <= Avail
            /\ ColLen(c) = row[c]
            /\ row[c] > 0 => ColData(c) = <<r, c>>
  BY <1>1, <1>2, <1>3, RowIsRead
<1> HIDE DEF r, row
<1>5. /\ Len(row) = Len(shape) /\ Len(shape) \in Nat /\ DOMAIN shape = 1..Len(shape)
      /\ \A c \in DOMAIN shape : row[c] \in -1..16
  BY <1>4, RowsAreNumbers DEF row
<1>6. /\ Len(builders) = Len(schema) /\ Batches /\ Values(n) /\ Counted(n)
      /\ builders \in Seq(Seq(Cells)) /\ Len(builders) \in Nat /\ DOMAIN builders = 1..Len(builders)
  <2>1. builders \in Seq(Seq(Cells))
    BY DEF Types
  <2>2. QED
    BY <1>1, <2>1 DEF Progress
<1>7. \A c \in DOMAIN shape : c \in DOMAIN builders
  BY <1>1, <1>4, <1>5 DEF Panics
<1>8. Len(shape) <= Len(schema)
  <2>1. CASE Len(shape) = 0
    BY <1>6, <2>1
  <2>2. CASE Len(shape) # 0
    <3>1. Len(shape) \in DOMAIN shape
      BY <1>5, <2>2
    <3>2. Len(shape) \in 1..Len(builders)
      BY <1>6, <1>7, <3>1
    <3>3. QED
      BY <1>6, <3>2
  <2>3. QED
    BY <2>1, <2>2
<1>9. /\ DOMAIN builders' = DOMAIN builders
      /\ \A c \in DOMAIN builders : c \in DOMAIN shape => builders'[c] = Append(builders[c], Value(c))
      /\ \A c \in DOMAIN builders : c \notin DOMAIN shape => builders'[c] = builders[c]
  <2>1. \A c \in DOMAIN builders : c <= NumCols <=> c \in DOMAIN shape
    BY <1>4, <1>5, <1>6
  <2>2. QED
    BY <1>1, <2>1
<1>10. \A c \in DOMAIN shape : Value(c) \in Cells
  <2> SUFFICES ASSUME NEW c \in DOMAIN shape PROVE Value(c) \in Cells
    OBVIOUS
  <2>1. ColLen(c) = row[c] /\ row[c] \in -1..16 /\ (row[c] > 0 => ColData(c) = <<r, c>>)
    BY <1>4, <1>5
  <2>2. r \in 1..MaxRows /\ c \in Columns
    <3>1. Len(rows) <= MaxRows /\ MaxRows \in Nat
      BY ExportAssumption DEF Types
    <3>2. rows # <<>>
      BY <1>3, <1>4
    <3>3. shape \in Shapes
      BY <3>2 DEF Types
    <3>4. QED
      BY <1>3, <1>4, <3>1, <3>3 DEF Columns
  <2>3. <<r, c>> \in Cells /\ Null \in Cells /\ Empty \in Cells /\ Garbage \in Cells
    BY <2>2 DEF Cells
  <2>4. row[c] = -1 \/ row[c] = 0 \/ row[c] > 0
    BY <2>1
  <2>5. QED
    BY <2>1, <2>3, <2>4 DEF Value
<1>11. \A c \in DOMAIN shape : SameType(c) /\ TextLike(c) => Value(c) = Expected(r, c)
  <2> SUFFICES ASSUME NEW c \in DOMAIN shape, SameType(c), TextLike(c)
               PROVE  Value(c) = Expected(r, c)
    OBVIOUS
  <2>1. ColLen(c) = row[c] /\ row[c] \in -1..16 /\ (row[c] > 0 => ColData(c) = <<r, c>>)
    BY <1>4, <1>5
  <2>2. ~NotText(c)
    BY DEF NotText, TextLike
  <2>3. row[c] = -1 \/ row[c] = 0 \/ row[c] > 0
    BY <2>1
  <2>4. QED
    BY <2>1, <2>2, <2>3 DEF Value, Expected, row
<1>12. builders' \in Seq(Seq(Cells)) /\ Len(builders') = Len(schema)
  <2>1. ASSUME NEW c \in DOMAIN builders PROVE builders'[c] \in Seq(Cells)
    <3>1. builders[c] \in Seq(Cells)
      BY <1>6
    <3>2. CASE c \in DOMAIN shape
      <4>1. Value(c) \in Cells /\ builders'[c] = Append(builders[c], Value(c))
        BY <1>9, <1>10, <3>2
      <4>2. QED
        BY <3>1, <4>1
    <3>3. CASE c \notin DOMAIN shape
      BY <1>9, <3>1, <3>3
    <3>4. QED
      BY <3>2, <3>3
  <2> DEFINE k == Len(builders)
             b == builders'
  <2>2. b = [c \in 1..k |-> b[c]] /\ k \in Nat /\ \A c \in 1..k : b[c] \in Seq(Cells)
    BY <1>1, <1>6, <2>1
  <2> HIDE DEF k, b
  <2>3. b \in [1..k -> Seq(Cells)]
    BY <2>2
  <2>4. b \in Seq(Seq(Cells)) /\ Len(b) = k
    BY <2>2, <2>3
  <2>5. QED
    BY <1>6, <2>4 DEF b, k
<1>13. pc' \in {"rows", "batch"}
  BY <1>1
<1>14. Types'
  BY <1>1, <1>12, <1>13 DEF Types, query, RowsOf
<1>15. /\ schema' = schema /\ shape' = shape /\ rows' = rows /\ wire' = wire
       /\ received' = received /\ header' = header /\ out' = out
  BY <1>1 DEF query
<1>16. RowAt(rows, r)' = RowAt(rows, r)
  BY <1>15 DEF RowAt, Offset, RowParts, r
<1>17. Position(r)'
  <2>1. RowAt(rows, r) <= received' /\ consumed' = RowAt(rows, r)'
    BY <1>1, <1>4, <1>15, <1>16
  <2>2. QED
    BY <1>2, <1>13, <1>15, <1>16, <2>1 DEF Position
<1>18. Batches'
  BY <1>6, <1>15 DEF Batches
<1>19. Counted(r)'
  <2>1. row_count \in Nat /\ row_count <= n /\ row_count < BatchSize /\ BatchSize \in Nat
    BY <1>1, <1>6, ExportAssumption DEF Counted
  <2>2. row_count' \in 0..BatchSize /\ row_count' <= r /\ row_count' > 0
        /\ (pc' = "rows" => row_count' < BatchSize)
    BY <1>1, <2>1 DEF r
  <2>3. QED
    BY <1>13, <2>2 DEF Counted
<1>20. Values(r)'
  <2>1. ASSUME NEW c \in DOMAIN builders
        PROVE  /\ c \in DOMAIN shape => Column(c)' = Append(Column(c), Value(c))
               /\ c \notin DOMAIN shape => Column(c)' = Column(c)
    <3>1. Written(c)' = Written(c)
      BY <1>15 DEF Written
    <3>2. Written(c) \in Seq(Cells) /\ builders[c] \in Seq(Cells)
      BY <1>6, ColumnFacts
    <3>3. Column(c)' = Written(c) \o builders'[c]
      BY <3>1 DEF Column
    <3> DEFINE w == Written(c)
               v == Value(c)
               b == builders[c]
    <3>4. ASSUME c \in DOMAIN shape PROVE w \o Append(b, v) = Append(w \o b, v)
      <4>1. w \in Seq(Cells) /\ b \in Seq(Cells) /\ v \in Cells
        BY <1>10, <3>2, <3>4
      <4> HIDE DEF w, b, v
      <4>2. QED
        BY <4>1, ConcatAppend
    <3>5. QED
      BY <1>9, <3>3, <3>4 DEF Column
  <2>2. /\ SameType(1)' = SameType(1)
        /\ \A c : SameType(c)' = SameType(c) /\ TextLike(c)' = TextLike(c)
        /\ \A k, c : Expected(k, c)' = Expected(k, c)
    BY <1>15 DEF SameType, TextLike, Expected
  <2>3. ASSUME NEW c \in DOMAIN builders
        PROVE  /\ Len(Column(c)') <= r
               /\ c \notin DOMAIN shape => Column(c)' = <<>>
               /\ c \in DOMAIN shape =>
                     /\ Len(Column(c)') = r
                     /\ Len(builders'[c]) = row_count'
                     /\ SameType(c) /\ TextLike(c) =>
                           \A k \in 1..Len(Column(c)') : Column(c)'[k] = Expected(k, c)
    <3> DEFINE col == Column(c)
               b == builders[c]
               v == Value(c)
    <3>1. col \in Seq(Cells) /\ b \in Seq(Cells)
      BY <1>6, ColumnFacts
    <3>2. CASE c \notin DOMAIN shape
      <4>1. Column(c)' = <<>>
        BY <1>6, <2>1, <3>2 DEF Values
      <4>2. Len(<<>>) = 0 /\ 0 <= r
        BY DEF r
      <4>3. QED
        BY <3>2, <4>1, <4>2
    <3>3. CASE c \in DOMAIN shape
      <4>1. Len(col) = n /\ Len(b) = row_count
        BY <1>1, <1>6, <3>3 DEF Values
      <4>2. v \in Cells /\ Column(c)' = Append(col, v) /\ builders'[c] = Append(b, v)
        BY <1>9, <1>10, <2>1, <3>3
      <4>3. SameType(c) /\ TextLike(c) => v = Expected(r, c) /\ \A k \in 1..n : col[k] = Expected(k, c)
        BY <1>6, <1>11, <3>3, <4>1 DEF Values
      <4> HIDE DEF col, b, v
      <4>4. Len(Append(col, v)) = r /\ Len(Append(b, v)) = row_count'
        BY <1>1, <3>1, <4>1, <4>2 DEF r
      <4>5. Append(col, v)[r] = v /\ \A k \in 1..n : Append(col, v)[k] = col[k]
        BY <3>1, <4>1, <4>2 DEF r
      <4>6. ASSUME SameType(c), TextLike(c), NEW k \in 1..r
            PROVE  Append(col, v)[k] = Expected(k, c)
        <5>1. k \in 1..n \/ k = r
          BY DEF r
        <5>2. QED
          BY <4>3, <4>5, <4>6, <5>1
      <4>7. r <= r
        BY DEF r
      <4>8. QED
        BY <3>3, <4>2, <4>4, <4>6, <4>7
    <3>4. QED
      BY <3>2, <3>3
  <2>4. QED
    BY <1>9, <1>13, <1>15, <2>2, <2>3 DEF Values
<1>21. Progress(r)'
  <2>1. wire' = Stream(rows)'
    BY <1>3, <1>15 DEF Stream
  <2>2. Len(builders') = Len(schema') /\ Len(shape') <= Len(schema')
    BY <1>8, <1>12, <1>15
  <2>3. QED
    BY <1>13, <1>17, <1>18, <1>19, <1>20, <2>1, <2>2 DEF Progress
<1>22. QED
  <2>1. r \in 0..Len(rows')
    BY <1>3, <1>4, <1>15
  <2>2. QED
    BY <1>14, <1>21, <2>1 DEF r

\* A batch that is written leaves the columns as they are.
LEMMA Flushed ==
    ASSUME Types, Batches, Len(builders) = Len(schema),
           schema' = schema, builders' = NewBuilders, out' = Append(out, builders)
    PROVE  /\ builders' \in Seq(Seq(Cells)) /\ Len(builders') = Len(schema)
           /\ DOMAIN builders' = DOMAIN builders
           /\ out' \in Seq(Seq(Seq(Cells))) /\ out' # <<>>
           /\ \A b \in DOMAIN out' : Len(out'[b]) = Len(schema)
           /\ \A c \in DOMAIN builders : builders'[c] = <<>> /\ Column(c)' = Column(c)
<1>1. /\ builders \in Seq(Seq(Cells)) /\ DOMAIN builders = 1..Len(schema) /\ Len(schema) \in Nat
      /\ DOMAIN schema = 1..Len(schema)
      /\ out \in Seq(Seq(Seq(Cells)))
  BY DEF Types
<1>2. /\ builders' \in Seq(Seq(Cells)) /\ Len(builders') = Len(schema)
      /\ DOMAIN builders' = DOMAIN builders
      /\ \A c \in DOMAIN builders : builders'[c] = <<>>
  BY <1>1 DEF NewBuilders
<1>3. out' \in Seq(Seq(Seq(Cells))) /\ out' # <<>>
  <2> DEFINE T == Seq(Seq(Cells))
  <2>1. out \in Seq(T) /\ builders \in T
    BY <1>1
  <2> HIDE DEF T
  <2>2. Append(out, builders) \in Seq(T) /\ Append(out, builders) # <<>>
    BY <2>1, AppendFacts
  <2>3. QED
    BY <2>2 DEF T
<1>4. \A b \in DOMAIN out' : Len(out'[b]) = Len(schema)
  BY <1>1 DEF Batches
<1>5. ASSUME NEW c \in DOMAIN builders PROVE Column(c)' = Column(c)
  <2>1. \A b \in DOMAIN out : c \in DOMAIN out[b]
    BY ColumnFacts
  <2>2. Col(Append(out, builders), c) = Col(out, c) \o builders[c]
    BY <1>1, <2>1, ColAppend
  <2>3. Written(c)' = Column(c)
    BY <2>2 DEF Written, Column, Col
  <2>4. Column(c)' = Column(c) \o <<>>
    BY <1>2, <2>3 DEF Column
  <2>5. Column(c) \in Seq(Cells)
    BY ColumnFacts
  <2> HIDE DEF Column
  <2>6. QED
    BY <2>4, <2>5
<1>6. QED
  BY <1>2, <1>3, <1>4, <1>5

\* A batch that RecordBatch::try_new accepts has a column for each of the copied ones.
LEMMA StepWriteBatch ==
    ASSUME Types, NEW n \in 0..Len(rows), Progress(n), WriteBatch
    PROVE  Types' /\ Progress(n)'
<1> DEFINE width == Len(rows[1])
           arrays == SubSeq(builders, 1, width)
<1>1. /\ pc = "batch"
      /\ IF ValidBatch(arrays)
         THEN /\ out' = Append(out, arrays) /\ builders' = NewBuilders
              /\ row_count' = 0 /\ pc' = "rows"
         ELSE pc' = "failed" /\ UNCHANGED <<out, builders, row_count>>
      /\ UNCHANGED <<query, received, consumed, header, file>>
  BY DEF WriteBatch
<1>2. /\ schema' = schema /\ shape' = shape /\ rows' = rows /\ wire' = wire
      /\ received' = received /\ consumed' = consumed /\ header' = header /\ file' = file
  BY <1>1 DEF query
<1>3. CASE ~ValidBatch(arrays)
  <2>1. pc' = "failed" /\ UNCHANGED <<query, decoder, out>>
    BY <1>1, <1>3 DEF decoder
  <2>2. QED
    BY <1>1, <1>2, <2>1, StepEnds
<1>4. CASE ValidBatch(arrays)
  <2>1. /\ out' = Append(out, arrays) /\ builders' = NewBuilders
        /\ row_count' = 0 /\ pc' = "rows"
    BY <1>1, <1>4
  <2>2. /\ Len(builders) = Len(schema) /\ Batches /\ Values(n) /\ Counted(n) /\ wire = Stream(rows)
        /\ (n > 0 => Len(shape) <= Len(schema))
    BY <1>1 DEF Progress
  <2>3. builders \in Seq(Seq(Cells)) /\ Len(builders) \in Nat
    BY DEF Types
  <2>4. /\ rows \in Seq(Seq(Int)) /\ Len(rows) \in Nat
        /\ Len(shape) \in Nat /\ DOMAIN shape = 1..Len(shape)
        /\ \A r \in 1..Len(rows) : Len(rows[r]) = Len(shape)
    BY RowsAreNumbers
  <2>5. n > 0 /\ 1 \in 1..Len(rows)
    BY <1>1, <2>2, <2>4, ExportAssumption DEF Counted
  <2>6. width = Len(shape)
    BY <2>4, <2>5
  <2>7. arrays = builders /\ Len(shape) = Len(schema)
    <3>1. width \in 0..Len(builders)
      BY <2>2, <2>3, <2>4, <2>5, <2>6
    <3>2. Len(arrays) = Len(schema)
      BY <1>4 DEF ValidBatch
    <3>3. Len(arrays) = width
      BY <2>3, <3>1
    <3>4. SubSeq(builders, 1, Len(builders)) = builders
      BY <2>3
    <3>5. QED
      BY <2>2, <2>6, <3>2, <3>3, <3>4
  <2>8. /\ builders' \in Seq(Seq(Cells)) /\ Len(builders') = Len(schema)
        /\ DOMAIN builders' = DOMAIN builders
        /\ out' \in Seq(Seq(Seq(Cells))) /\ out' # <<>>
        /\ \A b \in DOMAIN out' : Len(out'[b]) = Len(schema)
        /\ \A c \in DOMAIN builders : builders'[c] = <<>> /\ Column(c)' = Column(c)
    BY <1>2, <2>1, <2>2, <2>7, Flushed
  <2>9. Types'
    <3>1. file # "complete"
      BY <1>1 DEF Types
    <3> HIDE DEF width, arrays
    <3>2. QED
      BY <1>2, <2>1, <2>8, <3>1, TypesGo
  <2>10. Batches'
    BY <1>2, <2>7, <2>8 DEF Batches
  <2>11. Values(n)'
    <3>1. /\ \A c : SameType(c)' = SameType(c) /\ TextLike(c)' = TextLike(c)
          /\ \A k, c : Expected(k, c)' = Expected(k, c)
      BY <1>2 DEF SameType, TextLike, Expected
    <3>2. \A c \in DOMAIN builders' : Len(builders'[c]) = row_count'
      <4>1. Len(<<>>) = 0
        OBVIOUS
      <4>2. QED
        BY <2>1, <2>8, <4>1
    <3>3. \A c \in DOMAIN builders :
            /\ Len(Column(c)) <= n
            /\ c \notin DOMAIN shape => Column(c) = <<>>
            /\ c \in DOMAIN shape =>
                  /\ Len(Column(c)) = n
                  /\ SameType(c) /\ TextLike(c) =>
                        \A r \in 1..Len(Column(c)) : Column(c)[r] = Expected(r, c)
      BY <1>1, <2>2 DEF Values
    <3> HIDE DEF width, arrays
    <3>4. QED
      BY <1>2, <2>1, <2>8, <3>1, <3>2, <3>3 DEF Values
  <2>12. Counted(n)'
    BY <2>1, <2>4, ExportAssumption DEF Counted
  <2>13. Position(n)'
    <3>1. RowAt(rows, n)' = RowAt(rows, n)
      BY <1>2 DEF RowAt, Offset, RowParts
    <3>2. QED
      BY <1>1, <1>2, <2>1, <3>1 DEF Progress, Position
  <2>14. Progress(n)'
    BY <1>2, <2>1, <2>2, <2>8, <2>10, <2>11, <2>12, <2>13 DEF Progress, Stream
  <2>15. QED
    BY <2>9, <2>14
<1>5. QED
  BY <1>3, <1>4

\* The rows of the last batch are dropped if it is not accepted, and the dump fails.
LEMMA StepWriteLastBatch ==
    ASSUME Types, NEW n \in 0..Len(rows), Progress(n), WriteLastBatch
    PROVE  Types' /\ Progress(n)'
<1>1. /\ pc = "last_batch" /\ pc' = IF ValidBatch(builders) THEN "close" ELSE "failed"
      /\ out' = IF ValidBatch(builders) THEN Append(out, builders) ELSE out
      /\ builders' = NewBuilders
      /\ UNCHANGED <<query, received, consumed, header, row_count, file>>
  BY DEF WriteLastBatch, Goto
<1>2. /\ schema' = schema /\ shape' = shape /\ rows' = rows /\ wire' = wire
      /\ received' = received /\ consumed' = consumed /\ header' = header /\ file' = file
      /\ row_count' = row_count
  BY <1>1 DEF query
<1>3. /\ Len(builders) = Len(schema) /\ Batches /\ Values(n) /\ Counted(n) /\ wire = Stream(rows)
      /\ (n > 0 => Len(shape) <= Len(schema))
  BY <1>1 DEF Progress
<1>4. /\ builders \in Seq(Seq(Cells)) /\ Len(builders) \in Nat /\ DOMAIN builders = 1..Len(builders)
      /\ out \in Seq(Seq(Seq(Cells)))
      /\ schema \in Seq(Builders) /\ DOMAIN schema = 1..Len(schema)
  BY DEF Types
<1>5. /\ Len(rows) \in Nat /\ Len(shape) \in Nat /\ DOMAIN shape = 1..Len(shape)
  BY RowsAreNumbers
<1>6. /\ \A c : SameType(c)' = SameType(c) /\ TextLike(c)' = TextLike(c)
      /\ \A k, c : Expected(k, c)' = Expected(k, c)
  BY <1>2 DEF SameType, TextLike, Expected
<1>7. \A c \in DOMAIN builders :
        /\ Len(Column(c)) <= n
        /\ c \notin DOMAIN shape => Column(c) = <<>>
        /\ c \in DOMAIN shape =>
              /\ Len(Column(c)) = n /\ Len(builders[c]) = row_count
              /\ SameType(c) /\ TextLike(c) =>
                    \A r \in 1..Len(Column(c)) : Column(c)[r] = Expected(r, c)
  BY <1>1, <1>3 DEF Values
<1>8. row_count > 0 /\ row_count \in Nat /\ n > 0 /\ row_count \in 0..BatchSize /\ row_count <= n
  BY <1>1, <1>3, <1>5, ExportAssumption DEF Counted
<1>9. Position(n)'
  <2>1. RowAt(rows, n)' = RowAt(rows, n)
    BY <1>2 DEF RowAt, Offset, RowParts
  <2>2. QED
    BY <1>1, <1>2, <2>1 DEF Progress, Position
<1>10. CASE ValidBatch(builders)
  <2>1. pc' = "close" /\ out' = Append(out, builders)
    BY <1>1, <1>10
  <2>2. /\ builders' \in Seq(Seq(Cells)) /\ Len(builders') = Len(schema)
        /\ DOMAIN builders' = DOMAIN builders
        /\ out' \in Seq(Seq(Seq(Cells))) /\ out' # <<>>
        /\ \A b \in DOMAIN out' : Len(out'[b]) = Len(schema)
        /\ \A c \in DOMAIN builders : builders'[c] = <<>> /\ Column(c)' = Column(c)
    BY <1>1, <1>2, <1>3, <2>1, Flushed
  <2>3. Types'
    BY <1>1, <1>2, <2>1, <2>2, TypesGo DEF Types
  <2>4. shape # <<>> => Len(shape) = Len(schema)
    <3> SUFFICES ASSUME shape # <<>>, Len(shape) # Len(schema) PROVE FALSE
      OBVIOUS
    <3> DEFINE k == Len(schema)
    <3>1. Len(shape) # 0
      <4>1. shape \in Seq(STRING)
        BY ExportAssumption DEF Types
      <4>2. QED
        BY <4>1
    <3>2. 1 \in DOMAIN shape /\ k \notin DOMAIN shape /\ 1 \in DOMAIN builders /\ k \in DOMAIN builders
      <4>1. Len(shape) < k /\ Len(shape) > 0 /\ k \in Nat /\ Len(builders) = k
        <5> DEFINE j == Len(shape)
        <5>1. j <= k /\ j # k /\ j # 0 /\ j \in Nat
          BY <1>3, <1>5, <1>8, <3>1
        <5>2. k \in Nat /\ Len(builders) = k
          BY <1>3, <1>4
        <5> HIDE DEF j, k
        <5>3. QED
          BY <5>1, <5>2 DEF j
      <4>2. 1 \in 1..Len(shape) /\ k \notin 1..Len(shape) /\ 1 \in 1..k /\ k \in 1..k
        <5> DEFINE j == Len(shape)
        <5>1. j < k /\ j > 0 /\ k \in Nat /\ j \in Nat
          BY <1>5, <4>1
        <5> HIDE DEF j, k
        <5>2. QED
          BY <5>1 DEF j
      <4>3. QED
        BY <1>4, <1>5, <4>1, <4>2
    <3>3. Len(builders[k]) = Len(builders[1])
      BY <1>10, <3>2 DEF ValidBatch
    <3>4. Len(builders[1]) = row_count /\ Column(k) = <<>>
      BY <1>7, <3>2
    <3>5. /\ Len(Column(k)) = Len(Written(k)) + Len(builders[k])
          /\ Written(k) \in Seq(Cells) /\ builders[k] \in Seq(Cells)
      BY <1>3, <3>2, ColumnFacts
    <3>6. Len(Column(k)) = 0
      <4> HIDE DEF k
      <4>1. Len(<<>>) = 0
        OBVIOUS
      <4>2. QED
        BY <3>4, <4>1
    <3> DEFINE written == Len(Written(k))
               waiting == Len(builders[k])
    <3>7. written + waiting = 0 /\ written \in Nat /\ waiting = row_count
      BY <3>3, <3>4, <3>5, <3>6
    <3> HIDE DEF written, waiting
    <3>8. QED
      BY <1>8, <3>7
  <2>5. Batches'
    BY <1>2, <2>2, <2>4 DEF Batches
  <2>6. Values(n)'
    BY <1>2, <1>6, <1>7, <2>1, <2>2 DEF Values
  <2>7. Counted(n)'
    BY <1>2, <1>8, <2>1, <2>2 DEF Counted
  <2>8. Progress(n)'
    BY <1>2, <1>3, <1>9, <2>1, <2>2, <2>5, <2>6, <2>7 DEF Progress, Stream
  <2>9. QED
    BY <2>3, <2>8
<1>11. CASE ~ValidBatch(builders)
  <2>1. pc' = "failed" /\ out' = out
    BY <1>1, <1>11
  <2>2. /\ builders' \in Seq(Seq(Cells)) /\ Len(builders') = Len(schema)
        /\ DOMAIN builders' = DOMAIN builders
        /\ \A c \in DOMAIN builders : builders'[c] = <<>>
    BY <1>1, <1>3, <1>4 DEF NewBuilders
  <2>3. Types'
    BY <1>1, <1>2, <1>4, <2>1, <2>2, TypesGo DEF Types, Over
  <2>4. Batches'
    BY <1>2, <1>3, <2>1 DEF Batches
  <2>5. ASSUME NEW c \in DOMAIN builders
        PROVE  /\ Len(Column(c)') <= n
               /\ c \notin DOMAIN shape => Column(c)' = <<>>
               /\ SameType(c) /\ TextLike(c) /\ c \in DOMAIN shape =>
                     \A r \in 1..Len(Column(c)') : Column(c)'[r] = Expected(r, c)
    <3> DEFINE w == Written(c)
               b == builders[c]
               col == Column(c)
    <3>1. /\ w \in Seq(Cells) /\ b \in Seq(Cells) /\ col \in Seq(Cells)
          /\ Len(col) = Len(w) + Len(b)
          /\ \A r \in 1..Len(w) : col[r] = w[r]
      BY <1>3, ColumnFacts
    <3>2. Column(c)' = w
      <4>1. Column(c)' = w \o <<>>
        BY <2>1, <2>2 DEF Column, Written
      <4> HIDE DEF w
      <4>2. QED
        BY <3>1, <4>1
    <3>3. /\ Len(col) <= n
          /\ c \notin DOMAIN shape => col = <<>>
          /\ SameType(c) /\ TextLike(c) /\ c \in DOMAIN shape =>
                \A r \in 1..Len(col) : col[r] = Expected(r, c)
      BY <1>7
    <3> HIDE DEF w, b, col
    <3>4. Len(w) \in Nat /\ Len(b) \in Nat /\ Len(w) <= Len(col)
      BY <3>1
    <3>5. ASSUME col = <<>> PROVE w = <<>>
      <4>1. Len(col) = 0
        BY <3>5
      <4>2. Len(w) = 0
        BY <3>4, <4>1
      <4>3. QED
        BY <3>1, <4>2
    <3>6. ASSUME SameType(c), TextLike(c), c \in DOMAIN shape, NEW r \in 1..Len(w)
          PROVE  w[r] = Expected(r, c)
      <4>1. r \in 1..Len(col)
        BY <3>1, <3>4
      <4>2. QED
        BY <3>1, <3>3, <3>6, <4>1
    <3>7. Len(w) <= n
      BY <3>1, <3>3, <3>4
    <3>8. QED
      BY <3>2, <3>3, <3>5, <3>6, <3>7
  <2>6. Values(n)'
    BY <1>2, <1>6, <2>1, <2>2, <2>5 DEF Values
  <2>7. Counted(n)'
    BY <1>2, <1>8, <2>1 DEF Counted
  <2>8. Progress(n)'
    BY <1>2, <1>3, <1>9, <2>1, <2>2, <2>4, <2>6, <2>7 DEF Progress, Stream
  <2>9. QED
    BY <2>3, <2>8
<1>12. QED
  BY <1>10, <1>11

\* A read or slice out of range needs a value that is shorter than its type.
LEMMA StepPanic ==
    ASSUME Types, NEW n \in 0..Len(rows), Progress(n), Panic
    PROVE  Len(shape) # Len(schema) \/ \E c \in DOMAIN shape : ~SameType(c)
<1> SUFFICES ASSUME Len(shape) = Len(schema), \A c \in DOMAIN shape : SameType(c)
             PROVE  FALSE
  OBVIOUS
<1>1. pc = "rows" /\ AtRow
  BY DEF Panic
<1>2. consumed = RowAt(rows, n) /\ received \in 0..Len(wire) /\ Len(builders) = Len(schema)
  BY <1>1 DEF Progress, Position
<1>3. rows \in Seq(Seq(Int)) /\ wire = Stream(rows)
  BY PositionFacts
<1> DEFINE r == n + 1
           row == rows[r]
<1>4. /\ r \in 1..Len(rows) /\ NumCols = Len(row)
      /\ \A c \in 1..Len(row) : Scan(NumCols)[c] <= Avail /\ ColLen(c) = row[c]
  BY <1>1, <1>2, <1>3, RowIsRead
<1> HIDE DEF r
<1>5. /\ Len(row) = Len(shape) /\ Len(shape) \in Nat /\ DOMAIN shape = 1..Len(shape)
      /\ \A c \in DOMAIN shape : row[c] \in -1..16 /\ row[c] \in SentSizes(shape[c]) \cup {-1}
  BY <1>4, RowsAreNumbers
<1> HIDE DEF row
<1>6. PICK c \in 1..NumCols : Panics(c)
  BY DEF Panic
<1>7. c \in DOMAIN shape /\ c \in DOMAIN builders
  <2>1. builders \in Seq(Seq(Cells))
    BY DEF Types
  <2>2. QED
    BY <1>2, <1>4, <1>5, <2>1
<1>8. schema[c] \in DOMAIN FixedWidth /\ row[c] \in 0..(FixedWidth[schema[c]] - 1)
  BY <1>4, <1>5, <1>6, <1>7 DEF Panics
<1>9. shape[c] \in DOMAIN PgToArrow /\ schema[c] = PgToArrow[shape[c]]
  BY <1>7 DEF SameType
<1>10. SentSizes(shape[c]) = {FixedWidth[schema[c]]}
  BY <1>8, <1>9, FixedSize
<1>11. row[c] = FixedWidth[schema[c]] \/ row[c] = -1
  BY <1>5, <1>7, <1>10
<1>12. FixedWidth[schema[c]] \in Nat
  BY <1>8 DEF FixedWidth
<1>13. QED
  BY <1>8, <1>11, <1>12

-----------------------------------------------------------------------------
(* The theorems.                                                            *)

LEMMA InvInit == Init => IInv
<1> SUFFICES ASSUME Init PROVE IInv
  OBVIOUS
<1>1. Types
  <2>1. <<>> \in Seq(Builders) /\ <<>> \in Seq(RowsOf(shape)) /\ <<>> \in Seq(Seq(Cells))
        /\ <<>> \in Seq(Seq(Seq(Cells))) /\ Len(<<>>) = 0
    OBVIOUS
  <2>2. /\ schema = <<>> /\ shape = <<>> /\ rows = <<>> /\ builders = <<>> /\ out = <<>>
        /\ header = FALSE /\ file = "old" /\ pc = "describe"
    BY DEF Init
  <2>3. Len(rows) <= MaxRows
    BY <2>1, <2>2, ExportAssumption
  <2>4. QED
    BY <2>1, <2>2, <2>3 DEF Types
<1>2. Early
  BY DEF Init, Early
<1>3. PanicNeedsAlter
  BY DEF Init, PanicNeedsAlter
<1>4. QED
  BY <1>1, <1>2, <1>3 DEF IInv

LEMMA InvStep == IInv /\ [Next]_vars => IInv'
<1> SUFFICES ASSUME IInv, [Next]_vars PROVE IInv'
  OBVIOUS
<1> USE DEF Goto
<1>t. Types
  BY DEF IInv
<1>1. CASE UNCHANGED vars
  <2>1. \A n : Progress(n)' <=> Progress(n)
    BY <1>1 DEF vars, query, Progress, Position, Batches, Values, Counted, Stream, RowAt, Offset,
                RowParts, Column, Written, Expected, SameType, TextLike
  <2>2. (Types' <=> Types) /\ (Early' <=> Early) /\ (PanicNeedsAlter' <=> PanicNeedsAlter)
    BY <1>1 DEF vars, query, Types, Early, PanicNeedsAlter, SameType, RowsOf
  <2>3. rows' = rows
    BY <1>1 DEF vars, query
  <2>4. QED
    BY <2>1, <2>2, <2>3 DEF IInv
<1>2. CASE Early /\ Next
  <2>1. pc \in {"describe", "copy", "failed"}
    BY <1>2 DEF Early
  <2>2. Describe \/ Copy \/ Fail
    BY <1>2, <2>1 DEF Next, Step, Create, Chunk, NeedMore, Trailer, DecodeRow, AppendRow, BadText,
                      Panic, WriteBatch, EndOfStream, WriteLastBatch, Close
  <2>3. CASE Describe
    <3>1. Types' /\ Early'
      BY <1>t, <1>2, <2>3, StepDescribe
    <3>2. PanicNeedsAlter'
      BY <3>1 DEF Early, PanicNeedsAlter
    <3>3. QED
      BY <3>1, <3>2 DEF IInv
  <2>4. CASE Copy
    <3>1. Types' /\ Progress(0)' /\ 0 \in 0..Len(rows')
      BY <1>t, <1>2, <2>4, StepCopy
    <3>2. PanicNeedsAlter'
      BY <2>4 DEF Copy, PanicNeedsAlter
    <3>3. QED
      BY <3>1, <3>2 DEF IInv
  <2>5. CASE Fail
    <3>1. pc' = "failed" /\ UNCHANGED <<query, decoder, out, file>>
      BY <2>5 DEF Fail
    <3>2. Types' /\ Early' /\ PanicNeedsAlter'
      BY <1>t, <1>2, <3>1 DEF query, decoder, Types, Early, PanicNeedsAlter, RowsOf, Over
    <3>3. QED
      BY <3>2 DEF IInv
  <2>6. QED
    BY <2>2, <2>3, <2>4, <2>5
<1>3. ASSUME NEW n \in 0..Len(rows), Progress(n), Next PROVE IInv'
  <2>1. pc \notin {"describe", "copy"}
    BY <1>3 DEF Progress
  <2>2. \/ Create \/ Chunk \/ NeedMore \/ Trailer \/ DecodeRow \/ BadText \/ Panic
        \/ WriteBatch \/ EndOfStream \/ WriteLastBatch \/ Close \/ Fail
    BY <1>3, <2>1 DEF Next, Step, Describe, Copy
  <2>3. ASSUME Types', Progress(n)', rows' = rows, pc' # "panicked" PROVE IInv'
    BY <2>3 DEF IInv, PanicNeedsAlter
  <2>4. CASE Create
    <3>1. rows' = rows /\ pc' # "panicked"
      BY <2>4 DEF Create, query
    <3>2. QED
      BY <1>t, <1>3, <2>3, <2>4, <3>1, StepCreate
  <2>5. CASE Chunk
    <3>1. rows' = rows /\ pc' # "panicked"
      BY <2>5 DEF Chunk, query
    <3>2. QED
      BY <1>t, <1>3, <2>3, <2>5, <3>1, StepChunk
  <2>6. CASE NeedMore
    <3>1. rows' = rows /\ pc' # "panicked"
      BY <2>6 DEF NeedMore, query
    <3>2. QED
      BY <1>t, <1>3, <2>3, <2>6, <3>1, StepNeedMore
  <2>7. CASE Trailer
    <3>1. rows' = rows /\ pc' # "panicked"
      BY <2>7 DEF Trailer, query
    <3>2. QED
      BY <1>t, <1>3, <2>3, <2>7, <3>1, StepTrailer
  <2>8. CASE DecodeRow
    <3>1. rows' = rows /\ pc' # "panicked"
      BY <2>8 DEF DecodeRow, AppendRow, query
    <3>2. Types' /\ n + 1 \in 0..Len(rows') /\ Progress(n + 1)'
      BY <1>t, <1>3, <2>8, StepDecodeRow
    <3>3. QED
      BY <3>1, <3>2 DEF IInv, PanicNeedsAlter
  <2>9. CASE WriteBatch
    <3>1. rows' = rows /\ pc' # "panicked"
      BY <2>9 DEF WriteBatch, query
    <3>2. QED
      BY <1>t, <1>3, <2>3, <2>9, <3>1, StepWriteBatch
  <2>10. CASE EndOfStream
    <3>1. rows' = rows /\ pc' # "panicked"
      BY <2>10 DEF EndOfStream, query
    <3>2. QED
      BY <1>t, <1>3, <2>3, <2>10, <3>1, StepEndOfStream
  <2>11. CASE WriteLastBatch
    <3>1. rows' = rows /\ pc' # "panicked"
      BY <2>11 DEF WriteLastBatch, query
    <3>2. QED
      BY <1>t, <1>3, <2>3, <2>11, <3>1, StepWriteLastBatch
  <2>12. CASE BadText \/ Fail
    <3>1. /\ pc' = "failed" /\ pc \notin {"failed", "done"} /\ file' = file
          /\ UNCHANGED <<query, decoder, out>>
      BY <2>12 DEF BadText, Fail, Over
    <3>2. rows' = rows /\ pc' # "panicked"
      BY <3>1 DEF query
    <3>3. QED
      BY <1>t, <1>3, <2>3, <3>1, <3>2, StepEnds
  <2>13. CASE Close
    <3>1. /\ pc' = "done" /\ pc = "close" /\ file' = "complete"
          /\ UNCHANGED <<query, decoder, out>>
      BY <2>13 DEF Close
    <3>2. rows' = rows /\ pc' # "panicked"
      BY <3>1 DEF query
    <3>3. QED
      BY <1>t, <1>3, <2>3, <3>1, <3>2, StepEnds
  <2>14. CASE Panic
    <3>1. /\ pc' = "panicked" /\ pc = "rows" /\ file' = file
          /\ UNCHANGED <<query, decoder, out>>
      BY <2>14 DEF Panic
    <3>2. Types' /\ Progress(n)'
      BY <1>t, <1>3, <3>1, StepEnds
    <3>3. Len(shape) # Len(schema) \/ \E c \in DOMAIN shape : ~SameType(c)
      BY <1>t, <1>3, <2>14, StepPanic
    <3>4. PanicNeedsAlter'
      BY <3>1, <3>3 DEF query, PanicNeedsAlter, SameType
    <3>5. rows' = rows
      BY <3>1 DEF query
    <3>6. QED
      BY <3>2, <3>4, <3>5 DEF IInv
  <2>15. QED
    BY <2>2, <2>4, <2>5, <2>6, <2>7, <2>8, <2>9, <2>10, <2>11, <2>12, <2>13, <2>14
<1>4. QED
  BY <1>1, <1>2, <1>3 DEF IInv

LEMMA Inv == Spec => []IInv
  BY InvInit, InvStep, PTL DEF Spec

\* The buffers, the batches and the file keep to what the code makes of them,
\* and the decoder takes no byte twice and none that has not come.
THEOREM TypeCorrect == Spec => []TypeOK
<1>1. IInv => TypeOK
  <2> SUFFICES ASSUME IInv PROVE TypeOK
    OBVIOUS
  <2>1. Types
    BY DEF IInv
  <2>2. CASE Early
    <3>1. Len(<<>>) = 0
      OBVIOUS
    <3>2. QED
      BY <2>1, <2>2, <3>1, ExportAssumption DEF Types, Early, TypeOK
  <2>3. CASE \E n \in 0..Len(rows) : Progress(n)
    <3>1. PICK n \in 0..Len(rows) : Progress(n)
      BY <2>3
    <3>2. 0 <= consumed /\ consumed <= received /\ received <= Len(wire)
      BY <2>1, <3>1, PositionFacts
    <3>3. row_count \in 0..BatchSize
      BY <3>1 DEF Progress, Counted
    <3>4. QED
      BY <2>1, <3>2, <3>3 DEF Types, TypeOK
  <2>4. QED
    BY <2>2, <2>3 DEF IInv
<1>2. QED
  BY <1>1, Inv, PTL

\* However the COPY stream is cut into chunks, every column that is copied as
\* it was described holds the values of the first rows, each once and in order
\* (export.rs:96-205).
THEOREM RowsInOrderHolds == Spec => []RowsInOrder
<1>1. IInv => RowsInOrder
  <2> SUFFICES ASSUME IInv, NEW c \in DOMAIN builders \cap DOMAIN shape,
                      SameType(c), TextLike(c)
               PROVE  /\ Len(Column(c)) <= Len(rows)
                      /\ \A r \in DOMAIN Column(c) : Column(c)[r] = Expected(r, c)
    BY DEF RowsInOrder, TextLike
  <2>1. ~Early
    BY DEF Early
  <2>2. PICK n \in 0..Len(rows) : Progress(n)
    BY <2>1 DEF IInv
  <2>3. Values(n) /\ Batches /\ Len(builders) = Len(schema)
    BY <2>2 DEF Progress
  <2>4. Column(c) \in Seq(Cells)
    BY <2>3, ColumnFacts DEF IInv
  <2>5. Len(Column(c)) <= n /\ \A r \in 1..Len(Column(c)) : Column(c)[r] = Expected(r, c)
    BY <2>3 DEF Values
  <2>6. DOMAIN Column(c) = 1..Len(Column(c)) /\ Len(Column(c)) \in Nat
    BY <2>4
  <2>7. Len(rows) \in Nat /\ n <= Len(rows)
    BY RowsAreNumbers DEF IInv
  <2> HIDE DEF Column
  <2>8. QED
    BY <2>5, <2>6, <2>7
<1>2. QED
  BY <1>1, Inv, PTL

\* A file that can be read has all rows in all the described columns, unless
\* the table has lost all of its columns (export.rs:74-86, main.rs:151-158).
THEOREM WholeOrUnreadableHolds == Spec => []WholeOrUnreadable
<1>1. IInv => WholeOrUnreadable
  <2> SUFFICES ASSUME IInv, file = "complete", rows # [r \in DOMAIN rows |-> <<>>]
               PROVE  /\ Len(rows[1]) = Len(schema)
                      /\ \A c \in DOMAIN schema : Len(Written(c)) = Len(rows)
    BY DEF WholeOrUnreadable
  <2>1. Types /\ pc = "done"
    BY DEF IInv, Types
  <2>2. PICK n \in 0..Len(rows) : Progress(n)
    BY <2>1 DEF IInv, Early
  <2>3. /\ n = Len(rows) /\ Batches /\ Values(n) /\ Counted(n)
        /\ Len(builders) = Len(schema) /\ (n > 0 => Len(shape) <= Len(schema))
    BY <2>1, <2>2 DEF Progress, Position
  <2>4. /\ rows \in Seq(Seq(Int)) /\ Len(rows) \in Nat
        /\ Len(shape) \in Nat /\ DOMAIN shape = 1..Len(shape)
        /\ \A r \in 1..Len(rows) : Len(rows[r]) = Len(shape)
    BY <2>1, RowsAreNumbers
  <2>5. n > 0 /\ Len(shape) # 0 /\ shape # <<>>
    <3>1. ASSUME Len(shape) = 0 PROVE FALSE
      <4>1. \A r \in DOMAIN rows : rows[r] = <<>>
        <5>1. \A r \in DOMAIN rows : rows[r] \in Seq(Int) /\ Len(rows[r]) = 0
          <6>1. DOMAIN rows = 1..Len(rows)
            BY <2>4
          <6>2. QED
            BY <2>4, <3>1, <6>1
        <5>2. QED
          BY <5>1
      <4>2. rows = [r \in DOMAIN rows |-> rows[r]]
        BY <2>4
      <4>3. QED
        BY <4>1, <4>2
    <3>2. ASSUME Len(rows) = 0 PROVE FALSE
      <4>1. rows = <<>> /\ DOMAIN rows = {}
        BY <2>4, <3>2
      <4>2. rows = [r \in DOMAIN rows |-> <<>>]
        BY <4>1
      <4>3. QED
        BY <4>2
    <3>3. Len(shape) # 0 => shape # <<>>
      OBVIOUS
    <3>4. QED
      BY <2>3, <2>4, <3>1, <3>2, <3>3
  <2>6. ASSUME NEW c \in DOMAIN builders, c \in DOMAIN shape
        PROVE  Len(Written(c)) = n
    <3>1. builders[c] = <<>> /\ Len(Column(c)) = n
      BY <2>1, <2>3, <2>6 DEF Counted, Values
    <3>2. Len(Column(c)) = Len(Written(c)) + Len(builders[c]) /\ Written(c) \in Seq(Cells)
      BY <2>1, <2>3, ColumnFacts
    <3>3. Len(builders[c]) = 0
      BY <3>1
    <3> DEFINE written == Len(Written(c))
    <3>4. written \in Nat /\ n = written + 0
      BY <3>1, <3>2, <3>3
    <3> HIDE DEF written
    <3>5. n = written
      BY <3>4
    <3>6. QED
      BY <3>5 DEF written
  <2>7. DOMAIN builders = 1..Len(schema) /\ DOMAIN schema = 1..Len(schema) /\ Len(schema) \in Nat
    BY <2>1, <2>3 DEF Types
  <2>8. out # <<>>
    <3> SUFFICES ASSUME out = <<>> PROVE FALSE
      OBVIOUS
    <3>1. 1 \in DOMAIN builders /\ 1 \in DOMAIN shape
      BY <2>3, <2>4, <2>5, <2>7
    <3>2. Len(Written(1)) = n
      BY <2>6, <3>1
    <3>3. Written(1) = <<>>
      BY FlattenEmpty DEF Written
    <3>4. Len(Written(1)) = 0
      BY <3>3
    <3>5. QED
      BY <2>5, <3>2, <3>4
  <2>9. Len(shape) = Len(schema)
    BY <2>3, <2>5, <2>8 DEF Batches
  <2>10. 1 \in 1..Len(rows)
    BY <2>3, <2>4, <2>5
  <2>11. QED
    BY <2>3, <2>4, <2>6, <2>7, <2>9, <2>10
<1>2. QED
  BY <1>1, Inv, PTL

\* The decoder reads or slices out of range only when the copied columns are
\* not those that were described (export.rs:118-181).
THEOREM PanicNeedsAlterHolds == Spec => []PanicNeedsAlter
<1>1. IInv => PanicNeedsAlter
  BY DEF IInv
<1>2. QED
  BY <1>1, Inv, PTL

-----------------------------------------------------------------------------
(* The restore.                                                             *)

\* The rows of the file are numbered in its order.
LEMMA FirstRowsFacts ==
    ASSUME NEW n \in Nat
    PROVE  /\ Import!FirstRows(0) = <<>>
           /\ Import!FirstRows(n) \in Seq(Nat) /\ Len(Import!FirstRows(n)) = n
           /\ \A k \in 1..n : Import!FirstRows(n)[k] = k
           /\ Append(Import!FirstRows(n), n + 1) = Import!FirstRows(n + 1)
  BY DEF Import!FirstRows

LEMMA RowsOfDumped ==
    ASSUME NumWritten \in Nat
    PROVE  Len(Import!Rows) = NumWritten
  BY DEF Import!Rows, Dumped

\* A dump that can be read is a dump that is done.
LEMMA Readable ==
    ASSUME IInv, CanBeRead
    PROVE  /\ Types /\ pc = "done" /\ NumWritten \in Nat
           /\ \E n \in 0..Len(rows) :
                 /\ n = Len(rows) /\ Batches /\ Values(n)
                 /\ Len(builders) = Len(schema)
                 /\ \A c \in DOMAIN builders : builders[c] = <<>>
<1>1. Types /\ pc = "done"
  BY DEF IInv, Types, CanBeRead
<1>2. PICK n \in 0..Len(rows) : Progress(n)
  BY <1>1 DEF IInv, Early
<1>3. /\ n = Len(rows) /\ Batches /\ Values(n)
      /\ Len(builders) = Len(schema)
      /\ \A c \in DOMAIN builders : builders[c] = <<>>
  BY <1>1, <1>2 DEF Progress, Position, Counted
<1>4. NumWritten \in Nat
  <2>1. CASE schema = <<>>
    BY <2>1 DEF NumWritten
  <2>2. CASE schema # <<>>
    <3>1. 1 \in DOMAIN builders
      <4>1. /\ schema \in Seq(Builders) /\ builders \in Seq(Seq(Cells))
        BY <1>1 DEF Types
      <4>2. QED
        BY <1>3, <2>2, <4>1
    <3>2. Written(1) \in Seq(Cells)
      BY <1>1, <1>3, <3>1, ColumnFacts
    <3>3. QED
      BY <2>2, <3>2 DEF NumWritten
  <2>3. QED
    BY <2>1, <2>2
<1>5. QED
  BY <1>1, <1>3, <1>4

\* The whole file, row for row, is what the COPY saw.
LEMMA FileIsSnapshot ==
    ASSUME IInv, CanBeRead, Faithful # {}, NEW t, t = Import!FirstRows(NumWritten)
    PROVE  [k \in DOMAIN t |-> [c \in Faithful |-> Written(c)[t[k]]]] = Snapshot
<1>1. /\ Types /\ pc = "done" /\ NumWritten \in Nat
      /\ \E n \in 0..Len(rows) :
            /\ n = Len(rows) /\ Batches /\ Values(n)
            /\ Len(builders) = Len(schema)
            /\ \A c \in DOMAIN builders : builders[c] = <<>>
  BY Readable
<1>2. /\ Batches /\ Values(Len(rows)) /\ Len(builders) = Len(schema)
      /\ \A c \in DOMAIN builders : builders[c] = <<>>
  BY <1>1
<1>3. /\ rows \in Seq(Seq(Int)) /\ Len(rows) \in Nat /\ DOMAIN rows = 1..Len(rows)
      /\ Len(shape) \in Nat /\ DOMAIN shape = 1..Len(shape)
      /\ \A r \in 1..Len(rows) : Len(rows[r]) = Len(shape)
  BY <1>1, RowsAreNumbers
<1>4. DOMAIN builders = 1..Len(schema) /\ DOMAIN schema = 1..Len(schema) /\ Len(schema) \in Nat
  BY <1>1, <1>2 DEF Types
<1>5. ASSUME NEW c \in DOMAIN builders
      PROVE  Written(c) = Column(c) /\ Written(c) \in Seq(Cells) /\ Len(Written(c)) \in Nat
  <2> DEFINE w == Written(c)
  <2>1. w \in Seq(Cells)
    BY <1>1, <1>2, ColumnFacts
  <2>2. Column(c) = w \o <<>>
    BY <1>2 DEF Column
  <2> HIDE DEF w
  <2>3. QED
    BY <2>1, <2>2 DEF w
<1>6. \A c \in Faithful : c \in DOMAIN builders /\ c \in DOMAIN shape /\ SameType(c) /\ TextLike(c)
  BY <1>4 DEF Faithful, TextLike
<1>7. ASSUME NEW c \in Faithful
      PROVE  \A r \in 1..Len(rows) : Written(c)[r] = Expected(r, c)
  <2>1. c \in DOMAIN builders /\ c \in DOMAIN shape /\ SameType(c) /\ TextLike(c)
    BY <1>6
  <2>2. Len(Column(c)) = Len(rows) /\ \A r \in 1..Len(Column(c)) : Column(c)[r] = Expected(r, c)
    BY <1>1, <1>2, <2>1 DEF Values
  <2>3. Column(c) = Written(c)
    BY <1>5, <2>1
  <2> HIDE DEF Column
  <2>4. QED
    BY <2>2, <2>3
<1>8. NumWritten = Len(rows)
  <2>0. PICK c \in Faithful : TRUE
    OBVIOUS
  <2>1. 1 \in DOMAIN builders /\ schema # <<>> /\ Len(shape) # 0 /\ 1 \in DOMAIN shape
    <3>1. c \in 1..Len(schema) /\ c \in 1..Len(shape)
      BY <1>3, <1>4, <1>6
    <3>2. Len(schema) # 0 /\ Len(shape) # 0
      BY <1>3, <1>4, <3>1
    <3>3. 1 \in 1..Len(schema) /\ 1 \in 1..Len(shape)
      BY <1>3, <1>4, <3>2
    <3>4. schema # <<>>
      BY <3>2
    <3>5. QED
      BY <1>3, <1>4, <3>2, <3>3, <3>4
  <2>2. Len(Column(1)) = Len(rows)
    BY <1>1, <1>2, <2>1 DEF Values
  <2>3. Column(1) = Written(1)
    BY <1>5, <2>1
  <2> HIDE DEF Column
  <2>4. QED
    BY <2>1, <2>2, <2>3 DEF NumWritten
<1>9. t = [k \in 1..Len(rows) |-> k]
  BY <1>8 DEF Import!FirstRows
<1>10. DOMAIN t = DOMAIN rows /\ \A k \in DOMAIN t : t[k] = k
  BY <1>3, <1>9
<1>11. \A k \in DOMAIN t, c \in Faithful : Written(c)[t[k]] = Expected(k, c)
  BY <1>3, <1>7, <1>10
<1>12. QED
  BY <1>10, <1>11 DEF Snapshot

\* How far the one COPY of a restore is.
Copying ==
    /\ rpc \in {"ddl", "copy", "rows", "flush", "finish"} => table \in {NoTable, <<>>}
    /\ rpc \in {"rows", "flush", "finish"} => table = <<>>
    /\ rpc \in {"ddl", "copy"} => next = 1 /\ buf = <<>> /\ sent = <<>>
    /\ rpc \in {"rows", "flush"} =>
          /\ next \in 1..(NumWritten + 1)
          /\ buf \in Seq(Nat) /\ sent \in Seq(Nat)
          /\ sent \o buf = Import!FirstRows(next - 1)
    /\ rpc = "finish" => sent = Import!FirstRows(NumWritten)
    /\ rpc \in {"reply", "ok"} => table = Import!FirstRows(NumWritten)

\* A restore does nothing before the dump has ended, and is run once, on a file
\* that can be read.
Restored ==
    /\ pc \notin Over => rpc = "idle"
    /\ rpc = "idle" => tries = 0 /\ table \in {NoTable, <<>>}
    /\ rpc \notin {"idle", "failed"} => CanBeRead
    /\ CanBeRead /\ rpc # "idle" => tries = 1
    /\ rpc \in {"idle", "failed", "ddl", "copy", "rows", "flush", "finish", "reply", "ok"}
    /\ Copying

LEMMA NextIsEarly == Next => pc \notin Over
  BY DEF Next, Step, Goto, Describe, Copy, Create, Chunk, NeedMore, Trailer, DecodeRow, AppendRow,
         BadText, Panic, WriteBatch, EndOfStream, WriteLastBatch, Close, Fail, Over

LEMMA RestoredInit == RoundTripInit => Restored
  BY DEF RoundTripInit, Init, Restored, Copying, CanBeRead, Over

\* The steps of a restore of a file that can be read.
LEMMA RestoredImport ==
    ASSUME IInv, Restored, CanBeRead, pc \in Over, UNCHANGED vars, Import!Next
    PROVE  Restored'
<1>1. pc' = pc /\ CanBeRead' /\ NumWritten' = NumWritten
  BY DEF vars, query, CanBeRead, NumWritten, Written
<1>2. NumWritten \in Nat
  BY Readable
<1>3. Len(Import!Rows) = NumWritten
  BY <1>2, RowsOfDumped
<1> DEFINE N == NumWritten
           F(n) == Import!FirstRows(n)
<1>4. /\ F(0) = <<>>
      /\ \A n \in Nat : /\ F(n) \in Seq(Nat) /\ Len(F(n)) = n
                        /\ Append(F(n), n + 1) = F(n + 1)
  BY FirstRowsFacts
<1>5. \A n : F(n)' = F(n)
  BY DEF Import!FirstRows
<1>6. /\ rpc = "idle" => tries = 0 /\ table \in {NoTable, <<>>}
      /\ rpc # "idle" => tries = 1
      /\ rpc \in {"idle", "failed", "ddl", "copy", "rows", "flush", "finish", "reply", "ok"}
      /\ Copying
  BY DEF Restored
<1>7. ASSUME /\ rpc' \in {"failed", "ddl", "copy", "rows", "flush", "finish", "reply", "ok"}
             /\ tries' = 1
             /\ Copying'
      PROVE  Restored'
  BY <1>1, <1>7 DEF Restored
<1> HIDE DEF N, F
<1>8. CASE Import!Run
  <2>1. /\ rpc \in {"idle", "ok", "failed"} /\ tries < 1 /\ tries' = tries + 1
        /\ rpc' \in {"ddl", "copy"}
        /\ next' = 1 /\ buf' = <<>> /\ sent' = <<>> /\ table' = table
    BY <1>8 DEF Import!Run, Import!RunFrom, Import!Resting
  <2>2. rpc = "idle" /\ tries' = 1 /\ table' \in {NoTable, <<>>}
    BY <1>6, <2>1
  <2>3. Copying'
    BY <2>1, <2>2 DEF Copying
  <2>4. QED
    BY <1>7, <2>1, <2>2, <2>3
<1>9. CASE Import!CreateTable
  <2>1. /\ rpc = "ddl" /\ rpc' \in {"copy", "failed"}
        /\ table' = table \/ table' = <<>>
        /\ tries' = tries /\ next' = next /\ buf' = buf /\ sent' = sent
    BY <1>9 DEF Import!CreateTable, Import!Goto, Import!copy
  <2>2. Copying'
    BY <1>6, <2>1 DEF Copying
  <2>3. QED
    BY <1>6, <1>7, <2>1, <2>2
<1>10. CASE Import!BeginCopy
  <2>1. /\ rpc = "copy" /\ rpc' = IF table = NoTable THEN "failed" ELSE "rows"
        /\ table' = table
        /\ tries' = tries /\ next' = next /\ buf' = buf /\ sent' = sent
    BY <1>10 DEF Import!BeginCopy, Import!Goto, Import!copy
  <2>2. next = 1 /\ buf = <<>> /\ sent = <<>> /\ table \in {NoTable, <<>>}
    BY <1>6, <2>1 DEF Copying
  <2>3. /\ next' \in 1..(N + 1) /\ buf' \in Seq(Nat) /\ sent' \in Seq(Nat)
        /\ sent' \o buf' = F(next' - 1)
    <3>1. 1 \in 1..(N + 1)
      BY <1>2 DEF N
    <3>2. <<>> \in Seq(Nat) /\ <<>> \o <<>> = <<>> /\ 1 - 1 = 0
      OBVIOUS
    <3>3. QED
      BY <1>4, <2>1, <2>2, <3>1, <3>2
  <2>4. Copying'
    BY <1>1, <1>5, <2>1, <2>2, <2>3 DEF Copying, N, F
  <2>5. QED
    BY <1>6, <1>7, <2>1, <2>4
<1>11. CASE Import!EncodeRow
  <2>1. /\ rpc = "rows" /\ rpc' \in {"rows", "flush"} /\ next <= N
        /\ buf' = Append(buf, next) /\ next' = next + 1
        /\ sent' = sent /\ tries' = tries /\ table' = table
    BY <1>3, <1>11 DEF Import!EncodeRow, Import!EncodeTo, Import!Goto, N
  <2>2. /\ next \in 1..(N + 1) /\ buf \in Seq(Nat) /\ sent \in Seq(Nat)
        /\ sent \o buf = F(next - 1) /\ table = <<>>
    BY <1>6, <2>1 DEF Copying, N, F
  <2>3. next \in Nat /\ next' \in 1..(N + 1) /\ next' - 1 = next /\ next - 1 \in Nat
        /\ (next - 1) + 1 = next
    BY <1>2, <2>1, <2>2 DEF N
  <2>4. Append(F(next - 1), next) = F(next)
    BY <1>4, <2>3
  <2>5. sent \o Append(buf, next) = Append(sent \o buf, next) /\ Append(buf, next) \in Seq(Nat)
    <3>1. next \in Nat /\ buf \in Seq(Nat) /\ sent \in Seq(Nat)
      BY <2>2, <2>3
    <3>2. sent \o Append(buf, next) = Append(sent \o buf, next)
      BY <3>1, ConcatAppend
    <3>3. Append(buf, next) \in Seq(Nat)
      BY <3>1, AppendFacts
    <3>4. QED
      BY <3>2, <3>3
  <2>6. sent' \o buf' = F(next' - 1) /\ buf' \in Seq(Nat) /\ sent' \in Seq(Nat)
    BY <2>1, <2>2, <2>3, <2>4, <2>5
  <2>7. Copying'
    BY <1>1, <1>5, <2>1, <2>2, <2>3, <2>6 DEF Copying, N, F
  <2>8. QED
    BY <1>6, <1>7, <2>1, <2>7
<1>12. CASE Import!Flush
  <2>1. /\ rpc = "flush" /\ rpc' = "rows" /\ sent' = sent \o buf /\ buf' = <<>>
        /\ next' = next /\ tries' = tries /\ table' = table
    BY <1>12 DEF Import!Flush, Import!Goto
  <2>2. /\ next \in 1..(N + 1) /\ buf \in Seq(Nat) /\ sent \in Seq(Nat)
        /\ sent \o buf = F(next - 1) /\ table = <<>>
    BY <1>6, <2>1 DEF Copying, N, F
  <2>3. sent \o buf \in Seq(Nat) /\ <<>> \in Seq(Nat)
    <3>1. buf \in Seq(Nat) /\ sent \in Seq(Nat)
      BY <2>2
    <3>2. sent \o buf \in Seq(Nat)
      BY <3>1, ConcatType
    <3>3. QED
      BY <3>2
  <2>4. sent' \o buf' = F(next' - 1) /\ sent' \in Seq(Nat) /\ buf' \in Seq(Nat)
    <3> DEFINE s == sent \o buf
    <3>1. s \in Seq(Nat) /\ s = F(next - 1)
      BY <2>2, <2>3
    <3> HIDE DEF s
    <3>2. s \o <<>> = s
      BY <3>1
    <3>3. QED
      BY <2>1, <2>3, <3>1, <3>2 DEF s
  <2>5. Copying'
    BY <1>1, <1>5, <2>1, <2>2, <2>4 DEF Copying, N, F
  <2>6. QED
    BY <1>6, <1>7, <2>1, <2>5
<1>13. CASE Import!SendTrailer
  <2>1. /\ rpc = "rows" /\ rpc' = "finish" /\ next > N
        /\ sent' = sent \o buf /\ buf' = <<>>
        /\ next' = next /\ tries' = tries /\ table' = table
    BY <1>3, <1>13 DEF Import!SendTrailer, Import!Goto, N
  <2>2. next \in 1..(N + 1) /\ sent \o buf = F(next - 1) /\ table = <<>>
    BY <1>6, <2>1 DEF Copying, N, F
  <2>3. next - 1 = N
    BY <1>2, <2>1, <2>2 DEF N
  <2>4. sent' = F(N)
    BY <2>1, <2>2, <2>3
  <2>5. Copying'
    BY <1>1, <1>5, <2>1, <2>2, <2>4 DEF Copying, N, F
  <2>6. QED
    BY <1>6, <1>7, <2>1, <2>5
<1>14. CASE Import!Commit
  <2>1. /\ rpc = "finish" /\ rpc' = "reply" /\ table' = table \o sent
        /\ tries' = tries /\ next' = next /\ buf' = buf /\ sent' = sent
    BY <1>14 DEF Import!Commit, Import!Goto, Import!copy
  <2>2. table = <<>> /\ sent = F(N)
    BY <1>6, <2>1 DEF Copying, N, F
  <2>3. <<>> \o F(N) = F(N)
    <3>1. F(N) \in Seq(Nat)
      BY <1>2, <1>4 DEF N
    <3>2. QED
      BY <3>1
  <2>4. table' = F(N)
    BY <2>1, <2>2, <2>3
  <2>5. Copying'
    BY <1>1, <1>5, <2>1, <2>4 DEF Copying, N, F
  <2>6. QED
    BY <1>6, <1>7, <2>1, <2>5
<1>15. CASE Import!Reply
  <2>1. /\ rpc = "reply" /\ rpc' = "ok" /\ table' = table
        /\ tries' = tries /\ next' = next /\ buf' = buf /\ sent' = sent
    BY <1>15 DEF Import!Reply, Import!Goto, Import!copy
  <2>2. table' = F(N)
    BY <1>6, <2>1 DEF Copying, N, F
  <2>3. Copying'
    BY <1>1, <1>5, <2>1, <2>2 DEF Copying, N, F
  <2>4. QED
    BY <1>6, <1>7, <2>1, <2>3
<1>16. CASE Import!UnsupportedValue \/ Import!Refused \/ Import!ReadFails \/ Import!Fail
  <2>1. /\ rpc \in {"rows", "finish", "ddl", "copy", "flush", "reply"} /\ rpc' = "failed"
        /\ tries' = tries
    BY <1>16 DEF Import!UnsupportedValue, Import!Refused, Import!ReadFails, Import!Fail, Import!Goto
  <2>2. Copying'
    BY <2>1 DEF Copying
  <2>3. QED
    BY <1>6, <1>7, <2>1, <2>2
<1>17. QED
  BY <1>8, <1>9, <1>10, <1>11, <1>12, <1>13, <1>14, <1>15, <1>16 DEF Import!Next

LEMMA RestoredStep == IInv /\ Restored /\ [RoundTripNext]_all => Restored'
<1> SUFFICES ASSUME IInv, Restored, [RoundTripNext]_all PROVE Restored'
  OBVIOUS
<1>1. CASE Dump
  <2>1. pc \notin Over /\ restore' = restore
    BY <1>1, NextIsEarly DEF Dump
  <2>2. rpc' = "idle" /\ tries' = 0 /\ table' \in {NoTable, <<>>}
    BY <2>1 DEF Restored, restore
  <2>3. QED
    BY <2>2 DEF Restored, Copying
<1>2. CASE Restore
  <2>1. pc \in Over /\ UNCHANGED vars
    BY <1>2 DEF Restore
  <2>2. CASE CanBeRead
    <3>1. Import!Next
      BY <1>2, <2>2 DEF Restore
    <3>2. QED
      BY <2>1, <2>2, <3>1, RestoredImport
  <2>3. CASE ~CanBeRead
    <3>1. rpc' = "failed"
      BY <1>2, <2>3 DEF Restore
    <3>2. pc' = pc /\ ~CanBeRead'
      BY <2>1, <2>3 DEF vars, CanBeRead
    <3>3. QED
      BY <2>1, <3>1, <3>2 DEF Restored, Copying, Over, vars
  <2>4. QED
    BY <2>2, <2>3
<1>3. CASE UNCHANGED all
  <2>1. /\ pc' = pc /\ rpc' = rpc /\ tries' = tries /\ table' = table /\ next' = next
        /\ buf' = buf /\ sent' = sent /\ (CanBeRead' <=> CanBeRead) /\ NumWritten' = NumWritten
    BY <1>3 DEF all, vars, restore, query, CanBeRead, NumWritten, Written
  <2>2. \A n : Import!FirstRows(n)' = Import!FirstRows(n)
    BY DEF Import!FirstRows
  <2>3. Import!FirstRows(next - 1)' = Import!FirstRows(next - 1)
        /\ Import!FirstRows(NumWritten)' = Import!FirstRows(NumWritten)
    BY <2>1 DEF Import!FirstRows
  <2>4. Copying' <=> Copying
    BY <2>1, <2>3 DEF Copying
  <2>5. QED
    BY <2>1, <2>4 DEF Restored
<1>4. QED
  BY <1>1, <1>2, <1>3 DEF RoundTripNext

\* The dump of a round trip is the one of Export, so that what holds of that
\* holds of it.
THEOREM DumpIsExport == RoundTripSpec => Spec
<1>1. RoundTripInit => Init
  BY DEF RoundTripInit
<1>2. [RoundTripNext]_all => [Next]_vars
  BY DEF RoundTripNext, Dump, Restore, all
<1>3. QED
  BY <1>1, <1>2, PTL DEF RoundTripSpec, Spec

LEMMA RoundTripInv == RoundTripSpec => [](IInv /\ Restored)
<1>1. RoundTripSpec => []IInv
  BY DumpIsExport, Inv, PTL
<1>2. QED
  BY <1>1, RestoredInit, RestoredStep, PTL DEF RoundTripSpec

\* A restore can create and fill every column that a dump can have
\* (types.rs:7-55, import.rs:57-110).
THEOREM DumpIsRestorableHolds == RoundTripSpec => []DumpIsRestorable
<1>1. IInv => DumpIsRestorable
  <2> SUFFICES ASSUME IInv, NEW c \in DOMAIN schema
               PROVE  schema[c] \in DOMAIN ArrowToPg \cap Importable
    BY DEF DumpIsRestorable
  <2>1. schema[c] \in Builders
    BY DEF IInv, Types
  <2>2. QED
    BY <2>1 DEF Builders, Importable, ArrowToPg, FixedWidth
<1>2. QED
  BY <1>1, RoundTripInv, PTL

-----------------------------------------------------------------------------
(* The promise.                                                             *)

Snap == IF Taken /\ Faithful # {} THEN Snapshot ELSE <<>>

Deliv == IF table = NoTable \/ Faithful = {} THEN <<>> ELSE Delivered

LEMMA SnapTyped == Types => Snap \in Seq(UNION {[C -> Cells] : C \in SUBSET Columns})
<1> DEFINE All == UNION {[C -> Cells] : C \in SUBSET Columns}
<1> SUFFICES ASSUME Types PROVE Snap \in Seq(All)
  OBVIOUS
<1>1. CASE ~(Taken /\ Faithful # {})
  <2>1. Snap = <<>>
    BY <1>1 DEF Snap
  <2>2. QED
    BY <2>1
<1>2. CASE Taken /\ Faithful # {}
  <2>1. /\ rows \in Seq(Seq(Int)) /\ Len(rows) \in Nat /\ DOMAIN rows = 1..Len(rows)
        /\ Len(shape) \in Nat /\ DOMAIN shape = 1..Len(shape)
        /\ \A r \in 1..Len(rows) : Len(rows[r]) = Len(shape)
    BY RowsAreNumbers
  <2>2. Snap = Snapshot
    BY <1>2 DEF Snap
  <2>3. ASSUME NEW r \in 1..Len(rows)
        PROVE  [c \in Faithful |-> Expected(r, c)] \in All
    <3>1. rows # <<>> /\ shape \in Shapes
      BY <2>1, <2>3 DEF Types
    <3>2. Faithful \in SUBSET Columns
      BY <3>1 DEF Faithful, Columns
    <3>3. r \in 1..MaxRows
      BY <2>1, <2>3, ExportAssumption DEF Types
    <3>4. ASSUME NEW c \in Faithful PROVE Expected(r, c) \in Cells
      <4>1. c \in Columns
        BY <3>2
      <4>2. QED
        BY <3>3, <4>1 DEF Expected, Cells
    <3>5. [c \in Faithful |-> Expected(r, c)] \in [Faithful -> Cells]
      BY <3>4
    <3>6. QED
      BY <3>2, <3>5
  <2> HIDE DEF All
  <2>4. [r \in 1..Len(rows) |-> [c \in Faithful |-> Expected(r, c)]] \in Seq(All)
    BY <2>1, <2>3
  <2>5. QED
    BY <2>1, <2>2, <2>4 DEF Snapshot
<1>3. QED
  BY <1>1, <1>2

LEMMA NothingDelivered == table \in {NoTable, <<>>} => Deliv = <<>>
  BY DEF Deliv, Delivered

\* A table that has the rows of the file has what the COPY saw.
LEMMA AllDelivered ==
    ASSUME IInv, CanBeRead, table = Import!FirstRows(NumWritten)
    PROVE  Deliv = Snap
<1>1. pc = "done" /\ NumWritten \in Nat
  BY Readable
<1>2. table \in Seq(Nat)
  BY <1>1, FirstRowsFacts
<1>3. table # NoTable
  BY <1>2, RoundTripAssumption
<1>4. Taken
  BY <1>1 DEF Taken
<1>5. CASE Faithful = {}
  BY <1>5 DEF Deliv, Snap
<1>6. CASE Faithful # {}
  <2>1. Delivered = Snapshot
    BY <1>6, FileIsSnapshot DEF Delivered
  <2>2. QED
    BY <1>3, <1>4, <1>6, <2>1 DEF Deliv, Snap
<1>7. QED
  BY <1>5, <1>6

LEMMA RefInit == RoundTripInit => Promise!Init
<1> SUFFICES ASSUME RoundTripInit PROVE Promise!Init
  OBVIOUS
<1>1. ~Taken /\ rpc # "ok" /\ table \in {NoTable, <<>>}
  BY DEF RoundTripInit, Init, Taken
<1>2. Snap = <<>> /\ Deliv = <<>>
  BY <1>1, NothingDelivered DEF Snap
<1>3. QED
  BY <1>1, <1>2 DEF Promise!Init, Snap, Deliv

\* The dump reads the rows once, and delivers nothing.
LEMMA RefDump ==
    ASSUME Restored, Types', Dump
    PROVE  \/ Promise!Next
           \/ UNCHANGED <<Taken, Snap, Deliv, rpc = "ok">>
<1>1. pc \notin Over /\ Next /\ restore' = restore
  BY NextIsEarly DEF Dump
<1>2. rpc = "idle" /\ rpc' = "idle" /\ table \in {NoTable, <<>>} /\ table' = table
  BY <1>1 DEF Restored, restore
<1>3. Deliv = <<>> /\ Deliv' = <<>>
  <2>1. Deliv = <<>>
    BY <1>2, NothingDelivered
  <2>2. table' \in {NoTable, <<>>} => Deliv' = <<>>
    BY DEF Deliv, Delivered
  <2>3. QED
    BY <1>2, <2>1, <2>2
<1>4. CASE ~Taken /\ Taken'
  <2>1. Snap' \in Seq(UNION {[C -> Cells] : C \in SUBSET Columns})
    <3>1. (Types => Snap \in Seq(UNION {[C -> Cells] : C \in SUBSET Columns}))'
      BY SnapTyped, PTL
    <3>2. QED
      BY <3>1 DEF Cells, Columns, Null, Empty, Garbage
  <2>2. Promise!Take
    BY <1>2, <1>3, <1>4, <2>1 DEF Promise!Take, Snap, Deliv
  <2>3. QED
    BY <2>2 DEF Promise!Next
<1>5. CASE ~Taken /\ ~Taken'
  <2>1. Snap = <<>> /\ Snap' = <<>>
    BY <1>5 DEF Snap
  <2>2. Taken' = Taken
    BY <1>5 DEF Taken
  <2>3. QED
    BY <1>2, <1>3, <2>1, <2>2
<1>6. CASE Taken
  <2>1. Taken' /\ schema' = schema /\ shape' = shape /\ rows' = rows
    BY <1>1, <1>6 DEF Taken, Next, Step, Goto, Describe, Copy, Create, Chunk, NeedMore, Trailer,
         DecodeRow, AppendRow, BadText, Panic, WriteBatch, EndOfStream, WriteLastBatch, Close,
         Fail, query
  <2>2. Faithful' = Faithful
    BY <2>1 DEF Faithful, SameType
  <2>3. Snapshot' = Snapshot
    BY <2>1, <2>2 DEF Snapshot, Expected
  <2>4. Snap' = Snap
    BY <1>6, <2>1, <2>2, <2>3 DEF Snap
  <2>5. QED
    BY <1>2, <1>3, <1>6, <2>1, <2>4
<1>7. QED
  BY <1>4, <1>5, <1>6

\* A restore delivers in one step, when COPY is finished, and reports later.
LEMMA RefRestore ==
    ASSUME IInv, Restored, IInv', Restored', Restore
    PROVE  \/ Promise!Next
           \/ UNCHANGED <<Taken, Snap, Deliv, rpc = "ok">>
<1>1. pc \in Over /\ UNCHANGED vars
  BY DEF Restore
<1>2. /\ Taken' = Taken /\ Snap' = Snap /\ NumWritten' = NumWritten
      /\ (CanBeRead' <=> CanBeRead)
  BY <1>1 DEF vars, query, Taken, Snap, Snapshot, Faithful, SameType, Expected, CanBeRead,
       NumWritten, Written
<1>3. table' = table => Deliv' = Deliv
  BY <1>1 DEF vars, query, Deliv, Delivered, Faithful, SameType, Written
<1>4. ASSUME table \in {NoTable, <<>>}, table' \in {NoTable, <<>>}
      PROVE  Deliv' = Deliv
  <2>1. Deliv = <<>>
    BY <1>4, NothingDelivered
  <2>2. Deliv' = <<>>
    BY <1>4 DEF Deliv, Delivered
  <2>3. QED
    BY <2>1, <2>2
<1>5. CASE ~CanBeRead
  <2>1. rpc = "idle" /\ rpc' = "failed" /\ table' = table
    BY <1>5 DEF Restore
  <2>2. QED
    BY <1>2, <1>3, <2>1
<1>6. CASE CanBeRead
  <2>1. Import!Next
    BY <1>6 DEF Restore
  <2>2. pc = "done" /\ Taken /\ Copying
    BY <1>6, Readable DEF Taken, Restored
  <2>3. CASE Import!Commit
    <3>1. /\ rpc = "finish" /\ rpc' = "reply"
      BY <2>3 DEF Import!Commit, Import!Goto
    <3>2. Deliv = <<>>
      BY <2>2, <3>1, NothingDelivered DEF Copying
    <3>3. Deliv' = Snap'
      <4>1. table' = Import!FirstRows(NumWritten)'
        BY <3>1 DEF Restored, Copying
      <4>2. (IInv /\ CanBeRead /\ table = Import!FirstRows(NumWritten) => Deliv = Snap)'
        BY AllDelivered, PTL
      <4>3. QED
        BY <1>2, <1>6, <4>1, <4>2
    <3>4. (rpc' = "ok") = (rpc = "ok")
      BY <3>1
    <3>5. Promise!Deliver
      BY <1>2, <2>2, <3>2, <3>3, <3>4 DEF Promise!Deliver, Deliv, Snap
    <3>6. QED
      BY <3>5 DEF Promise!Next
  <2>4. CASE Import!Reply
    <3>1. rpc = "reply" /\ rpc' = "ok" /\ table' = table
      BY <2>4 DEF Import!Reply, Import!Goto, Import!copy
    <3>2. table = Import!FirstRows(NumWritten)
      BY <2>2, <3>1 DEF Copying
    <3>3. Deliv = Snap
      BY <1>6, <3>2, AllDelivered
    <3>4. Promise!Report
      BY <1>2, <1>3, <2>2, <3>1, <3>3 DEF Promise!Report, Deliv, Snap
    <3>5. QED
      BY <3>4 DEF Promise!Next
  <2>5. CASE Import!CreateTable
    <3>1. /\ rpc = "ddl" /\ rpc' \in {"copy", "failed"}
          /\ table' = table \/ table' = <<>>
      BY <2>5 DEF Import!CreateTable, Import!Goto
    <3>2. table \in {NoTable, <<>>}
      BY <2>2, <3>1 DEF Copying
    <3>3. Deliv' = Deliv
      BY <1>4, <3>1, <3>2
    <3>4. (rpc' = "ok") = (rpc = "ok")
      BY <3>1
    <3>5. QED
      BY <1>2, <3>3, <3>4
  <2>6. CASE Import!Run
    <3>1. /\ rpc \in {"idle", "ok", "failed"} /\ tries < 1
          /\ rpc' \in {"ddl", "copy"} /\ table' = table
      BY <2>6 DEF Import!Run, Import!RunFrom, Import!Resting
    <3>2. rpc # "ok"
      BY <1>6, <3>1 DEF Restored
    <3>3. (rpc' = "ok") = (rpc = "ok")
      BY <3>1, <3>2
    <3>4. QED
      BY <1>2, <1>3, <3>1, <3>3
  <2>7. CASE \/ Import!BeginCopy \/ Import!EncodeRow \/ Import!UnsupportedValue \/ Import!Flush
             \/ Import!SendTrailer \/ Import!Refused \/ Import!ReadFails \/ Import!Fail
    <3>1. table' = table /\ rpc # "ok" /\ rpc' # "ok"
      BY <2>7 DEF Import!BeginCopy, Import!EncodeRow, Import!EncodeTo, Import!UnsupportedValue,
           Import!Flush, Import!SendTrailer, Import!Refused, Import!ReadFails, Import!Fail,
           Import!Goto
    <3>2. (rpc' = "ok") = (rpc = "ok")
      BY <3>1
    <3>3. QED
      BY <1>2, <1>3, <3>1, <3>2
  <2>8. QED
    BY <2>1, <2>3, <2>4, <2>5, <2>6, <2>7 DEF Import!Next
<1>7. QED
  BY <1>5, <1>6

LEMMA RefStep ==
    ASSUME IInv, Restored, IInv', Restored', [RoundTripNext]_all
    PROVE  [Promise!Next]_<<Taken, Snap, Deliv, rpc = "ok">>
<1>1. CASE Dump
  BY <1>1, RefDump DEF IInv
<1>2. CASE Restore
  BY <1>2, RefRestore
<1>3. CASE UNCHANGED all
  <2>1. Taken' = Taken /\ Snap' = Snap /\ Deliv' = Deliv /\ (rpc' = "ok") = (rpc = "ok")
    BY <1>3 DEF all, vars, query, restore, Taken, Snap, Snapshot, Faithful, SameType, Expected,
         Deliv, Delivered, Written
  <2>2. QED
    BY <2>1
<1>4. QED
  BY <1>1, <1>2, <1>3 DEF RoundTripNext

\* What a restore puts into the table is what the dump's COPY saw, value for
\* value and all at once, whatever failed in either of them
\* (export.rs:83-205, main.rs:151-158, import.rs:46-122).
THEOREM ImplementsTransferHolds == RoundTripSpec => ImplementsTransfer
<1>1. RoundTripInit => Promise!Init
  BY RefInit
<1>2. /\ IInv /\ Restored /\ (IInv /\ Restored)' /\ [RoundTripNext]_all
      => [Promise!Next]_<<Taken, Snap, Deliv, rpc = "ok">>
  BY RefStep
<1>3. /\ IInv /\ Restored /\ (IInv /\ Restored)' /\ [RoundTripNext]_all
      => [Promise!Next]_<<Taken,
                          IF Taken /\ Faithful # {} THEN Snapshot ELSE <<>>,
                          IF table = NoTable \/ Faithful = {} THEN <<>> ELSE Delivered,
                          rpc = "ok">>
  BY <1>2 DEF Snap, Deliv
<1>4. QED
  BY <1>1, <1>3, RoundTripInv, PTL DEF RoundTripSpec, ImplementsTransfer, Promise!Spec

=============================================================================
