---------------------------- MODULE ImportProofs ----------------------------
(* Theorems about Import, for any files, sizes and number of tries.          *)
EXTENDS Import, TLAPS

-----------------------------------------------------------------------------
(* Sequences.                                                               *)

LEMMA FirstRowsNext ==
    ASSUME NEW n \in Nat
    PROVE  Append(FirstRows(n), n + 1) = FirstRows(n + 1)
BY DEF FirstRows

LEMMA FirstRowsType ==
    ASSUME NEW n \in Nat, NEW m \in Nat, n <= m
    PROVE  FirstRows(n) \in Seq(1..m) /\ Len(FirstRows(n)) = n
BY DEF FirstRows

LEMMA ConcatAppend ==
    ASSUME NEW S, NEW s \in Seq(S), NEW t \in Seq(S), NEW e \in S
    PROVE  s \o Append(t, e) = Append(s \o t, e)
OBVIOUS

LEMMA ConcatLen ==
    ASSUME NEW S, NEW s \in Seq(S), NEW t \in Seq(S)
    PROVE  Len(s \o t) = Len(s) + Len(t)
OBVIOUS

-----------------------------------------------------------------------------
(* Type correctness.                                                        *)

LEMMA RowsType ==
    ASSUME file \in Files
    PROVE  Len(Rows) \in Nat /\ DOMAIN Rows = 1..Len(Rows)
BY ImportAssumption DEF Rows, ImportAssumption

\* A COPY is only begun when there is a table, and the table stays; the command
\* that runs has not succeeded yet.
TableThere ==
    /\ pc \in {"rows", "flush", "finish", "reply"} => table # NoTable
    /\ pc \notin Resting => oks < tries

TypeInv == TypeOK /\ TableThere

LEMMA RowsAreNoMark ==
    ASSUME NEW s, file \in Files, s \in Seq(DOMAIN Rows)
    PROVE  s # NoTable
<1>1. DOMAIN Rows = 1..Len(Rows) /\ Len(Rows) \in Nat
  BY RowsType
<1>2. s \in Seq(Nat)
  BY <1>1
<1> QED
  BY <1>2, ImportAssumption DEF ImportAssumption

LEMMA InitTypes == Init => TypeInv
<1> SUFFICES ASSUME Init PROVE TypeInv
  OBVIOUS
<1>1. Len(Rows) \in Nat /\ MaxTries \in Nat
  BY RowsType, ImportAssumption DEF Init, ImportAssumption
<1>2. file \in Files /\ pc = "idle" /\ tries \in 0..MaxTries /\ oks \in 0..tries
  BY <1>1 DEF Init
<1>3. next \in 1..(Len(Rows) + 1)
  BY <1>1 DEF Init
<1>4. buf \in Seq(DOMAIN Rows) /\ sent \in Seq(DOMAIN Rows) /\ table \in Seq(DOMAIN Rows) \cup {NoTable}
  <2>1. <<>> \in Seq(DOMAIN Rows)
    OBVIOUS
  <2> QED
    BY <2>1 DEF Init
<1> QED
  BY <1>2, <1>3, <1>4 DEF TypeInv, TypeOK, TableThere, Resting

LEMMA NextTypes == TypeInv /\ [Next]_vars => TypeInv'
<1> SUFFICES ASSUME TypeInv, [Next]_vars
             PROVE  TypeInv'
  OBVIOUS
<1> USE DEF TypeInv, TypeOK, TableThere, Resting, Goto
<1>0. CASE UNCHANGED vars
  BY <1>0 DEF vars, copy, Rows
<1>a. ASSUME Next PROVE file' = file /\ Rows' = Rows
  BY <1>a DEF Next, Run, RunFrom, CreateTable, BeginCopy, EncodeRow, EncodeTo,
     UnsupportedValue, Flush, SendTrailer, Commit, Reply, Refused, ReadFails, Fail, Rows
<1>b. Len(Rows) \in Nat /\ DOMAIN Rows = 1..Len(Rows) /\ MaxTries \in Nat
  BY RowsType, ImportAssumption DEF ImportAssumption
<1>1. CASE Run
  BY <1>a, <1>b, <1>1 DEF Run, RunFrom, Next
<1>2. CASE CreateTable
  BY <1>a, <1>2, RowsAreNoMark DEF CreateTable, copy, Next
<1>3. CASE BeginCopy
  BY <1>a, <1>3 DEF BeginCopy, copy, Next
<1>4. CASE EncodeRow
  BY <1>a, <1>b, <1>4 DEF EncodeRow, EncodeTo, Next
<1>5. CASE UnsupportedValue
  BY <1>a, <1>5 DEF UnsupportedValue, copy, Next
<1>6. CASE Flush
  BY <1>a, <1>6 DEF Flush, Next
<1>7. CASE SendTrailer
  BY <1>a, <1>7 DEF SendTrailer, Next
<1>8. CASE Commit
  <2>1. table \in Seq(DOMAIN Rows)
    BY <1>8 DEF Commit
  <2>2. table' \in Seq(DOMAIN Rows)
    BY <1>8, <2>1 DEF Commit
  <2>3. table' # NoTable
    BY <2>2, RowsAreNoMark
  <2> QED
    BY <1>a, <1>8, <2>2, <2>3 DEF Commit, copy, Next
<1>9. CASE Reply
  BY <1>a, <1>b, <1>9 DEF Reply, copy, Next
<1>10. CASE Refused \/ ReadFails \/ Fail
  BY <1>a, <1>10 DEF Refused, ReadFails, Fail, copy, Next
<1> QED
  BY <1>0, <1>1, <1>2, <1>3, <1>4, <1>5, <1>6, <1>7, <1>8, <1>9, <1>10 DEF Next

\* Every reachable state is one the types allow.
THEOREM TypeCorrect == Spec => []TypeOK
<1>1. TypeInv => TypeOK
  BY DEF TypeInv
<1> QED
  BY <1>1, InitTypes, NextTypes, PTL DEF Spec

-----------------------------------------------------------------------------
(* The rows go in order.  A run begins with nothing sent, and what finish()   *)
(* hands over is the whole file; with SentInOrder that is inductive.          *)

WholeAtFinish ==
    /\ pc \in {"ddl", "copy"} => next = 1 /\ buf = <<>> /\ sent = <<>>
    /\ pc = "finish" => sent = FirstRows(Len(Rows))

OrderInv == TypeInv /\ SentInOrder /\ WholeAtFinish

LEMMA InitOrder == Init => OrderInv
BY InitTypes DEF Init, OrderInv, SentInOrder, WholeAtFinish

LEMMA NextOrder == OrderInv /\ [Next]_vars => OrderInv'
<1> SUFFICES ASSUME OrderInv, [Next]_vars
             PROVE  SentInOrder' /\ WholeAtFinish'
  BY NextTypes DEF OrderInv
<1>t. /\ Len(Rows) \in Nat /\ DOMAIN Rows = 1..Len(Rows)
      /\ next \in 1..(Len(Rows) + 1)
      /\ buf \in Seq(DOMAIN Rows) /\ sent \in Seq(DOMAIN Rows)
  BY RowsType DEF OrderInv, TypeInv, TypeOK
<1> USE DEF OrderInv, SentInOrder, WholeAtFinish, Goto, FirstRows
<1>0. CASE UNCHANGED vars
  BY <1>0 DEF vars, copy, Rows
<1>a. ASSUME Next PROVE Rows' = Rows
  BY <1>a DEF Next, Run, RunFrom, CreateTable, BeginCopy, EncodeRow, EncodeTo,
     UnsupportedValue, Flush, SendTrailer, Commit, Reply, Refused, ReadFails, Fail, Rows
<1>1. CASE Run
  BY <1>1 DEF Run, RunFrom
<1>2. CASE CreateTable
  BY <1>2 DEF CreateTable, copy
<1>3. CASE BeginCopy
  <2>1. CASE pc' = "rows"
    <3>1. next' = 1 /\ buf' = <<>> /\ sent' = <<>>
      BY <1>3 DEF BeginCopy, copy
    <3> QED
      BY <2>1, <3>1
  <2> QED
    BY <1>3, <2>1 DEF BeginCopy
<1>4. CASE EncodeRow
  <2>1. /\ pc = "rows" /\ pc' \in {"rows", "flush"} /\ next <= Len(Rows)
        /\ buf' = Append(buf, next) /\ next' = next + 1 /\ sent' = sent
    BY <1>4 DEF EncodeRow, EncodeTo
  <2>2. sent \o Append(buf, next) = Append(sent \o buf, next)
    BY <1>t, <2>1, ConcatAppend, SMTT(60)
  <2>3. Append(FirstRows(next - 1), (next - 1) + 1) = FirstRows((next - 1) + 1)
    <3>1. next - 1 \in Nat
      BY <1>t
    <3> QED
      BY <3>1, FirstRowsNext
  <2>4. (next - 1) + 1 = next /\ (next + 1) - 1 = next
    BY <1>t
  <2>5. sent' \o buf' = FirstRows(next' - 1)
    BY <2>1, <2>2, <2>3, <2>4
  <2> QED
    BY <2>1, <2>5
<1>5. CASE UnsupportedValue \/ Commit \/ Reply \/ Refused \/ ReadFails \/ Fail
  BY <1>5 DEF UnsupportedValue, Commit, Reply, Refused, ReadFails, Fail
<1>6. CASE Flush
  <2>1. (sent \o buf) \o <<>> = sent \o buf
    BY <1>t
  <2> QED
    BY <1>6, <2>1 DEF Flush
<1>7. CASE SendTrailer
  <2>1. next - 1 = Len(Rows)
    BY <1>7, <1>t DEF SendTrailer
  <2> QED
    BY <1>7, <1>a, <2>1 DEF SendTrailer, Next
<1> QED
  BY <1>0, <1>1, <1>2, <1>3, <1>4, <1>5, <1>6, <1>7 DEF Next

\* What was sent and what is in buf are the rows encoded so far, in their order,
\* for any file and any size of the buffer.
THEOREM RowsGoInOrder == Spec => []SentInOrder
<1>1. OrderInv => SentInOrder
  BY DEF OrderInv
<1> QED
  BY <1>1, InitOrder, NextOrder, PTL DEF Spec

\* What RowsComeWhole says of each step.
WholeStep ==
    table' # table =>
        \/ table = NoTable /\ table' = <<>>
        \/ table # NoTable /\ table' = table \o FirstRows(Len(Rows))

LEMMA StepWhole == OrderInv /\ [Next]_vars => [WholeStep]_vars
<1> SUFFICES ASSUME OrderInv, Next
             PROVE  WholeStep
  OBVIOUS
<1>1. CASE CreateTable
  BY <1>1 DEF WholeStep, CreateTable
<1>2. CASE Commit
  BY <1>2 DEF WholeStep, Commit, Goto, OrderInv, WholeAtFinish, TypeInv, TableThere
<1>3. CASE \/ Run \/ BeginCopy \/ EncodeRow \/ UnsupportedValue \/ Flush \/ SendTrailer
           \/ Reply \/ Refused \/ ReadFails \/ Fail
  BY <1>3 DEF WholeStep, Run, RunFrom, BeginCopy, EncodeRow, EncodeTo, UnsupportedValue,
     Flush, SendTrailer, Reply, Refused, ReadFails, Fail
<1> QED
  BY <1>1, <1>2, <1>3 DEF Next

\* No step leaves a part of a file in the table.
THEOREM OnlyWholeFiles == Spec => RowsComeWhole
<1>1. [WholeStep]_vars <=> [table' # table =>
          \/ table = NoTable /\ table' = <<>>
          \/ table # NoTable /\ table' = table \o FirstRows(Len(Rows))]_vars
  BY DEF WholeStep
<1> QED
  BY <1>1, InitOrder, NextOrder, StepWhole, PTL DEF Spec, RowsComeWhole

-----------------------------------------------------------------------------
(* How many copies of the file there can be.  A run that has not reached the  *)
(* commit has added none, and one that waits for the reply has added one.     *)

Stored == IF table = NoTable THEN 0 ELSE Len(table)

CountInv ==
    /\ OrderInv
    /\ Stored >= oks * Len(Rows)
    /\ Stored <= tries * Len(Rows)
    /\ pc = "reply" => Stored >= (oks + 1) * Len(Rows)
    /\ pc \in {"ddl", "copy", "rows", "flush", "finish"} => Stored <= (tries - 1) * Len(Rows)

LEMMA OneMore ==
    ASSUME NEW k \in Nat, NEW n \in Nat
    PROVE  /\ k * n \in Nat
           /\ (k + 1) * n = k * n + n
           /\ ((k + 1) - 1) * n = k * n
OBVIOUS

LEMMA OneLess ==
    ASSUME NEW k \in Nat, NEW n \in Nat, k # 0
    PROVE  (k - 1) * n + n = k * n /\ (k - 1) * n \in Nat
<1>1. k - 1 \in Nat /\ (k - 1) + 1 = k
  OBVIOUS
<1> QED
  BY <1>1, OneMore

LEMMA InitCount == Init => CountInv
<1> SUFFICES ASSUME Init PROVE CountInv
  OBVIOUS
<1>1. Stored = 0
  BY DEF Init, Stored
<1>2. Len(Rows) \in Nat /\ 0 * Len(Rows) = 0
  BY RowsType DEF Init
<1> QED
  BY <1>1, <1>2, InitOrder DEF Init, CountInv

LEMMA NextCount == CountInv /\ [Next]_vars => CountInv'
<1> SUFFICES ASSUME CountInv, [Next]_vars
             PROVE  CountInv'
  OBVIOUS
<1>t. /\ TypeInv /\ OrderInv' /\ TypeInv' /\ Len(Rows) \in Nat /\ tries \in Nat /\ oks \in Nat
      /\ oks <= tries
  BY NextOrder, RowsType, ImportAssumption
     DEF CountInv, OrderInv, TypeInv, TypeOK, ImportAssumption
<1>s. Stored \in Nat
  BY <1>t, RowsType DEF Stored, TypeInv, TypeOK
<1>0. CASE UNCHANGED vars
  BY <1>0, <1>t DEF vars, copy, Rows, CountInv, Stored
<1>a. ASSUME Next PROVE Rows' = Rows
  BY <1>a DEF Next, Run, RunFrom, CreateTable, BeginCopy, EncodeRow, EncodeTo,
     UnsupportedValue, Flush, SendTrailer, Commit, Reply, Refused, ReadFails, Fail, Rows
<1>1. CASE Run
  <2>1. /\ tries' = tries + 1 /\ oks' = oks /\ Stored' = Stored /\ pc' \in {"ddl", "copy"}
        /\ Rows' = Rows
    BY <1>1, <1>a DEF Run, RunFrom, Stored, Next
  <2>2. /\ tries * Len(Rows) \in Nat /\ (tries + 1) * Len(Rows) = tries * Len(Rows) + Len(Rows)
        /\ ((tries + 1) - 1) * Len(Rows) = tries * Len(Rows)
    BY <1>t, OneMore
  <2>3. Stored >= oks * Len(Rows) /\ Stored <= tries * Len(Rows)
    BY DEF CountInv
  <2>4. tries' * Len(Rows') = tries * Len(Rows) + Len(Rows)
    BY <2>1, <2>2
  <2>5. (tries' - 1) * Len(Rows') = tries * Len(Rows)
    BY <2>1, <2>2
  <2>6. Stored' <= tries' * Len(Rows')
    BY <2>1, <2>2, <2>3, <2>4, <1>t, <1>s
  <2> QED
    BY <1>t, <2>1, <2>3, <2>5, <2>6 DEF CountInv
<1>2. ASSUME Next, Stored' = Stored, tries' = tries, oks' = oks, pc' # "reply",
             \/ pc' \in Resting
             \/ pc \in {"ddl", "copy", "rows", "flush", "finish"}
      PROVE  CountInv'
  BY <1>2, <1>t, <1>a DEF CountInv, Resting
<1>3. CASE CreateTable
  <2>1. Stored' = Stored
    <3>1. <<>> # NoTable /\ Len(<<>>) = 0
      <4>1. <<>> \in Seq(DOMAIN Rows)
        OBVIOUS
      <4> QED
        BY <1>t, <4>1, RowsAreNoMark DEF TypeInv, TypeOK
    <3> QED
      BY <1>3, <3>1 DEF CreateTable, Stored
  <2> QED
    BY <1>2, <1>3, <2>1 DEF CreateTable, Goto, Next
<1>4. CASE BeginCopy
  BY <1>2, <1>4 DEF BeginCopy, Goto, Stored, Next
<1>5. CASE EncodeRow \/ UnsupportedValue \/ Flush \/ SendTrailer
  BY <1>2, <1>5 DEF EncodeRow, EncodeTo, UnsupportedValue, Flush, SendTrailer, Goto, Stored, Next
<1>6. CASE Commit
  <2>1. /\ pc = "finish" /\ pc' = "reply" /\ table' = table \o FirstRows(Len(Rows))
        /\ oks' = oks /\ tries' = tries /\ Rows' = Rows
    BY <1>6, <1>a DEF Commit, Goto, CountInv, OrderInv, WholeAtFinish, Next
  <2>2. table # NoTable /\ table' # NoTable /\ table \in Seq(DOMAIN Rows)
    BY <1>t, <2>1 DEF TypeInv, TypeOK, TableThere
  <2>3. FirstRows(Len(Rows)) \in Seq(1..Len(Rows)) /\ Len(FirstRows(Len(Rows))) = Len(Rows)
    BY <1>t, FirstRowsType
  <2>4. Stored' = Stored + Len(Rows)
    <3>1. table \in Seq(1..Len(Rows))
      BY <1>t, <2>2, RowsType DEF TypeInv, TypeOK
    <3>2. Len(table \o FirstRows(Len(Rows))) = Len(table) + Len(Rows)
      BY <2>3, <3>1, ConcatLen
    <3>3. Stored = Len(table) /\ Stored' = Len(table')
      BY <2>2 DEF Stored
    <3> QED
      BY <2>1, <3>2, <3>3
  <2>5. Stored >= oks * Len(Rows) /\ Stored <= (tries - 1) * Len(Rows)
    BY <2>1 DEF CountInv
  <2>6. oks * Len(Rows) \in Nat /\ (oks + 1) * Len(Rows) = oks * Len(Rows) + Len(Rows)
    BY <1>t, OneMore
  <2>7. tries # 0
    BY <1>t, <2>1 DEF TypeInv, TableThere, Resting
  <2>8. (tries - 1) * Len(Rows) + Len(Rows) = tries * Len(Rows) /\ (tries - 1) * Len(Rows) \in Nat
    BY <1>t, <2>7, OneLess
  <2>9. /\ Stored' >= (oks + 1) * Len(Rows) /\ Stored' >= oks * Len(Rows)
        /\ Stored' <= tries * Len(Rows)
    BY <1>t, <1>s, <2>4, <2>5, <2>6, <2>8
  <2> QED
    BY <1>t, <2>1, <2>9 DEF CountInv
<1>7. CASE Reply
  <2>1. /\ pc = "reply" /\ pc' = "ok" /\ oks' = oks + 1 /\ tries' = tries /\ Stored' = Stored
        /\ Rows' = Rows
    BY <1>7, <1>a DEF Reply, Goto, Stored, Next
  <2> QED
    BY <1>t, <2>1 DEF CountInv
<1>8. CASE Refused \/ ReadFails \/ Fail
  BY <1>2, <1>8 DEF Refused, ReadFails, Fail, Goto, Resting, Stored, Next
<1> QED
  BY <1>0, <1>1, <1>3, <1>4, <1>5, <1>6, <1>7, <1>8 DEF Next

\* The rows of the file are in the table once for each success at least and once
\* for each try at most, for any file and any number of tries.
THEOREM CopiesBounded == Spec => []OncePerSuccess
<1>1. CountInv => OncePerSuccess
  BY DEF CountInv, OncePerSuccess, Stored
<1> QED
  BY <1>1, InitCount, NextCount, PTL DEF Spec

-----------------------------------------------------------------------------
(* The buffer.                                                              *)

\* An empty buffer need not be sent.
LEMMA EmptyFits == ~Overfull(<<>>)
<1> DEFINE Sizes == [k \in DOMAIN <<>> |-> RowSize(<<>>[k])]
<1>1. DOMAIN Sizes = {}
  OBVIOUS
<1> DEFINE iter == CHOOSE it : it = [s \in SUBSET {} |->
                       IF s = {} THEN 0
                       ELSE LET x == CHOOSE y \in s : TRUE IN Sizes[x] + it[s \ {x}]]
<1>2. iter[{}] = 0
  <2> DEFINE none == [s \in SUBSET {} |-> 0]
  <2>1. none = [s \in SUBSET {} |->
                   IF s = {} THEN 0
                   ELSE LET x == CHOOSE y \in s : TRUE IN Sizes[x] + none[s \ {x}]]
    BY SMT
  <2>2. iter = [s \in SUBSET {} |->
                   IF s = {} THEN 0
                   ELSE LET x == CHOOSE y \in s : TRUE IN Sizes[x] + iter[s \ {x}]]
    BY <2>1
  <2>3. QED
    BY <2>2
<1>3. BufSize(<<>>) = 0
  BY <1>1, <1>2 DEF BufSize, SumFunction, SumFunctionOnSet, FoldFunctionOnSet, MapThenFoldSet
<1>4. QED
  BY <1>3, ImportAssumption DEF Overfull

LEMMA NextBuf == OrderInv /\ BufBounded /\ [Next]_vars => BufBounded'
<1> SUFFICES ASSUME OrderInv, BufBounded, [Next]_vars
             PROVE  BufBounded'
  OBVIOUS
<1>1. ASSUME NEW b, file' = file, buf' = b
      PROVE  Overfull(buf)' = Overfull(b)
  BY <1>1 DEF Overfull, BufSize, RowSize, Rows, Schema
<1>2. ASSUME NEW b, file' = file, SubSeq(buf, 1, Len(buf) - 1)' = b
      PROVE  Overfull(SubSeq(buf, 1, Len(buf) - 1))' = Overfull(b)
  BY <1>2 DEF Overfull, BufSize, RowSize, Rows, Schema
<1>3. CASE EncodeRow
  <2>1. /\ file' = file /\ buf' = Append(buf, next)
        /\ pc' = IF Overfull(Append(buf, next)) THEN "flush" ELSE "rows"
        /\ ~Overfull(buf) /\ buf \in Seq(DOMAIN Rows) /\ next \in DOMAIN Rows
    BY <1>3, RowsType DEF EncodeRow, EncodeTo, Goto, BufBounded, OrderInv, TypeInv, TypeOK
  <2>2. SubSeq(buf, 1, Len(buf) - 1)' = buf
    BY <2>1
  <2>3. QED
    BY <1>1, <1>2, <2>1, <2>2 DEF BufBounded
<1>4. CASE BeginCopy \/ Flush
  <2>1. file' = file /\ pc' # "flush" /\ (pc' = "rows" => buf' = <<>>)
    BY <1>4 DEF BeginCopy, Flush, Goto, copy, OrderInv, WholeAtFinish
  <2>2. QED
    BY <1>1, <2>1, EmptyFits DEF BufBounded
<1>5. CASE \/ Run \/ CreateTable \/ UnsupportedValue \/ SendTrailer
           \/ Commit \/ Reply \/ Refused \/ ReadFails \/ Fail
  BY <1>5 DEF BufBounded, Run, RunFrom, CreateTable, UnsupportedValue, SendTrailer,
     Commit, Reply, Refused, ReadFails, Fail, Goto
<1>6. CASE UNCHANGED vars
  <2>1. file' = file /\ buf' = buf /\ pc' = pc /\ SubSeq(buf, 1, Len(buf) - 1)' = SubSeq(buf, 1, Len(buf) - 1)
    BY <1>6 DEF vars, copy
  <2>2. QED
    BY <1>1, <1>2, <2>1 DEF BufBounded
<1>7. QED
  BY <1>3, <1>4, <1>5, <1>6 DEF Next

\* The memory a restore needs is bounded by FlushAt and one row, for any file
\* (import.rs:114-116).
THEOREM BufBoundedHolds == Spec => []BufBounded
<1>1. Init => BufBounded
  BY DEF Init, BufBounded
<1>2. QED
  BY <1>1, InitOrder, NextOrder, NextBuf, PTL DEF Spec

=============================================================================
