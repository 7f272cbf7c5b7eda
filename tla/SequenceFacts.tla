---------------------------- MODULE SequenceFacts ----------------------------
(***************************************************************************)
(* What the operators on sequences that the models are built from return,   *)
(* for every sequence.  FlattenSeq is defined by recursion over the         *)
(* positions: that its function exists, and what it is, goes by induction   *)
(* (InductionOnSet), which is drawn from the well-founded order of the        *)
(* numbers.                                                                 *)
(***************************************************************************)
EXTENDS Integers, SequencesExt, WellFoundedInduction, TLAPS

-----------------------------------------------------------------------------
(* Numbers.                                                                 *)

\* A set of numbers that is not empty has a least one.
LEMMA LeastNumber ==
    ASSUME NEW T \in SUBSET Nat, T # {}
    PROVE  \E m \in T : \A k \in T : m <= k
<1> DEFINE R == OpToRel(<, Nat)
<1>1. IsWellFoundedOn(R, Nat)
  BY NatLessThanWellFounded
<1>2. \A x, y \in Nat : y < x => <<y, x>> \in R
  BY DEF OpToRel
<1> HIDE DEF R
<1>3. \E x \in T : \A y \in T : ~(<<y, x>> \in R)
  BY <1>1, WFMin
<1>4. PICK m \in T : \A y \in T : ~(<<y, m>> \in R)
  BY <1>3
<1>5. \A y \in T : ~(y < m)
  BY <1>2, <1>4
<1>6. QED
  BY <1>5

\* What holds of 0 and of the successor of each number it holds of, holds of all.
LEMMA InductionOnSet ==
    ASSUME NEW S, 0 \in S, \A n \in Nat : n \in S => n + 1 \in S
    PROVE  Nat \subseteq S
<1> DEFINE T == Nat \ S
<1> SUFFICES ASSUME T # {} PROVE FALSE
  OBVIOUS
<1>1. PICK m \in T : \A k \in T : m <= k
  BY LeastNumber
<1>2. m # 0 /\ m \in Nat
  BY <1>1
<1>3. m - 1 \in Nat /\ m - 1 \notin T
  BY <1>1, <1>2
<1>4. QED
  BY <1>1, <1>2, <1>3

\* The least and the greatest of some positions.
LEMMA MinPosition ==
    ASSUME NEW n \in Nat, NEW T \in SUBSET (1..n), T # {}
    PROVE  Min(T) \in T /\ \A k \in T : Min(T) <= k
<1>1. \E m \in T : \A k \in T : m <= k
  BY LeastNumber
<1>2. QED
  BY <1>1 DEF Min

LEMMA MaxPosition ==
    ASSUME NEW n \in Nat, NEW T \in SUBSET (1..n), T # {}
    PROVE  Max(T) \in T /\ \A k \in T : k <= Max(T)
<1> DEFINE Below == {n - k : k \in T}
<1>0. Below \in SUBSET Nat /\ Below # {}
  <2>1. PICK t \in T : TRUE
    OBVIOUS
  <2>2. n - t \in Below
    OBVIOUS
  <2>3. QED
    BY <2>2
<1>1. PICK m \in Below : \A k \in Below : m <= k
  <2> HIDE DEF Below
  <2>1. QED
    BY <1>0, LeastNumber
<1>2. PICK t \in T : m = n - t
  BY <1>1
<1>3. \A k \in T : t >= k
  BY <1>1, <1>2
<1>4. QED
  BY <1>3 DEF Max

-----------------------------------------------------------------------------
(* Elements and parts.                                                      *)

LEMMA ElementsIn ==
    ASSUME NEW S, NEW T, NEW s \in Seq(S), \A i \in 1..Len(s) : s[i] \in T
    PROVE  s \in Seq(T)
  OBVIOUS

LEMMA SameElements ==
    ASSUME NEW S, NEW s \in Seq(S), NEW t \in Seq(S), Len(s) = Len(t),
           \A i \in 1..Len(s) : s[i] = t[i]
    PROVE  s = t
  OBVIOUS

LEMMA ConcatType ==
    ASSUME NEW S, NEW s \in Seq(S), NEW t \in Seq(S)
    PROVE  s \o t \in Seq(S) /\ Len(s \o t) = Len(s) + Len(t)
  OBVIOUS

LEMMA ConcatAt ==
    ASSUME NEW S, NEW s \in Seq(S), NEW t \in Seq(S)
    PROVE  /\ \A i \in 1..Len(s) : (s \o t)[i] = s[i]
           /\ \A i \in 1..Len(t) : (s \o t)[Len(s) + i] = t[i]
  OBVIOUS

LEMMA PartAt ==
    ASSUME NEW S, NEW s \in Seq(S), NEW m \in 1..(Len(s) + 1), NEW n \in (m - 1)..Len(s)
    PROVE  /\ SubSeq(s, m, n) \in Seq(S) /\ Len(SubSeq(s, m, n)) = n - m + 1
           /\ \A i \in m..n : SubSeq(s, m, n)[i - m + 1] = s[i]
  OBVIOUS

\* A sequence is the concatenation of its parts.
LEMMA Parts ==
    ASSUME NEW S, NEW s \in Seq(S), NEW k \in 0..Len(s)
    PROVE  /\ s = SubSeq(s, 1, k) \o SubSeq(s, k + 1, Len(s))
           /\ SubSeq(s, 1, k) \in Seq(S) /\ SubSeq(s, k + 1, Len(s)) \in Seq(S)
<1> DEFINE p == SubSeq(s, 1, k)
           q == SubSeq(s, k + 1, Len(s))
<1>1. p \in Seq(S) /\ Len(p) = k /\ \A i \in 1..k : p[i] = s[i]
  OBVIOUS
<1>2. q \in Seq(S) /\ Len(q) = Len(s) - k /\ \A i \in 1..(Len(s) - k) : q[i] = s[k + i]
  OBVIOUS
<1>0. Len(s) \in Nat /\ k \in Nat /\ k <= Len(s)
  OBVIOUS
<1> HIDE DEF p, q
<1>3. p \o q \in Seq(S) /\ Len(p \o q) = Len(s)
  <2>1. p \o q \in Seq(S) /\ Len(p \o q) = Len(p) + Len(q)
    BY <1>1, <1>2, ConcatType
  <2>2. QED
    BY <1>0, <1>1, <1>2, <2>1
<1>4. /\ \A i \in 1..Len(p) : (p \o q)[i] = p[i]
      /\ \A i \in 1..Len(q) : (p \o q)[Len(p) + i] = q[i]
  BY <1>1, <1>2, ConcatAt
<1>5. ASSUME NEW i \in 1..Len(s) PROVE (p \o q)[i] = s[i]
  <2>1. CASE i <= k
    BY <1>1, <1>4, <2>1
  <2>2. CASE i > k
    <3>1. i - k \in 1..Len(q) /\ i = Len(p) + (i - k) /\ k + (i - k) = i
      BY <1>1, <1>2, <2>2
    <3>2. (p \o q)[Len(p) + (i - k)] = q[i - k] /\ q[i - k] = s[k + (i - k)]
      BY <1>2, <1>4, <3>1
    <3>3. QED
      BY <3>1, <3>2
  <2>3. i <= k \/ i > k
    BY <1>0
  <2>4. QED
    BY <2>1, <2>2, <2>3
<1>6. p \o q = s
  BY <1>3, <1>5, SameElements
<1>7. QED
  BY <1>1, <1>2, <1>6 DEF p, q

LEMMA ThreeParts ==
    ASSUME NEW S, NEW s \in Seq(S), NEW b \in 1..(Len(s) + 1), NEW k \in (b - 1)..Len(s)
    PROVE  /\ s = SubSeq(s, 1, b - 1) \o SubSeq(s, b, k) \o SubSeq(s, k + 1, Len(s))
           /\ SubSeq(s, 1, b - 1) \in Seq(S)
           /\ SubSeq(s, b, k) \in Seq(S) /\ Len(SubSeq(s, b, k)) = k - b + 1
           /\ \A i \in 1..(k - b + 1) : SubSeq(s, b, k)[i] = s[b - 1 + i]
           /\ SubSeq(s, k + 1, Len(s)) \in Seq(S)
<1> DEFINE j == b - 1
           p == SubSeq(s, 1, j)
           m == SubSeq(s, b, k)
           h == SubSeq(s, 1, k)
           q == SubSeq(s, k + 1, Len(s))
<1>0. Len(s) \in Nat /\ j \in Nat /\ k \in 0..Len(s) /\ j <= k /\ b = j + 1 /\ b - 1 = j /\ k - b + 1 = k - j
  OBVIOUS
<1>1. p \in Seq(S) /\ Len(p) = j /\ \A i \in 1..j : p[i] = s[i]
  OBVIOUS
<1>2. m \in Seq(S) /\ Len(m) = k - j /\ \A i \in 1..(k - j) : m[i] = s[j + i]
  OBVIOUS
<1>3. h \in Seq(S) /\ Len(h) = k /\ \A i \in 1..k : h[i] = s[i]
  OBVIOUS
<1>4. s = h \o q /\ q \in Seq(S)
  BY <1>0, Parts
<1> HIDE DEF j, p, m, h, q
<1>5. p \o m \in Seq(S) /\ Len(p \o m) = k
  <2>1. p \o m \in Seq(S) /\ Len(p \o m) = Len(p) + Len(m)
    BY <1>1, <1>2, ConcatType
  <2>2. QED
    BY <1>0, <1>1, <1>2, <2>1
<1>6. /\ \A i \in 1..Len(p) : (p \o m)[i] = p[i]
      /\ \A i \in 1..Len(m) : (p \o m)[Len(p) + i] = m[i]
  BY <1>1, <1>2, ConcatAt
<1>7. ASSUME NEW i \in 1..k PROVE (p \o m)[i] = h[i]
  <2>1. CASE i <= j
    BY <1>0, <1>1, <1>3, <1>6, <2>1
  <2>2. CASE i > j
    <3>1. i - j \in 1..Len(m) /\ i = Len(p) + (i - j) /\ j + (i - j) = i
      BY <1>0, <1>1, <1>2, <2>2
    <3>2. (p \o m)[Len(p) + (i - j)] = m[i - j] /\ m[i - j] = s[j + (i - j)]
      BY <1>2, <1>6, <3>1
    <3>3. QED
      BY <1>3, <3>1, <3>2
  <2>3. i <= j \/ i > j
    BY <1>0
  <2>4. QED
    BY <2>1, <2>2, <2>3
<1>8. p \o m = h
  BY <1>3, <1>5, <1>7, SameElements
<1>9. QED
  BY <1>0, <1>1, <1>2, <1>4, <1>8 DEF p, m, q

LEMMA RemoveFacts ==
    ASSUME NEW S, NEW s \in Seq(S), NEW k \in 1..Len(s)
    PROVE  /\ RemoveAt(s, k) \in Seq(S) /\ Len(RemoveAt(s, k)) = Len(s) - 1
           /\ \A i \in 1..(k - 1) : RemoveAt(s, k)[i] = s[i]
           /\ \A i \in (k + 1)..Len(s) : RemoveAt(s, k)[i - 1] = s[i]
<1> DEFINE p == SubSeq(s, 1, k - 1)
           q == SubSeq(s, k + 1, Len(s))
<1>1. p \in Seq(S) /\ Len(p) = k - 1 /\ \A i \in 1..(k - 1) : p[i] = s[i]
  OBVIOUS
<1>2. q \in Seq(S) /\ Len(q) = Len(s) - k /\ \A i \in (k + 1)..Len(s) : q[i - k] = s[i]
  OBVIOUS
<1>3. RemoveAt(s, k) = p \o q
  BY DEF RemoveAt
<1> HIDE DEF p, q
<1>4. \A i \in (k + 1)..Len(s) : (p \o q)[i - 1] = s[i]
  <2> SUFFICES ASSUME NEW i \in (k + 1)..Len(s) PROVE (p \o q)[i - 1] = s[i]
    OBVIOUS
  <2>1. i - k \in 1..Len(q) /\ i - 1 = Len(p) + (i - k)
    BY <1>1, <1>2
  <2>2. QED
    <3>1. (p \o q)[Len(p) + (i - k)] = q[i - k]
      BY <1>1, <1>2, <2>1, ConcatAt
    <3>2. QED
      BY <1>2, <2>1, <3>1
<1>5. /\ p \o q \in Seq(S) /\ Len(p \o q) = Len(s) - 1
      /\ \A i \in 1..(k - 1) : (p \o q)[i] = p[i]
  <2>1. p \o q \in Seq(S) /\ Len(p \o q) = Len(p) + Len(q)
    BY <1>1, <1>2, ConcatType
  <2>2. \A i \in 1..Len(p) : (p \o q)[i] = p[i]
    BY <1>1, <1>2, ConcatAt
  <2>3. QED
    BY <1>1, <1>2, <2>1, <2>2
<1>6. QED
  BY <1>1, <1>3, <1>4, <1>5

LEMMA InsertFacts ==
    ASSUME NEW S, NEW s \in Seq(S), NEW x \in S, NEW m \in 1..(Len(s) + 1)
    PROVE  /\ InsertAt(s, m, x) \in Seq(S) /\ Len(InsertAt(s, m, x)) = Len(s) + 1
           /\ InsertAt(s, m, x)[m] = x
           /\ \A i \in 1..(m - 1) : InsertAt(s, m, x)[i] = s[i]
           /\ \A i \in m..Len(s) : InsertAt(s, m, x)[i + 1] = s[i]
<1> DEFINE k == m - 1
           p == SubSeq(s, 1, k)
           q == SubSeq(s, m, Len(s))
           r == p \o <<x>>
<1>0. k \in 0..Len(s) /\ Len(s) \in Nat /\ m = k + 1
  OBVIOUS
<1>1. p \in Seq(S) /\ Len(p) = k /\ \A i \in 1..k : p[i] = s[i]
  OBVIOUS
<1>2. q \in Seq(S) /\ Len(q) = Len(s) - k /\ \A i \in (k + 1)..Len(s) : q[i - k] = s[i]
  OBVIOUS
<1>3. InsertAt(s, m, x) = r \o q
  BY DEF InsertAt
<1> HIDE DEF k, p, q
<1>4. r \in Seq(S) /\ Len(r) = k + 1 /\ r[k + 1] = x /\ \A i \in 1..k : r[i] = s[i]
  BY <1>0, <1>1
<1> HIDE DEF r
<1>5. \A i \in (k + 1)..Len(s) : (r \o q)[i + 1] = s[i]
  <2> SUFFICES ASSUME NEW i \in (k + 1)..Len(s) PROVE (r \o q)[i + 1] = s[i]
    OBVIOUS
  <2>1. i - k \in 1..Len(q) /\ i + 1 = Len(r) + (i - k)
    BY <1>0, <1>2, <1>4
  <2>2. QED
    <3>1. (r \o q)[Len(r) + (i - k)] = q[i - k]
      BY <1>2, <1>4, <2>1, ConcatAt
    <3>2. QED
      BY <1>0, <1>2, <2>1, <3>1
<1>6. /\ \A i \in 1..(k + 1) : (r \o q)[i] = r[i]
      /\ r \o q \in Seq(S) /\ Len(r \o q) = Len(s) + 1
  <2>1. r \o q \in Seq(S) /\ Len(r \o q) = Len(r) + Len(q)
    BY <1>2, <1>4, ConcatType
  <2>2. \A i \in 1..Len(r) : (r \o q)[i] = r[i]
    BY <1>2, <1>4, ConcatAt
  <2>3. QED
    BY <1>0, <1>2, <1>4, <2>1, <2>2
<1>7. k + 1 \in 1..(k + 1) /\ \A i \in 1..k : i \in 1..(k + 1)
  BY <1>0
<1>8. (r \o q)[k + 1] = x /\ \A i \in 1..k : (r \o q)[i] = s[i]
  BY <1>4, <1>6, <1>7
<1>9. 1..(m - 1) = 1..k /\ m..Len(s) = (k + 1)..Len(s)
  BY <1>0
<1>10. QED
  BY <1>0, <1>3, <1>5, <1>6, <1>8, <1>9

-----------------------------------------------------------------------------
(* FlattenSeq.                                                              *)

\* f[i] is what the first i elements of s flatten to, up to the k-th.
FlatteningUpto(f, s, k) ==
    f = [i \in 1..k |-> IF i = 1 THEN s[i] ELSE f[i - 1] \o s[i]]

IsFlattening(f, s) == FlatteningUpto(f, s, Len(s))

LEMMA FlatteningUptoAt ==
    ASSUME NEW f, NEW s, NEW k, FlatteningUpto(f, s, k)
    PROVE  \A i \in 1..k : f[i] = IF i = 1 THEN s[i] ELSE f[i - 1] \o s[i]
  BY DEF FlatteningUpto

LEMMA FlatteningAt ==
    ASSUME NEW f, NEW s, IsFlattening(f, s)
    PROVE  \A i \in 1..Len(s) : f[i] = IF i = 1 THEN s[i] ELSE f[i - 1] \o s[i]
  BY FlatteningUptoAt DEF IsFlattening

LEMMA FlatteningExists ==
    ASSUME NEW S, NEW s \in Seq(Seq(S))
    PROVE  \E f : IsFlattening(f, s)
<1> DEFINE K == {k \in Nat : \E g : FlatteningUpto(g, s, k)}
<1>1. 0 \in K
  <2>1. FlatteningUpto(<<>>, s, 0)
    BY DEF FlatteningUpto
  <2>2. QED
    BY <2>1
<1>2. ASSUME NEW k \in Nat, k \in K PROVE k + 1 \in K
  <2>1. PICK g : FlatteningUpto(g, s, k)
    BY <1>2
  <2> DEFINE h == [i \in 1..(k + 1) |->
                      IF i = k + 1 THEN IF i = 1 THEN s[i] ELSE g[i - 1] \o s[i] ELSE g[i]]
  <2>2. \A i \in 1..k : h[i] = g[i]
    OBVIOUS
  <2>g. \A i \in 1..k : g[i] = IF i = 1 THEN s[i] ELSE g[i - 1] \o s[i]
    BY <2>1, FlatteningUptoAt
  <2>3. h[k + 1] = IF k + 1 = 1 THEN s[k + 1] ELSE g[k] \o s[k + 1]
    OBVIOUS
  <2>4. h = [i \in 1..(k + 1) |-> h[i]]
    OBVIOUS
  <2> HIDE DEF h
  <2>5. ASSUME NEW i \in 1..(k + 1) PROVE h[i] = IF i = 1 THEN s[i] ELSE h[i - 1] \o s[i]
    <3>1. CASE i = k + 1
      <4>1. k # 0 => k \in 1..k /\ h[k] = g[k]
        BY <2>2
      <4>2. i - 1 = k /\ (i = 1 <=> k = 0)
        BY <3>1
      <4>3. QED
        BY <2>3, <3>1, <4>1, <4>2
    <3>2. CASE i \in 1..k
      <4>1. i # 1 => i - 1 \in 1..k
        BY <3>2
      <4>2. QED
        BY <2>2, <2>g, <3>2, <4>1
    <3>3. QED
      BY <3>1, <3>2
  <2>6. FlatteningUpto(h, s, k + 1)
    BY <2>4, <2>5 DEF FlatteningUpto
  <2>7. QED
    BY <2>6
<1> HIDE DEF K
<1>3. Nat \subseteq K
  BY <1>1, <1>2, InductionOnSet
<1>4. Len(s) \in K
  BY <1>3
<1>5. QED
  BY <1>4 DEF K, IsFlattening

LEMMA AppendFacts ==
    ASSUME NEW T, NEW s \in Seq(T), NEW x \in T
    PROVE  /\ Append(s, x) \in Seq(T) /\ Append(s, x) # <<>>
           /\ Len(Append(s, x)) = Len(s) + 1 /\ Append(s, x)[Len(s) + 1] = x
           /\ \A i \in 1..Len(s) : s[i] = Append(s, x)[i]
  OBVIOUS

\* Flattenings agree as long as the sequences do, and consist of their elements.
LEMMA FlatteningsAgree ==
    ASSUME NEW S, NEW s \in Seq(Seq(S)), NEW t \in Seq(Seq(S)),
           NEW f, NEW g, IsFlattening(f, s), IsFlattening(g, t),
           Len(s) <= Len(t), \A i \in 1..Len(s) : s[i] = t[i]
    PROVE  s # <<>> => f[Len(s)] = g[Len(s)] /\ f[Len(s)] \in Seq(S)
<1> DEFINE K == {k \in Nat : k \in 1..Len(s) => f[k] = g[k] /\ f[k] \in Seq(S)}
<1>1. 0 \in K
  OBVIOUS
<1>2. ASSUME NEW k \in Nat, k \in K PROVE k + 1 \in K
  <2> SUFFICES ASSUME k + 1 \in 1..Len(s)
               PROVE  f[k + 1] = g[k + 1] /\ f[k + 1] \in Seq(S)
    OBVIOUS
  <2>1. s[k + 1] = t[k + 1] /\ s[k + 1] \in Seq(S)
    OBVIOUS
  <2>2. CASE k = 0
    <3>1. 1 \in 1..Len(s) /\ 1 \in 1..Len(t)
      BY <2>2
    <3>2. f[1] = s[1] /\ g[1] = t[1]
      BY <3>1, FlatteningAt
    <3>3. QED
      BY <2>1, <2>2, <3>2
  <2>3. CASE k # 0
    <3>1. f[k + 1] = f[k] \o s[k + 1] /\ g[k + 1] = g[k] \o t[k + 1]
      <4>1. k + 1 \in 1..Len(s) /\ k + 1 \in 1..Len(t) /\ k + 1 # 1 /\ (k + 1) - 1 = k
        BY <2>3
      <4>2. /\ \A i \in 1..Len(s) : f[i] = IF i = 1 THEN s[i] ELSE f[i - 1] \o s[i]
            /\ \A i \in 1..Len(t) : g[i] = IF i = 1 THEN t[i] ELSE g[i - 1] \o t[i]
        BY FlatteningAt, SMTT(60)
      <4>3. QED
        BY <4>1, <4>2
    <3>2. f[k] = g[k] /\ f[k] \in Seq(S)
      BY <1>2, <2>3
    <3>3. QED
      BY <2>1, <3>1, <3>2
  <2>4. QED
    BY <2>2, <2>3
<1> HIDE DEF K
<1>3. Nat \subseteq K
  BY <1>1, <1>2, InductionOnSet
<1>4. QED
  <2>1. s # <<>> => Len(s) \in 1..Len(s) /\ Len(s) \in Nat
    OBVIOUS
  <2>2. QED
    BY <1>3, <2>1 DEF K

LEMMA FlattenBy ==
    ASSUME NEW S, NEW s \in Seq(Seq(S)), s # <<>>
    PROVE  \E f : IsFlattening(f, s) /\ FlattenSeq(s) = f[Len(s)]
<1> DEFINE F == CHOOSE f : IsFlattening(f, s)
<1>1. IsFlattening(F, s)
  BY FlatteningExists
<1>2. FlattenSeq(s) = F[Len(s)]
  BY DEF FlattenSeq, IsFlattening, FlatteningUpto
<1>3. QED
  BY <1>1, <1>2

\* Nothing flattens to nothing.
LEMMA FlattenEmpty == FlattenSeq(<<>>) = <<>>
  BY DEF FlattenSeq

LEMMA FlattenType ==
    ASSUME NEW S, NEW s \in Seq(Seq(S))
    PROVE  FlattenSeq(s) \in Seq(S)
<1>1. CASE s = <<>>
  <2>1. <<>> \in Seq(S)
    OBVIOUS
  <2>2. QED
    BY <1>1, <2>1, FlattenEmpty
<1>2. CASE s # <<>>
  <2>1. PICK f : IsFlattening(f, s) /\ FlattenSeq(s) = f[Len(s)]
    BY <1>2, FlattenBy
  <2>2. QED
    BY <1>2, <2>1, FlatteningsAgree
<1>3. QED
  BY <1>1, <1>2

\* One sequence more is one behind.
LEMMA FlattenAppend ==
    ASSUME NEW S, NEW s \in Seq(Seq(S)), NEW x \in Seq(S)
    PROVE  FlattenSeq(Append(s, x)) = FlattenSeq(s) \o x
<1> DEFINE t == Append(s, x)
<1>0. t \in Seq(Seq(S)) /\ t # <<>> /\ Len(t) = Len(s) + 1 /\ t[Len(t)] = x
      /\ \A i \in 1..Len(s) : s[i] = t[i]
  BY AppendFacts
<1> HIDE DEF t
<1>1. PICK g : IsFlattening(g, t) /\ FlattenSeq(t) = g[Len(t)]
  BY <1>0, FlattenBy
<1>2. CASE s = <<>>
  <2>1. Len(s) = 0 /\ Len(t) = 1 /\ t[1] = x
    BY <1>0, <1>2
  <2>2. g[1] = t[1]
    BY <1>1, <2>1, FlatteningAt
  <2>3. FlattenSeq(s) \o x = x
    BY <1>2, FlattenEmpty
  <2>4. QED
    BY <1>1, <2>1, <2>2, <2>3 DEF t
<1>3. CASE s # <<>>
  <2>1. PICK f : IsFlattening(f, s) /\ FlattenSeq(s) = f[Len(s)]
    BY <1>3, FlattenBy
  <2>2. f[Len(s)] = g[Len(s)]
    <3>1. IsFlattening(f, s) /\ IsFlattening(g, t) /\ t \in Seq(Seq(S)) /\ Len(s) <= Len(t)
      BY <1>0, <1>1, <2>1
    <3>2. \A i \in 1..Len(s) : s[i] = t[i]
      BY <1>0
    <3>3. QED
      BY <1>3, <3>1, <3>2, FlatteningsAgree
  <2>3. g[Len(t)] = g[Len(s)] \o x
    <3>1. Len(t) \in 1..Len(t) /\ Len(t) # 1 /\ Len(t) - 1 = Len(s)
      BY <1>0, <1>3
    <3>2. \A i \in 1..Len(t) : g[i] = IF i = 1 THEN t[i] ELSE g[i - 1] \o t[i]
      BY <1>1, FlatteningAt
    <3>3. QED
      BY <1>0, <3>1, <3>2
  <2>4. QED
    BY <1>1, <2>1, <2>2, <2>3 DEF t
<1>4. QED
  BY <1>2, <1>3

\* The parts of a sequence flatten to the parts of the result.
LEMMA FlattenConcat ==
    ASSUME NEW S, NEW s \in Seq(Seq(S)), NEW t \in Seq(Seq(S))
    PROVE  FlattenSeq(s \o t) = FlattenSeq(s) \o FlattenSeq(t)
<1> DEFINE K == {k \in Nat : \A u \in Seq(Seq(S)) :
                    Len(u) = k => FlattenSeq(s \o u) = FlattenSeq(s) \o FlattenSeq(u)}
<1>0. FlattenSeq(s) \in Seq(S)
  BY FlattenType
<1>1. 0 \in K
  <2>1. ASSUME NEW u \in Seq(Seq(S)), Len(u) = 0
        PROVE  FlattenSeq(s \o u) = FlattenSeq(s) \o FlattenSeq(u)
    <3>1. u = <<>> /\ s \o u = s
      BY <2>1
    <3>2. FlattenSeq(s) \o <<>> = FlattenSeq(s)
      BY <1>0
    <3>3. QED
      BY <3>1, <3>2, FlattenEmpty
  <2>2. QED
    BY <2>1
<1>2. ASSUME NEW k \in Nat, k \in K PROVE k + 1 \in K
  <2> SUFFICES ASSUME NEW u \in Seq(Seq(S)), Len(u) = k + 1
               PROVE  FlattenSeq(s \o u) = FlattenSeq(s) \o FlattenSeq(u)
    OBVIOUS
  <2> DEFINE v == SubSeq(u, 1, k)
             x == u[k + 1]
  <2>1. v \in Seq(Seq(S)) /\ Len(v) = k /\ x \in Seq(S) /\ u = Append(v, x)
    OBVIOUS
  <2> HIDE DEF v, x
  <2>2. s \o u = Append(s \o v, x) /\ s \o v \in Seq(Seq(S))
    BY <2>1
  <2>3. /\ FlattenSeq(s \o u) = FlattenSeq(s \o v) \o x
        /\ FlattenSeq(u) = FlattenSeq(v) \o x
    BY <2>1, <2>2, FlattenAppend
  <2>4. FlattenSeq(s \o v) = FlattenSeq(s) \o FlattenSeq(v)
    BY <1>2, <2>1
  <2>5. FlattenSeq(v) \in Seq(S)
    BY <2>1, FlattenType
  <2>6. QED
    BY <1>0, <2>1, <2>3, <2>4, <2>5, SMTT(60)
<1> HIDE DEF K
<1>3. Nat \subseteq K
  BY <1>1, <1>2, InductionOnSet
<1>4. Len(t) \in K
  BY <1>3
<1>5. QED
  BY <1>4 DEF K

LEMMA FlattenOne ==
    ASSUME NEW S, NEW x \in Seq(S)
    PROVE  FlattenSeq(<<x>>) = x
<1>1. <<>> \in Seq(Seq(S)) /\ Append(<<>>, x) = <<x>>
  OBVIOUS
<1>2. FlattenSeq(Append(<<>>, x)) = FlattenSeq(<<>>) \o x
  BY <1>1, FlattenAppend
<1>3. <<>> \o x = x
  OBVIOUS
<1>4. QED
  BY <1>1, <1>2, <1>3, FlattenEmpty

\* The place behind the first k sequences of s in the sequence they flatten to.
Offset(s, k) == Len(FlattenSeq(SubSeq(s, 1, k)))

LEMMA OffsetEnds ==
    ASSUME NEW S, NEW s \in Seq(Seq(S))
    PROVE  Offset(s, 0) = 0 /\ Offset(s, Len(s)) = Len(FlattenSeq(s))
<1>1. SubSeq(s, 1, 0) = <<>> /\ SubSeq(s, 1, Len(s)) = s
  OBVIOUS
<1>2. Len(FlattenSeq(<<>>)) = 0
  <2>1. Len(<<>>) = 0
    OBVIOUS
  <2>2. QED
    BY <2>1, FlattenEmpty
<1>3. Offset(s, 0) = 0
  BY <1>1, <1>2 DEF Offset
<1>4. Offset(s, Len(s)) = Len(FlattenSeq(s))
  BY <1>1 DEF Offset
<1>5. QED
  BY <1>3, <1>4

\* What s[k + 1] flattens to begins behind the first k.
LEMMA OffsetNext ==
    ASSUME NEW S, NEW s \in Seq(Seq(S)), NEW k \in 0..(Len(s) - 1)
    PROVE  /\ Offset(s, k) \in Nat
           /\ Offset(s, k + 1) = Offset(s, k) + Len(s[k + 1])
           /\ Offset(s, k + 1) <= Len(FlattenSeq(s))
           /\ \A i \in 1..Len(s[k + 1]) : FlattenSeq(s)[Offset(s, k) + i] = s[k + 1][i]
<1> DEFINE j == k + 1
           p == SubSeq(s, 1, j - 1)
           m == SubSeq(s, j, j)
           q == SubSeq(s, j + 1, Len(s))
           x == s[j]
<1>0. j \in 1..(Len(s) + 1) /\ j \in (j - 1)..Len(s) /\ j - 1 = k /\ j - j + 1 = 1
  OBVIOUS
<1>1. x \in Seq(S) /\ Append(p, x) = SubSeq(s, 1, k + 1) /\ p = SubSeq(s, 1, k)
  OBVIOUS
<1> HIDE DEF j, x
<1>2. /\ s = p \o m \o q
      /\ p \in Seq(Seq(S)) /\ m \in Seq(Seq(S)) /\ q \in Seq(Seq(S))
      /\ Len(m) = j - j + 1 /\ \A i \in 1..(j - j + 1) : m[i] = s[j - 1 + i]
  BY <1>0, ThreeParts, ZenonT(60)
<1>3. m = <<x>>
  <2>1. Len(m) = 1 /\ m[1] = s[j - 1 + 1] /\ j - 1 + 1 = j
    BY <1>0, <1>2
  <2>2. m[1] = x
    BY <2>1 DEF x
  <2> HIDE DEF m
  <2>3. QED
    BY <1>2, <2>1, <2>2, SMTT(60)
<1> HIDE DEF p, m, q
<1> DEFINE P == FlattenSeq(p)
           Q == FlattenSeq(q)
           F == FlattenSeq(s)
<1>4. P \in Seq(S) /\ Q \in Seq(S)
  BY <1>2, FlattenType
<1>5. FlattenSeq(m) = x
  BY <1>1, <1>3, FlattenOne
<1>6. FlattenSeq(p \o m) = P \o x /\ p \o m \in Seq(Seq(S))
  BY <1>2, <1>5, FlattenConcat, ConcatType
<1>7. F = (P \o x) \o Q
  BY <1>2, <1>6, FlattenConcat
<1>8. Offset(s, k) = Len(P) /\ Offset(s, k + 1) = Len(P \o x)
  BY <1>1, <1>2, FlattenAppend DEF Offset
<1> HIDE DEF P, Q, F
<1>9. P \o x \in Seq(S) /\ Len(P \o x) = Len(P) + Len(x)
  BY <1>1, <1>4, ConcatType
<1>10. Len(F) = Len(P \o x) + Len(Q)
  BY <1>4, <1>7, <1>9, ConcatType
<1>11. Len(P) \in Nat /\ Len(x) \in Nat /\ Len(Q) \in Nat
  BY <1>1, <1>4
<1>12. ASSUME NEW i \in 1..Len(x) PROVE F[Len(P) + i] = x[i]
  <2>1. (P \o x)[Len(P) + i] = x[i]
    BY <1>1, <1>4, ConcatAt
  <2>2. Len(P) + i \in 1..Len(P \o x)
    BY <1>9, <1>11
  <2>3. F[Len(P) + i] = (P \o x)[Len(P) + i]
    BY <1>4, <1>7, <1>9, <2>2, ConcatAt
  <2>4. QED
    BY <2>1, <2>3
<1>13. s[k + 1] = x
  BY DEF x, j
<1>14. QED
  BY <1>8, <1>9, <1>10, <1>11, <1>12, <1>13 DEF F

=============================================================================
