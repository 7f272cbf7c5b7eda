-------------------------- MODULE ManagedConfProofs --------------------------
(***************************************************************************)
(* Theorems about ManagedConf, for any number of starts and edits and any   *)
(* file.                                                                    *)
(*                                                                          *)
(* The argument: as long as starts do not overlap, every text that is in    *)
(* the file, or that a start has read, is sound: it has no section, a whole *)
(* one, or the beginning of one and no end mark.  What a start composes     *)
(* from a sound text is sound and has its section; so is what a cut leaves  *)
(* of it, and what the user makes of it.                                    *)
(***************************************************************************)
EXTENDS ManagedConf, SequenceFacts, FiniteSetTheorems

\* The lines that are nobody's settings and no marks.
Plain == {Blank} \cup {User(u) : u \in UserLines}

\* At most one begin mark; an end mark only behind it and one line of settings;
\* settings only there, or behind a begin mark without an end.
Sound(f) ==
    /\ \A i, j \in DOMAIN f : f[i] = Begin /\ f[j] = Begin => i = j
    /\ \A e \in DOMAIN f : f[e] = End => e > 2 /\ f[e - 2] = Begin /\ f[e - 1][1] = "managed"
    /\ \A m \in DOMAIN f : f[m][1] = "managed" => \E b \in 1..(m - 1) : f[b] = Begin
    /\ \A m, e \in DOMAIN f : f[m][1] = "managed" /\ f[e] = End => m = e - 1

\* The section of start w is in f.
HasSection(f, w) ==
    \E b \in DOMAIN f : b + 2 \in DOMAIN f /\ f[b] = Begin /\ f[b + 1] = Managed(w) /\ f[b + 2] = End

Orderly ==
    "overlap" \notin mishaps =>
        /\ \A v, w \in Active : v = w
        /\ Sound(file)
        /\ \A w \in Starts : pc[w] \in {"compose", "write"} => Sound(existing[w])
        /\ \A w \in Starts : pc[w] = "write" => file = <<>>
        /\ \A w \in Starts : pc[w] = "spawn" => HasSection(file, w)

\* Every begin mark has its end.
Closed(f) == Contains(f, Begin) => Contains(f, End)

Kept ==
    mishaps = {} =>
        /\ Closed(file)
        /\ (\A w \in Starts : pc[w] # "write") => UserText(file) = mine
        /\ \A w \in Starts : pc[w] \in {"compose", "write"} =>
              Closed(existing[w]) /\ UserText(existing[w]) = mine

IInv == TypeOK /\ Orderly /\ Kept

-----------------------------------------------------------------------------
(* Lines.                                                                   *)

\* The kinds of lines are told apart by their first part.
LEMMA LineKinds ==
    /\ Begin[1] = "begin" /\ End[1] = "end" /\ Blank[1] = "blank"
    /\ \A w : Managed(w)[1] = "managed" /\ Managed(w)[2] = w
    /\ \A u : User(u)[1] = "user"
  BY DEF Begin, End, Blank, Managed, User

LEMMA LinesByKind ==
    ASSUME NEW l \in Lines
    PROVE  /\ l[1] = "begin" <=> l = Begin
           /\ l[1] = "end" <=> l = End
           /\ l[1] = "managed" => \E w \in Starts : l = Managed(w)
           /\ l \in Plain <=> l[1] \in {"user", "blank"}
  BY LineKinds DEF Lines, Plain

LEMMA PlainLine ==
    ASSUME NEW l \in Lines, l # Begin, l # End, l[1] # "managed"
    PROVE  l \in Plain
  BY LineKinds DEF Lines, Plain

LEMMA PlainLines == Plain \subseteq Lines
  BY DEF Plain, Lines

\* The first place of a mark.
LEMMA FindMark ==
    ASSUME NEW f \in Seq(Lines), NEW mark
    PROVE  \/ Find(f, mark) = 0 /\ \A i \in DOMAIN f : f[i] # mark
           \/ /\ Find(f, mark) \in DOMAIN f /\ f[Find(f, mark)] = mark
              /\ \A i \in DOMAIN f : f[i] = mark => Find(f, mark) <= i
<1> DEFINE I == {i \in 1..Len(f) : f[i] = mark}
<1>1. CASE I = {}
  <2>1. ~Contains(f, mark)
    BY <1>1 DEF Contains
  <2>2. QED
    BY <1>1, <2>1 DEF Find
<1>2. CASE I # {}
  <2>1. Contains(f, mark)
    BY <1>2 DEF Contains
  <2>2. Find(f, mark) = Min(I)
    BY <1>2, <2>1 DEF Find, SelectInSeq
  <2>3. Min(I) \in I /\ \A k \in I : Min(I) <= k
    <3>1. I \in SUBSET (1..Len(f)) /\ Len(f) \in Nat
      OBVIOUS
    <3> HIDE DEF I
    <3>2. QED
      BY <1>2, <3>1, MinPosition
  <2>4. QED
    BY <2>2, <2>3
<1>3. QED
  BY <1>1, <1>2

\* The last line that sets the port counts.
LEMMA LastSets ==
    ASSUME NEW f \in Seq(Lines), NEW k \in DOMAIN f, Sets(f[k]) # 0,
           \A j \in DOMAIN f : j > k => Sets(f[j]) = 0
    PROVE  EffectivePort(f) = Sets(f[k])
<1> DEFINE I == {i \in 1..Len(f) : Sets(f[i]) # 0}
<1>1. k \in I /\ I \in SUBSET (1..Len(f)) /\ Len(f) \in Nat
  OBVIOUS
<1>2. Max(I) \in I /\ \A j \in I : j <= Max(I)
  <2> HIDE DEF I
  <2>1. QED
    BY <1>1, MaxPosition
<1>3. Max(I) = k
  BY <1>1, <1>2
<1>4. SelectLastInSeq(f, LAMBDA l : Sets(l) # 0) = k
  BY <1>1, <1>3 DEF SelectLastInSeq
<1>5. QED
  BY <1>4 DEF EffectivePort

-----------------------------------------------------------------------------
(* Sound texts.                                                             *)

\* A section between plain lines.
LEMMA SectionSound ==
    ASSUME NEW w \in Starts, NEW p \in Seq(Plain), NEW q \in Seq(Plain)
    PROVE  LET g == p \o Section(w) \o q
           IN  g \in Seq(Lines) /\ Sound(g) /\ HasSection(g, w)
<1> DEFINE g == p \o Section(w) \o q
           b == Len(p) + 1
<1>1. /\ Section(w) \in Seq(Lines) /\ Len(Section(w)) = 3
      /\ Section(w)[1] = Begin /\ Section(w)[2] = Managed(w) /\ Section(w)[3] = End
  BY DEF Section, Lines
<1>2. p \in Seq(Lines) /\ q \in Seq(Lines)
  BY PlainLines
<1>3. g \in Seq(Lines) /\ Len(g) = Len(p) + 3 + Len(q)
  <2>1. p \o Section(w) \in Seq(Lines) /\ Len(p \o Section(w)) = Len(p) + 3
    BY <1>1, <1>2, ConcatType
  <2>2. QED
    BY <1>2, <2>1, ConcatType
<1>4. g[b] = Begin /\ g[b + 1] = Managed(w) /\ g[b + 2] = End /\ b \in 1..Len(g) /\ b + 2 \in 1..Len(g)
  BY <1>1, <1>2, <1>3
<1>5. ASSUME NEW i \in 1..Len(g), i \notin b..(b + 2) PROVE g[i] \in Plain
  <2>1. CASE i < b
    <3>1. g[i] = p[i] /\ i \in 1..Len(p)
      BY <1>1, <1>2, <1>3, <2>1
    <3>2. QED
      BY <3>1
  <2>2. CASE i > b + 2
    <3>1. g[i] = q[i - Len(p) - 3] /\ i - Len(p) - 3 \in 1..Len(q)
      BY <1>1, <1>2, <1>3, <2>2
    <3>2. QED
      BY <3>1
  <2>3. QED
    BY <1>5, <2>1, <2>2
<1>6. /\ \A i \in 1..Len(g) : g[i] = Begin => i = b
      /\ \A i \in 1..Len(g) : g[i] = End => i = b + 2
      /\ \A i \in 1..Len(g) : g[i][1] = "managed" => i = b + 1
  <2>1. \A i \in 1..Len(g) : g[i] \notin Plain => i \in {b, b + 1, b + 2}
    BY <1>5
  <2>2. \A l \in Plain : l # Begin /\ l # End /\ l[1] # "managed"
    BY LineKinds, LinesByKind, PlainLines
  <2> HIDE DEF g, b
  <2>3. QED
    BY <1>4, <2>1, <2>2, LineKinds
<1>7. b \in Nat /\ b > 0
  OBVIOUS
<1>8. DOMAIN g = 1..Len(g)
  BY <1>3
<1> HIDE DEF g, b
<1>9. Sound(g) /\ HasSection(g, w)
  <2>1. \A e \in DOMAIN g : g[e] = End => e > 2 /\ g[e - 2] = Begin /\ g[e - 1][1] = "managed"
    <3>1. (b + 2) - 2 = b /\ (b + 2) - 1 = b + 1 /\ b + 2 > 2
      BY <1>7
    <3>2. QED
      BY <1>4, <1>6, <1>8, <3>1, LineKinds
  <2>2. \A m \in DOMAIN g : g[m][1] = "managed" => \E c \in 1..(m - 1) : g[c] = Begin
    <3>1. b \in 1..((b + 1) - 1)
      BY <1>7
    <3>2. QED
      BY <1>4, <1>6, <1>8, <3>1
  <2>3. \A m, e \in DOMAIN g : g[m][1] = "managed" /\ g[e] = End => m = e - 1
    <3>1. (b + 2) - 1 = b + 1
      BY <1>7
    <3>2. QED
      BY <1>6, <1>8, <3>1
  <2>4. \A i, j \in DOMAIN g : g[i] = Begin /\ g[j] = Begin => i = j
    BY <1>6, <1>8
  <2>5. QED
    BY <1>4, <1>8, <2>1, <2>2, <2>3, <2>4 DEF Sound, HasSection
<1>10. QED
  BY <1>3, <1>9 DEF g

\* What is cut off a sound text is sound.
LEMMA CutSound ==
    ASSUME NEW f \in Seq(Lines), Sound(f), NEW n \in 0..Len(f)
    PROVE  SubSeq(f, 1, n) \in Seq(Lines) /\ Sound(SubSeq(f, 1, n))
<1> DEFINE g == SubSeq(f, 1, n)
<1>1. g \in Seq(Lines) /\ Len(g) = n /\ \A i \in 1..n : g[i] = f[i]
  OBVIOUS
<1>2. DOMAIN g = 1..n /\ 1..n \subseteq DOMAIN f
  BY <1>1
<1> HIDE DEF g
<1>3. Sound(g)
  BY <1>1, <1>2, SMTT(60) DEF Sound
<1>4. QED
  BY <1>1, <1>3 DEF g

\* What a start composes from a sound text is sound, and has its section.
LEMMA NewContentSound ==
    ASSUME NEW w \in Starts, NEW f \in Seq(Lines), Sound(f)
    PROVE  /\ NewContent(f, w) \in Seq(Lines) /\ Sound(NewContent(f, w))
           /\ HasSection(NewContent(f, w), w)
<1>1. DOMAIN f = 1..Len(f) /\ Len(f) \in Nat /\ \A i \in 1..Len(f) : f[i] \in Lines
  OBVIOUS
<1>e. ASSUME NEW i \in 1..Len(f), f[i] = End PROVE i - 2 \in 1..Len(f) /\ f[i - 2] = Begin
  <2>1. i > 2 /\ f[i - 2] = Begin
    BY <1>1, <1>e DEF Sound
  <2>2. QED
    BY <1>1, <2>1
<1>m. ASSUME NEW i \in 1..Len(f), f[i][1] = "managed"
      PROVE  \E c \in 1..Len(f) : c < i /\ f[c] = Begin
  <2>1. PICK c \in 1..(i - 1) : f[c] = Begin
    BY <1>1, <1>m DEF Sound
  <2>2. c \in 1..Len(f) /\ c < i
    BY <1>1
  <2>3. QED
    BY <2>1, <2>2
<1> DEFINE b == Find(f, Begin)
           e == Find(f, End)
<1>2. CASE b = 0
  <2>1. \A i \in 1..Len(f) : f[i] # Begin
    BY <1>1, <1>2, FindMark
  <2>2. \A i \in 1..Len(f) : f[i] # End /\ f[i][1] # "managed"
    BY <1>e, <1>m, <2>1
  <2>3. \A i \in 1..Len(f) : f[i] \in Plain
    BY <1>1, <2>1, <2>2, PlainLine
  <2>4. f \o <<Blank>> \in Seq(Plain)
    <3>1. f \in Seq(Plain) /\ <<Blank>> \in Seq(Plain)
      <4>1. <<Blank>> \in Seq(Plain)
        BY DEF Plain
      <4>2. QED
        BY <2>3, <4>1, ElementsIn
    <3>2. QED
      BY <3>1, ConcatType
  <2>5. NewContent(f, w) = (f \o <<Blank>>) \o Section(w) \o <<>>
    <3>1. Section(w) \in Seq(Lines)
      BY DEF Section, Lines
    <3>2. f \o <<Blank>> \in Seq(Lines)
      BY <2>4, PlainLines
    <3>3. (f \o <<Blank>>) \o Section(w) \in Seq(Lines)
      BY <3>1, <3>2, ConcatType
    <3>4. NewContent(f, w) = (f \o <<Blank>>) \o Section(w)
      BY <1>2 DEF NewContent
    <3>5. ((f \o <<Blank>>) \o Section(w)) \o <<>> = (f \o <<Blank>>) \o Section(w)
      BY <3>3
    <3>6. QED
      BY <3>4, <3>5
  <2>6. <<>> \in Seq(Plain)
    OBVIOUS
  <2>7. QED
    BY <2>4, <2>5, <2>6, SectionSound
<1>3. CASE b # 0
  <2>1. b \in 1..Len(f) /\ f[b] = Begin /\ \A i \in 1..Len(f) : f[i] = Begin => i = b
    BY <1>1, <1>3, FindMark DEF Sound
  <2>2. Before(f) \in Seq(Plain)
    <3>1. \A i \in 1..(b - 1) : f[i] \in Plain
      <4> SUFFICES ASSUME NEW i \in 1..(b - 1) PROVE f[i] \in Plain
        OBVIOUS
      <4>1. i \in 1..Len(f) /\ f[i] # Begin
        BY <2>1
      <4>2. f[i] # End
        <5>1. i - 2 # b
          BY <2>1
        <5>2. QED
          BY <1>e, <2>1, <4>1, <5>1
      <4>3. f[i][1] # "managed"
        <5>1. \A c \in 1..Len(f) : c < i => c # b
          BY <2>1
        <5>2. QED
          BY <1>m, <2>1, <4>1, <5>1
      <4>4. QED
        BY <1>1, <4>1, <4>2, <4>3, PlainLine
    <3>2. b - 1 \in 0..Len(f)
      BY <1>1, <2>1
    <3>3. SubSeq(f, 1, b - 1) \in Seq(Lines) /\ Len(SubSeq(f, 1, b - 1)) = b - 1
          /\ \A i \in 1..(b - 1) : SubSeq(f, 1, b - 1)[i] = f[i]
      <4> HIDE DEF b
      <4>1. QED
        BY <3>2
    <3>4. QED
      BY <3>1, <3>3, ElementsIn DEF Before
  <2>3. After(f) \in Seq(Plain)
    <3>1. CASE e = 0
      BY <3>1 DEF After
    <3>2. CASE e # 0
      <4>1. e \in 1..Len(f) /\ f[e] = End /\ e - 2 = b
        <5>1. e \in 1..Len(f) /\ f[e] = End
          BY <1>1, <3>2, FindMark
        <5>2. e > 2 /\ f[e - 2] = Begin
          BY <1>1, <5>1 DEF Sound
        <5>3. QED
          BY <2>1, <5>1, <5>2
      <4>2. \A i \in (e + 1)..Len(f) : f[i] \in Plain
        <5> SUFFICES ASSUME NEW i \in (e + 1)..Len(f) PROVE f[i] \in Plain
          OBVIOUS
        <5>1. i \in 1..Len(f) /\ i # b
          BY <4>1, <2>1
        <5>2. f[i] # Begin
          BY <2>1, <5>1
        <5>3. f[i] # End
          <6>1. i - 2 # b
            BY <4>1
          <6>2. QED
            BY <1>e, <2>1, <5>1, <6>1
        <5>4. f[i][1] # "managed"
          BY <1>1, <4>1, <5>1 DEF Sound
        <5>5. QED
          BY <1>1, <5>1, <5>2, <5>3, <5>4, PlainLine
      <4>3. SubSeq(f, e + 1, Len(f)) \in Seq(Plain)
        BY <1>1, <4>1, <4>2
      <4>4. <<Blank>> \in Seq(Plain)
        BY DEF Plain
      <4>5. QED
        BY <3>2, <4>3, <4>4, ConcatType DEF After
    <3>3. QED
      BY <3>1, <3>2
  <2>4. NewContent(f, w) = Before(f) \o Section(w) \o After(f)
    BY <1>3 DEF NewContent
  <2>5. QED
    BY <2>2, <2>3, <2>4, SectionSound
<1>4. QED
  BY <1>2, <1>3


\* A text with the same sections, the user's lines apart, is as sound: moved says
\* where the other lines of f are in g.
LEMMA MovedSound ==
    ASSUME NEW f \in Seq(Lines), Sound(f), NEW g \in Seq(Lines),
           NEW moved \in [1..Len(f) -> Int],
           \A i \in 1..Len(g) : g[i][1] # "user" =>
               \E j \in 1..Len(f) : g[i] = f[j] /\ moved[j] = i,
           \A j \in 1..Len(f) : f[j][1] # "user" => moved[j] \in 1..Len(g) /\ g[moved[j]] = f[j],
           \A j, l \in 1..Len(f) : f[j][1] # "user" /\ f[l][1] # "user" /\ j < l => moved[j] < moved[l],
           \A j \in 1..Len(f) : f[j] = End =>
               moved[j - 1] = moved[j] - 1 /\ moved[j - 2] = moved[j] - 2
    PROVE  Sound(g)
<1>1. DOMAIN f = 1..Len(f) /\ DOMAIN g = 1..Len(g) /\ Len(f) \in Nat /\ Len(g) \in Nat
  OBVIOUS
<1>2. Begin[1] # "user" /\ End[1] # "user"
  BY LineKinds
<1>3. ASSUME NEW i \in DOMAIN g, NEW j \in DOMAIN g, g[i] = Begin, g[j] = Begin PROVE i = j
  <2>1. PICK k \in 1..Len(f) : g[i] = f[k] /\ moved[k] = i
    BY <1>1, <1>2, <1>3
  <2>2. PICK l \in 1..Len(f) : g[j] = f[l] /\ moved[l] = j
    BY <1>1, <1>2, <1>3
  <2>3. k = l
    BY <1>1, <1>3, <2>1, <2>2, ZenonT(60) DEF Sound
  <2>4. QED
    BY <2>1, <2>2, <2>3
<1>4. ASSUME NEW e \in DOMAIN g, g[e] = End
      PROVE  e > 2 /\ g[e - 2] = Begin /\ g[e - 1][1] = "managed"
  <2>1. PICK k \in 1..Len(f) : g[e] = f[k] /\ moved[k] = e
    BY <1>1, <1>2, <1>4
  <2>2. k > 2 /\ f[k - 2] = Begin /\ f[k - 1][1] = "managed"
    BY <1>1, <1>4, <2>1 DEF Sound
  <2>3. k - 2 \in 1..Len(f) /\ k - 1 \in 1..Len(f)
    BY <1>1, <2>2
  <2>4. moved[k - 1] = e - 1 /\ moved[k - 2] = e - 2
    BY <1>4, <2>1
  <2>5. e - 2 \in 1..Len(g) /\ g[e - 2] = Begin
    BY <1>2, <2>2, <2>3, <2>4
  <2>6. g[e - 1] = f[k - 1]
    BY <2>2, <2>3, <2>4
  <2>7. QED
    BY <1>1, <2>2, <2>5, <2>6
<1>5. ASSUME NEW m \in DOMAIN g, g[m][1] = "managed" PROVE \E b \in 1..(m - 1) : g[b] = Begin
  <2>1. PICK k \in 1..Len(f) : g[m] = f[k] /\ moved[k] = m
    BY <1>1, <1>5
  <2>2. PICK c \in 1..(k - 1) : f[c] = Begin
    BY <1>1, <1>5, <2>1 DEF Sound
  <2>3. c \in 1..Len(f) /\ c < k
    BY <1>1
  <2>4. moved[c] \in 1..Len(g) /\ g[moved[c]] = Begin /\ moved[c] < m
    BY <1>2, <1>5, <2>1, <2>2, <2>3
  <2>5. moved[c] \in 1..(m - 1)
    BY <1>1, <2>4
  <2>6. QED
    BY <2>4, <2>5
<1>6. ASSUME NEW m \in DOMAIN g, NEW e \in DOMAIN g, g[m][1] = "managed", g[e] = End PROVE m = e - 1
  <2>1. PICK k \in 1..Len(f) : g[m] = f[k] /\ moved[k] = m
    BY <1>1, <1>6
  <2>2. PICK l \in 1..Len(f) : g[e] = f[l] /\ moved[l] = e
    BY <1>1, <1>2, <1>6
  <2>3. k = l - 1
    <3>1. f[k][1] = "managed" /\ f[l] = End /\ k \in DOMAIN f /\ l \in DOMAIN f
      BY <1>1, <1>6, <2>1, <2>2
    <3>2. QED
      BY <3>1 DEF Sound
  <2>4. moved[l - 1] = moved[l] - 1
    BY <1>6, <2>2
  <2>5. QED
    BY <2>1, <2>2, <2>3, <2>4
<1>7. QED
  BY <1>3, <1>4, <1>5, <1>6 DEF Sound

\* Where the section of a sound text is.
LEMMA SectionPlaces ==
    ASSUME NEW f \in Seq(Lines), Sound(f), NEW e \in 1..Len(f), f[e] = End
    PROVE  /\ e > 2 /\ f[e - 2] = Begin /\ f[e - 1][1] = "managed"
           /\ Find(f, Begin) = e - 2 /\ Find(f, End) = e
<1>1. DOMAIN f = 1..Len(f) /\ Len(f) \in Nat
  OBVIOUS
<1>2. e > 2 /\ f[e - 2] = Begin /\ f[e - 1][1] = "managed"
  BY <1>1 DEF Sound
<1>3. e - 2 \in DOMAIN f
  BY <1>1, <1>2
<1>4. Find(f, Begin) = e - 2
  BY <1>2, <1>3, FindMark DEF Sound
<1>5. Find(f, End) \in DOMAIN f /\ f[Find(f, End)] = End
  BY <1>1, FindMark
<1>6. f[Find(f, End) - 2] = Begin /\ Find(f, End) > 2
  BY <1>5 DEF Sound
<1>7. Find(f, End) - 2 \in DOMAIN f
  BY <1>1, <1>5, <1>6
<1>8. Find(f, End) - 2 = e - 2
  BY <1>2, <1>3, <1>6, <1>7 DEF Sound
<1>9. Find(f, End) = e
  BY <1>1, <1>5, <1>8
<1>10. QED
  BY <1>2, <1>4, <1>9

\* A line of the user's outside the section leaves a sound text sound.
LEMMA InsertSound ==
    ASSUME NEW f \in Seq(Lines), Sound(f), NEW u \in UserLines, NEW k \in 0..Len(f),
           ~(Find(f, Begin) # 0 /\ k \in Find(f, Begin)..(Find(f, End) - 1))
    PROVE  InsertAt(f, k + 1, User(u)) \in Seq(Lines) /\ Sound(InsertAt(f, k + 1, User(u)))
<1> DEFINE g == InsertAt(f, k + 1, User(u))
           moved == [j \in 1..Len(f) |-> IF j <= k THEN j ELSE j + 1]
<1>0. User(u) \in Lines /\ User(u)[1] = "user" /\ Len(f) \in Nat
  BY LineKinds DEF Lines
<1>1. /\ g \in Seq(Lines) /\ Len(g) = Len(f) + 1 /\ g[k + 1] = User(u)
      /\ \A i \in 1..k : g[i] = f[i]
      /\ \A i \in (k + 1)..Len(f) : g[i + 1] = f[i]
  <2> DEFINE m == k + 1
  <2>1. m \in 1..(Len(f) + 1) /\ k = m - 1
    OBVIOUS
  <2>2. g = InsertAt(f, m, User(u))
    OBVIOUS
  <2> HIDE DEF m, g
  <2>3. /\ g \in Seq(Lines) /\ Len(g) = Len(f) + 1 /\ g[m] = User(u)
        /\ \A i \in 1..(m - 1) : g[i] = f[i]
        /\ \A i \in m..Len(f) : g[i + 1] = f[i]
    BY <1>0, <2>1, <2>2, InsertFacts, SMTT(60)
  <2>4. QED
    BY <2>1, <2>3 DEF m
<1> HIDE DEF g
<1>2. ASSUME NEW i \in 1..Len(g), g[i][1] # "user"
      PROVE  \E j \in 1..Len(f) : g[i] = f[j] /\ moved[j] = i
  <2>1. i # k + 1
    BY <1>0, <1>1, <1>2
  <2>2. CASE i <= k
    <3>1. i \in 1..Len(f) /\ moved[i] = i /\ g[i] = f[i]
      BY <1>1, <2>2
    <3>2. QED
      BY <3>1
  <2>3. CASE i > k + 1
    <3>1. i - 1 \in (k + 1)..Len(f)
      BY <1>0, <1>1, <2>3
    <3>2. g[i] = f[i - 1]
      BY <1>1, <3>1
    <3>3. i - 1 \in 1..Len(f) /\ moved[i - 1] = i
      BY <3>1
    <3>4. QED
      BY <3>2, <3>3
  <2>4. QED
    BY <1>0, <1>1, <2>1, <2>2, <2>3
<1>3. \A j \in 1..Len(f) : moved[j] \in 1..Len(g) /\ g[moved[j]] = f[j]
  BY <1>0, <1>1
<1>4. \A j, l \in 1..Len(f) : j < l => moved[j] < moved[l]
  BY <1>0
<1>5. ASSUME NEW j \in 1..Len(f), f[j] = End
      PROVE  moved[j - 1] = moved[j] - 1 /\ moved[j - 2] = moved[j] - 2
  <2>1. j > 2 /\ Find(f, Begin) = j - 2 /\ Find(f, End) = j
    BY <1>5, SectionPlaces
  <2>2. k \notin (j - 2)..(j - 1)
    BY <2>1
  <2>3. QED
    BY <2>1, <2>2
<1>6. moved \in [1..Len(f) -> Int]
  OBVIOUS
<1> HIDE DEF moved
<1>7. Sound(g)
  BY <1>1, <1>2, <1>3, <1>4, <1>5, <1>6, MovedSound, ZenonT(60)
<1>8. QED
  BY <1>1, <1>7 DEF g

\* So does the loss of one.
LEMMA RemoveSound ==
    ASSUME NEW f \in Seq(Lines), Sound(f), NEW k \in 1..Len(f), f[k][1] = "user"
    PROVE  RemoveAt(f, k) \in Seq(Lines) /\ Sound(RemoveAt(f, k))
<1> DEFINE g == RemoveAt(f, k)
           moved == [j \in 1..Len(f) |-> IF j < k THEN j ELSE j - 1]
<1>0. Len(f) \in Nat /\ Begin[1] # "user" /\ End[1] # "user"
  BY LineKinds
<1>1. /\ g \in Seq(Lines) /\ Len(g) = Len(f) - 1
      /\ \A i \in 1..(k - 1) : g[i] = f[i]
      /\ \A i \in (k + 1)..Len(f) : g[i - 1] = f[i]
  BY RemoveFacts
<1> HIDE DEF g
<1>2. ASSUME NEW i \in 1..Len(g)
      PROVE  \E j \in 1..Len(f) : g[i] = f[j] /\ moved[j] = i
  <2>1. CASE i < k
    <3>1. i \in 1..Len(f) /\ moved[i] = i /\ g[i] = f[i]
      BY <1>1, <2>1
    <3>2. QED
      BY <3>1
  <2>2. CASE i >= k
    <3>1. i + 1 \in (k + 1)..Len(f) /\ (i + 1) - 1 = i
      BY <1>0, <1>1, <2>2
    <3>2. g[(i + 1) - 1] = f[i + 1]
      BY <1>1, <3>1
    <3>3. i + 1 \in 1..Len(f) /\ moved[i + 1] = i
      BY <3>1
    <3>4. QED
      BY <3>1, <3>2, <3>3
  <2>3. QED
    BY <1>0, <1>1, <2>1, <2>2
<1>3. ASSUME NEW j \in 1..Len(f), f[j][1] # "user" PROVE moved[j] \in 1..Len(g) /\ g[moved[j]] = f[j]
  <2>1. j # k
    BY <1>3
  <2>2. QED
    BY <1>0, <1>1, <2>1
<1>4. ASSUME NEW j \in 1..Len(f), NEW l \in 1..Len(f), f[j][1] # "user", f[l][1] # "user", j < l
      PROVE  moved[j] < moved[l]
  <2>1. j # k /\ l # k
    BY <1>4
  <2>2. QED
    BY <1>0, <1>4, <2>1
<1>5. ASSUME NEW j \in 1..Len(f), f[j] = End
      PROVE  moved[j - 1] = moved[j] - 1 /\ moved[j - 2] = moved[j] - 2
  <2>1. j > 2 /\ f[j - 2] = Begin /\ f[j - 1][1] = "managed"
    BY <1>5, SectionPlaces
  <2>2. k # j /\ k # j - 1 /\ k # j - 2
    BY <1>0, <1>5, <2>1
  <2>3. QED
    BY <2>1, <2>2
<1>6. moved \in [1..Len(f) -> Int]
  OBVIOUS
<1> HIDE DEF moved
<1>7. Sound(g)
  BY <1>1, <1>2, <1>3, <1>4, <1>5, <1>6, MovedSound
<1>8. QED
  BY <1>1, <1>7 DEF g

LEMMA OverwriteType ==
    ASSUME NEW text \in Seq(Lines), file \in Seq(Lines)
    PROVE  /\ Overwrite(text) \in Seq(Lines)
           /\ file = <<>> => Overwrite(text) = text
<1>1. SubSeq(file, Len(text) + 1, Len(file)) \in Seq(Lines)
  OBVIOUS
<1>2. file = <<>> => SubSeq(file, Len(text) + 1, Len(file)) = <<>>
  OBVIOUS
<1>3. text \o <<>> = text
  OBVIOUS
<1>4. QED
  BY <1>1, <1>2, <1>3, ConcatType DEF Overwrite

-----------------------------------------------------------------------------
(* The user's lines.                                                        *)

Users == {User(u) : u \in UserLines}

UserPart(l) == IF l[1] = "user" THEN <<l>> ELSE <<>>

UserParts(f) == [k \in DOMAIN f |-> UserPart(f[k])]

LEMMA UserTextIsFlat ==
    ASSUME NEW f
    PROVE  UserText(f) = FlattenSeq(UserParts(f))
  BY DEF UserText, UserParts, UserPart

LEMMA PartsType ==
    ASSUME NEW T, NEW f \in Seq(Lines), \A i \in 1..Len(f) : f[i][1] = "user" => f[i] \in T
    PROVE  UserParts(f) \in Seq(Seq(T)) /\ Len(UserParts(f)) = Len(f)
<1>1. DOMAIN f = 1..Len(f) /\ Len(f) \in Nat
  OBVIOUS
<1>2. \A i \in 1..Len(f) : UserPart(f[i]) \in Seq(T)
  BY DEF UserPart
<1>3. UserParts(f) \in [1..Len(f) -> Seq(T)]
  BY <1>1, <1>2 DEF UserParts
<1>4. QED
  BY <1>1, <1>3

LEMMA UserTextIn ==
    ASSUME NEW T, NEW f \in Seq(Lines), \A i \in 1..Len(f) : f[i][1] = "user" => f[i] \in T
    PROVE  UserText(f) \in Seq(T)
  BY PartsType, FlattenType, UserTextIsFlat

LEMMA UserTextType ==
    ASSUME NEW f \in Seq(Lines)
    PROVE  UserText(f) \in Seq(Users)
<1>1. \A l \in Lines : l[1] = "user" => l \in Users
  BY LineKinds DEF Lines, Users
<1>2. \A i \in 1..Len(f) : f[i] \in Lines
  OBVIOUS
<1>3. QED
  BY <1>1, <1>2, UserTextIn

LEMMA UserTextNone ==
    ASSUME NEW f \in Seq(Lines), \A i \in 1..Len(f) : f[i][1] # "user"
    PROVE  UserText(f) = <<>>
<1>1. UserText(f) \in Seq({})
  BY UserTextIn
<1>2. QED
  BY <1>1

LEMMA UserTextConcat ==
    ASSUME NEW f \in Seq(Lines), NEW g \in Seq(Lines)
    PROVE  UserText(f \o g) = UserText(f) \o UserText(g)
<1> DEFINE h == f \o g
<1>1. /\ h \in Seq(Lines) /\ Len(h) = Len(f) + Len(g)
      /\ \A i \in 1..Len(f) : h[i] = f[i]
      /\ \A i \in 1..Len(g) : h[Len(f) + i] = g[i]
  BY ConcatType, ConcatAt
<1>2. Len(f) \in Nat /\ Len(g) \in Nat
  OBVIOUS
<1> HIDE DEF h
<1>3. /\ UserParts(f) \in Seq(Seq(Lines)) /\ Len(UserParts(f)) = Len(f)
      /\ UserParts(g) \in Seq(Seq(Lines)) /\ Len(UserParts(g)) = Len(g)
      /\ UserParts(h) \in Seq(Seq(Lines)) /\ Len(UserParts(h)) = Len(h)
  <2>1. ASSUME NEW s \in Seq(Lines)
        PROVE  UserParts(s) \in Seq(Seq(Lines)) /\ Len(UserParts(s)) = Len(s)
    <3>1. \A i \in 1..Len(s) : s[i] \in Lines
      OBVIOUS
    <3>2. QED
      BY <3>1, PartsType
  <2>2. QED
    BY <1>1, <2>1
<1>4. /\ \A i \in 1..Len(f) : UserParts(f)[i] = UserPart(f[i])
      /\ \A i \in 1..Len(g) : UserParts(g)[i] = UserPart(g[i])
      /\ \A i \in 1..Len(h) : UserParts(h)[i] = UserPart(h[i])
  <2>1. ASSUME NEW s \in Seq(Lines), NEW i \in 1..Len(s) PROVE UserParts(s)[i] = UserPart(s[i])
    BY DEF UserParts
  <2>2. QED
    BY <1>1, <2>1
<1>5. UserParts(h) = UserParts(f) \o UserParts(g)
  <2> DEFINE t == UserParts(f) \o UserParts(g)
  <2>1. /\ t \in Seq(Seq(Lines)) /\ Len(t) = Len(h)
        /\ \A i \in 1..Len(f) : t[i] = UserParts(f)[i]
        /\ \A i \in 1..Len(g) : t[Len(f) + i] = UserParts(g)[i]
    <3>1. t \in Seq(Seq(Lines)) /\ Len(t) = Len(UserParts(f)) + Len(UserParts(g))
      BY <1>3, ConcatType
    <3>2. /\ \A i \in 1..Len(UserParts(f)) : t[i] = UserParts(f)[i]
          /\ \A i \in 1..Len(UserParts(g)) : t[Len(UserParts(f)) + i] = UserParts(g)[i]
      BY <1>3, ConcatAt
    <3>3. QED
      BY <1>1, <1>3, <3>1, <3>2
  <2> HIDE DEF t
  <2>2. ASSUME NEW i \in 1..Len(h) PROVE UserParts(h)[i] = t[i]
    <3>1. CASE i <= Len(f)
      BY <1>1, <1>2, <1>4, <2>1, <3>1
    <3>2. CASE i > Len(f)
      <4>1. i - Len(f) \in 1..Len(g) /\ i = Len(f) + (i - Len(f))
        BY <1>1, <1>2, <3>2
      <4>2. h[i] = g[i - Len(f)] /\ t[i] = UserParts(g)[i - Len(f)]
        BY <1>1, <2>1, <4>1
      <4>3. QED
        BY <1>1, <1>4, <4>1, <4>2
    <3>3. i <= Len(f) \/ i > Len(f)
      BY <1>1, <1>2
    <3>4. QED
      BY <3>1, <3>2, <3>3
  <2>3. UserParts(h) = t
    <3>1. \A i \in 1..Len(UserParts(h)) : UserParts(h)[i] = t[i]
      BY <1>3, <2>2
    <3>2. QED
      BY <1>3, <2>1, <3>1, SameElements
  <2>4. QED
    BY <2>3 DEF t
<1>6. FlattenSeq(UserParts(f) \o UserParts(g)) = FlattenSeq(UserParts(f)) \o FlattenSeq(UserParts(g))
  BY <1>3, FlattenConcat
<1>7. UserText(h) = UserText(f) \o UserText(g)
  BY <1>5, <1>6, UserTextIsFlat
<1>8. QED
  BY <1>7 DEF h

LEMMA UserTextBeside ==
    ASSUME NEW f \in Seq(Lines), NEW g \in Seq(Lines), UserText(g) = <<>>
    PROVE  UserText(f \o g) = UserText(f) /\ UserText(g \o f) = UserText(f)
<1>1. UserText(f) \in Seq(Users)
  BY UserTextType
<1>2. UserText(f) \o <<>> = UserText(f) /\ <<>> \o UserText(f) = UserText(f)
  BY <1>1
<1>3. QED
  BY <1>2, UserTextConcat

LEMMA NewContentType ==
    ASSUME NEW w \in Starts, NEW f \in Seq(Lines)
    PROVE  NewContent(f, w) \in Seq(Lines)
<1>1. Section(w) \in Seq(Lines) /\ <<Blank>> \in Seq(Lines)
  BY DEF Section, Lines
<1>2. CASE Find(f, Begin) = 0
  <2>1. f \o <<Blank>> \in Seq(Lines)
    BY <1>1, ConcatType
  <2>2. (f \o <<Blank>>) \o Section(w) \in Seq(Lines)
    BY <1>1, <2>1, ConcatType
  <2>3. QED
    BY <1>2, <2>2 DEF NewContent
<1>3. CASE Find(f, Begin) # 0
  <2>1. Before(f) \in Seq(Lines)
    <3>1. Find(f, Begin) \in DOMAIN f
      BY <1>3, FindMark
    <3> DEFINE b == Find(f, Begin)
    <3> HIDE DEF b
    <3>2. ASSUME b \in DOMAIN f PROVE SubSeq(f, 1, b - 1) \in Seq(Lines)
      BY <3>2
    <3>3. QED
      BY <3>1, <3>2 DEF Before, b
  <2>2. After(f) \in Seq(Lines)
    <3>1. CASE Find(f, End) = 0
      BY <3>1 DEF After
    <3>2. CASE Find(f, End) # 0
      <4>1. Find(f, End) \in DOMAIN f
        BY <3>2, FindMark
      <4> DEFINE e == Find(f, End)
      <4> HIDE DEF e
      <4>2. ASSUME e \in DOMAIN f PROVE SubSeq(f, e + 1, Len(f)) \in Seq(Lines)
        BY <4>2
      <4>3. SubSeq(f, Find(f, End) + 1, Len(f)) \in Seq(Lines)
        BY <4>1, <4>2 DEF e
      <4>4. QED
        BY <1>1, <3>2, <4>3, ConcatType DEF After
    <3>3. QED
      BY <3>1, <3>2
  <2>3. Before(f) \o Section(w) \in Seq(Lines)
    BY <1>1, <2>1, ConcatType
  <2>4. (Before(f) \o Section(w)) \o After(f) \in Seq(Lines)
    BY <2>2, <2>3, ConcatType
  <2>5. QED
    BY <1>3, <2>4 DEF NewContent
<1>4. QED
  BY <1>2, <1>3

LEMMA HasEnd ==
    ASSUME NEW w \in Starts, NEW f \in Seq(Lines), HasSection(f, w)
    PROVE  Closed(f)
  BY DEF HasSection, Closed, Contains

\* A start drops none of the user's lines and makes none up, where it finds no
\* section or a whole one.
LEMMA NewContentKeeps ==
    ASSUME NEW w \in Starts, NEW f \in Seq(Lines), Sound(f), Closed(f)
    PROVE  UserText(NewContent(f, w)) = UserText(f)
<1>1. Len(f) \in Nat /\ DOMAIN f = 1..Len(f) /\ UserText(f) \in Seq(Users)
  BY UserTextType
<1>2. /\ Section(w) \in Seq(Lines) /\ <<Blank>> \in Seq(Lines)
      /\ UserText(Section(w)) = <<>> /\ UserText(<<Blank>>) = <<>>
  <2>1. Section(w) \in Seq(Lines) /\ <<Blank>> \in Seq(Lines)
    BY DEF Section, Lines
  <2>2. \A i \in 1..Len(Section(w)) : Section(w)[i][1] # "user"
    BY LineKinds DEF Section
  <2>3. \A i \in 1..Len(<<Blank>>) : <<Blank>>[i][1] # "user"
    BY LineKinds
  <2>4. QED
    BY <2>1, <2>2, <2>3, UserTextNone
<1>3. CASE Find(f, Begin) = 0
  <2>1. f \o <<Blank>> \in Seq(Lines) /\ UserText(f \o <<Blank>>) = UserText(f)
    BY <1>2, ConcatType, UserTextBeside
  <2>2. UserText((f \o <<Blank>>) \o Section(w)) = UserText(f \o <<Blank>>)
    BY <1>2, <2>1, UserTextBeside
  <2>3. QED
    BY <1>3, <2>1, <2>2 DEF NewContent
<1>4. CASE Find(f, Begin) # 0
  <2>1. Find(f, Begin) \in DOMAIN f /\ f[Find(f, Begin)] = Begin
    BY <1>4, FindMark
  <2>2. Contains(f, End)
    BY <1>1, <2>1 DEF Closed, Contains
  <2>3. PICK e \in 1..Len(f) : f[e] = End
    BY <2>2 DEF Contains
  <2>4. /\ e > 2 /\ f[e - 2] = Begin /\ f[e - 1][1] = "managed"
        /\ Find(f, Begin) = e - 2 /\ Find(f, End) = e
    BY <2>3, SectionPlaces
  <2> DEFINE b == e - 2
             p == SubSeq(f, 1, b - 1)
             m == SubSeq(f, b, e)
             q == SubSeq(f, e + 1, Len(f))
  <2>5. b \in 1..(Len(f) + 1) /\ e \in (b - 1)..Len(f) /\ e - b + 1 = 3
        /\ b - 1 + 1 = b /\ b - 1 + 2 = e - 1 /\ b - 1 + 3 = e
    BY <1>1, <2>4
  <2>b. Find(f, Begin) = b /\ f[b] = Begin
    BY <2>4
  <2> HIDE DEF b
  <2>6. /\ f = p \o m \o q
        /\ p \in Seq(Lines)
        /\ m \in Seq(Lines) /\ Len(m) = e - b + 1 /\ \A i \in 1..(e - b + 1) : m[i] = f[b - 1 + i]
        /\ q \in Seq(Lines)
    BY <2>5, ThreeParts, ZenonT(60)
  <2>7. Before(f) = p /\ After(f) = <<Blank>> \o q
    BY <2>4, <2>b DEF Before, After
  <2> HIDE DEF p, q, m
  <2>8. UserText(m) = <<>>
    <3>1. m[1] = Begin /\ m[2][1] = "managed" /\ m[3] = End
      <4>1. m[1] = f[b - 1 + 1] /\ m[2] = f[b - 1 + 2] /\ m[3] = f[b - 1 + 3]
        <5>1. \A i \in 1..3 : m[i] = f[b - 1 + i]
          BY <2>5, <2>6
        <5>2. QED
          BY <5>1
      <4>2. QED
        BY <2>3, <2>4, <2>5, <2>b, <4>1
    <3>2. \A i \in 1..Len(m) : m[i][1] # "user"
      BY <2>5, <2>6, <3>1, LineKinds
    <3>3. QED
      BY <2>6, <3>2, UserTextNone
  <2>9. UserText(f) = UserText(p) \o UserText(q)
    <3>1. p \o m \in Seq(Lines) /\ UserText(p \o m) = UserText(p)
      BY <2>6, <2>8, ConcatType, UserTextBeside
    <3>2. UserText((p \o m) \o q) = UserText(p \o m) \o UserText(q)
      BY <2>6, <3>1, UserTextConcat
    <3>3. QED
      BY <2>6, <3>1, <3>2
  <2>10. UserText(NewContent(f, w)) = UserText(p) \o UserText(q)
    <3>1. p \o Section(w) \in Seq(Lines) /\ UserText(p \o Section(w)) = UserText(p)
      BY <1>2, <2>6, ConcatType, UserTextBeside
    <3>2. <<Blank>> \o q \in Seq(Lines) /\ UserText(<<Blank>> \o q) = UserText(q)
      BY <1>2, <2>6, ConcatType, UserTextBeside
    <3>3. UserText((p \o Section(w)) \o (<<Blank>> \o q))
          = UserText(p \o Section(w)) \o UserText(<<Blank>> \o q)
      BY <3>1, <3>2, UserTextConcat
    <3>4. NewContent(f, w) = (p \o Section(w)) \o (<<Blank>> \o q)
      BY <1>4, <2>7 DEF NewContent
    <3>5. QED
      BY <3>1, <3>2, <3>3, <3>4
  <2>11. QED
    BY <2>9, <2>10
<1>5. QED
  BY <1>3, <1>4

-----------------------------------------------------------------------------
(* Every step keeps the invariant.                                          *)

LEMMA TypeStep ==
    ASSUME TypeOK, [Next]_vars
    PROVE  TypeOK'
<1> USE DEF TypeOK
<1>u. Users = {User(u) : u \in UserLines}
  BY DEF Users
<1>1. ASSUME NEW w \in Starts, Read(w) PROVE TypeOK'
  <2>1. (IF Readable THEN file ELSE <<>>) \in Seq(Lines)
    OBVIOUS
  <2>2. mishaps' \subseteq Mishaps
    BY <1>1 DEF Read, Mishaps
  <2>3. pc' \in [Starts -> Places] /\ existing' \in [Starts -> Seq(Lines)]
    BY <1>1, <2>1 DEF Read, Goto, Places
  <2>4. QED
    BY <1>1, <2>2, <2>3 DEF Read
<1>2. ASSUME NEW w \in Starts, Truncate(w) PROVE TypeOK'
  <2>1. pc' \in [Starts -> Places]
    BY <1>2 DEF Truncate, Goto, Places
  <2>2. QED
    BY <1>2, <2>1 DEF Truncate
<1>3. ASSUME NEW w \in Starts, Write(w) PROVE TypeOK'
  <2>1. existing[w] \in Seq(Lines)
    OBVIOUS
  <2>2. file' \in Seq(Lines)
    BY <1>3, <2>1, NewContentType, OverwriteType DEF Write
  <2>3. pc' \in [Starts -> Places] /\ existing' \in [Starts -> Seq(Lines)]
    BY <1>3 DEF Write, Goto, Places
  <2>4. QED
    BY <1>3, <2>2, <2>3 DEF Write
<1>4. ASSUME NEW w \in Starts, Interrupted(w) PROVE TypeOK'
  <2>1. existing[w] \in Seq(Lines)
    OBVIOUS
  <2>2. file' \in Seq(Lines)
    <3>1. CASE pc[w] = "compose"
      BY <1>4, <3>1 DEF Interrupted
    <3>2. CASE pc[w] = "write"
      <4> DEFINE text == NewContent(existing[w], w)
      <4>1. text \in Seq(Lines)
        BY <2>1, NewContentType
      <4>2. PICK n \in 0..(Len(text) - 1) : file' = Overwrite(SubSeq(text, 1, n))
        BY <1>4, <3>2 DEF Interrupted
      <4> HIDE DEF text
      <4>3. SubSeq(text, 1, n) \in Seq(Lines)
        BY <4>1
      <4>4. QED
        BY <4>2, <4>3, OverwriteType
    <3>3. QED
      BY <1>4, <3>1, <3>2 DEF Interrupted
  <2>3. pc' \in [Starts -> Places] /\ existing' \in [Starts -> Seq(Lines)]
    BY <1>4 DEF Interrupted, Places
  <2>4. mishaps' \subseteq Mishaps
    BY <1>4 DEF Interrupted, Mishaps
  <2>5. QED
    BY <1>4, <2>2, <2>3, <2>4 DEF Interrupted
<1>5. ASSUME NEW w \in Starts, Boot(w) PROVE TypeOK'
  <2>1. pc' \in [Starts -> Places]
    BY <1>5 DEF Boot, Goto, Places
  <2>2. QED
    BY <1>5, <2>1 DEF Boot
<1>6. ASSUME NEW text \in Seq(Lines), Save(text) PROVE TypeOK'
  <2>1. mine' \in Seq({User(u) : u \in UserLines})
    BY <1>6, <1>u, UserTextType DEF Save
  <2>2. edits' \in 0..MaxEdits
    BY <1>6, ConfAssumption DEF Save
  <2>3. mishaps' \subseteq Mishaps
    BY <1>6 DEF Save, Mishaps
  <2>4. QED
    BY <1>6, <2>1, <2>2, <2>3 DEF Save
<1>7. ASSUME AddLine PROVE TypeOK'
  <2>1. PICK u \in UserLines, k \in 0..Len(file) : Save(InsertAt(file, k + 1, User(u)))
    BY <1>7 DEF AddLine
  <2> DEFINE m == k + 1
  <2>2. m \in 1..(Len(file) + 1) /\ User(u) \in Lines
    BY DEF Lines
  <2> HIDE DEF m
  <2>3. InsertAt(file, m, User(u)) \in Seq(Lines)
    BY <2>2, InsertFacts
  <2>4. QED
    BY <1>6, <2>1, <2>3 DEF m
<1>8. ASSUME RemoveLine PROVE TypeOK'
  <2>1. PICK k \in 1..Len(file) : Save(RemoveAt(file, k))
    BY <1>8 DEF RemoveLine
  <2>2. RemoveAt(file, k) \in Seq(Lines)
    BY RemoveFacts
  <2>3. QED
    BY <1>6, <2>1, <2>2
<1>9. CASE UNCHANGED vars
  BY <1>9 DEF vars
<1>10. QED
  BY <1>1, <1>2, <1>3, <1>4, <1>5, <1>7, <1>8, <1>9 DEF Next

\* The user never writes into the section, and so leaves a sound text sound, and
\* its marks where they are.
LEMMA EditSound ==
    ASSUME TypeOK, Sound(file), AddLine \/ RemoveLine
    PROVE  /\ file' \in Seq(Lines) /\ Sound(file')
           /\ Closed(file) => Closed(file')
           /\ Save(file')
<1> USE DEF TypeOK
<1>0. Begin[1] # "user" /\ End[1] # "user" /\ Len(file) \in Nat
  BY LineKinds
<1>1. ASSUME AddLine
      PROVE  /\ file' \in Seq(Lines) /\ Sound(file') /\ Save(file')
             /\ Contains(file', Begin) => Contains(file, Begin)
             /\ Contains(file, End) => Contains(file', End)
  <2>1. PICK u \in UserLines, k \in 0..Len(file) :
            ~InSection(k) /\ Save(InsertAt(file, k + 1, User(u)))
    BY <1>1 DEF AddLine
  <2>2. file' = InsertAt(file, k + 1, User(u))
    BY <2>1 DEF Save
  <2>3. file' \in Seq(Lines) /\ Sound(file')
    BY <2>1, <2>2, InsertSound DEF InSection
  <2> DEFINE m == k + 1
  <2>4. m \in 1..(Len(file) + 1) /\ User(u) \in Lines /\ User(u)[1] = "user"
    BY LineKinds DEF Lines
  <2>5. file' = InsertAt(file, m, User(u))
    BY <2>2
  <2> HIDE DEF m
  <2>6. /\ Len(file') = Len(file) + 1 /\ file'[m] = User(u)
        /\ \A i \in 1..(m - 1) : file'[i] = file[i]
        /\ \A i \in m..Len(file) : file'[i + 1] = file[i]
    BY <2>4, <2>5, InsertFacts
  <2>7. ASSUME NEW i \in 1..Len(file'), file'[i] = Begin
        PROVE  \E j \in 1..Len(file) : file[j] = Begin
    <3>1. i # m
      BY <1>0, <2>4, <2>6, <2>7
    <3>2. CASE i < m
      <4>1. i \in 1..(m - 1) /\ i \in 1..Len(file)
        BY <2>4, <3>2
      <4>2. QED
        BY <2>6, <2>7, <4>1
    <3>3. CASE i > m
      <4>1. i - 1 \in m..Len(file) /\ (i - 1) + 1 = i /\ i - 1 \in 1..Len(file)
        BY <1>0, <2>4, <2>6, <3>3
      <4>2. file'[(i - 1) + 1] = file[i - 1]
        BY <2>6, <4>1
      <4>3. QED
        BY <2>7, <4>1, <4>2
    <3>4. QED
      BY <2>4, <3>1, <3>2, <3>3
  <2>8. ASSUME NEW i \in 1..Len(file), file[i] = End
        PROVE  \E j \in 1..Len(file') : file'[j] = End
    <3>1. CASE i < m
      <4>1. i \in 1..(m - 1) /\ i \in 1..Len(file')
        BY <1>0, <2>4, <2>6, <3>1
      <4>2. QED
        BY <2>6, <2>8, <4>1
    <3>2. CASE i >= m
      <4>1. i \in m..Len(file) /\ i + 1 \in 1..Len(file')
        BY <1>0, <2>4, <2>6, <3>2
      <4>2. QED
        BY <2>6, <2>8, <4>1
    <3>3. QED
      BY <2>4, <3>1, <3>2
  <2>9. QED
    BY <2>1, <2>2, <2>3, <2>7, <2>8 DEF Contains
<1>2. ASSUME RemoveLine
      PROVE  /\ file' \in Seq(Lines) /\ Sound(file') /\ Save(file')
             /\ Contains(file', Begin) => Contains(file, Begin)
             /\ Contains(file, End) => Contains(file', End)
  <2>1. PICK k \in 1..Len(file) : file[k][1] = "user" /\ Save(RemoveAt(file, k))
    BY <1>2 DEF RemoveLine
  <2>2. file' = RemoveAt(file, k)
    BY <2>1 DEF Save
  <2>3. file' \in Seq(Lines) /\ Sound(file')
    BY <2>1, <2>2, RemoveSound
  <2>4. /\ Len(file') = Len(file) - 1
        /\ \A i \in 1..(k - 1) : file'[i] = file[i]
        /\ \A i \in (k + 1)..Len(file) : file'[i - 1] = file[i]
    BY <2>2, RemoveFacts
  <2>5. ASSUME NEW i \in 1..Len(file'), file'[i] = Begin
        PROVE  \E j \in 1..Len(file) : file[j] = Begin
    <3>1. CASE i < k
      <4>1. i \in 1..(k - 1) /\ i \in 1..Len(file)
        BY <3>1
      <4>2. QED
        BY <2>4, <2>5, <4>1
    <3>2. CASE i >= k
      <4>1. i + 1 \in (k + 1)..Len(file) /\ (i + 1) - 1 = i /\ i + 1 \in 1..Len(file)
        BY <1>0, <2>4, <3>2
      <4>2. file'[(i + 1) - 1] = file[i + 1]
        BY <2>4, <4>1
      <4>3. QED
        BY <2>5, <4>1, <4>2
    <3>3. QED
      BY <1>0, <2>4, <3>1, <3>2
  <2>6. ASSUME NEW i \in 1..Len(file), file[i] = End
        PROVE  \E j \in 1..Len(file') : file'[j] = End
    <3>1. i # k
      BY <1>0, <2>1, <2>6
    <3>2. CASE i < k
      <4>1. i \in 1..(k - 1) /\ i \in 1..Len(file')
        BY <1>0, <2>4, <3>2
      <4>2. QED
        BY <2>4, <2>6, <4>1
    <3>3. CASE i > k
      <4>1. i \in (k + 1)..Len(file) /\ i - 1 \in 1..Len(file')
        BY <1>0, <2>4, <3>3
      <4>2. QED
        BY <2>4, <2>6, <4>1
    <3>4. QED
      BY <3>1, <3>2, <3>3
  <2>7. QED
    BY <2>1, <2>2, <2>3, <2>5, <2>6 DEF Contains
<1>3. QED
  BY <1>1, <1>2 DEF Closed

LEMMA EmptySound == <<>> \in Seq(Lines) /\ Sound(<<>>) /\ Closed(<<>>)
  BY DEF Sound, Closed, Contains

\* What has happened to the file stays known; two at it at once always are.
LEMMA MishapsStay ==
    ASSUME TypeOK, [Next]_vars, "overlap" \notin mishaps'
    PROVE  /\ "overlap" \notin mishaps
           /\ \A w \in Starts : Read(w) => Active = {}
           /\ AddLine \/ RemoveLine => Active = {}
  BY DEF Next, vars, Read, Truncate, Write, Interrupted, Boot, AddLine, RemoveLine, Save

LEMMA OrderlyStep ==
    ASSUME TypeOK, Orderly, [Next]_vars
    PROVE  Orderly'
<1> SUFFICES ASSUME "overlap" \notin mishaps'
             PROVE  /\ \A v, u \in Active' : v = u
                    /\ Sound(file')
                    /\ \A v \in Starts : pc'[v] \in {"compose", "write"} => Sound(existing'[v])
                    /\ \A v \in Starts : pc'[v] = "write" => file' = <<>>
                    /\ \A v \in Starts : pc'[v] = "spawn" => HasSection(file', v)
  BY DEF Orderly
<1>0. "overlap" \notin mishaps
  BY MishapsStay
<1>o. /\ \A v, u \in Active : v = u
      /\ Sound(file)
      /\ \A v \in Starts : pc[v] \in {"compose", "write"} => Sound(existing[v])
      /\ \A v \in Starts : pc[v] = "write" => file = <<>>
      /\ \A v \in Starts : pc[v] = "spawn" => HasSection(file, v)
  BY <1>0 DEF Orderly
<1>t. /\ pc \in [Starts -> Places] /\ existing \in [Starts -> Seq(Lines)]
      /\ file \in Seq(Lines)
  BY DEF TypeOK
<1>1. ASSUME NEW w \in Starts, Read(w) PROVE Orderly'
  <2>1. Active = {}
    BY <1>1, MishapsStay
  <2>2. \A v \in Starts : pc[v] \notin {"compose", "write", "spawn"}
    BY <2>1 DEF Active
  <2>3. \A v \in Starts : pc'[v] = IF v = w THEN "compose" ELSE pc[v]
    BY <1>1, <1>t DEF Read, Goto
  <2>4. Active' = {w}
    BY <2>2, <2>3 DEF Active
  <2>5. Sound(existing'[w])
    BY <1>1, <1>o, <1>t, EmptySound DEF Read
  <2>6. file' = file
    BY <1>1 DEF Read
  <2>7. QED
    BY <1>o, <2>2, <2>3, <2>4, <2>5, <2>6 DEF Orderly
<1>2. ASSUME NEW w \in Starts, Truncate(w) PROVE Orderly'
  <2>1. /\ pc[w] = "compose" /\ existing' = existing /\ file' = <<>>
        /\ \A v \in Starts : pc'[v] = IF v = w THEN "write" ELSE pc[v]
    BY <1>2, <1>t DEF Truncate, Goto
  <2>2. Active' = Active /\ w \in Active
    BY <2>1 DEF Active
  <2>3. \A v \in Starts : pc[v] = "spawn" => v = w
    BY <1>o, <2>2 DEF Active
  <2>4. QED
    BY <1>o, <2>1, <2>2, <2>3, EmptySound DEF Orderly
<1>3. ASSUME NEW w \in Starts, Write(w) PROVE Orderly'
  <2>1. /\ pc[w] = "write" /\ file' = Overwrite(NewContent(existing[w], w))
        /\ \A v \in Starts : pc'[v] = IF v = w THEN "spawn" ELSE pc[v]
    BY <1>3, <1>t DEF Write, Goto
  <2>2. Active' = Active /\ w \in Active
    BY <2>1 DEF Active
  <2>3. \A v \in Starts : pc[v] \in {"compose", "write", "spawn"} => v = w
    BY <1>o, <2>2 DEF Active
  <2>4. existing[w] \in Seq(Lines) /\ Sound(existing[w]) /\ file = <<>>
    BY <1>o, <1>t, <2>1
  <2>5. /\ NewContent(existing[w], w) \in Seq(Lines) /\ Sound(NewContent(existing[w], w))
        /\ HasSection(NewContent(existing[w], w), w)
    BY <2>4, NewContentSound
  <2>6. file' = NewContent(existing[w], w)
    BY <1>t, <2>1, <2>4, <2>5, OverwriteType
  <2>7. QED
    BY <1>o, <2>1, <2>2, <2>3, <2>5, <2>6 DEF Orderly
<1>4. ASSUME NEW w \in Starts, Interrupted(w) PROVE Orderly'
  <2>1. /\ pc[w] \in {"compose", "write"}
        /\ \A v \in Starts : pc'[v] = IF v = w THEN "failed" ELSE pc[v]
        /\ \A v \in Starts : v # w => existing'[v] = existing[v]
    BY <1>4, <1>t DEF Interrupted
  <2>2. Active' \subseteq Active /\ w \in Active
    BY <2>1 DEF Active
  <2>3. \A v \in Starts : pc'[v] \notin {"compose", "write", "spawn"}
    BY <1>o, <2>1, <2>2 DEF Active
  <2>4. Sound(file')
    <3>1. CASE pc[w] = "compose"
      BY <1>4, <1>o, <3>1 DEF Interrupted
    <3>2. CASE pc[w] = "write"
      <4>1. existing[w] \in Seq(Lines) /\ Sound(existing[w]) /\ file = <<>>
        BY <1>o, <1>t, <3>2
      <4> DEFINE text == NewContent(existing[w], w)
      <4>2. text \in Seq(Lines) /\ Sound(text)
        BY <4>1, NewContentSound
      <4>3. PICK n \in 0..(Len(text) - 1) : file' = Overwrite(SubSeq(text, 1, n))
        BY <1>4, <3>2 DEF Interrupted
      <4> HIDE DEF text
      <4>4. n \in 0..Len(text)
        BY <4>2
      <4>5. SubSeq(text, 1, n) \in Seq(Lines) /\ Sound(SubSeq(text, 1, n))
        BY <4>2, <4>4, CutSound
      <4>6. file' = SubSeq(text, 1, n)
        BY <1>t, <4>1, <4>3, <4>5, OverwriteType
      <4>7. QED
        BY <4>5, <4>6
    <3>3. QED
      BY <2>1, <3>1, <3>2
  <2>5. QED
    BY <1>o, <2>2, <2>3, <2>4 DEF Orderly
<1>5. ASSUME NEW w \in Starts, Boot(w) PROVE Orderly'
  <2>1. /\ existing' = existing /\ file' = file
        /\ \A v \in Starts : pc'[v] = IF v = w THEN "up" ELSE pc[v]
    BY <1>5, <1>t DEF Boot, Goto
  <2>2. Active' \subseteq Active
    BY <2>1 DEF Active
  <2>3. QED
    BY <1>o, <2>1, <2>2 DEF Orderly
<1>6. ASSUME AddLine \/ RemoveLine PROVE Orderly'
  <2>1. Active = {}
    BY <1>6, MishapsStay
  <2>2. Sound(file') /\ Save(file')
    BY <1>6, <1>o, EditSound
  <2>3. pc' = pc
    BY <2>2 DEF Save
  <2>4. \A v \in Starts : pc[v] \notin {"compose", "write", "spawn"}
    BY <2>1 DEF Active
  <2>5. Active' = {}
    BY <2>3, <2>4 DEF Active
  <2>6. QED
    BY <2>2, <2>3, <2>4, <2>5 DEF Orderly
<1>7. ASSUME UNCHANGED vars PROVE Orderly'
  <2>1. pc' = pc /\ existing' = existing /\ file' = file /\ Active' = Active
    BY <1>7 DEF vars, Active
  <2>2. QED
    BY <1>o, <2>1 DEF Orderly
<1>8. Orderly'
  BY <1>1, <1>2, <1>3, <1>4, <1>5, <1>6, <1>7 DEF Next
<1>9. QED
  BY <1>8 DEF Orderly

\* Without a mishap the file has every line the user saved; a start that has read
\* it has them too, while the file is empty.
LEMMA KeptStep ==
    ASSUME TypeOK, Orderly, Kept, [Next]_vars
    PROVE  Kept'
<1> SUFFICES ASSUME mishaps' = {} PROVE Kept'
  BY DEF Kept
<1>0. mishaps = {} /\ \A w \in Starts : Read(w) => Readable
  BY DEF Next, vars, Read, Truncate, Write, Interrupted, Boot, AddLine, RemoveLine, Save
<1>a. "overlap" \notin mishaps'
  OBVIOUS
<1>k. /\ Closed(file)
      /\ (\A v \in Starts : pc[v] # "write") => UserText(file) = mine
      /\ \A v \in Starts : pc[v] \in {"compose", "write"} =>
            Closed(existing[v]) /\ UserText(existing[v]) = mine
  BY <1>0 DEF Kept
<1>o. /\ Sound(file)
      /\ \A v \in Starts : pc[v] \in {"compose", "write"} => Sound(existing[v])
      /\ \A v \in Starts : pc[v] = "write" => file = <<>>
  BY <1>0 DEF Orderly
<1>t. /\ pc \in [Starts -> Places] /\ existing \in [Starts -> Seq(Lines)]
      /\ file \in Seq(Lines)
  BY DEF TypeOK
<1>1. ASSUME NEW w \in Starts, Read(w) PROVE Kept'
  <2>1. Active = {}
    BY <1>1, <1>a, MishapsStay
  <2>2. \A v \in Starts : pc[v] \notin {"compose", "write", "spawn"}
    BY <2>1 DEF Active
  <2>3. /\ \A v \in Starts : pc'[v] = IF v = w THEN "compose" ELSE pc[v]
        /\ existing'[w] = file /\ file' = file /\ mine' = mine
    BY <1>0, <1>1, <1>t DEF Read, Goto
  <2>4. UserText(file) = mine
    BY <1>k, <2>2
  <2>5. QED
    BY <1>k, <2>2, <2>3, <2>4 DEF Kept
<1>2. ASSUME NEW w \in Starts, Truncate(w) PROVE Kept'
  <2>1. /\ pc[w] = "compose" /\ existing' = existing /\ file' = <<>> /\ mine' = mine
        /\ \A v \in Starts : pc'[v] = IF v = w THEN "write" ELSE pc[v]
    BY <1>2, <1>t DEF Truncate, Goto
  <2>2. QED
    BY <1>k, <2>1, EmptySound DEF Kept
<1>3. ASSUME NEW w \in Starts, Write(w) PROVE Kept'
  <2>1. /\ pc[w] = "write" /\ file' = Overwrite(NewContent(existing[w], w)) /\ mine' = mine
        /\ \A v \in Starts : pc'[v] = IF v = w THEN "spawn" ELSE pc[v]
        /\ \A v \in Starts : v # w => existing'[v] = existing[v]
    BY <1>3, <1>t DEF Write, Goto
  <2>2. /\ existing[w] \in Seq(Lines) /\ Sound(existing[w]) /\ Closed(existing[w])
        /\ UserText(existing[w]) = mine /\ file = <<>>
    BY <1>k, <1>o, <1>t, <2>1
  <2>3. /\ NewContent(existing[w], w) \in Seq(Lines)
        /\ HasSection(NewContent(existing[w], w), w)
        /\ UserText(NewContent(existing[w], w)) = mine
    BY <2>2, NewContentSound, NewContentKeeps
  <2>4. file' = NewContent(existing[w], w)
    BY <1>t, <2>1, <2>2, <2>3, OverwriteType
  <2>5. Closed(file') /\ UserText(file') = mine'
    BY <2>1, <2>3, <2>4, HasEnd
  <2>6. \A v \in Starts : pc'[v] \in {"compose", "write"} => v # w /\ pc[v] = pc'[v]
    BY <2>1
  <2>7. QED
    BY <1>k, <2>1, <2>5, <2>6 DEF Kept
<1>4. ASSUME NEW w \in Starts, Interrupted(w) PROVE Kept'
  <2>1. /\ pc[w] = "compose" /\ file' = file /\ mine' = mine
        /\ \A v \in Starts : pc'[v] = IF v = w THEN "failed" ELSE pc[v]
        /\ \A v \in Starts : v # w => existing'[v] = existing[v]
    BY <1>4, <1>t DEF Interrupted
  <2>2. (\A v \in Starts : pc'[v] # "write") => \A v \in Starts : pc[v] # "write"
    BY <2>1
  <2>3. QED
    BY <1>k, <2>1, <2>2 DEF Kept
<1>5. ASSUME NEW w \in Starts, Boot(w) PROVE Kept'
  <2>1. /\ pc[w] = "spawn" /\ existing' = existing /\ file' = file /\ mine' = mine
        /\ \A v \in Starts : pc'[v] = IF v = w THEN "up" ELSE pc[v]
    BY <1>5, <1>t DEF Boot, Goto
  <2>2. (\A v \in Starts : pc'[v] # "write") => \A v \in Starts : pc[v] # "write"
    BY <2>1
  <2>3. QED
    BY <1>k, <2>1, <2>2 DEF Kept
<1>6. ASSUME AddLine \/ RemoveLine PROVE Kept'
  <2>1. Active = {}
    BY <1>6, <1>a, MishapsStay
  <2>2. Closed(file') /\ Save(file')
    BY <1>6, <1>k, <1>o, EditSound
  <2>3. pc' = pc /\ mine' = UserText(file')
    BY <2>2 DEF Save
  <2>4. \A v \in Starts : pc[v] \notin {"compose", "write", "spawn"}
    BY <2>1 DEF Active
  <2>5. QED
    BY <2>2, <2>3, <2>4 DEF Kept
<1>7. ASSUME UNCHANGED vars PROVE Kept'
  <2>1. pc' = pc /\ existing' = existing /\ file' = file /\ mine' = mine
    BY <1>7 DEF vars
  <2>2. QED
    BY <1>k, <2>1 DEF Kept
<1>8. QED
  BY <1>1, <1>2, <1>3, <1>4, <1>5, <1>6, <1>7 DEF Next

LEMMA Start == Init => IInv
<1> SUFFICES ASSUME Init PROVE IInv
  OBVIOUS
<1>1. TypeOK
  BY EmptySound, ConfAssumption DEF Init, TypeOK, Places
<1>2. UserText(<<>>) = <<>>
  <2>1. UserParts(<<>>) = <<>>
    BY DEF UserParts
  <2>2. QED
    BY <2>1, UserTextIsFlat, FlattenEmpty
<1>3. Active = {}
  BY DEF Init, Active
<1>4. Orderly
  BY <1>3, EmptySound DEF Init, Orderly
<1>5. Kept
  BY <1>2, EmptySound DEF Init, Kept
<1>6. QED
  BY <1>1, <1>4, <1>5 DEF IInv

\* IInv holds in every reachable state.
LEMMA Invariance == Spec => []IInv
<1>1. IInv /\ [Next]_vars => IInv'
  BY TypeStep, OrderlyStep, KeptStep DEF IInv
<1>2. QED
  BY Start, <1>1, PTL DEF Spec

-----------------------------------------------------------------------------
(* Theorems.                                                                *)

\* Every variable has its type in every reachable state.
THEOREM TypeCorrect == Spec => []TypeOK
<1>1. IInv => TypeOK
  BY DEF IInv
<1>2. QED
  BY Invariance, <1>1, PTL

\* As long as starts do not overlap, the file has at most one begin mark and one
\* end mark, one line of settings apart: no start adds a second section, wherever
\* earlier ones were cut off and whatever the user wrote (engine.rs:117-133).
THEOREM OneSectionHolds == Spec => []OneSection
<1>1. IInv => OneSection
  <2> SUFFICES ASSUME IInv, "overlap" \notin mishaps
               PROVE  /\ Cardinality(Occurs(file, Begin)) <= 1
                      /\ Cardinality(Occurs(file, End)) <= 1
                      /\ \A b \in Occurs(file, Begin), e \in Occurs(file, End) : e = b + 2
    BY DEF OneSection
  <2>1. file \in Seq(Lines) /\ Sound(file)
    BY DEF IInv, TypeOK, Orderly
  <2>2. ASSUME NEW b \in Occurs(file, Begin), NEW e \in Occurs(file, End) PROVE e = b + 2
    <3>1. b \in 1..Len(file) /\ e \in 1..Len(file) /\ file[b] = Begin /\ file[e] = End
      BY <2>1 DEF Occurs
    <3>2. e > 2 /\ file[e - 2] = Begin
      BY <2>1, <3>1, SectionPlaces
    <3>3. e - 2 \in DOMAIN file /\ b \in DOMAIN file
      BY <2>1, <3>1, <3>2
    <3>4. e - 2 = b
      BY <2>1, <3>1, <3>2, <3>3 DEF Sound
    <3>5. QED
      BY <3>1, <3>4
  <2>3. \A b, c \in Occurs(file, Begin) : b = c
    BY <2>1 DEF Sound, Occurs
  <2>4. \A e, d \in Occurs(file, End) : e = d
    <3> SUFFICES ASSUME NEW e \in Occurs(file, End), NEW d \in Occurs(file, End) PROVE e = d
      OBVIOUS
    <3>1. e \in 1..Len(file) /\ d \in 1..Len(file) /\ file[e] = End /\ file[d] = End
      BY <2>1 DEF Occurs
    <3>2. Find(file, End) = e /\ Find(file, End) = d
      BY <2>1, <3>1, SectionPlaces
    <3>3. QED
      BY <3>2
  <2>5. ASSUME NEW T, \A x, y \in T : x = y PROVE Cardinality(T) <= 1
    <3>1. CASE T = {}
      BY <3>1, FS_EmptySet
    <3>2. CASE T # {}
      <4>1. PICK x \in T : TRUE
        BY <3>2
      <4>2. T = {x}
        BY <2>5
      <4>3. Cardinality({x}) = 1
        BY FS_Singleton
      <4>4. QED
        BY <4>2, <4>3
    <3>3. QED
      BY <3>1, <3>2
  <2>6. QED
    BY <2>2, <2>3, <2>4, <2>5
<1>2. QED
  BY Invariance, <1>1, PTL

\* The user's lines are in the file, all of them and in their order, whenever no
\* start is between truncating and writing it and nothing has happened to it
\* (engine.rs:115, 135).
THEOREM UserTextKeptHolds == Spec => []UserTextKept
<1>1. IInv => UserTextKept
  BY DEF IInv, Kept, UserTextKept
<1>2. QED
  BY Invariance, <1>1, PTL

\* A server comes up on the port its start polls, unless the user set another one
\* behind the section or starts have met (engine.rs:94, 117-136, 174-190).
THEOREM OwnPortCountsHolds == Spec => OwnPortCounts
<1>1. ASSUME IInv, NEW w \in Starts, pc[w] = "spawn", "overlap" \notin mishaps
      PROVE  EffectivePort(file) = Port[w] \/ PinnedBehind
  <2>1. file \in Seq(Lines) /\ Sound(file) /\ HasSection(file, w)
    BY <1>1 DEF IInv, TypeOK, Orderly
  <2>2. PICK b \in 1..Len(file) :
            /\ b + 2 \in 1..Len(file)
            /\ file[b] = Begin /\ file[b + 1] = Managed(w) /\ file[b + 2] = End
    BY <2>1 DEF HasSection
  <2>3. \A e \in Occurs(file, End) : e = b + 2
    <3> SUFFICES ASSUME NEW e \in Occurs(file, End) PROVE e = b + 2
      OBVIOUS
    <3>1. e \in 1..Len(file) /\ file[e] = End
      BY <2>1 DEF Occurs
    <3>2. Find(file, End) = e /\ Find(file, End) = b + 2
      BY <2>1, <2>2, <3>1, SectionPlaces
    <3>3. QED
      BY <3>2
  <2> SUFFICES ASSUME ~PinnedBehind PROVE EffectivePort(file) = Port[w]
    OBVIOUS
  <2>4. ASSUME NEW j \in DOMAIN file, j > b + 1 PROVE Sets(file[j]) = 0
    <3>1. CASE j = b + 2
      BY <2>2, <3>1, LineKinds DEF Sets
    <3>2. CASE j > b + 2
      <4>1. file[j][1] # "managed"
        <5>1. b + 2 \in DOMAIN file
          BY <2>1, <2>2
        <5>2. file[j][1] = "managed" => j = (b + 2) - 1
          BY <2>1, <2>2, <5>1 DEF Sound
        <5>3. QED
          BY <3>2, <5>2
      <4>2. file[j] \notin {User(u) : u \in Pinned}
        <5>1. \A e \in Occurs(file, End) : e < j
          BY <2>3, <3>2
        <5>2. QED
          BY <5>1 DEF PinnedBehind
      <4>3. QED
        BY <4>1, <4>2 DEF Sets
    <3>3. QED
      BY <2>1, <2>4, <3>1, <3>2
  <2>5. b + 1 \in DOMAIN file
    BY <2>1, <2>2
  <2>6. Sets(file[b + 1]) = Port[w] /\ Port[w] # 0
    BY <2>2, LineKinds, ConfAssumption DEF Sets
  <2> DEFINE k == b + 1
  <2>7. k \in DOMAIN file /\ Sets(file[k]) = Port[w] /\ \A j \in DOMAIN file : j > k => Sets(file[j]) = 0
    BY <2>4, <2>5, <2>6
  <2> HIDE DEF k
  <2>8. EffectivePort(file) = Sets(file[k])
    BY <2>1, <2>6, <2>7, LastSets
  <2>9. QED
    BY <2>7, <2>8
<1>2. IInv /\ [Next]_vars =>
          [\A w \in Starts :
              pc[w] = "spawn" /\ pc'[w] = "up" /\ "overlap" \notin mishaps =>
                  EffectivePort(file) = Port[w] \/ PinnedBehind]_vars
  BY <1>1
<1>3. QED
  BY Invariance, <1>2, PTL DEF Spec, OwnPortCounts

=============================================================================
