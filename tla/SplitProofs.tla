---------------------------- MODULE SplitProofs -----------------------------
(***************************************************************************)
(* Theorems about TelegramSplit, for any message, any limit and tags of    *)
(* any length.  The documents, sizes and texts are recursive functions: *)
(* they are used by what a longer message adds to them, and by induction   *)
(* over sets.                                                              *)
(***************************************************************************)
EXTENDS TelegramSplit, SequenceTheorems, WellFoundedInduction, TLAPS

\* A set of natural numbers that is not empty has a least one.
LEMMA Least ==
    ASSUME NEW S \in SUBSET Nat, S # {}
    PROVE  \E m \in S : \A k \in S : m <= k
<1> DEFINE Less == {p \in Nat \X Nat : p[1] < p[2]}
<1>1. IsWellFoundedOn(Less, Nat)
  BY NatLessThanWellFounded DEF OpToRel
<1> HIDE DEF Less
<1>2. PICK m \in S : \A k \in S : <<k, m>> \notin Less
  BY <1>1, WFMin
<1>3. \A k \in S : ~(k < m)
  BY <1>2 DEF Less
<1> QED
  BY <1>3

-----------------------------------------------------------------------------
\* Induction, over sets

\* A set with 0, and with n + 1 for every n in it, holds every natural number.
LEMMA Counting ==
    ASSUME NEW S, 0 \in S, \A n \in Nat : n \in S => n + 1 \in S
    PROVE  \A n \in Nat : n \in S
<1> DEFINE Missing == {n \in Nat : n \notin S}
<1> SUFFICES Missing = {}
  OBVIOUS
<1> SUFFICES ASSUME Missing # {} PROVE FALSE
  OBVIOUS
<1>1. Missing \in SUBSET Nat
  OBVIOUS
<1>2. PICK m \in Missing : \A k \in Missing : m <= k
  <2> HIDE DEF Missing
  <2> QED
    BY <1>1, Least
<1>3. m # 0 /\ m \in Nat /\ m \notin S
  OBVIOUS
<1>4. m - 1 \in Nat /\ ~(m <= m - 1) /\ (m - 1) + 1 = m
  BY <1>3
<1>5. m - 1 \in S
  BY <1>2, <1>4
<1> QED
  BY <1>3, <1>4, <1>5

\* A set with the empty sequence, and with every sequence one longer than one in
\* it, holds every sequence.
LEMMA Appending ==
    ASSUME NEW S, NEW T, <<>> \in T,
           \A s \in Seq(S), x \in S : s \in T => Append(s, x) \in T
    PROVE  \A s \in Seq(S) : s \in T
<1> DEFINE N == {n \in Nat : \A s \in Seq(S) : Len(s) = n => s \in T}
<1>1. 0 \in N
  <2>1. \A s \in Seq(S) : Len(s) = 0 => s = <<>>
    BY EmptySeq
  <2> QED
    BY <2>1
<1>2. ASSUME NEW n \in Nat, n \in N PROVE n + 1 \in N
  <2>1. ASSUME NEW s \in Seq(S), Len(s) = n + 1 PROVE s \in T
    <3>1. s # <<>>
      BY <2>1, EmptySeq
    <3>2. PICK r \in Seq(S), x \in S : s = Append(r, x)
      BY <3>1, SequenceEmptyOrAppend
    <3>3. Len(r) \in Nat /\ Len(s) = Len(r) + 1
      BY <3>2, AppendProperties, LenProperties
    <3>4. Len(r) = n
      BY <2>1, <3>3
    <3> QED
      BY <1>2, <3>2, <3>4
  <2> QED
    BY <2>1
<1> HIDE DEF N
<1>3. \A n \in Nat : n \in N
  BY <1>1, <1>2, Counting
<1> QED
  BY <1>3, LenProperties DEF N

-----------------------------------------------------------------------------
\* Recursive functions on an interval

\* f starts at d and takes the steps F.
Runs(f, n, d, F) == f[0] = d /\ \A k \in 1..n : f[k] = F[k][f[k - 1]]

\* From every start there is a run, whatever its steps.
LEMMA RunExists ==
    ASSUME NEW n \in Nat, NEW D, NEW d \in D, NEW F, \A k \in 1..n : F[k] \in [D -> D]
    PROVE  \E f \in [0..n -> D] : Runs(f, n, d, F)
<1> DEFINE N == {m \in Nat : m <= n => \E f \in [0..m -> D] : Runs(f, m, d, F)}
<1>1. 0 \in N
  <2>1. [k \in 0..0 |-> d] \in [0..0 -> D] /\ Runs([k \in 0..0 |-> d], 0, d, F)
    BY DEF Runs
  <2> QED
    BY <2>1
<1>2. ASSUME NEW m \in Nat, m \in N PROVE m + 1 \in N
  <2> SUFFICES ASSUME m + 1 <= n PROVE \E f \in [0..m + 1 -> D] : Runs(f, m + 1, d, F)
    OBVIOUS
  <2>1. PICK f \in [0..m -> D] : Runs(f, m, d, F)
    BY <1>2
  <2> DEFINE g == [k \in 0..m + 1 |-> IF k = m + 1 THEN F[m + 1][f[m]] ELSE f[k]]
  <2>2. F[m + 1] \in [D -> D] /\ f[m] \in D
    OBVIOUS
  <2>3. g \in [0..m + 1 -> D]
    BY <2>2
  <2>4. ASSUME NEW k \in 1..m + 1 PROVE g[k] = F[k][g[k - 1]]
    <3>1. CASE k = m + 1
      <4>1. g[k] = F[m + 1][f[m]] /\ g[k - 1] = f[m]
        BY <3>1
      <4> QED
        BY <3>1, <4>1
    <3>2. CASE k # m + 1
      <4>1. k \in 1..m /\ g[k] = f[k] /\ g[k - 1] = f[k - 1]
        BY <3>2
      <4> QED
        BY <2>1, <4>1 DEF Runs
    <3> QED
      BY <3>1, <3>2
  <2>5. g[0] = d
    BY <2>1 DEF Runs
  <2> HIDE DEF g
  <2>6. Runs(g, m + 1, d, F)
    BY <2>4, <2>5 DEF Runs
  <2> QED
    BY <2>3, <2>6
<1> HIDE DEF N
<1>3. n \in N
  BY <1>1, <1>2, Counting
<1> QED
  BY <1>3 DEF N

\* Two runs with the same steps agree.
LEMMA RunsAgree ==
    ASSUME NEW n \in Nat, NEW d, NEW F, NEW G, \A k \in 1..n : F[k] = G[k],
           NEW f, Runs(f, n, d, F), NEW g, Runs(g, n, d, G)
    PROVE  \A k \in 0..n : f[k] = g[k]
<1> DEFINE N == {m \in Nat : m <= n => f[m] = g[m]}
<1>1. 0 \in N
  BY DEF Runs
<1>2. ASSUME NEW m \in Nat, m \in N PROVE m + 1 \in N
  <2> SUFFICES ASSUME m + 1 <= n PROVE f[m + 1] = g[m + 1]
    OBVIOUS
  <2>1. m + 1 \in 1..n /\ (m + 1) - 1 = m /\ f[m] = g[m]
    BY <1>2
  <2>2. f[m + 1] = F[m + 1][f[m]] /\ g[m + 1] = G[m + 1][g[m]]
    BY <2>1 DEF Runs
  <2> QED
    BY <2>1, <2>2
<1> HIDE DEF N
<1>3. \A k \in 0..n : k \in N
  BY <1>1, <1>2, Counting
<1> QED
  BY <1>3 DEF N

-----------------------------------------------------------------------------
\* What the documents and the sizes of longer messages are

Docs == [open : Seq(Opens), text : Seq(Seq(Opens)), valid : BOOLEAN]

\* A piece is a tag or a character of one of four kinds, and has a length.
LEMMA Kinds ==
    ASSUME NEW x \in Pieces
    PROVE  /\ x.size \in Nat
           /\ \/ x.is = "open" /\ x \in Opens
              \/ x.is = "close" /\ x.name \in Names /\ x = Close(x.name)
              \/ x.is \in {"char", "part", "space", "newline"} /\ x.size = 1
           /\ IsText(x) <=> x.is \in {"char", "part", "space", "newline"}
           /\ IsText(x) => x.size = 1
<1> USE SplitAssumption
<1>1. CASE x \in Opens
  <2>1. x.is = "open" /\ x.size \in Nat
    BY <1>1 DEF Opens
  <2> QED
    BY <1>1, <2>1 DEF IsText
<1>2. ASSUME NEW n \in Names, x = Close(n)
      PROVE  x.size \in Nat /\ x.is = "close" /\ x.name = n
  BY <1>2 DEF Close
<1>3. CASE x \in {Close(n) : n \in Names}
  BY <1>2, <1>3 DEF IsText
<1>4. CASE x \in {Char, Part, Space, Newline}
  <2>1. /\ Char.is = "char" /\ Char.size = 1
        /\ Part.is = "part" /\ Part.size = 1
        /\ Space.is = "space" /\ Space.size = 1
        /\ Newline.is = "newline" /\ Newline.size = 1
    BY DEF Char, Part, Space, Newline
  <2>2. x.is \in {"char", "part", "space", "newline"} /\ x.size = 1
    BY <1>4, <2>1
  <2> QED
    BY <2>2 DEF IsText
<1> QED
  BY <1>1, <1>3, <1>4 DEF Pieces

\* A newline is white space.
LEMMA NewlineIsWhite == Newline \in Pieces /\ IsText(Newline) /\ IsWhite(Newline)
  BY DEF Pieces, Newline, IsText, IsWhite

\* A document without its last open tag is one.
LEMMA FrontFacts ==
    ASSUME NEW S, NEW s \in Seq(S), s # <<>>
    PROVE  Front(s) \in Seq(S) /\ Last(s) \in S /\ s = Append(Front(s), Last(s))
<1>1. Len(s) \in Nat \ {0} /\ DOMAIN s = 1..Len(s) /\ \A i \in 1..Len(s) : s[i] \in S
  BY EmptySeq, LenProperties, ElementOfSeq
<1>2. Front(s) \in Seq(S)
  BY <1>1, SubSeqProperties DEF Front
<1>3. s = SubSeq(s, 1, Len(s)) /\ 1 \in 1..Len(s) /\ Len(s) \in 1..Len(s)
  BY <1>1, SubSeqFull
<1>4. s = Front(s) \o <<Last(s)>>
  BY <1>3, SubSeqRecursiveSecond DEF Front, Last
<1>5. Last(s) \in S
  BY <1>1 DEF Last
<1> QED
  BY <1>2, <1>4, <1>5, AppendIsConcat

\* A set of positions that is not empty has a last one.
LEMMA Greatest ==
    ASSUME NEW n \in Nat, NEW S \in SUBSET (1..n), S # {}
    PROVE  Max(S) \in S /\ \A k \in S : k <= Max(S)
<1> DEFINE T == {n - k : k \in S}
<1>1. T \in SUBSET Nat /\ T # {}
  OBVIOUS
<1> HIDE DEF T
<1>2. PICK m \in T : \A k \in T : m <= k
  BY <1>1, Least
<1>3. PICK i \in S : m = n - i
  BY DEF T
<1>4. \A k \in S : i >= k
  <2>1. ASSUME NEW k \in S PROVE i >= k
    <3>1. n - k \in T
      BY DEF T
    <3>2. n - i <= n - k
      BY <1>2, <1>3, <3>1
    <3> QED
      BY <3>2
  <2> QED
    BY <2>1
<1>5. Max(S) \in S /\ \A k \in S : Max(S) >= k
  BY <1>4 DEF Max
<1> QED
  BY <1>5

\* A sequence in two parts.
LEMMA TwoParts ==
    ASSUME NEW S, NEW s \in Seq(S), NEW n \in 0..Len(s)
    PROVE  /\ SubSeq(s, 1, n) \in Seq(S) /\ Len(SubSeq(s, 1, n)) = n
           /\ \A k \in 1..n : SubSeq(s, 1, n)[k] = s[k]
           /\ SubSeq(s, n + 1, Len(s)) \in Seq(S) /\ Len(SubSeq(s, n + 1, Len(s))) = Len(s) - n
           /\ \A k \in 1..Len(s) - n : SubSeq(s, n + 1, Len(s))[k] = s[n + k]
           /\ s = SubSeq(s, 1, n) \o SubSeq(s, n + 1, Len(s))
<1>1. Len(s) \in Nat /\ \A k \in 1..Len(s) : s[k] \in S
  BY LenProperties, ElementOfSeq
<1>2. /\ SubSeq(s, 1, n) \in Seq(S) /\ Len(SubSeq(s, 1, n)) = n
      /\ \A k \in 1..n : SubSeq(s, 1, n)[k] = s[k]
  BY <1>1, SubSeqProperties
<1>3. /\ SubSeq(s, n + 1, Len(s)) \in Seq(S) /\ Len(SubSeq(s, n + 1, Len(s))) = Len(s) - n
      /\ \A k \in 1..Len(s) - n : SubSeq(s, n + 1, Len(s))[k] = s[n + k]
  BY <1>1, SubSeqProperties
<1>4. SubSeq(s, 1, n) \o SubSeq(s, n + 1, Len(s)) = SubSeq(s, 1, Len(s))
  <2>1. 1 \in 1..Len(s) + 1 /\ n \in 1 - 1..Len(s) /\ Len(s) \in n..Len(s)
    BY <1>1
  <2> QED
    BY <2>1, ConcatAdjacentSubSeq
<1> QED
  BY <1>2, <1>3, <1>4, SubSeqFull

\* What is left when a tag is closed: the rest of them.
LEMMA WithoutFacts ==
    ASSUME NEW tags \in Seq(Opens), NEW name
    PROVE  /\ Without(tags, name) \in Seq(Opens)
           /\ \/ Without(tags, name) = tags /\ \A i \in DOMAIN tags : tags[i].name # name
              \/ \E i \in 1..Len(tags) :
                    /\ tags[i].name = name
                    /\ Without(tags, name) = SubSeq(tags, 1, i - 1) \o SubSeq(tags, i + 1, Len(tags))
           /\ tags # <<>> /\ Last(tags).name = name => Without(tags, name) = Front(tags)
<1> DEFINE same == {i \in DOMAIN tags : tags[i].name = name}
           n == Len(tags)
<1>1. n \in Nat /\ DOMAIN tags = 1..n /\ (tags # <<>> => n # 0)
  BY EmptySeq, LenProperties
<1>2. CASE same = {}
  <2>1. Without(tags, name) = tags /\ \A i \in DOMAIN tags : tags[i].name # name
    BY <1>2 DEF Without
  <2>2. ~(tags # <<>> /\ Last(tags).name = name)
    BY <1>1, <1>2 DEF Last
  <2> QED
    BY <2>1, <2>2
<1>3. CASE same # {}
  <2> DEFINE i == Max(same)
  <2>1. Without(tags, name) = RemoveAt(tags, i)
    BY <1>3 DEF Without
  <2>2. i \in same /\ \A k \in same : k <= i
    <3>1. same \in SUBSET (1..n)
      BY <1>1
    <3> HIDE DEF same
    <3> QED
      BY <1>1, <1>3, <3>1, Greatest
  <2> HIDE DEF i
  <2>3. i \in 1..n /\ tags[i].name = name
    BY <1>1, <2>2
  <2>4. Without(tags, name) = SubSeq(tags, 1, i - 1) \o SubSeq(tags, i + 1, n)
    BY <2>1 DEF RemoveAt
  <2>5. SubSeq(tags, 1, i - 1) \in Seq(Opens) /\ SubSeq(tags, i + 1, n) \in Seq(Opens)
    <3>1. i - 1 \in 0..n /\ i \in 0..n
      BY <1>1, <2>3
    <3> QED
      BY <3>1, TwoParts
  <2>6. Without(tags, name) \in Seq(Opens)
    BY <2>4, <2>5, ConcatProperties
  <2>7. ASSUME tags # <<>>, Last(tags).name = name PROVE Without(tags, name) = Front(tags)
    <3>1. n \in same
      BY <1>1, <2>7 DEF Last
    <3>2. i = n
      BY <1>1, <2>2, <2>3, <3>1
    <3>3. SubSeq(tags, n + 1, n) = <<>>
      BY <1>1, SubSeqEmpty
    <3>4. Front(tags) = SubSeq(tags, 1, n - 1) /\ Front(tags) \in Seq(Opens)
      BY <2>7, FrontFacts DEF Front
    <3> QED
      BY <2>4, <3>2, <3>3, <3>4, ConcatEmptySeq
  <2> QED
    BY <2>3, <2>4, <2>6, <2>7
<1> QED
  BY <1>2, <1>3

\* What reading a piece does to a document.
LEMMA ReadCases ==
    ASSUME NEW d \in Docs, NEW x
    PROVE  /\ x.is = "open" =>
                Read(d, x) = [open |-> Append(d.open, x), text |-> d.text, valid |-> d.valid]
           /\ x.is = "close" =>
                Read(d, x) = [open |-> Without(d.open, x.name), text |-> d.text,
                              valid |-> (d.valid /\ ClosesLast(d, x))]
           /\ IsText(x) /\ ~IsWhite(x) =>
                Read(d, x) = [open |-> d.open, text |-> Append(d.text, d.open), valid |-> d.valid]
           /\ IsText(x) /\ IsWhite(x) => Read(d, x) = d
<1> DEFINE tags == CASE x.is = "open" -> Append(d.open, x)
                     [] x.is = "close" -> Without(d.open, x.name)
                     [] OTHER -> d.open
           characters == IF IsText(x) /\ ~IsWhite(x) THEN Append(d.text, d.open) ELSE d.text
           parses == d.valid /\ (x.is = "close" => ClosesLast(d, x))
<1>1. Read(d, x) = [open |-> tags, text |-> characters, valid |-> parses]
  BY DEF Read
<1>2. /\ x.is = "open" => tags = Append(d.open, x)
      /\ x.is = "close" => tags = Without(d.open, x.name)
      /\ IsText(x) => tags = d.open
  BY DEF IsText
<1>3. /\ IsText(x) /\ ~IsWhite(x) => characters = Append(d.text, d.open)
      /\ ~IsText(x) \/ IsWhite(x) => characters = d.text
  OBVIOUS
<1>4. d.valid \in BOOLEAN /\ d = [open |-> d.open, text |-> d.text, valid |-> d.valid]
  BY DEF Docs
<1>5. x.is # "close" => parses = d.valid
  BY <1>4
<1>6. x.is = "close" => parses = (d.valid /\ ClosesLast(d, x))
  BY <1>4
<1> HIDE DEF tags, characters, parses
<1>7. /\ x.is = "open" => ~IsText(x)
      /\ x.is = "close" => ~IsText(x)
      /\ IsText(x) => x.is # "close"
  BY DEF IsText
<1>8. ASSUME x.is = "open"
      PROVE  Read(d, x) = [open |-> Append(d.open, x), text |-> d.text, valid |-> d.valid]
  BY <1>1, <1>2, <1>3, <1>5, <1>7, <1>8
<1>9. ASSUME x.is = "close"
      PROVE  Read(d, x) = [open |-> Without(d.open, x.name), text |-> d.text,
                           valid |-> (d.valid /\ ClosesLast(d, x))]
  BY <1>1, <1>2, <1>3, <1>6, <1>7, <1>9
<1>10. ASSUME IsText(x), ~IsWhite(x)
       PROVE  Read(d, x) = [open |-> d.open, text |-> Append(d.text, d.open), valid |-> d.valid]
  BY <1>1, <1>2, <1>3, <1>5, <1>7, <1>10
<1>11. ASSUME IsText(x), IsWhite(x) PROVE Read(d, x) = d
  BY <1>1, <1>2, <1>3, <1>4, <1>5, <1>7, <1>11
<1> QED
  BY <1>8, <1>9, <1>10, <1>11

\* Reading a piece makes a document of a document.
LEMMA ReadType ==
    ASSUME NEW d \in Docs, NEW x \in Pieces
    PROVE  Read(d, x) \in Docs
<1>0. d.open \in Seq(Opens) /\ d.text \in Seq(Seq(Opens)) /\ d.valid \in BOOLEAN
  BY DEF Docs
<1>1. CASE x.is = "open"
  <2>1. Append(d.open, x) \in Seq(Opens)
    BY <1>0, <1>1, Kinds, AppendProperties
  <2>2. Read(d, x) = [open |-> Append(d.open, x), text |-> d.text, valid |-> d.valid]
    BY <1>1, ReadCases
  <2> QED
    BY <1>0, <2>1, <2>2 DEF Docs
<1>2. CASE x.is = "close"
  <2>1. Without(d.open, x.name) \in Seq(Opens)
    BY <1>0, WithoutFacts
  <2>2. PICK v \in BOOLEAN : v = (d.valid /\ ClosesLast(d, x))
    OBVIOUS
  <2> DEFINE tags == Without(d.open, x.name)
  <2>3. Read(d, x) = [open |-> tags, text |-> d.text, valid |-> v]
    BY <1>2, <2>2, ReadCases
  <2> HIDE DEF tags
  <2>4. [open |-> tags, text |-> d.text, valid |-> v] \in Docs
    BY <1>0, <2>1 DEF Docs, tags
  <2> QED
    BY <2>3, <2>4
<1>3. CASE IsText(x) /\ ~IsWhite(x)
  <2>1. Append(d.text, d.open) \in Seq(Seq(Opens))
    BY <1>0, AppendProperties
  <2> QED
    BY <1>0, <1>3, <2>1, ReadCases DEF Docs
<1>4. CASE IsText(x) /\ IsWhite(x)
  BY <1>4, ReadCases
<1> QED
  BY <1>1, <1>2, <1>3, <1>4 DEF IsText

Reads(s) == [k \in 1..Len(s) |-> [doc \in Docs |-> Read(doc, s[k])]]

\* The document after a message is where a run of readings ends.
LEMMA AfterRun ==
    ASSUME NEW d \in Docs, NEW s \in Seq(Pieces)
    PROVE  \E f \in [0..Len(s) -> Docs] : Runs(f, Len(s), d, Reads(s)) /\ After(d, s) = f[Len(s)]
<1> DEFINE n == Len(s)
           Is(f) == f = [k \in 0..n |-> IF k = 0 THEN d ELSE Read(f[k - 1], s[k])]
           g == CHOOSE f : Is(f)
<1>1. n \in Nat /\ \A k \in 1..n : s[k] \in Pieces
  BY LenProperties, ElementOfSeq
<1>2. After(d, s) = g[n]
  BY DEF After
<1> HIDE DEF n
<1>3. \A k \in 1..n : Reads(s)[k] \in [Docs -> Docs] /\ \A doc \in Docs : Reads(s)[k][doc] = Read(doc, s[k])
  BY <1>1, ReadType DEF Reads, n
<1>4. \E f : Is(f)
  <2>1. PICK f \in [0..n -> Docs] : Runs(f, n, d, Reads(s))
    BY <1>1, <1>3, RunExists
  <2>2. f[0] = d
    BY <2>1 DEF Runs
  <2>3. ASSUME NEW k \in 1..n PROVE f[k] = Read(f[k - 1], s[k])
    <3>1. k - 1 \in 0..n
      BY <1>1
    <3> QED
      BY <1>3, <2>1, <3>1 DEF Runs
  <2>4. \A k \in 0..n : k # 0 => k \in 1..n
    BY <1>1
  <2>5. f = [k \in 0..n |-> IF k = 0 THEN d ELSE Read(f[k - 1], s[k])]
    BY <2>1, <2>2, <2>3, <2>4
  <2> QED
    BY <2>5
<1>5. Is(g)
  BY <1>4
<1> HIDE DEF g
<1>6. DOMAIN g = 0..n /\ g[0] = d /\ \A k \in 1..n : g[k] = Read(g[k - 1], s[k])
  <2>1. 0 \in 0..n /\ \A k \in 1..n : k \in 0..n /\ k # 0
    BY <1>1
  <2>2. \A k \in 0..n : g[k] = IF k = 0 THEN d ELSE Read(g[k - 1], s[k])
    BY <1>5
  <2> QED
    BY <1>5, <2>1, <2>2
<1> HIDE DEF Is
<1>7. \A k \in 0..n : g[k] \in Docs
  <2> DEFINE N == {m \in Nat : m <= n => g[m] \in Docs}
  <2>1. 0 \in N
    BY <1>6
  <2>2. ASSUME NEW m \in Nat, m \in N PROVE m + 1 \in N
    <3> SUFFICES ASSUME m + 1 <= n PROVE g[m + 1] \in Docs
      OBVIOUS
    <3>1. m + 1 \in 1..n /\ (m + 1) - 1 = m /\ g[m] \in Docs
      BY <1>1, <2>2
    <3>2. g[m + 1] = Read(g[m], s[m + 1]) /\ s[m + 1] \in Pieces
      BY <1>1, <1>6, <3>1
    <3> QED
      BY <3>1, <3>2, ReadType
  <2> HIDE DEF N
  <2>3. \A k \in 0..n : k \in N
    BY <2>1, <2>2, Counting
  <2> QED
    BY <2>3 DEF N
<1>8. g \in [0..n -> Docs]
  <2>1. g = [k \in 0..n |-> g[k]]
    BY <1>5, <1>6 DEF Is
  <2> QED
    BY <1>7, <2>1
<1>9. Runs(g, n, d, Reads(s))
  <2>1. \A k \in 1..n : k - 1 \in 0..n
    BY <1>1
  <2> QED
    BY <1>3, <1>6, <1>7, <2>1 DEF Runs
<1> QED
  BY <1>2, <1>8, <1>9 DEF n

\* The document after a longer message is read from the one after the message.
LEMMA AfterFacts ==
    ASSUME NEW d \in Docs
    PROVE  /\ After(d, <<>>) = d
           /\ \A s \in Seq(Pieces) : After(d, s) \in Docs
           /\ \A s \in Seq(Pieces), x \in Pieces : After(d, Append(s, x)) = Read(After(d, s), x)
<1>1. After(d, <<>>) = d
  <2>1. <<>> \in Seq(Pieces) /\ Len(<<>>) = 0
    BY EmptySeq
  <2>2. PICK f \in [0..0 -> Docs] : Runs(f, 0, d, Reads(<<>>)) /\ After(d, <<>>) = f[0]
    BY <2>1, AfterRun
  <2> QED
    BY <2>2 DEF Runs
<1>2. ASSUME NEW s \in Seq(Pieces) PROVE After(d, s) \in Docs
  BY AfterRun, LenProperties
<1>3. ASSUME NEW s \in Seq(Pieces), NEW x \in Pieces
      PROVE  After(d, Append(s, x)) = Read(After(d, s), x)
  <2> DEFINE n == Len(s)
             t == Append(s, x)
  <2>1. n \in Nat /\ t \in Seq(Pieces) /\ Len(t) = n + 1 /\ t[n + 1] = x /\ \A k \in 1..n : t[k] = s[k]
    BY AppendProperties, LenProperties
  <2>2. PICK f \in [0..n -> Docs] : Runs(f, n, d, Reads(s)) /\ After(d, s) = f[n]
    BY AfterRun
  <2> HIDE DEF t
  <2>3. PICK g \in [0..n + 1 -> Docs] : Runs(g, n + 1, d, Reads(t)) /\ After(d, t) = g[n + 1]
    BY <2>1, AfterRun
  <2> HIDE DEF n
  <2>4. Runs(g, n, d, Reads(t))
    BY <2>1, <2>3 DEF Runs
  <2>5. \A k \in 1..n : Reads(s)[k] = Reads(t)[k]
    BY <2>1 DEF Reads, n
  <2>6. f[n] = g[n]
    BY <2>1, <2>2, <2>4, <2>5, RunsAgree
  <2>7. g[n + 1] = Reads(t)[n + 1][g[n]]
    BY <2>1, <2>3 DEF Runs
  <2>8. g[n] \in Docs
    BY <2>1, <2>3
  <2>9. Reads(t)[n + 1][g[n]] = Read(g[n], x)
    BY <2>1, <2>8 DEF Reads
  <2> QED
    BY <2>2, <2>3, <2>6, <2>7, <2>9 DEF t
<1> QED
  BY <1>1, <1>2, <1>3

\* The length of a message, piece by piece.
LEMMA SizeRun ==
    ASSUME NEW s \in Seq(Pieces)
    PROVE  \E f \in [0..Len(s) -> Nat] :
               /\ f[0] = 0 /\ \A k \in 1..Len(s) : f[k] = f[k - 1] + s[k].size
               /\ Size(s) = f[Len(s)]
<1> DEFINE n == Len(s)
           F == [k \in 1..n |-> [m \in Nat |-> m + s[k].size]]
           Is(f) == f = [k \in 0..n |-> IF k = 0 THEN 0 ELSE f[k - 1] + s[k].size]
           g == CHOOSE f : Is(f)
<1>1. n \in Nat /\ \A k \in 1..n : s[k].size \in Nat
  BY LenProperties, ElementOfSeq, Kinds
<1>2. Size(s) = g[n]
  BY DEF Size
<1> HIDE DEF n
<1>3. \A k \in 1..n : F[k] \in [Nat -> Nat] /\ \A m \in Nat : F[k][m] = m + s[k].size
  BY <1>1
<1> HIDE DEF F
<1>4. \E f : Is(f)
  <2>1. PICK f \in [0..n -> Nat] : Runs(f, n, 0, F)
    BY <1>1, <1>3, RunExists
  <2>2. f[0] = 0
    BY <2>1 DEF Runs
  <2>3. ASSUME NEW k \in 1..n PROVE f[k] = f[k - 1] + s[k].size
    <3>1. k - 1 \in 0..n
      BY <1>1
    <3> QED
      BY <1>3, <2>1, <3>1 DEF Runs
  <2>4. \A k \in 0..n : k # 0 => k \in 1..n
    BY <1>1
  <2>5. f = [k \in 0..n |-> IF k = 0 THEN 0 ELSE f[k - 1] + s[k].size]
    BY <2>1, <2>2, <2>3, <2>4
  <2> QED
    BY <2>5
<1>5. Is(g)
  BY <1>4
<1> HIDE DEF g
<1>6. DOMAIN g = 0..n /\ g[0] = 0 /\ \A k \in 1..n : g[k] = g[k - 1] + s[k].size
  <2>1. 0 \in 0..n /\ \A k \in 1..n : k \in 0..n /\ k # 0
    BY <1>1
  <2>2. \A k \in 0..n : g[k] = IF k = 0 THEN 0 ELSE g[k - 1] + s[k].size
    BY <1>5
  <2> QED
    BY <1>5, <2>1, <2>2
<1>7. \A k \in 0..n : g[k] \in Nat
  <2> HIDE DEF Is
  <2> DEFINE N == {m \in Nat : m <= n => g[m] \in Nat}
  <2>1. 0 \in N
    BY <1>6
  <2>2. ASSUME NEW m \in Nat, m \in N PROVE m + 1 \in N
    <3> SUFFICES ASSUME m + 1 <= n PROVE g[m + 1] \in Nat
      OBVIOUS
    <3>1. m + 1 \in 1..n /\ (m + 1) - 1 = m /\ g[m] \in Nat
      BY <1>1, <2>2
    <3>2. g[m + 1] = g[m] + s[m + 1].size /\ s[m + 1].size \in Nat
      BY <1>1, <1>6, <3>1
    <3> QED
      BY <3>1, <3>2
  <2> HIDE DEF N
  <2>3. \A k \in 0..n : k \in N
    BY <2>1, <2>2, Counting
  <2> QED
    BY <2>3 DEF N
<1>8. g \in [0..n -> Nat]
  <2>1. g = [k \in 0..n |-> g[k]]
    BY <1>5, <1>6
  <2> HIDE DEF Is
  <2> QED
    BY <1>7, <2>1
<1> HIDE DEF Is
<1> QED
  BY <1>2, <1>6, <1>8 DEF n

\* A piece adds its length to a message.
LEMMA SizeFacts ==
    /\ Size(<<>>) = 0
    /\ \A s \in Seq(Pieces) : Size(s) \in Nat
    /\ \A s \in Seq(Pieces), x \in Pieces : Size(Append(s, x)) = Size(s) + x.size
<1>1. Size(<<>>) = 0
  <2>1. <<>> \in Seq(Pieces) /\ Len(<<>>) = 0
    BY EmptySeq
  <2>2. PICK f \in [0..0 -> Nat] : f[0] = 0 /\ Size(<<>>) = f[0]
    BY <2>1, SizeRun
  <2> QED
    BY <2>2
<1>2. ASSUME NEW s \in Seq(Pieces) PROVE Size(s) \in Nat
  BY SizeRun, LenProperties
<1>3. ASSUME NEW s \in Seq(Pieces), NEW x \in Pieces
      PROVE  Size(Append(s, x)) = Size(s) + x.size
  <2> DEFINE n == Len(s)
             t == Append(s, x)
             F == [k \in 1..n |-> [m \in Nat |-> m + s[k].size]]
  <2>1. n \in Nat /\ t \in Seq(Pieces) /\ Len(t) = n + 1 /\ t[n + 1] = x /\ \A k \in 1..n : t[k] = s[k]
    BY AppendProperties, LenProperties
  <2>2. PICK f \in [0..n -> Nat] : /\ f[0] = 0 /\ \A k \in 1..n : f[k] = f[k - 1] + s[k].size
                                   /\ Size(s) = f[n]
    BY SizeRun
  <2> HIDE DEF t
  <2>3. PICK g \in [0..n + 1 -> Nat] : /\ g[0] = 0 /\ \A k \in 1..n + 1 : g[k] = g[k - 1] + t[k].size
                                       /\ Size(t) = g[n + 1]
    BY <2>1, SizeRun
  <2> HIDE DEF n
  <2>4. \A k \in 1..n : k - 1 \in 0..n /\ k \in 1..n + 1 /\ k - 1 \in 0..n + 1
    BY <2>1
  <2>5. \A k \in 1..n : F[k][f[k - 1]] = f[k - 1] + s[k].size /\ F[k][g[k - 1]] = g[k - 1] + s[k].size
    <3>1. \A k \in 1..n : f[k - 1] \in Nat /\ g[k - 1] \in Nat
      BY <2>2, <2>3, <2>4
    <3> QED
      BY <3>1
  <2> HIDE DEF F
  <2>6. Runs(f, n, 0, F) /\ Runs(g, n, 0, F)
    <3>1. Runs(f, n, 0, F)
      BY <2>2, <2>5 DEF Runs
    <3>2. \A k \in 1..n : g[k] = F[k][g[k - 1]]
      BY <2>1, <2>3, <2>4, <2>5
    <3> QED
      BY <2>3, <3>1, <3>2 DEF Runs
  <2>7. f[n] = g[n]
    <3>1. \A k \in 0..n : f[k] = g[k]
      BY <2>1, <2>6, RunsAgree
    <3> QED
      BY <2>1, <3>1
  <2>8. g[n + 1] = g[n] + x.size
    BY <2>1, <2>3
  <2> QED
    BY <2>2, <2>3, <2>7, <2>8 DEF t
<1> QED
  BY <1>1, <1>2, <1>3

\* Sequences are joined one by one.
LEMMA FlatRun ==
    ASSUME NEW X, NEW s \in Seq(Seq(X))
    PROVE  \E f \in [0..Len(s) -> Seq(X)] :
               /\ f[0] = <<>> /\ \A k \in 1..Len(s) : f[k] = f[k - 1] \o s[k]
               /\ FlattenSeq(s) = f[Len(s)]
<1> DEFINE n == Len(s)
           F == [k \in 1..n |-> [q \in Seq(X) |-> q \o s[k]]]
           Is(f) == f = [k \in 1..n |-> IF k = 1 THEN s[k] ELSE f[k - 1] \o s[k]]
           g == CHOOSE f : Is(f)
<1>1. n \in Nat /\ \A k \in 1..n : s[k] \in Seq(X)
  BY LenProperties, ElementOfSeq
<1>2. FlattenSeq(s) = IF n = 0 THEN s ELSE g[n]
  BY DEF FlattenSeq
<1> HIDE DEF n
<1>3. ASSUME NEW k \in 1..n
      PROVE  F[k] \in [Seq(X) -> Seq(X)] /\ \A q \in Seq(X) : F[k][q] = q \o s[k]
  <2>1. \A q \in Seq(X) : q \o s[k] \in Seq(X)
    BY <1>1, ConcatProperties
  <2> QED
    BY <2>1
<1> HIDE DEF F
<1>4. <<>> \in Seq(X)
  BY EmptySeq
<1>5. PICK f \in [0..n -> Seq(X)] : Runs(f, n, <<>>, F)
  BY <1>1, <1>3, <1>4, RunExists
<1>6. f[0] = <<>> /\ \A k \in 1..n : f[k] = f[k - 1] \o s[k]
  <2>1. \A k \in 1..n : k - 1 \in 0..n
    BY <1>1
  <2> QED
    BY <1>3, <1>5, <2>1 DEF Runs
<1>7. CASE n = 0
  <2>1. s = <<>>
    BY <1>7, EmptySeq DEF n
  <2> QED
    BY <1>2, <1>5, <1>6, <1>7, <2>1 DEF n
<1>8. CASE n # 0
  <2> DEFINE h == [k \in 1..n |-> f[k]]
  <2>1. ASSUME NEW k \in 1..n PROVE h[k] = IF k = 1 THEN s[k] ELSE h[k - 1] \o s[k]
    <3>1. CASE k = 1
      <4>1. f[k] = f[k - 1] \o s[k]
        BY <1>6
      <4>0. k - 1 = 0
        BY <3>1
      <4>2. f[k] = <<>> \o s[k]
        BY <1>6, <4>0, <4>1
      <4>4. h[k] = f[k]
        OBVIOUS
      <4>3. s[k] \in Seq(X)
        BY <1>1
      <4> QED
        BY <3>1, <4>2, <4>3, <4>4, ConcatEmptySeq
    <3>2. CASE k # 1
      <4>1. k - 1 \in 1..n
        BY <1>1, <3>2
      <4> QED
        BY <1>6, <3>2, <4>1
    <3> QED
      BY <3>1, <3>2
  <2>2. Is(h)
    BY <2>1
  <2>3. Is(g)
    BY <2>2
  <2> HIDE DEF g, h
  <2>4. DOMAIN g = 1..n /\ \A k \in 1..n : g[k] = IF k = 1 THEN s[k] ELSE g[k - 1] \o s[k]
    BY <2>3
  <2>5. DOMAIN h = 1..n /\ \A k \in 1..n : h[k] = f[k]
    BY DEF h
  <2> HIDE DEF Is
  <2> DEFINE N == {m \in Nat : m + 1 <= n => g[m + 1] = f[m + 1]}
  <2>6. 0 \in N
    <3>1. 1 \in 1..n
      BY <1>1, <1>8
    <3>2. g[1] = s[1]
      BY <2>4, <3>1
    <3>3. h[1] = s[1] /\ h[1] = f[1]
      BY <2>1, <2>5, <3>1
    <3> QED
      BY <3>2, <3>3
  <2>7. ASSUME NEW m \in Nat, m \in N PROVE m + 1 \in N
    <3> SUFFICES ASSUME (m + 1) + 1 <= n PROVE g[(m + 1) + 1] = f[(m + 1) + 1]
      OBVIOUS
    <3>1. /\ (m + 1) + 1 \in 1..n /\ ((m + 1) + 1) - 1 = m + 1 /\ (m + 1) + 1 # 1
          /\ g[m + 1] = f[m + 1]
      BY <1>1, <2>7
    <3> DEFINE k == (m + 1) + 1
    <3>2. k \in 1..n /\ k - 1 = m + 1 /\ k # 1
      BY <3>1
    <3> HIDE DEF k
    <3>3. g[k] = g[k - 1] \o s[k] /\ f[k] = f[k - 1] \o s[k]
      BY <1>6, <2>4, <3>2
    <3>4. g[k] = f[k]
      BY <3>1, <3>2, <3>3
    <3> QED
      BY <3>4 DEF k
  <2> HIDE DEF N
  <2>8. n - 1 \in Nat /\ (n - 1) + 1 = n
    BY <1>1, <1>8
  <2>9. n - 1 \in N
    BY <2>6, <2>7, <2>8, Counting
  <2>10. g[n] = f[n]
    BY <2>8, <2>9 DEF N
  <2> QED
    BY <1>2, <1>5, <1>6, <1>8, <2>10 DEF n
<1> QED
  BY <1>7, <1>8

\* A sequence added at the end comes last.
LEMMA FlatFacts ==
    ASSUME NEW X
    PROVE  /\ FlattenSeq(<<>>) = <<>>
           /\ \A s \in Seq(Seq(X)) : FlattenSeq(s) \in Seq(X)
           /\ \A s \in Seq(Seq(X)), q \in Seq(X) : FlattenSeq(Append(s, q)) = FlattenSeq(s) \o q
<1>1. FlattenSeq(<<>>) = <<>>
  BY DEF FlattenSeq
<1>2. ASSUME NEW s \in Seq(Seq(X)) PROVE FlattenSeq(s) \in Seq(X)
  <2>1. Len(s) \in Nat
    BY LenProperties
  <2>2. PICK f \in [0..Len(s) -> Seq(X)] : FlattenSeq(s) = f[Len(s)]
    BY FlatRun
  <2> QED
    BY <2>1, <2>2
<1>3. ASSUME NEW s \in Seq(Seq(X)), NEW q \in Seq(X)
      PROVE  FlattenSeq(Append(s, q)) = FlattenSeq(s) \o q
  <2> DEFINE n == Len(s)
             t == Append(s, q)
             none == <<>>
             F == [k \in 1..n |-> [r \in Seq(X) |-> r \o s[k]]]
  <2>1. n \in Nat /\ t \in Seq(Seq(X)) /\ Len(t) = n + 1 /\ t[n + 1] = q /\ \A k \in 1..n : t[k] = s[k]
    BY AppendProperties, LenProperties
  <2>2. PICK f \in [0..n -> Seq(X)] : /\ f[0] = <<>> /\ \A k \in 1..n : f[k] = f[k - 1] \o s[k]
                                      /\ FlattenSeq(s) = f[n]
    BY FlatRun
  <2> HIDE DEF t
  <2>3. PICK g \in [0..n + 1 -> Seq(X)] : /\ g[0] = <<>> /\ \A k \in 1..n + 1 : g[k] = g[k - 1] \o t[k]
                                          /\ FlattenSeq(t) = g[n + 1]
    <3>1. PICK g \in [0..Len(t) -> Seq(X)] : /\ g[0] = <<>> /\ \A k \in 1..Len(t) : g[k] = g[k - 1] \o t[k]
                                             /\ FlattenSeq(t) = g[Len(t)]
      BY <2>1, FlatRun
    <3> QED
      BY <2>1, <3>1
  <2> HIDE DEF n
  <2>4. \A k \in 1..n : k - 1 \in 0..n /\ k \in 1..n + 1 /\ k - 1 \in 0..n + 1
    BY <2>1
  <2>5. \A k \in 1..n : F[k][f[k - 1]] = f[k - 1] \o s[k] /\ F[k][g[k - 1]] = g[k - 1] \o s[k]
    <3>1. \A k \in 1..n : f[k - 1] \in Seq(X) /\ g[k - 1] \in Seq(X)
      BY <2>2, <2>3, <2>4
    <3> QED
      BY <3>1
  <2> HIDE DEF F
  <2>6. Runs(f, n, none, F) /\ Runs(g, n, none, F)
    <3>1. Runs(f, n, none, F)
      BY <2>2, <2>5 DEF Runs
    <3>2. \A k \in 1..n : g[k] = F[k][g[k - 1]]
      BY <2>1, <2>3, <2>4, <2>5
    <3> QED
      BY <2>3, <3>1, <3>2 DEF Runs
  <2> HIDE DEF none
  <2>7. f[n] = g[n]
    <3>1. \A k \in 0..n : f[k] = g[k]
      BY <2>1, <2>6, RunsAgree
    <3> QED
      BY <2>1, <3>1
  <2>8. g[n + 1] = g[n] \o q
    <3>1. n + 1 \in 1..n + 1 /\ (n + 1) - 1 = n
      BY <2>1
    <3>2. g[n + 1] = g[(n + 1) - 1] \o t[n + 1]
      BY <2>3, <3>1
    <3> QED
      BY <2>1, <3>1, <3>2
  <2> QED
    BY <2>2, <2>3, <2>7, <2>8 DEF t
<1> QED
  BY <1>1, <1>2, <1>3

-----------------------------------------------------------------------------
\* Reading on

\* Adding to the second sequence adds to both.
LEMMA ConcatAppend ==
    ASSUME NEW S, NEW s \in Seq(S), NEW t \in Seq(S), NEW x \in S
    PROVE  s \o Append(t, x) = Append(s \o t, x)
<1>1. <<x>> \in Seq(S)
  OBVIOUS
<1>2. s \o t \in Seq(S)
  BY ConcatProperties
<1> QED
  BY <1>1, <1>2, AppendIsConcat, ConcatAssociative

\* Two messages are read one after the other.
LEMMA AfterConcat ==
    ASSUME NEW d \in Docs, NEW s \in Seq(Pieces), NEW t \in Seq(Pieces)
    PROVE  s \o t \in Seq(Pieces) /\ After(d, s \o t) = After(After(d, s), t)
<1> DEFINE T == {u \in Seq(Pieces) : After(d, s \o u) = After(After(d, s), u)}
<1>1. After(d, s) \in Docs
  BY AfterFacts
<1>2. <<>> \in T
  <2>1. s \o <<>> = s
    BY ConcatEmptySeq
  <2> QED
    BY <1>1, <2>1, AfterFacts, EmptySeq
<1>3. ASSUME NEW u \in Seq(Pieces), NEW x \in Pieces, u \in T PROVE Append(u, x) \in T
  <2>1. s \o u \in Seq(Pieces) /\ Append(u, x) \in Seq(Pieces)
    BY ConcatProperties, AppendProperties
  <2>2. After(d, s \o Append(u, x)) = Read(After(d, s \o u), x)
    <3>1. s \o Append(u, x) = Append(s \o u, x)
      BY ConcatAppend
    <3> DEFINE v == s \o u
    <3>2. v \in Seq(Pieces)
      BY <2>1
    <3> HIDE DEF v
    <3>3. After(d, Append(v, x)) = Read(After(d, v), x)
      BY <3>2, AfterFacts
    <3> QED
      BY <3>1, <3>3 DEF v
  <2>3. After(After(d, s), Append(u, x)) = Read(After(After(d, s), u), x)
    BY <1>1, AfterFacts
  <2> QED
    BY <1>3, <2>1, <2>2, <2>3
<1> HIDE DEF T
<1>4. t \in T
  BY <1>2, <1>3, Appending
<1> QED
  BY <1>4, ConcatProperties DEF T

\* They are as long as both.
LEMMA SizeConcat ==
    ASSUME NEW s \in Seq(Pieces), NEW t \in Seq(Pieces)
    PROVE  Size(s \o t) = Size(s) + Size(t)
<1> DEFINE T == {u \in Seq(Pieces) : Size(s \o u) = Size(s) + Size(u)}
<1>1. <<>> \in T
  <2>1. s \o <<>> = s
    BY ConcatEmptySeq
  <2> QED
    BY <2>1, SizeFacts, EmptySeq
<1>2. ASSUME NEW u \in Seq(Pieces), NEW x \in Pieces, u \in T PROVE Append(u, x) \in T
  <2>1. s \o u \in Seq(Pieces) /\ Append(u, x) \in Seq(Pieces)
    BY ConcatProperties, AppendProperties
  <2>2. Size(s \o Append(u, x)) = Size(s \o u) + x.size
    <3>1. s \o Append(u, x) = Append(s \o u, x)
      BY ConcatAppend
    <3> QED
      BY <2>1, <3>1, SizeFacts
  <2>3. Size(Append(u, x)) = Size(u) + x.size
    BY SizeFacts
  <2>4. Size(s) \in Nat /\ Size(u) \in Nat /\ x.size \in Nat
    BY SizeFacts, Kinds
  <2> QED
    BY <1>2, <2>1, <2>2, <2>3, <2>4
<1> HIDE DEF T
<1>3. t \in T
  BY <1>1, <1>2, Appending
<1> QED
  BY <1>3 DEF T

\* A message of one piece.
LEMMA Single ==
    ASSUME NEW x \in Pieces
    PROVE  /\ <<x>> \in Seq(Pieces) /\ Size(<<x>>) = x.size
           /\ \A d \in Docs : After(d, <<x>>) = Read(d, x)
<1>1. <<>> \in Seq(Pieces) /\ <<x>> = Append(<<>>, x) /\ <<x>> \in Seq(Pieces)
  BY EmptySeq
<1>2. Size(Append(<<>>, x)) = Size(<<>>) + x.size
  BY <1>1, SizeFacts
<1>3. \A d \in Docs : After(d, Append(<<>>, x)) = Read(After(d, <<>>), x)
  BY <1>1, AfterFacts
<1>4. Size(<<>>) = 0 /\ \A d \in Docs : After(d, <<>>) = d
  BY SizeFacts, AfterFacts
<1>5. x.size \in Nat
  BY Kinds
<1> QED
  BY <1>1, <1>2, <1>3, <1>4, <1>5

\* Text leaves the open tags as they are, and takes its length.
LEMMA TextRead ==
    ASSUME NEW d \in Docs, NEW s \in Seq(Pieces), \A k \in 1..Len(s) : IsText(s[k])
    PROVE  /\ After(d, s).open = d.open /\ After(d, s).valid = d.valid
           /\ Size(s) = Len(s)
<1> DEFINE All(u) == \A k \in 1..Len(u) : IsText(u[k])
           Kept(u) == /\ After(d, u).open = d.open /\ After(d, u).valid = d.valid
                      /\ Size(u) = Len(u)
           T == {u \in Seq(Pieces) : All(u) => Kept(u)}
<1>1. <<>> \in T
  BY AfterFacts, SizeFacts, EmptySeq
<1>2. ASSUME NEW u \in Seq(Pieces), NEW x \in Pieces, u \in T PROVE Append(u, x) \in T
  <2> DEFINE v == Append(u, x)
  <2>1. /\ v \in Seq(Pieces) /\ Len(v) = Len(u) + 1 /\ Len(u) \in Nat
        /\ \A k \in 1..Len(u) : v[k] = u[k]
        /\ v[Len(u) + 1] = x
    BY AppendProperties, LenProperties
  <2>2. After(d, v) = Read(After(d, u), x) /\ Size(v) = Size(u) + x.size
    BY AfterFacts, SizeFacts
  <2> HIDE DEF v
  <2> SUFFICES ASSUME All(v) PROVE Kept(v)
    BY <2>1 DEF v
  <2>3. All(u) /\ IsText(x)
    BY <2>1
  <2>4. Kept(u)
    BY <1>2, <2>3
  <2>5. x.size = 1 /\ x.is # "open" /\ x.is # "close"
    BY <2>3, Kinds DEF IsText
  <2>6. Read(After(d, u), x).open = After(d, u).open /\ Read(After(d, u), x).valid = After(d, u).valid
    <3>1. After(d, u) \in Docs
      BY AfterFacts
    <3> DEFINE e == After(d, u)
    <3> HIDE DEF e
    <3>2. e \in Docs
      BY <3>1 DEF e
    <3>3. Read(e, x).open = e.open /\ Read(e, x).valid = e.valid
      BY <2>3, <3>2, ReadCases
    <3> QED
      BY <3>3 DEF e
  <2> QED
    BY <2>1, <2>2, <2>4, <2>5, <2>6
<1> HIDE DEF T
<1>3. s \in T
  BY <1>1, <1>2, Appending
<1> QED
  BY <1>3 DEF T

\* White space leaves no trace in a document.
LEMMA WhiteRead ==
    ASSUME NEW d \in Docs, NEW s \in Seq(Pieces), \A k \in 1..Len(s) : IsWhite(s[k])
    PROVE  After(d, s) = d
<1> DEFINE All(u) == \A k \in 1..Len(u) : IsWhite(u[k])
           T == {u \in Seq(Pieces) : All(u) => After(d, u) = d}
<1>1. <<>> \in T
  BY AfterFacts, EmptySeq
<1>2. ASSUME NEW u \in Seq(Pieces), NEW x \in Pieces, u \in T PROVE Append(u, x) \in T
  <2> DEFINE v == Append(u, x)
  <2>1. /\ v \in Seq(Pieces) /\ Len(v) = Len(u) + 1 /\ Len(u) \in Nat
        /\ \A k \in 1..Len(u) : v[k] = u[k]
        /\ v[Len(u) + 1] = x
    BY AppendProperties, LenProperties
  <2>2. After(d, v) = Read(After(d, u), x)
    BY AfterFacts
  <2> HIDE DEF v
  <2> SUFFICES ASSUME All(v) PROVE After(d, v) = d
    BY <2>1 DEF v
  <2>3. All(u) /\ IsWhite(x)
    BY <2>1
  <2>4. Read(After(d, u), x) = After(d, u)
    <3>1. After(d, u) \in Docs /\ IsText(x)
      BY <2>3, AfterFacts DEF IsWhite, IsText
    <3> QED
      BY <2>3, <3>1, ReadCases
  <2> QED
    BY <1>2, <2>2, <2>3, <2>4
<1> HIDE DEF T
<1>3. s \in T
  BY <1>1, <1>2, Appending
<1> QED
  BY <1>3 DEF T

\* What is read does not depend on the text before, nor on its being valid.
LEMMA ReadAfterText ==
    ASSUME NEW d \in Docs, NEW t \in Seq(Seq(Opens)), NEW v \in BOOLEAN, NEW s \in Seq(Pieces)
    PROVE  After([open |-> d.open, text |-> t \o d.text, valid |-> d.valid /\ v], s)
             = [open |-> After(d, s).open, text |-> t \o After(d, s).text,
                valid |-> After(d, s).valid /\ v]
<1> DEFINE Put(e) == [open |-> e.open, text |-> t \o e.text, valid |-> e.valid /\ v]
           T == {u \in Seq(Pieces) : After(Put(d), u) = Put(After(d, u))}
<1>1. ASSUME NEW e \in Docs PROVE Put(e) \in Docs
  <2>1. t \o e.text \in Seq(Seq(Opens)) /\ (e.valid /\ v) \in BOOLEAN
    BY ConcatProperties DEF Docs
  <2> QED
    BY <2>1 DEF Docs
<1>2. ASSUME NEW e \in Docs, NEW x \in Pieces PROVE Read(Put(e), x) = Put(Read(e, x))
  <2> DEFINE f == Put(e)
             ends == e.valid /\ ClosesLast(e, x)
  <2>0. /\ ClosesLast(f, x) <=> ClosesLast(e, x)
        /\ f.open = e.open /\ f.text = t \o e.text /\ f.valid = (e.valid /\ v)
        /\ f \in Docs
    BY <1>1 DEF ClosesLast
  <2> HIDE DEF f
  <2> SUFFICES Read(f, x) = Put(Read(e, x))
    BY DEF f
  <2>1. CASE x.is = "open"
    <3>1. Read(e, x) = [open |-> Append(e.open, x), text |-> e.text, valid |-> e.valid]
      BY <2>1, ReadCases
    <3>2. Read(f, x) = [open |-> Append(f.open, x), text |-> f.text, valid |-> f.valid]
      BY <2>0, <2>1, ReadCases
    <3> QED
      BY <2>0, <3>1, <3>2
  <2>2. CASE x.is = "close"
    <3>1. Read(e, x) = [open |-> Without(e.open, x.name), text |-> e.text, valid |-> ends]
      BY <2>2, ReadCases
    <3>2. Read(f, x) = [open |-> Without(f.open, x.name), text |-> f.text,
                        valid |-> (f.valid /\ ClosesLast(f, x))]
      BY <2>0, <2>2, ReadCases
    <3>3. (f.valid /\ ClosesLast(f, x)) = (ends /\ v)
      BY <2>0
    <3> HIDE DEF ends
    <3>4. Read(f, x) = [open |-> Without(e.open, x.name), text |-> t \o e.text, valid |-> (ends /\ v)]
      BY <2>0, <3>2, <3>3
    <3>5. /\ Read(e, x).open = Without(e.open, x.name) /\ Read(e, x).text = e.text
          /\ Read(e, x).valid = ends
      BY <3>1
    <3> QED
      BY <3>4, <3>5
  <2>3. CASE IsText(x) /\ ~IsWhite(x)
    <3>1. t \o Append(e.text, e.open) = Append(t \o e.text, e.open)
      BY ConcatAppend DEF Docs
    <3>2. Read(e, x) = [open |-> e.open, text |-> Append(e.text, e.open), valid |-> e.valid]
      BY <2>3, ReadCases
    <3>3. Read(f, x) = [open |-> f.open, text |-> Append(f.text, f.open), valid |-> f.valid]
      BY <2>0, <2>3, ReadCases
    <3>4. Read(f, x) = [open |-> e.open, text |-> t \o Append(e.text, e.open), valid |-> (e.valid /\ v)]
      BY <2>0, <3>1, <3>3
    <3>5. /\ Read(e, x).open = e.open /\ Read(e, x).text = Append(e.text, e.open)
          /\ Read(e, x).valid = e.valid
      BY <3>2
    <3> QED
      BY <3>4, <3>5
  <2>4. CASE IsText(x) /\ IsWhite(x)
    <3>1. Read(e, x) = e /\ Read(f, x) = f
      BY <2>0, <2>4, ReadCases
    <3> QED
      BY <3>1 DEF f
  <2>5. x.is = "open" \/ x.is = "close" \/ IsText(x)
    BY DEF IsText
  <2> QED
    BY <2>1, <2>2, <2>3, <2>4, <2>5
<1>3. Put(d) \in Docs
  BY <1>1
<1> HIDE DEF Put
<1>4. <<>> \in T
  BY <1>3, AfterFacts, EmptySeq
<1>5. ASSUME NEW u \in Seq(Pieces), NEW x \in Pieces, u \in T PROVE Append(u, x) \in T
  <2>1. After(d, u) \in Docs /\ Append(u, x) \in Seq(Pieces)
    BY AfterFacts, AppendProperties
  <2>2. After(Put(d), Append(u, x)) = Read(After(Put(d), u), x)
    BY <1>3, AfterFacts
  <2>3. After(d, Append(u, x)) = Read(After(d, u), x)
    BY AfterFacts
  <2> QED
    BY <1>2, <1>5, <2>1, <2>2, <2>3
<1> HIDE DEF T
<1>6. s \in T
  BY <1>4, <1>5, Appending
<1> QED
  BY <1>6 DEF T, Put

\* What is not valid once does not become valid.
LEMMA InvalidStays ==
    ASSUME NEW d \in Docs, ~d.valid, NEW s \in Seq(Pieces)
    PROVE  ~After(d, s).valid
<1> DEFINE T == {u \in Seq(Pieces) : ~After(d, u).valid}
<1>1. <<>> \in T
  BY AfterFacts, EmptySeq
<1>2. ASSUME NEW u \in Seq(Pieces), NEW x \in Pieces, u \in T PROVE Append(u, x) \in T
  <2>1. After(d, u) \in Docs /\ Append(u, x) \in Seq(Pieces)
    BY AfterFacts, AppendProperties
  <2>2. After(d, Append(u, x)) = Read(After(d, u), x)
    BY AfterFacts
  <2>3. ~Read(After(d, u), x).valid
    <3> DEFINE e == After(d, u)
    <3>1. ~e.valid /\ e \in Docs
      BY <1>2, <2>1
    <3> HIDE DEF e
    <3>2. ~Read(e, x).valid
      BY <3>1 DEF Read
    <3> QED
      BY <3>2 DEF e
  <2> QED
    BY <2>1, <2>2, <2>3
<1> HIDE DEF T
<1>3. s \in T
  BY <1>1, <1>2, Appending
<1> QED
  BY <1>3 DEF T

-----------------------------------------------------------------------------
\* Closing the open tags, and opening them again

\* The tag opened last is closed first.
LEMMA ClosingFacts ==
    /\ Closing(<<>>) = <<>>
    /\ \A o \in Seq(Opens) : Closing(o) \in Seq(Pieces) /\ \A k \in 1..Len(Closing(o)) : ~IsText(Closing(o)[k])
    /\ \A o \in Seq(Opens), x \in Opens :
           /\ Close(x.name) \in Pieces
           /\ Closing(Append(o, x)) = <<Close(x.name)>> \o Closing(o)
           /\ Size(Closing(Append(o, x))) = ClosingSize + Size(Closing(o))
<1>1. Closing(<<>>) = <<>>
  BY DEF Closing
<1>2. ASSUME NEW x \in Opens PROVE /\ Close(x.name) \in Pieces /\ Close(x.name).size = ClosingSize
                                   /\ ~IsText(Close(x.name))
  BY <1>2 DEF Opens, Pieces, Close, IsText
<1>3. ASSUME NEW o \in Seq(Opens)
      PROVE  /\ Closing(o) \in Seq(Pieces) /\ Len(Closing(o)) = Len(o)
             /\ \A k \in 1..Len(o) : Closing(o)[k] = Close(o[Len(o) + 1 - k].name)
             /\ \A k \in 1..Len(o) : Closing(o)[k] \in Pieces /\ ~IsText(Closing(o)[k])
  <2>1. Len(o) \in Nat /\ DOMAIN o = 1..Len(o) /\ \A k \in 1..Len(o) : o[k] \in Opens
    BY LenProperties, ElementOfSeq
  <2>2. ASSUME NEW k \in 1..Len(o) PROVE Len(o) + 1 - k \in 1..Len(o)
    BY <2>1
  <2>3. Closing(o) = [k \in 1..Len(o) |-> Close(o[Len(o) + 1 - k].name)]
    BY <2>1 DEF Closing
  <2>4. \A k \in 1..Len(o) : /\ Closing(o)[k] = Close(o[Len(o) + 1 - k].name)
                             /\ Closing(o)[k] \in Pieces /\ ~IsText(Closing(o)[k])
    BY <1>2, <2>1, <2>2, <2>3
  <2>5. Closing(o) \in [1..Len(o) -> Pieces]
    BY <2>3, <2>4
  <2> QED
    BY <2>1, <2>4, <2>5
<1>4. ASSUME NEW o \in Seq(Opens), NEW x \in Opens
      PROVE  Closing(Append(o, x)) = <<Close(x.name)>> \o Closing(o)
  <2> DEFINE p == Append(o, x)
             c == Close(x.name)
             r == <<c>> \o Closing(o)
  <2>1. /\ p \in Seq(Opens) /\ Len(p) = Len(o) + 1 /\ Len(o) \in Nat
        /\ \A k \in 1..Len(o) : p[k] = o[k]
        /\ p[Len(o) + 1] = x
    BY AppendProperties, LenProperties
  <2>2. <<c>> \in Seq(Pieces) /\ Len(<<c>>) = 1 /\ <<c>>[1] = c
    BY <1>2
  <2>3. /\ r \in Seq(Pieces) /\ Len(r) = 1 + Len(o)
        /\ \A k \in 1..1 + Len(o) : r[k] = IF k <= 1 THEN <<c>>[k] ELSE Closing(o)[k - 1]
    BY <1>3, <2>2, ConcatProperties
  <2> HIDE DEF p, c, r
  <2>4. ASSUME NEW k \in 1..Len(p) PROVE Closing(p)[k] = r[k]
    <3>0. k \in 1..1 + Len(o)
      BY <2>1
    <3>1. Closing(p)[k] = Close(p[Len(p) + 1 - k].name)
      BY <1>3, <2>1
    <3>2. CASE k = 1
      <4>1. p[Len(p) + 1 - k] = x
        BY <2>1, <3>2
      <4> QED
        BY <2>2, <2>3, <3>0, <3>1, <3>2, <4>1 DEF c
    <3>3. CASE k # 1
      <4>1. k - 1 \in 1..Len(o) /\ Len(p) + 1 - k \in 1..Len(o) /\ ~(k <= 1)
            /\ Len(p) + 1 - k = Len(o) + 1 - (k - 1)
        BY <2>1, <3>3
      <4>2. p[Len(p) + 1 - k] = o[Len(o) + 1 - (k - 1)]
        BY <2>1, <4>1
      <4>3. Closing(o)[k - 1] = Close(o[Len(o) + 1 - (k - 1)].name)
        BY <1>3, <4>1
      <4> QED
        BY <2>3, <3>0, <3>1, <4>1, <4>2, <4>3
    <3> QED
      BY <3>2, <3>3
  <2>5. Closing(p) \in Seq(Pieces) /\ Len(Closing(p)) = Len(r) /\ Len(Closing(p)) = Len(p)
    BY <1>3, <2>1, <2>3
  <2>6. Closing(p) = r
    BY <2>3, <2>4, <2>5, SeqEqual
  <2> QED
    BY <2>6 DEF p, r, c
<1>5. ASSUME NEW o \in Seq(Opens), NEW x \in Opens
      PROVE  Size(Closing(Append(o, x))) = ClosingSize + Size(Closing(o))
  <2>1. <<Close(x.name)>> \in Seq(Pieces) /\ Size(<<Close(x.name)>>) = ClosingSize
    BY <1>2, Single
  <2>2. Size(<<Close(x.name)>> \o Closing(o)) = Size(<<Close(x.name)>>) + Size(Closing(o))
    BY <1>3, <2>1, SizeConcat
  <2> QED
    BY <1>4, <2>1, <2>2
<1> QED
  BY <1>1, <1>2, <1>3, <1>4, <1>5

\* The open tags are a message without text.
LEMMA OpenPieces == \A o \in Seq(Opens) : o \in Seq(Pieces) /\ \A k \in 1..Len(o) : ~IsText(o[k])
<1> SUFFICES ASSUME NEW o \in Seq(Opens) PROVE o \in Seq(Pieces) /\ \A k \in 1..Len(o) : ~IsText(o[k])
  OBVIOUS
<1>1. Opens \subseteq Pieces
  BY DEF Pieces
<1>2. \A k \in 1..Len(o) : o[k] \in Opens
  BY ElementOfSeq
<1> QED
  BY <1>1, <1>2, SeqMonotonic DEF Opens, IsText

\* The closing tags that are due close every open tag, and show nothing.
LEMMA ClosingRead ==
    ASSUME NEW d \in Docs
    PROVE  After(d, Closing(d.open)) = [d EXCEPT !.open = <<>>]
<1> DEFINE At(o) == [d EXCEPT !.open = o]
           T == {o \in Seq(Opens) : After(At(o), Closing(o)) = At(<<>>)}
<1>1. \A o \in Seq(Opens) : At(o) \in Docs
  BY DEF Docs
<1>2. <<>> \in T
  <2>1. <<>> \in Seq(Opens)
    BY EmptySeq
  <2>2. After(At(<<>>), <<>>) = At(<<>>)
    BY <1>1, <2>1, AfterFacts
  <2> QED
    BY <2>1, <2>2, ClosingFacts
<1>3. ASSUME NEW o \in Seq(Opens), NEW x \in Opens, o \in T PROVE Append(o, x) \in T
  <2> DEFINE p == Append(o, x)
             c == Close(x.name)
  <2>1. p \in Seq(Opens) /\ p # <<>> /\ Last(p) = x /\ Front(p) = o
    <3>1. p \in Seq(Opens) /\ p # <<>> /\ Len(p) = Len(o) + 1 /\ p[Len(o) + 1] = x
      BY AppendProperties
    <3>2. Front(p) \in Seq(Opens) /\ Last(p) \in Opens /\ p = Append(Front(p), Last(p))
      BY <3>1, FrontFacts
    <3> QED
      BY <3>1, <3>2, AppendInjective
  <2>2. c \in Pieces /\ Closing(o) \in Seq(Pieces) /\ Closing(p) = <<c>> \o Closing(o)
    BY ClosingFacts
  <2>3. c.is = "close" /\ c.name = x.name
    BY DEF Close
  <2> HIDE DEF p, c
  <2>4. Read(At(p), c) = At(o)
    <3>1. At(p) \in Docs /\ At(o) \in Docs /\ At(p).open = p /\ ClosesLast(At(p), c)
      BY <1>1, <2>1, <2>3 DEF ClosesLast, Docs
    <3>2. Without(p, c.name) = o
      BY <2>1, <2>3, WithoutFacts
    <3>3. At(p).text = d.text /\ At(p).valid = d.valid /\ d.valid \in BOOLEAN
          /\ At(o) = [open |-> o, text |-> d.text, valid |-> d.valid]
      BY DEF Docs
    <3> DEFINE e == At(p)
    <3> HIDE DEF At, e
    <3>4. Read(e, c) = [open |-> Without(e.open, c.name), text |-> e.text,
                        valid |-> (e.valid /\ ClosesLast(e, c))]
      BY <2>3, <3>1, ReadCases DEF e
    <3>5. (e.valid /\ ClosesLast(e, c)) = d.valid
      BY <3>1, <3>3 DEF e
    <3>6. Read(e, c) = At(o)
      BY <3>1, <3>2, <3>3, <3>4, <3>5 DEF e
    <3> QED
      BY <3>6 DEF e
  <2>5. At(p) \in Docs
    BY <1>1, <2>1
  <2> HIDE DEF At
  <2>6. After(At(p), <<c>>) = At(o) /\ <<c>> \in Seq(Pieces)
    BY <2>2, <2>4, <2>5, Single
  <2>7. After(At(p), <<c>> \o Closing(o)) = After(At(o), Closing(o))
    <3>1. After(At(p), <<c>> \o Closing(o)) = After(After(At(p), <<c>>), Closing(o))
      BY <2>2, <2>5, <2>6, AfterConcat
    <3> QED
      BY <2>6, <3>1
  <2>8. After(At(o), Closing(o)) = At(<<>>)
    BY <1>3
  <2>9. p \in T
    BY <2>1, <2>2, <2>7, <2>8
  <2> QED
    BY <2>9 DEF p
<1>4. d.open \in Seq(Opens) /\ At(d.open) = d
  BY DEF Docs
<1> HIDE DEF T
<1>5. d.open \in T
  BY <1>2, <1>3, <1>4, Appending
<1> QED
  BY <1>4, <1>5 DEF T

\* The tags opened again are the open tags of the next chunk.
LEMMA OpeningRead ==
    ASSUME NEW o \in Seq(Opens)
    PROVE  Parsed(o) = [open |-> o, text |-> <<>>, valid |-> TRUE]
<1> DEFINE At(p) == [open |-> p, text |-> <<>>, valid |-> TRUE]
           T == {p \in Seq(Opens) : After(Blank, p) = At(p)}
<1>1. Blank \in Docs /\ Blank = At(<<>>)
  BY EmptySeq DEF Blank, Docs
<1>2. <<>> \in T
  BY <1>1, EmptySeq, AfterFacts
<1>3. ASSUME NEW p \in Seq(Opens), NEW x \in Opens, p \in T PROVE Append(p, x) \in T
  <2>1. p \in Seq(Pieces) /\ x \in Pieces /\ x.is = "open"
    BY OpenPieces DEF Pieces, Opens
  <2>2. After(Blank, Append(p, x)) = Read(After(Blank, p), x)
    BY <1>1, <2>1, AfterFacts
  <2>3. Read(At(p), x) = At(Append(p, x))
    <3>1. At(p) \in Docs /\ At(p).open = p /\ At(p).text = <<>> /\ At(p).valid = TRUE
      BY EmptySeq DEF Docs
    <3>2. Read(At(p), x) = [open |-> Append(At(p).open, x), text |-> At(p).text, valid |-> At(p).valid]
      BY <2>1, <3>1, ReadCases
    <3> QED
      BY <3>1, <3>2
  <2>4. Append(p, x) \in Seq(Opens)
    BY AppendProperties
  <2> QED
    BY <1>3, <2>2, <2>3, <2>4
<1> HIDE DEF T
<1>4. o \in T
  BY <1>2, <1>3, Appending
<1> QED
  BY <1>4 DEF T, Parsed

\* The closing tags of as many tags are as long, and of one more longer by one.
LEMMA ClosingSizes ==
    ASSUME NEW o \in Seq(Opens)
    PROVE  /\ \A p \in Seq(Opens) : Len(p) = Len(o) => Size(Closing(p)) = Size(Closing(o))
           /\ \A p \in Seq(Opens) :
                 Len(o) = Len(p) + 1 => Size(Closing(o)) = Size(Closing(p)) + ClosingSize
<1> DEFINE T == {u \in Seq(Opens) :
                   \A p \in Seq(Opens) : Len(p) = Len(u) => Size(Closing(p)) = Size(Closing(u))}
<1>1. <<>> \in T
  <2>1. \A p \in Seq(Opens) : Len(p) = Len(<<>>) => p = <<>>
    BY EmptySeq
  <2> QED
    BY <2>1, EmptySeq
<1>2. ASSUME NEW u \in Seq(Opens), NEW x \in Opens, u \in T PROVE Append(u, x) \in T
  <2>1. Append(u, x) \in Seq(Opens) /\ Len(Append(u, x)) = Len(u) + 1 /\ Len(u) \in Nat
    BY AppendProperties, LenProperties
  <2>2. ASSUME NEW p \in Seq(Opens), Len(p) = Len(u) + 1
        PROVE  Size(Closing(p)) = Size(Closing(Append(u, x)))
    <3>1. p # <<>>
      BY <2>1, <2>2, EmptySeq
    <3>2. /\ Front(p) \in Seq(Opens) /\ Last(p) \in Opens /\ p = Append(Front(p), Last(p))
          /\ Len(Front(p)) = Len(u)
      <4>1. Front(p) \in Seq(Opens) /\ Last(p) \in Opens /\ p = Append(Front(p), Last(p))
        BY <3>1, FrontFacts
      <4>2. Len(p) = Len(Front(p)) + 1 /\ Len(Front(p)) \in Nat
        BY <4>1, AppendProperties, LenProperties
      <4> QED
        BY <2>1, <2>2, <4>1, <4>2
    <3>3. Size(Closing(Front(p))) = Size(Closing(u))
      BY <1>2, <3>2
    <3>4. Size(Closing(p)) = ClosingSize + Size(Closing(Front(p)))
      BY <3>2, ClosingFacts
    <3>5. Size(Closing(Append(u, x))) = ClosingSize + Size(Closing(u))
      BY ClosingFacts
    <3> QED
      BY <3>3, <3>4, <3>5
  <2> QED
    BY <2>1, <2>2
<1> HIDE DEF T
<1>3. \A u \in Seq(Opens) : u \in T
  BY <1>1, <1>2, Appending
<1>4. ASSUME NEW p \in Seq(Opens), Len(o) = Len(p) + 1
      PROVE  Size(Closing(o)) = Size(Closing(p)) + ClosingSize
  <2>1. PICK x \in Opens : TRUE
    <3>1. o # <<>>
      BY <1>4, EmptySeq, LenProperties
    <3> QED
      BY <3>1, FrontFacts
  <2>2. Append(p, x) \in Seq(Opens) /\ Len(Append(p, x)) = Len(o)
    BY <1>4, AppendProperties
  <2>3. Size(Closing(Append(p, x))) = Size(Closing(o))
    BY <1>3, <2>2 DEF T
  <2>4. Size(Closing(Append(p, x))) = ClosingSize + Size(Closing(p))
    BY ClosingFacts
  <2>5. Size(Closing(p)) \in Nat
    BY ClosingFacts, SizeFacts
  <2> QED
    BY <2>3, <2>4, <2>5, SplitAssumption
<1> QED
  BY <1>3, <1>4 DEF T

\* A tag that is closed makes the open ones shorter, and one closing tag fewer is due.
LEMMA WithoutSizes ==
    ASSUME NEW tags \in Seq(Opens), NEW name
    PROVE  /\ Size(Without(tags, name)) <= Size(tags)
           /\ (\E i \in DOMAIN tags : tags[i].name = name) =>
                 Size(Closing(tags)) = Size(Closing(Without(tags, name))) + ClosingSize
<1>1. \A t \in Seq(Opens) : t \in Seq(Pieces) /\ Size(t) \in Nat
  BY OpenPieces, SizeFacts
<1>2. CASE Without(tags, name) = tags /\ \A i \in DOMAIN tags : tags[i].name # name
  BY <1>1, <1>2
<1>3. ASSUME NEW i \in 1..Len(tags),
             Without(tags, name) = SubSeq(tags, 1, i - 1) \o SubSeq(tags, i + 1, Len(tags))
      PROVE  /\ Size(Without(tags, name)) <= Size(tags)
             /\ Size(Closing(tags)) = Size(Closing(Without(tags, name))) + ClosingSize
  <2> DEFINE a == SubSeq(tags, 1, i - 1)
             x == tags[i]
             b == SubSeq(tags, i + 1, Len(tags))
             p == SubSeq(tags, 1, i)
  <2>0. i - 1 \in 0..Len(tags) /\ i \in 0..Len(tags) /\ Len(tags) \in Nat /\ i \in Nat \ {0}
    BY LenProperties
  <2>1. /\ a \in Seq(Opens) /\ Len(a) = i - 1 /\ b \in Seq(Opens) /\ Len(b) = Len(tags) - i
        /\ p \in Seq(Opens) /\ tags = p \o b
    BY <2>0, TwoParts
  <2>2. x \in Opens
    BY <2>0, ElementOfSeq
  <2>3. p = Append(a, x)
    <3>1. p = a \o <<x>>
      <4>1. 1 \in 1..Len(tags) /\ i \in 1..Len(tags)
        BY <2>0
      <4> QED
        BY <4>1, SubSeqRecursiveSecond
    <3> QED
      BY <2>1, <2>2, <3>1, AppendIsConcat
  <2> HIDE DEF a, b, p, x
  <2>4. Without(tags, name) = a \o b
    BY <1>3 DEF a, b
  <2>5. Size(p) = Size(a) + x.size /\ x.size \in Nat
    <3>1. a \in Seq(Pieces) /\ x \in Pieces
      BY <1>1, <2>1, <2>2 DEF Pieces
    <3> QED
      BY <2>3, <3>1, SizeFacts, Kinds
  <2>6. Size(tags) = Size(p) + Size(b) /\ Size(a \o b) = Size(a) + Size(b)
    BY <1>1, <2>1, SizeConcat
  <2>7. Size(Without(tags, name)) <= Size(tags)
    BY <1>1, <2>1, <2>4, <2>5, <2>6
  <2>8. a \o b \in Seq(Opens) /\ Len(a \o b) = Len(tags) - 1
    <3>1. a \o b \in Seq(Opens) /\ Len(a \o b) = Len(a) + Len(b)
      BY <2>1, ConcatProperties
    <3> QED
      BY <2>0, <2>1, <3>1
  <2> DEFINE rest == a \o b
  <2>9. rest \in Seq(Opens) /\ Len(tags) = Len(rest) + 1
    BY <2>0, <2>8
  <2> HIDE DEF rest
  <2>10. Size(Closing(tags)) = Size(Closing(rest)) + ClosingSize
    BY <2>9, ClosingSizes
  <2> QED
    BY <2>4, <2>7, <2>10 DEF rest
<1> QED
  BY <1>2, <1>3, WithoutFacts

-----------------------------------------------------------------------------
\* Cutting

\* Min is in its set, and no element is smaller.
LEMMA Smallest ==
    ASSUME NEW S \in SUBSET Nat, S # {}
    PROVE  Min(S) \in S /\ \A k \in S : Min(S) <= k
<1>1. PICK m \in S : \A k \in S : m <= k
  BY Least
<1> QED
  BY <1>1 DEF Min

\* The text ahead: one character at least, and nothing else.
LEMMA RestFacts ==
    ASSUME todo \in Seq(Pieces), todo # <<>>, IsText(Head(todo))
    PROVE  \E n \in 1..Len(todo) : Rest = SubSeq(todo, 1, n) /\ \A k \in 1..n : IsText(todo[k])
<1> DEFINE N == {k \in 0..Len(todo) : k = Len(todo) \/ ~IsText(todo[k + 1])}
           n == Min(N)
<1>1. Len(todo) \in Nat \ {0} /\ Head(todo) = todo[1]
  BY EmptySeq
<1>2. Len(todo) \in N /\ N \in SUBSET Nat
  BY <1>1
<1>3. n \in N /\ \A k \in N : n <= k
  <2> HIDE DEF N
  <2> QED
    BY <1>2, Smallest
<1>4. Rest = SubSeq(todo, 1, n)
  BY DEF Rest
<1> HIDE DEF n
<1>5. n \in 0..Len(todo) /\ n # 0
  BY <1>1, <1>3
<1>6. ASSUME NEW k \in 1..n PROVE IsText(todo[k])
  <2>1. k - 1 \in 0..Len(todo) /\ ~(n <= k - 1) /\ (k - 1) + 1 = k
    BY <1>1, <1>5
  <2>2. k - 1 \notin N
    BY <1>3, <2>1
  <2> QED
    BY <2>1, <2>2
<1> QED
  BY <1>1, <1>4, <1>5, <1>6

\* Stripping takes newlines off the front.
LEMMA StrippedFacts ==
    ASSUME NEW s \in Seq(Pieces)
    PROVE  \E u \in Seq(Pieces) : /\ Stripped(s) \in Seq(Pieces) /\ s = u \o Stripped(s)
                                  /\ \A k \in 1..Len(u) : u[k] = Newline
<1> DEFINE N == {k \in DOMAIN s : s[k] # Newline}
<1>1. DOMAIN s = 1..Len(s) /\ Len(s) \in Nat
  BY LenProperties
<1>2. CASE N = {}
  <2>1. Stripped(s) = <<>> /\ \A k \in 1..Len(s) : s[k] = Newline
    BY <1>1, <1>2 DEF Stripped
  <2>2. s = s \o <<>> /\ <<>> \in Seq(Pieces)
    BY ConcatEmptySeq, EmptySeq
  <2> QED
    BY <2>1, <2>2
<1>3. CASE N # {}
  <2> DEFINE m == Min(N)
  <2>1. m \in N /\ \A k \in N : m <= k
    <3>1. N \in SUBSET Nat
      BY <1>1
    <3> HIDE DEF N
    <3> QED
      BY <1>3, <3>1, Smallest
  <2>2. Stripped(s) = SubSeq(s, m, Len(s))
    BY <1>3 DEF Stripped
  <2> HIDE DEF m
  <2>3. m \in 1..Len(s) /\ m - 1 \in 0..Len(s) /\ (m - 1) + 1 = m
    BY <1>1, <2>1
  <2> DEFINE u == SubSeq(s, 1, m - 1)
  <2>4. /\ u \in Seq(Pieces) /\ Len(u) = m - 1 /\ \A k \in 1..m - 1 : u[k] = s[k]
        /\ Stripped(s) \in Seq(Pieces) /\ s = u \o Stripped(s)
    BY <2>2, <2>3, TwoParts
  <2>5. ASSUME NEW k \in 1..m - 1 PROVE u[k] = Newline
    <3>1. k \in DOMAIN s /\ ~(m <= k)
      BY <1>1, <2>3
    <3>2. s[k] = Newline
      BY <2>1, <3>1
    <3> QED
      BY <2>4, <3>2
  <2> HIDE DEF u
  <2> QED
    BY <2>4, <2>5
<1> QED
  BY <1>2, <1>3

\* The cut leaves something in the chunk, and no more than there is room for.
LEMMA CutFacts ==
    ASSUME Available \in Int, Available > 0
    PROVE  CutAt \in 1..Available
<1> DEFINE N == {n \in 1..Available : todo[n + 1] = Newline}
<1>1. CASE N = {}
  BY <1>1 DEF CutAt
<1>2. CASE N # {}
  <2>1. N \in SUBSET (1..Available) /\ Available \in Nat
    OBVIOUS
  <2>2. CutAt = Max(N)
    BY <1>2 DEF CutAt
  <2> HIDE DEF N
  <2>3. Max(N) \in N
    BY <1>2, <2>1, Greatest
  <2> QED
    BY <2>1, <2>2, <2>3
<1> QED
  BY <1>1, <1>2

-----------------------------------------------------------------------------
\* Messages that fit

\* Every message has a document.
LEMMA ParsedType == \A s \in Seq(Pieces) : Parsed(s) \in Docs
<1>1. Blank \in Docs
  BY EmptySeq DEF Blank, Docs
<1> QED
  BY <1>1, AfterFacts DEF Parsed

\* ChunksFit of one chunk, and of the part of one that is still to be closed.
Fits(s) == Size(s) <= Limit \/ EndsWithTag(s)
Snug(s) == Size(s) + Size(Closing(Parsed(s).open)) <= Limit \/ EndsWithTag(s)

\* Tags after it change nothing of a message that ends with a tag.
LEMMA EndsOn ==
    ASSUME NEW s \in Seq(Pieces), EndsWithTag(s), NEW t \in Seq(Pieces),
           \A k \in 1..Len(t) : ~IsText(t[k])
    PROVE  EndsWithTag(s \o t)
<1> DEFINE u == s \o t
<1>1. /\ u \in Seq(Pieces) /\ Len(u) = Len(s) + Len(t) /\ Len(s) \in Nat /\ Len(t) \in Nat
      /\ \A k \in 1..Len(s) + Len(t) : u[k] = IF k <= Len(s) THEN s[k] ELSE t[k - Len(s)]
      /\ DOMAIN u = 1..Len(u) /\ DOMAIN s = 1..Len(s)
  BY ConcatProperties, LenProperties
<1>2. PICK n \in 1..Len(s) : Adds(s, n) /\ \A k \in n..Len(s) : ~IsText(s[k])
  BY <1>1 DEF EndsWithTag
<1>3. SubSeq(u, 1, n - 1) = SubSeq(s, 1, n - 1)
  <2>1. /\ n - 1 \in 0..Len(s) /\ n - 1 \in 0..Len(u)
    BY <1>1, <1>2
  <2> HIDE DEF u
  <2>2. /\ SubSeq(u, 1, n - 1) \in Seq(Pieces) /\ Len(SubSeq(u, 1, n - 1)) = n - 1
        /\ \A k \in 1..n - 1 : SubSeq(u, 1, n - 1)[k] = u[k]
        /\ SubSeq(s, 1, n - 1) \in Seq(Pieces) /\ Len(SubSeq(s, 1, n - 1)) = n - 1
        /\ \A k \in 1..n - 1 : SubSeq(s, 1, n - 1)[k] = s[k]
    BY <1>1, <2>1, TwoParts
  <2>3. \A k \in 1..n - 1 : u[k] = s[k]
    BY <1>1, <2>1
  <2> QED
    BY <2>2, <2>3, SeqEqual
<1> HIDE DEF u
<1>4. u[n] = s[n] /\ n \in DOMAIN u
  BY <1>1, <1>2
<1>5. Adds(u, n)
  BY <1>2, <1>3, <1>4 DEF Adds
<1>6. ASSUME NEW k \in n..Len(u) PROVE ~IsText(u[k])
  <2>1. CASE k <= Len(s)
    BY <1>1, <1>2, <2>1
  <2>2. CASE ~(k <= Len(s))
    <3>1. k - Len(s) \in 1..Len(t) /\ u[k] = t[k - Len(s)]
      BY <1>1, <1>2, <2>2
    <3> QED
      BY <3>1
  <2> QED
    BY <2>1, <2>2
<1>7. EndsWithTag(u)
  BY <1>4, <1>5, <1>6 DEF EndsWithTag
<1> QED
  BY <1>7 DEF u

\* A chunk that begins with open tags has room for them, or ends with one.
LEMMA OpenFits ==
    ASSUME NEW o \in Seq(Opens)
    PROVE  Snug(o)
<1>1. CASE o = <<>>
  <2>1. Parsed(o).open = o
    <3>1. Parsed(o) = [open |-> o, text |-> <<>>, valid |-> TRUE]
      BY OpeningRead
    <3> QED
      BY <3>1
  <2>2. Size(<<>>) = 0 /\ Size(Closing(<<>>)) = 0
    BY ClosingFacts, SizeFacts
  <2> QED
    BY <1>1, <2>1, <2>2, SplitAssumption DEF Snug
<1>2. CASE o # <<>>
  <2>1. DOMAIN o = 1..Len(o) /\ 1 \in 1..Len(o)
    BY <1>2, EmptySeq, LenProperties
  <2>2. o[1].is = "open" /\ \A k \in 1..Len(o) : ~IsText(o[k])
    <3>1. o[1] \in Opens
      BY <2>1, ElementOfSeq
    <3> QED
      BY <3>1, OpenPieces DEF Opens
  <2>3. Adds(o, 1)
    BY <2>2 DEF Adds
  <2> QED
    BY <2>1, <2>2, <2>3 DEF Snug, EndsWithTag
<1> QED
  BY <1>1, <1>2

\* A tag is paid for by the closing tag that is due no more, or the message ends with it.
LEMMA TagFits ==
    ASSUME NEW s \in Seq(Pieces), Snug(s), NEW x \in Pieces, ~IsText(x)
    PROVE  Snug(Append(s, x))
<1> DEFINE u == Append(s, x)
           o == Parsed(s).open
<1>1. /\ u \in Seq(Pieces) /\ Len(u) = Len(s) + 1 /\ Len(s) \in Nat
      /\ \A k \in 1..Len(s) : u[k] = s[k]
      /\ u[Len(s) + 1] = x
      /\ DOMAIN u = 1..Len(u)
  BY AppendProperties, LenProperties
<1>2. o \in Seq(Opens) /\ Parsed(s) \in Docs
  BY ParsedType DEF Docs
<1>3. SubSeq(u, 1, Len(s)) = s
  <2>1. Len(s) \in 0..Len(u)
    BY <1>1
  <2> HIDE DEF u
  <2>2. /\ SubSeq(u, 1, Len(s)) \in Seq(Pieces) /\ Len(SubSeq(u, 1, Len(s))) = Len(s)
        /\ \A k \in 1..Len(s) : SubSeq(u, 1, Len(s))[k] = u[k]
    BY <1>1, <2>1, TwoParts
  <2> QED
    BY <1>1, <2>2, SeqEqual
<1>4. Parsed(u) = Read(Parsed(s), x) /\ Size(u) = Size(s) + x.size
  <2>1. Blank \in Docs
    BY EmptySeq DEF Blank, Docs
  <2> QED
    BY <2>1, AfterFacts, SizeFacts DEF Parsed
<1>5. CASE EndsWithTag(s)
  <2>1. <<x>> \in Seq(Pieces) /\ u = s \o <<x>> /\ \A k \in 1..Len(<<x>>) : ~IsText(<<x>>[k])
    BY Single, AppendIsConcat
  <2> QED
    BY <1>5, <2>1, EndsOn DEF Snug
<1> HIDE DEF u, o
<1>6. CASE Adds(u, Len(s) + 1)
  <2>1. Len(s) + 1 \in DOMAIN u /\ \A k \in Len(s) + 1..Len(u) : ~IsText(u[k])
    BY <1>1
  <2> QED
    BY <1>6, <2>1 DEF Snug, EndsWithTag, u
<1>7. CASE ~Adds(u, Len(s) + 1) /\ ~EndsWithTag(s)
  <2>1. x.is = "close" /\ \E i \in DOMAIN o : o[i].name = x.name
    <3>1. (Len(s) + 1) - 1 = Len(s)
      BY <1>1
    <3>2. x.is # "open"
      BY <1>1, <1>7 DEF Adds
    <3>3. x.is = "close"
      BY <3>2 DEF IsText
    <3> QED
      BY <1>1, <1>3, <1>7, <3>1, <3>3 DEF Adds, o
  <2>2. Parsed(u).open = Without(o, x.name)
    BY <1>2, <1>4, <2>1 DEF Read, Docs, o
  <2>3. Size(Closing(o)) = Size(Closing(Without(o, x.name))) + ClosingSize
    BY <1>2, <2>1, WithoutSizes
  <2>4. x.size = ClosingSize
    BY <2>1, Kinds DEF Close
  <2>5. /\ Size(s) \in Nat /\ Size(Closing(Without(o, x.name))) \in Nat
        /\ Size(Closing(o)) \in Nat
    BY <1>2, WithoutFacts, ClosingFacts, SizeFacts
  <2>6. Size(s) + Size(Closing(o)) <= Limit
    BY <1>7 DEF Snug, o
  <2>7. Size(u) + Size(Closing(Parsed(u).open)) <= Limit
    BY <1>4, <2>2, <2>3, <2>4, <2>5, <2>6, SplitAssumption
  <2> QED
    BY <2>7 DEF Snug, u
<1> QED
  BY <1>5, <1>6, <1>7

-----------------------------------------------------------------------------
\* The splitter

\* A chunk adds its text to what is shown.
LEMMA ShownFacts ==
    ASSUME NEW cs \in Seq(Seq(Pieces))
    PROVE  /\ Shown(<<>>) = <<>>
           /\ Shown(cs) \in Seq(Seq(Opens))
           /\ \A c \in Seq(Pieces) : Shown(Append(cs, c)) = Shown(cs) \o Parsed(c).text
<1> DEFINE TextsOf(q) == [i \in DOMAIN q |-> Parsed(q[i]).text]
<1>1. ASSUME NEW q \in Seq(Seq(Pieces))
      PROVE  TextsOf(q) \in Seq(Seq(Seq(Opens))) /\ Len(TextsOf(q)) = Len(q)
  <2>1. Len(q) \in Nat /\ DOMAIN q = 1..Len(q) /\ \A i \in 1..Len(q) : q[i] \in Seq(Pieces)
    BY LenProperties, ElementOfSeq
  <2>2. \A i \in 1..Len(q) : Parsed(q[i]).text \in Seq(Seq(Opens))
    BY <2>1, ParsedType DEF Docs
  <2>3. TextsOf(q) \in [1..Len(q) -> Seq(Seq(Opens))]
    BY <2>1, <2>2
  <2> QED
    BY <2>1, <2>3
<1>2. Shown(<<>>) = <<>>
  <2>1. [i \in DOMAIN <<>> |-> Parsed(<<>>[i]).text] = <<>>
    OBVIOUS
  <2> QED
    BY <2>1, FlatFacts DEF Shown
<1>3. Shown(cs) \in Seq(Seq(Opens))
  BY <1>1, FlatFacts DEF Shown
<1>4. ASSUME NEW c \in Seq(Pieces) PROVE Shown(Append(cs, c)) = Shown(cs) \o Parsed(c).text
  <2> DEFINE p == Append(cs, c)
             t == Parsed(c).text
             q == Append(TextsOf(cs), t)
  <2>1. /\ p \in Seq(Seq(Pieces)) /\ Len(p) = Len(cs) + 1 /\ Len(cs) \in Nat
        /\ \A i \in 1..Len(cs) : p[i] = cs[i]
        /\ p[Len(cs) + 1] = c
    BY AppendProperties, LenProperties
  <2>2. t \in Seq(Seq(Opens))
    BY ParsedType DEF Docs
  <2>3. /\ q \in Seq(Seq(Seq(Opens))) /\ Len(q) = Len(cs) + 1
        /\ \A i \in 1..Len(cs) : q[i] = TextsOf(cs)[i]
        /\ q[Len(cs) + 1] = t
    <3>1. TextsOf(cs) \in Seq(Seq(Seq(Opens))) /\ Len(TextsOf(cs)) = Len(cs)
      BY <1>1
    <3> HIDE DEF TextsOf, t
    <3> QED
      BY <2>2, <3>1, AppendProperties
  <2> HIDE DEF q, p
  <2>4. ASSUME NEW i \in 1..Len(cs) + 1 PROVE TextsOf(p)[i] = q[i]
    <3>1. DOMAIN p = 1..Len(cs) + 1 /\ DOMAIN cs = 1..Len(cs)
      BY <2>1, LenProperties
    <3>2. CASE i = Len(cs) + 1
      BY <2>1, <2>3, <3>1, <3>2
    <3>3. CASE i # Len(cs) + 1
      <4>1. i \in 1..Len(cs)
        BY <2>1, <3>3
      <4> QED
        BY <2>1, <2>3, <3>1, <4>1
    <3> QED
      BY <3>2, <3>3
  <2>5. TextsOf(p) = q
    <3>1. TextsOf(p) \in Seq(Seq(Seq(Opens))) /\ Len(TextsOf(p)) = Len(cs) + 1
      BY <1>1, <2>1
    <3> HIDE DEF TextsOf
    <3> QED
      BY <2>3, <2>4, <3>1, SeqEqual
  <2>6. FlattenSeq(Append(TextsOf(cs), t)) = FlattenSeq(TextsOf(cs)) \o t
    <3>1. TextsOf(cs) \in Seq(Seq(Seq(Opens)))
      BY <1>1
    <3> HIDE DEF TextsOf, t
    <3> QED
      BY <2>2, <3>1, FlatFacts
  <2> QED
    BY <2>5, <2>6 DEF Shown, p, q
<1> QED
  BY <1>2, <1>3, <1>4

\* A chunk that is flushed is valid when what it holds is, shows its text, and fits.
LEMMA Flushing ==
    ASSUME NEW c \in Seq(Pieces), NEW o, o = Parsed(c).open
    PROVE  /\ o \in Seq(Opens) /\ Closing(o) \in Seq(Pieces) /\ o \in Seq(Pieces)
           /\ c \o Closing(o) \in Seq(Pieces)
           /\ Parsed(c).valid => Valid(c \o Closing(o))
           /\ Parsed(c \o Closing(o)).text = Parsed(c).text
           /\ Snug(c) => Fits(c \o Closing(o))
           /\ Parsed(o).valid /\ Parsed(o).open = o /\ Snug(o)
<1>1. /\ Blank \in Docs /\ Parsed(c) \in Docs /\ o \in Seq(Opens)
      /\ Parsed(c).text \in Seq(Seq(Opens))
  BY EmptySeq, ParsedType DEF Blank, Docs
<1>2. /\ Closing(o) \in Seq(Pieces) /\ \A k \in 1..Len(Closing(o)) : ~IsText(Closing(o)[k])
      /\ o \in Seq(Pieces) /\ \A k \in 1..Len(o) : ~IsText(o[k])
  BY <1>1, ClosingFacts, OpenPieces
<1>3. /\ c \o Closing(o) \in Seq(Pieces)
      /\ Parsed(c \o Closing(o)) = After(Parsed(c), Closing(o))
      /\ Size(c \o Closing(o)) = Size(c) + Size(Closing(o))
  BY <1>1, <1>2, AfterConcat, SizeConcat DEF Parsed
<1>4. After(Parsed(c), Closing(o)) = [Parsed(c) EXCEPT !.open = <<>>]
  BY <1>1, ClosingRead
<1>5. /\ Parsed(c).valid => Valid(c \o Closing(o))
      /\ Parsed(c \o Closing(o)).text = Parsed(c).text
  BY <1>1, <1>3, <1>4 DEF Valid, Docs
<1>6. Snug(c) => Fits(c \o Closing(o))
  BY <1>2, <1>3, EndsOn DEF Snug, Fits
<1>7. Parsed(o) = [open |-> o, text |-> <<>>, valid |-> TRUE]
  BY <1>1, OpeningRead
<1>8. Snug(o)
  BY <1>1, OpenFits
<1>9. Parsed(o).valid /\ Parsed(o).open = o
  BY <1>7
<1> QED
  BY <1>1, <1>2, <1>3, <1>5, <1>6, <1>8, <1>9

\* The next chunk goes on where it ends.
LEMMA GoingOn ==
    ASSUME NEW c \in Seq(Pieces), NEW r \in Seq(Pieces)
    PROVE  \E d \in Docs :
               /\ d = After(Parsed(Parsed(c).open), r)
               /\ After(Parsed(c), r).valid => d.valid
               /\ After(Parsed(c), r).text = Parsed(c).text \o d.text
<1> DEFINE o == Parsed(c).open
<1>1. /\ Parsed(c) \in Docs /\ o \in Seq(Opens) /\ o \in Seq(Pieces)
      /\ Parsed(c).text \in Seq(Seq(Opens)) /\ Parsed(o) \in Docs
  <2>1. Parsed(c) \in Docs
    BY ParsedType
  <2>2. o \in Seq(Opens) /\ Parsed(c).text \in Seq(Seq(Opens))
    BY <2>1 DEF Docs
  <2> QED
    BY <2>1, <2>2, OpenPieces, ParsedType
<1>0. o = Parsed(c).open
  OBVIOUS
<1> HIDE DEF o
<1>2. Parsed(o) = [open |-> o, text |-> <<>>, valid |-> TRUE]
  BY <1>1, OpeningRead
<1>3. Parsed(c).text \o <<>> = Parsed(c).text
  BY <1>1, ConcatEmptySeq
<1>4. Parsed(c) = [open |-> Parsed(o).open, text |-> Parsed(c).text \o Parsed(o).text,
                   valid |-> Parsed(o).valid /\ Parsed(c).valid]
  <2>1. Parsed(o).open = o /\ Parsed(o).valid = TRUE /\ Parsed(o).text = <<>>
    BY <1>2
  <2>2. Parsed(c) = [open |-> Parsed(c).open, text |-> Parsed(c).text, valid |-> Parsed(c).valid]
    BY <1>1 DEF Docs
  <2>3. Parsed(c).valid \in BOOLEAN
    BY <1>1 DEF Docs
  <2>4. (Parsed(o).valid /\ Parsed(c).valid) = Parsed(c).valid
    BY <2>1, <2>3
  <2> QED
    BY <1>0, <1>3, <2>1, <2>2, <2>4
<1>5. After(Parsed(c), r)
        = [open |-> After(Parsed(o), r).open, text |-> Parsed(c).text \o After(Parsed(o), r).text,
           valid |-> After(Parsed(o), r).valid /\ Parsed(c).valid]
  <2> DEFINE t == Parsed(c).text
             d == Parsed(o)
             v == Parsed(c).valid
  <2>1. t \in Seq(Seq(Opens)) /\ d \in Docs /\ v \in BOOLEAN
    BY <1>1 DEF Docs
  <2>2. Parsed(c) = [open |-> d.open, text |-> t \o d.text, valid |-> d.valid /\ v]
    BY <1>4
  <2> HIDE DEF t, d, v
  <2>3. After([open |-> d.open, text |-> t \o d.text, valid |-> d.valid /\ v], r)
          = [open |-> After(d, r).open, text |-> t \o After(d, r).text,
             valid |-> After(d, r).valid /\ v]
    BY <2>1, ReadAfterText
  <2> QED
    BY <2>2, <2>3 DEF t, d, v
<1>6. After(Parsed(o), r) \in Docs
  BY <1>1, AfterFacts
<1> DEFINE d == After(Parsed(o), r)
<1>7. /\ After(Parsed(c), r).valid => d.valid
      /\ After(Parsed(c), r).text = Parsed(c).text \o d.text
  <2>1. d.valid \in BOOLEAN
    BY <1>6 DEF Docs
  <2> DEFINE v == d.valid /\ Parsed(c).valid
             t == Parsed(c).text \o d.text
  <2>2. After(Parsed(c), r) = [open |-> d.open, text |-> t, valid |-> v]
    BY <1>5
  <2>3. v => d.valid
    BY <2>1
  <2> HIDE DEF v, t
  <2>4. After(Parsed(c), r).text = t /\ After(Parsed(c), r).valid = v
    BY <2>2
  <2> QED
    BY <2>3, <2>4 DEF t
<1> HIDE DEF d
<1>8. d \in Docs /\ d = After(Parsed(Parsed(c).open), r)
  BY <1>6 DEF d, o
<1> QED
  BY <1>7, <1>8

SplitTypeOK ==
    /\ message \in Messages
    /\ todo \in Seq(Pieces) /\ current \in Seq(Pieces)
    /\ length \in Nat
    /\ openTags \in Seq(Opens)
    /\ chunks \in Seq(Seq(Pieces))
    /\ finished \in BOOLEAN

\* What is left makes a valid message of the current chunk when there is one, and
\* with the chunks shows what the message does; the current chunk has the room for
\* its closing tags.
Underway ==
    LET whole == After(Parsed(current), todo)
    IN /\ length = Size(current)
       /\ Parsed(current).open = openTags /\ Size(openTags) <= length
       /\ Snug(current)
       /\ Valid(message) => whole.valid
       /\ Shown(chunks) \o whole.text = Parsed(message).text

SplitInv ==
    /\ SplitTypeOK
    /\ \A i \in 1..Len(chunks) : (Valid(message) => Valid(chunks[i])) /\ Fits(chunks[i])
    /\ ~finished => Underway
    /\ finished => Shown(chunks) = Parsed(message).text

\* A message within the limit is its only chunk; of any other all is to be read.
LEMMA SplitStarts == SplitInit => SplitInv
<1> SUFFICES ASSUME SplitInit PROVE SplitInv
  OBVIOUS
<1>1. /\ message \in Seq(Pieces) /\ message \in Messages
      /\ <<>> \in Seq(Pieces) /\ <<>> \in Seq(Opens) /\ <<>> \in Seq(Seq(Pieces))
  BY SplitAssumption, EmptySeq DEF SplitInit
<1>2. Parsed(message) \in Docs /\ Parsed(message).text \in Seq(Seq(Opens))
  BY <1>1, ParsedType DEF Docs
<1>3. finished = (Size(message) <= Limit) /\ Size(message) \in Nat /\ Limit \in Nat
  BY <1>1, SizeFacts, SplitAssumption DEF SplitInit
<1>4. Shown(<<>>) = <<>>
  BY <1>1, ShownFacts
<1>5. <<>> \o Parsed(message).text = Parsed(message).text
  BY <1>2, ConcatEmptySeq
<1>6. CASE finished
  <2>1. /\ chunks = <<message>> /\ todo = <<>> /\ current = <<>> /\ openTags = <<>>
        /\ length = 0
    BY <1>6 DEF SplitInit
  <2>2. chunks = Append(<<>>, message) /\ chunks \in Seq(Seq(Pieces)) /\ Len(chunks) = 1 /\ chunks[1] = message
    <3>1. ASSUME NEW S, NEW x \in S
          PROVE  /\ <<x>> = Append(<<>>, x) /\ <<x>> \in Seq(S)
                 /\ Len(<<x>>) = 1 /\ <<x>>[1] = x
      OBVIOUS
    <3> QED
      BY <1>1, <2>1, <3>1
  <2>3. Fits(message)
    BY <1>3, <1>6 DEF Fits
  <2>4. Shown(chunks) = Parsed(message).text
    BY <1>1, <1>4, <1>5, <2>2, ShownFacts
  <2>5. \A i \in 1..Len(chunks) : chunks[i] = message
    BY <2>2
  <2>6. SplitTypeOK
    BY <1>1, <1>3, <2>1, <2>2 DEF SplitTypeOK
  <2> QED
    BY <1>1, <1>6, <2>3, <2>4, <2>5, <2>6 DEF SplitInv
<1>7. CASE ~finished
  <2>1. chunks = <<>> /\ todo = message /\ current = <<>> /\ openTags = <<>> /\ length = 0
    BY <1>7 DEF SplitInit
  <2>2. Parsed(<<>>) = Blank
    <3>1. Blank \in Docs
      BY EmptySeq DEF Blank, Docs
    <3> QED
      BY <3>1, AfterFacts DEF Parsed
  <2>3. After(Parsed(<<>>), message) = Parsed(message)
    BY <2>2 DEF Parsed
  <2>4. Blank.valid /\ Blank.open = <<>>
    BY DEF Blank
  <2>5. Snug(<<>>) /\ Size(<<>>) = 0
    BY <1>1, OpenFits, SizeFacts
  <2>6. Underway
    <3>1. /\ length = Size(current) /\ Size(openTags) <= length
          /\ Parsed(current).open = openTags /\ Snug(current)
      BY <2>1, <2>2, <2>4, <2>5
    <3>2. After(Parsed(current), todo) = Parsed(message)
      BY <2>1, <2>3
    <3>3. Shown(chunks) \o Parsed(message).text = Parsed(message).text
      BY <1>4, <1>5, <2>1
    <3>4. Valid(message) => Parsed(message).valid
      BY DEF Valid
    <3> QED
      BY <3>1, <3>2, <3>3, <3>4 DEF Underway
  <2>7. SplitTypeOK
    BY <1>1, <1>3, <2>1 DEF SplitTypeOK
  <2>8. Len(chunks) = 0
    BY <2>1
  <2> QED
    BY <1>7, <2>6, <2>7, <2>8 DEF SplitInv
<1> QED
  BY <1>6, <1>7

\* The message is in two parts: what has been read, and what follows.
LEMMA ReadingOn ==
    ASSUME NEW c \in Seq(Pieces), NEW q \in Seq(Pieces), NEW r \in Seq(Pieces)
    PROVE  /\ c \o q \in Seq(Pieces) /\ Parsed(c \o q) = After(Parsed(c), q)
           /\ Size(c \o q) = Size(c) + Size(q)
           /\ q \o r \in Seq(Pieces)
           /\ After(Parsed(c), q \o r) = After(Parsed(c \o q), r)
<1>1. Blank \in Docs /\ Parsed(c) \in Docs
  BY EmptySeq, ParsedType DEF Blank, Docs
<1>2. c \o q \in Seq(Pieces) /\ Parsed(c \o q) = After(Parsed(c), q)
  BY <1>1, AfterConcat DEF Parsed
<1>3. q \o r \in Seq(Pieces) /\ After(Parsed(c), q \o r) = After(After(Parsed(c), q), r)
  BY <1>1, AfterConcat
<1> QED
  BY <1>2, <1>3, SizeConcat

\* A flush keeps the invariant when the chunk so far fits and goes on to the message.
LEMMA FlushKeeps ==
    ASSUME SplitInv, ~finished, NEW c \in Seq(Pieces), NEW r \in Seq(Pieces),
           Parsed(c).open = openTags, Snug(c),
           Valid(message) => After(Parsed(c), r).valid,
           Shown(chunks) \o After(Parsed(c), r).text = Parsed(message).text,
           chunks' = Append(chunks, c \o Closing(openTags)),
           current' = openTags, length' = Size(openTags), todo' = r,
           UNCHANGED <<message, openTags, finished>>
    PROVE  SplitInv'
<1> DEFINE chunk == c \o Closing(openTags)
           d == After(Parsed(openTags), r)
<1>1. /\ openTags \in Seq(Opens) /\ openTags \in Seq(Pieces) /\ chunk \in Seq(Pieces)
      /\ Valid(message) => Valid(chunk)
      /\ Fits(chunk) /\ Parsed(chunk).text = Parsed(c).text
      /\ Parsed(openTags).open = openTags /\ Snug(openTags)
      /\ Valid(message) => d.valid
      /\ After(Parsed(c), r).text = Parsed(c).text \o d.text
  <2>1. openTags = Parsed(c).open
    OBVIOUS
  <2>2. /\ openTags \in Seq(Opens) /\ openTags \in Seq(Pieces) /\ c \o Closing(openTags) \in Seq(Pieces)
        /\ Parsed(c).valid => Valid(c \o Closing(openTags))
        /\ Fits(c \o Closing(openTags))
        /\ Parsed(c \o Closing(openTags)).text = Parsed(c).text
        /\ Parsed(openTags).open = openTags /\ Snug(openTags)
    BY ONLY <2>1, c \in Seq(Pieces), Snug(c), Flushing
  <2>3. /\ After(Parsed(c), r).valid => d.valid
        /\ After(Parsed(c), r).text = Parsed(c).text \o d.text
    <3>1. PICK e \in Docs :
               /\ e = After(Parsed(Parsed(c).open), r)
               /\ After(Parsed(c), r).valid => e.valid
               /\ After(Parsed(c), r).text = Parsed(c).text \o e.text
      BY GoingOn
    <3>2. d = e
      BY <2>1, <3>1
    <3> HIDE DEF d
    <3> QED
      BY <3>1, <3>2
  <2>4. After(Parsed(c), r).valid => Parsed(c).valid
    BY ParsedType, InvalidStays
  <2> QED
    BY <2>2, <2>3, <2>4
<1>2. SplitTypeOK /\ chunks \in Seq(Seq(Pieces)) /\ Len(chunks) \in Nat
  BY LenProperties DEF SplitInv, SplitTypeOK
<1>3. Size(openTags) \in Nat
  BY <1>1, SizeFacts
<1>4. Parsed(c).text \in Seq(Seq(Opens)) /\ d.text \in Seq(Seq(Opens))
  <2>1. d \in Docs
    <3>1. Parsed(openTags) \in Docs
      BY <1>1, ParsedType
    <3> QED
      BY <3>1, AfterFacts
  <2> QED
    BY <2>1, ParsedType DEF Docs
<1> HIDE DEF chunk, d
<1>5. /\ chunks' \in Seq(Seq(Pieces)) /\ Len(chunks') = Len(chunks) + 1
      /\ \A i \in 1..Len(chunks) : chunks'[i] = chunks[i]
      /\ chunks'[Len(chunks) + 1] = chunk
  BY <1>1, <1>2, AppendProperties DEF chunk
<1>6. SplitTypeOK'
  BY <1>1, <1>2, <1>3, <1>5 DEF SplitTypeOK
<1>7. ASSUME NEW i \in 1..Len(chunks') PROVE (Valid(message) => Valid(chunks'[i])) /\ Fits(chunks'[i])
  <2>1. CASE i = Len(chunks) + 1
    BY <1>1, <1>5, <2>1
  <2>2. CASE i # Len(chunks) + 1
    <3>1. i \in 1..Len(chunks)
      <4>1. i \in 1..Len(chunks) + 1
        BY <1>5
      <4> QED
        BY <1>2, <2>2, <4>1
    <3> QED
      BY <1>5, <3>1 DEF SplitInv
  <2> QED
    BY <2>1, <2>2
<1>8. Shown(chunks') = Shown(chunks) \o Parsed(c).text
  BY <1>1, <1>2, ShownFacts DEF chunk
<1>9. Shown(chunks') \o d.text = Parsed(message).text
  <2>1. Shown(chunks) \in Seq(Seq(Opens))
    BY <1>2, ShownFacts
  <2>2. (Shown(chunks) \o Parsed(c).text) \o d.text = Shown(chunks) \o (Parsed(c).text \o d.text)
    <3> DEFINE a == Shown(chunks)
               b == Parsed(c).text
               e == d.text
               S == Seq(Opens)
    <3>1. a \in Seq(S) /\ b \in Seq(S) /\ e \in Seq(S)
      BY <1>4, <2>1
    <3> HIDE DEF a, b, e, S
    <3>2. (a \o b) \o e = a \o (b \o e)
      BY ONLY <3>1, ConcatAssociative, SMTT(60)
    <3> QED
      BY <3>2 DEF a, b, e
  <2>3. Parsed(c).text \o d.text = After(Parsed(c), r).text
    BY <1>1
  <2> QED
    BY <1>8, <2>2, <2>3
<1>10. Underway'
  <2>1. Size(openTags) <= Size(openTags)
    BY <1>3
  <2> QED
    BY <1>1, <1>9, <2>1 DEF Underway, d
<1> QED
  BY <1>6, <1>7, <1>10 DEF SplitInv

\* A tag goes to the chunk and opens or closes what it does in the message.
LEMMA ReadsTagKeeps == SplitInv /\ ReadsTag => SplitInv'
<1> SUFFICES ASSUME SplitInv, ReadsTag PROVE SplitInv'
  OBVIOUS
<1> DEFINE x == Head(todo)
           r == Tail(todo)
           P == Parsed(current)
<1>1. /\ ~finished /\ todo # <<>> /\ ~IsText(x)
      /\ current' = Append(current, x) /\ length' = length + x.size /\ todo' = r
      /\ message' = message /\ chunks' = chunks /\ finished' = finished
  BY DEF ReadsTag, Splitting
<1>2. SplitTypeOK /\ Underway
  BY <1>1 DEF SplitInv
<1>3. x \in Pieces /\ r \in Seq(Pieces) /\ todo = <<x>> \o r
  <2>1. todo \in Seq(Pieces) /\ todo # <<>>
    BY <1>1, <1>2 DEF SplitTypeOK
  <2>2. Len(todo) \in Nat \ {0} /\ x = todo[1] /\ r = SubSeq(todo, 2, Len(todo))
    BY <2>1, EmptySeq, TailIsSubSeq
  <2>3. todo = SubSeq(todo, 1, 1) \o SubSeq(todo, 1 + 1, Len(todo)) /\ SubSeq(todo, 1, 1) = <<x>>
    <3>1. 1 \in 0..Len(todo)
      BY <2>2
    <3>2. todo = SubSeq(todo, 1, 1) \o SubSeq(todo, 1 + 1, Len(todo))
      BY <2>1, <3>1, TwoParts
    <3>3. SubSeq(todo, 1, 1) = <<x>>
      <4>1. Len(SubSeq(todo, 1, 1)) = 1 /\ SubSeq(todo, 1, 1)[1] = todo[1] /\ SubSeq(todo, 1, 1) \in Seq(Pieces)
        BY <2>1, <3>1, TwoParts
      <4> DEFINE q == SubSeq(todo, 1, 1)
      <4>2. q \in Seq(Pieces) /\ Len(q) = 1 /\ q[1] = x
        BY <2>2, <4>1
      <4> HIDE DEF q, x
      <4>3. q = <<x>>
        BY <4>2
      <4> QED
        BY <4>3 DEF q
    <3> QED
      BY <3>2, <3>3
  <2> QED
    BY <2>1, <2>2, <2>3, HeadTailProperties
<1>4. current \in Seq(Pieces) /\ P \in Docs /\ openTags \in Seq(Opens) /\ length \in Nat
  BY <1>2, ParsedType DEF SplitTypeOK
<1> HIDE DEF x, r
<1>5. /\ <<x>> \in Seq(Pieces) /\ current' = current \o <<x>>
      /\ Size(<<x>>) = x.size /\ After(P, <<x>>) = Read(P, x)
  BY <1>1, <1>3, <1>4, Single, AppendIsConcat
<1>6. /\ current' \in Seq(Pieces) /\ Parsed(current') = Read(P, x)
      /\ Size(current') = Size(current) + x.size
      /\ After(P, todo) = After(Parsed(current'), r)
  <2> DEFINE q == <<x>>
  <2>1. q \in Seq(Pieces) /\ current \in Seq(Pieces) /\ r \in Seq(Pieces)
    BY <1>3, <1>4, <1>5
  <2> HIDE DEF q
  <2>2. /\ current \o q \in Seq(Pieces) /\ Parsed(current \o q) = After(Parsed(current), q)
        /\ Size(current \o q) = Size(current) + Size(q)
        /\ After(Parsed(current), q \o r) = After(Parsed(current \o q), r)
    BY ONLY <2>1, ReadingOn
  <2> QED
    BY <1>3, <1>5, <2>2 DEF q
<1> HIDE DEF P
<1>7. /\ P.open = openTags /\ Size(openTags) <= length /\ length = Size(current)
      /\ Snug(current)
  BY <1>2 DEF Underway, P
<1>15. /\ Valid(message) => After(P, todo).valid
      /\ Shown(chunks) \o After(P, todo).text = Parsed(message).text
  BY <1>2 DEF Underway, P
<1>8. Read(P, x) \in Docs
  BY <1>3, <1>4, ReadType
<1>10. openTags' = Read(P, x).open
  <2>1. CASE x.is = "open"
    <3>1. openTags' = Append(openTags, x)
      BY <2>1 DEF ReadsTag, x
    <3>2. Read(P, x) = [open |-> Append(P.open, x), text |-> P.text, valid |-> P.valid]
      BY <1>4, <2>1, ReadCases
    <3> QED
      BY <1>7, <3>1, <3>2
  <2>2. CASE x.is = "close"
    <3>1. openTags' = Without(openTags, x.name)
      BY <2>2 DEF ReadsTag, x
    <3>2. Read(P, x) = [open |-> Without(P.open, x.name), text |-> P.text,
                        valid |-> (P.valid /\ ClosesLast(P, x))]
      BY <1>4, <2>2, ReadCases
    <3>3. Read(P, x).open = Without(P.open, x.name)
      BY <3>2
    <3> QED
      BY <1>7, <3>1, <3>3
  <2> QED
    BY <1>1, <1>3, <2>1, <2>2, Kinds DEF IsText
<1>11. Snug(current')
  <2>1. Snug(current) /\ current \in Seq(Pieces) /\ x \in Pieces /\ ~IsText(x)
    BY <1>1, <1>3, <1>4, <1>7
  <2>2. Snug(Append(current, x))
    BY ONLY <2>1, TagFits
  <2> QED
    BY <1>1, <2>2
<1>9. Size(openTags') <= length'
  <2>1. Size(openTags) \in Nat /\ x.size \in Nat
    BY <1>3, <1>4, OpenPieces, SizeFacts, Kinds
  <2>2. CASE x.is = "open"
    <3>1. openTags' = Append(openTags, x)
      BY <2>2 DEF ReadsTag, x
    <3>2. Size(Append(openTags, x)) = Size(openTags) + x.size
      BY <1>3, <1>4, OpenPieces, SizeFacts
    <3>3. Size(openTags') = Size(openTags) + x.size
      BY <3>1, <3>2
    <3> QED
      BY <1>1, <1>4, <1>7, <2>1, <3>3
  <2>3. CASE x.is = "close"
    <3>1. openTags' = Without(openTags, x.name)
      BY <2>3 DEF ReadsTag, x
    <3>2. Size(Without(openTags, x.name)) <= Size(openTags)
      BY <1>4, WithoutSizes
    <3>3. Size(Without(openTags, x.name)) \in Nat
      BY <1>4, WithoutFacts, OpenPieces, SizeFacts
    <3>4. Size(openTags') <= Size(openTags) /\ Size(openTags') \in Nat
      BY <3>1, <3>2, <3>3
    <3> QED
      BY <1>1, <1>4, <1>7, <2>1, <3>4
  <2> QED
    BY <1>1, <2>2, <2>3 DEF IsText
<1>12. openTags' \in Seq(Opens) /\ length' \in Nat /\ length' = Size(current')
  <2>1. x.size \in Nat
    BY <1>3, Kinds
  <2>2. openTags' \in Seq(Opens)
    BY <1>8, <1>10 DEF Docs
  <2> QED
    BY <1>1, <1>4, <1>6, <1>7, <2>1, <2>2
<1>13. SplitTypeOK'
  BY <1>1, <1>2, <1>3, <1>6, <1>12 DEF SplitTypeOK
<1>14. Underway'
  <2>1. Parsed(current').open = openTags'
    BY <1>6, <1>10
  <2>2. After(Parsed(current'), todo') = After(P, todo)
    BY <1>1, <1>6
  <2>3. /\ Valid(message') => After(P, todo).valid
        /\ Shown(chunks') \o After(P, todo).text = Parsed(message').text
    BY <1>1, <1>15
  <2> QED
    BY <1>9, <1>11, <1>12, <2>1, <2>2, <2>3 DEF Underway
<1> QED
  BY <1>1, <1>13, <1>14 DEF SplitInv

\* What the four other steps start from.
LEMMA AtWork ==
    ASSUME SplitInv, ~finished
    PROVE  /\ SplitTypeOK /\ Underway
           /\ todo \in Seq(Pieces) /\ current \in Seq(Pieces) /\ openTags \in Seq(Opens)
           /\ Parsed(current) \in Docs
           /\ length \in Nat /\ length = Size(current)
           /\ Size(Closing(openTags)) \in Nat /\ Available \in Int
           /\ Available = Limit - length - Size(Closing(openTags))
<1>1. SplitTypeOK /\ Underway
  BY DEF SplitInv
<1>2. /\ todo \in Seq(Pieces) /\ current \in Seq(Pieces) /\ openTags \in Seq(Opens)
      /\ length \in Nat
  BY <1>1 DEF SplitTypeOK
<1>3. Size(Closing(openTags)) \in Nat
  BY <1>2, ClosingFacts, SizeFacts
<1>4. Available = Limit - length - Size(Closing(openTags)) /\ Available \in Int
  BY <1>2, <1>3, SplitAssumption DEF Available
<1>5. length = Size(current)
  BY <1>1 DEF Underway
<1> QED
  BY <1>1, <1>2, <1>3, <1>4, <1>5, ParsedType

\* Text that there is room for can be added to a chunk.
LEMMA TextAdded ==
    ASSUME SplitInv, ~finished, NEW q \in Seq(Pieces), NEW r \in Seq(Pieces),
           Len(q) \in Nat \ {0}, \A k \in 1..Len(q) : IsText(q[k]), Len(q) <= Available,
           After(Parsed(current), todo) = After(Parsed(current), q \o r)
    PROVE  LET c == current \o q
           IN /\ c \in Seq(Pieces) /\ Size(c) = length + Len(q)
              /\ Parsed(c).open = openTags /\ Snug(c)
              /\ After(Parsed(c), r) = After(Parsed(current), todo)
<1> DEFINE c == current \o q
<1>1. /\ Underway /\ current \in Seq(Pieces) /\ Parsed(current) \in Docs
      /\ length \in Nat /\ length = Size(current)
      /\ Size(Closing(openTags)) \in Nat /\ Available = Limit - length - Size(Closing(openTags))
  BY AtWork
<1>2. /\ c \in Seq(Pieces) /\ Parsed(c) = After(Parsed(current), q)
      /\ Size(c) = Size(current) + Size(q)
      /\ After(Parsed(current), q \o r) = After(Parsed(c), r)
  BY <1>1, ReadingOn
<1>3. /\ After(Parsed(current), q).open = Parsed(current).open
      /\ After(Parsed(current), q).valid = Parsed(current).valid
      /\ Size(q) = Len(q)
  BY <1>1, TextRead
<1>4. Parsed(current).open = openTags
  BY <1>1 DEF Underway
<1> HIDE DEF c
<1>6. Parsed(c).open = openTags /\ Size(c) = length + Len(q)
  BY <1>1, <1>2, <1>3, <1>4
<1>7. Size(c) + Size(Closing(Parsed(c).open)) <= Limit
  BY <1>1, <1>6, SplitAssumption
<1>8. Snug(c)
  BY <1>7 DEF Snug
<1>9. After(Parsed(c), r) = After(Parsed(current), todo)
  BY <1>2
<1> QED
  BY <1>2, <1>6, <1>8, <1>9 DEF c

\* A flush without text moves the open tags to a new chunk.
LEMMA NoRoomKeeps == SplitInv /\ NoRoom => SplitInv'
<1> SUFFICES ASSUME SplitInv, NoRoom PROVE SplitInv'
  OBVIOUS
<1>1. /\ ~finished
      /\ chunks' = Append(chunks, current \o <<>> \o Closing(openTags))
      /\ current' = openTags /\ length' = Size(openTags) /\ todo' = todo
      /\ UNCHANGED <<message, openTags, finished>>
  BY DEF NoRoom, ReadingText, Splitting, Flushes
<1>2. Underway /\ todo \in Seq(Pieces) /\ current \in Seq(Pieces)
  BY <1>1, AtWork
<1>3. current \o <<>> = current
  BY <1>2, ConcatEmptySeq
<1>4. chunks' = Append(chunks, current \o Closing(openTags))
  BY <1>1, <1>3
<1>5. /\ Parsed(current).open = openTags /\ Snug(current)
      /\ Valid(message) => After(Parsed(current), todo).valid
      /\ Shown(chunks) \o After(Parsed(current), todo).text = Parsed(message).text
  BY <1>2 DEF Underway
<1> QED
  BY <1>1, <1>2, <1>4, <1>5, FlushKeeps

\* The text ahead, and what follows it.
LEMMA RestParts ==
    ASSUME SplitInv, ReadingText
    PROVE  LET r == SubSeq(todo, Len(Rest) + 1, Len(todo))
           IN /\ Rest \in Seq(Pieces) /\ Len(Rest) \in Nat \ {0}
              /\ \A k \in 1..Len(Rest) : IsText(Rest[k])
              /\ r \in Seq(Pieces) /\ todo = Rest \o r
<1>1. ~finished /\ todo # <<>> /\ IsText(Head(todo))
  BY DEF ReadingText, Splitting
<1>2. todo \in Seq(Pieces)
  BY <1>1, AtWork
<1>3. PICK n \in 1..Len(todo) : Rest = SubSeq(todo, 1, n) /\ \A k \in 1..n : IsText(todo[k])
  BY <1>1, <1>2, RestFacts
<1>4. n \in 0..Len(todo) /\ n \in Nat \ {0}
  BY <1>2, <1>3, LenProperties
<1>5. /\ Rest \in Seq(Pieces) /\ Len(Rest) = n /\ \A k \in 1..n : Rest[k] = todo[k]
      /\ SubSeq(todo, n + 1, Len(todo)) \in Seq(Pieces)
      /\ todo = Rest \o SubSeq(todo, n + 1, Len(todo))
  BY <1>2, <1>3, <1>4, TwoParts
<1> QED
  BY <1>3, <1>4, <1>5

\* Text that fits moves from what is left to the chunk.
LEMMA TakesAllKeeps == SplitInv /\ TakesAll => SplitInv'
<1> SUFFICES ASSUME SplitInv, TakesAll PROVE SplitInv'
  OBVIOUS
<1> DEFINE q == Rest
           r == SubSeq(todo, Len(Rest) + 1, Len(todo))
<1>1. /\ ~finished /\ ReadingText /\ Len(q) <= Available
      /\ current' = current \o q /\ length' = length + Len(q) /\ todo' = r
      /\ UNCHANGED <<message, openTags, chunks, finished>>
  BY DEF TakesAll, ReadingText, Splitting
<1>2. /\ q \in Seq(Pieces) /\ Len(q) \in Nat \ {0} /\ \A k \in 1..Len(q) : IsText(q[k])
      /\ r \in Seq(Pieces) /\ todo = q \o r
  BY <1>1, RestParts
<1>3. SplitTypeOK /\ Underway /\ length \in Nat
  BY <1>1, AtWork
<1> HIDE DEF q, r
<1>4. /\ current' \in Seq(Pieces) /\ Size(current') = length'
      /\ Parsed(current').open = openTags /\ Snug(current')
      /\ After(Parsed(current'), r) = After(Parsed(current), todo)
  BY <1>1, <1>2, TextAdded
<1>5. /\ Valid(message) => After(Parsed(current), todo).valid
      /\ Size(openTags) <= length
      /\ Shown(chunks) \o After(Parsed(current), todo).text = Parsed(message).text
  BY <1>3 DEF Underway
<1>6. SplitTypeOK'
  BY <1>1, <1>2, <1>3, <1>4 DEF SplitTypeOK
<1>7. Underway'
  <2>1. Size(openTags) <= length'
    <3>1. Size(openTags) \in Nat
      BY <1>3, OpenPieces, SizeFacts DEF SplitTypeOK
    <3> QED
      BY <1>1, <1>2, <1>3, <1>5, <3>1
  <2> QED
    BY <1>1, <1>4, <1>5, <2>1 DEF Underway
<1> QED
  BY <1>1, <1>6, <1>7 DEF SplitInv

\* Of text that does not fit a part moves, and newlines are dropped.
LEMMA CutsKeeps == SplitInv /\ Cuts => SplitInv'
<1> SUFFICES ASSUME SplitInv, Cuts PROVE SplitInv'
  OBVIOUS
<1> DEFINE n == CutAt
           q == SubSeq(Rest, 1, n)
           u == SubSeq(Rest, n + 1, Len(Rest))
           r == SubSeq(todo, Len(Rest) + 1, Len(todo))
           c == current \o q
<1>1. /\ ~finished /\ ReadingText /\ Available > 0 /\ Len(Rest) > Available
      /\ chunks' = Append(chunks, c \o Closing(openTags))
      /\ current' = openTags /\ length' = Size(openTags) /\ todo' = Stripped(u) \o r
      /\ UNCHANGED <<message, openTags, finished>>
  BY DEF Cuts, ReadingText, Splitting, Flushes
<1>2. /\ Rest \in Seq(Pieces) /\ Len(Rest) \in Nat \ {0} /\ \A k \in 1..Len(Rest) : IsText(Rest[k])
      /\ r \in Seq(Pieces) /\ todo = Rest \o r
  BY <1>1, RestParts
<1>3. Underway /\ current \in Seq(Pieces) /\ Parsed(current) \in Docs /\ Available \in Int
  BY <1>1, AtWork
<1>4. n \in 1..Available
  BY <1>1, <1>3, CutFacts
<1> HIDE DEF n
<1>5. n \in 0..Len(Rest) /\ n \in Nat \ {0} /\ n <= Available
  BY <1>1, <1>2, <1>3, <1>4
<1>6. /\ q \in Seq(Pieces) /\ Len(q) = n /\ \A k \in 1..n : q[k] = Rest[k]
      /\ u \in Seq(Pieces) /\ Rest = q \o u
  BY <1>2, <1>5, TwoParts
<1>7. ASSUME NEW k \in 1..Len(q) PROVE IsText(q[k])
  <2>1. k \in 1..n
    BY <1>6
  <2>2. k \in 1..Len(Rest)
    BY <1>2, <1>5, <2>1
  <2>3. q[k] = Rest[k]
    BY <1>6, <2>1
  <2> HIDE DEF q
  <2> QED
    BY <1>2, <2>2, <2>3
<1> HIDE DEF q, u, r, c
<1>8. PICK v \in Seq(Pieces) : /\ Stripped(u) \in Seq(Pieces) /\ u = v \o Stripped(u)
                               /\ \A k \in 1..Len(v) : v[k] = Newline
  BY <1>6, StrippedFacts
<1>15. \A k \in 1..Len(v) : IsWhite(v[k])
  BY <1>8, NewlineIsWhite
<1> DEFINE t == Stripped(u) \o r
<1>9. t \in Seq(Pieces)
  BY <1>2, <1>8, ConcatProperties
<1>10. todo = q \o (v \o t) /\ v \o t \in Seq(Pieces)
  <2>1. todo = (q \o u) \o r
    BY <1>2, <1>6
  <2>2. (q \o u) \o r = q \o (u \o r)
    <3>1. q \in Seq(Pieces) /\ u \in Seq(Pieces) /\ r \in Seq(Pieces)
      BY <1>2, <1>6
    <3> QED
      BY ONLY <3>1, ConcatAssociative
  <2>3. u \o r = v \o t
    <3>1. (v \o Stripped(u)) \o r = v \o (Stripped(u) \o r)
      <4>1. v \in Seq(Pieces) /\ Stripped(u) \in Seq(Pieces) /\ r \in Seq(Pieces)
        BY <1>2, <1>8
      <4> QED
        BY ONLY <4>1, ConcatAssociative
    <3> QED
      BY <1>8, <3>1
  <2>4. v \o t \in Seq(Pieces)
    BY <1>8, <1>9, ConcatProperties
  <2> HIDE DEF t
  <2> QED
    BY <2>1, <2>2, <2>3, <2>4
<1> HIDE DEF t
<1>11. /\ c \in Seq(Pieces) /\ Parsed(c).open = openTags /\ Snug(c)
       /\ After(Parsed(c), v \o t) = After(Parsed(current), todo)
  <2>1. After(Parsed(current), todo) = After(Parsed(current), q \o (v \o t))
    BY <1>10
  <2> QED
    BY <1>1, <1>5, <1>6, <1>7, <1>10, <2>1, TextAdded DEF c
<1>12. After(Parsed(c), v \o t) = After(Parsed(c), t)
  <2>1. Parsed(c) \in Docs
    BY <1>11, ParsedType
  <2>2. After(Parsed(c), v \o t) = After(After(Parsed(c), v), t)
    BY <1>8, <1>9, <2>1, AfterConcat
  <2>3. After(Parsed(c), v) = Parsed(c)
    BY <1>8, <1>15, <2>1, WhiteRead
  <2> QED
    BY <2>2, <2>3
<1>13. /\ Valid(message) => After(Parsed(c), t).valid
       /\ Shown(chunks) \o After(Parsed(c), t).text = Parsed(message).text
  BY <1>3, <1>11, <1>12 DEF Underway
<1>14. /\ chunks' = Append(chunks, c \o Closing(openTags))
       /\ current' = openTags /\ length' = Size(openTags) /\ todo' = t
  BY <1>1 DEF t
<1> QED
  BY <1>1, <1>9, <1>11, <1>13, <1>14, FlushKeeps

\* At the end nothing is open, and what is dropped shows nothing.
LEMMA EndsKeeps == SplitInv /\ Ends => SplitInv'
<1> SUFFICES ASSUME SplitInv, Ends PROVE SplitInv'
  OBVIOUS
<1>1. /\ ~finished /\ todo = <<>> /\ finished' = TRUE /\ current' = <<>> /\ length' = 0
      /\ UNCHANGED <<message, todo, openTags>>
  BY DEF Ends
<1>2. SplitTypeOK /\ Underway /\ current \in Seq(Pieces) /\ Parsed(current) \in Docs
  BY <1>1, AtWork
<1>3. After(Parsed(current), todo) = Parsed(current)
  BY <1>1, <1>2, AfterFacts
<1>4. /\ Valid(message) => Parsed(current).valid
      /\ Parsed(current).open = openTags
      /\ Snug(current) /\ Shown(chunks) \o Parsed(current).text = Parsed(message).text
  BY <1>2, <1>3 DEF Underway
<1>5. /\ chunks \in Seq(Seq(Pieces)) /\ DOMAIN current = 1..Len(current)
      /\ Len(chunks) \in Nat /\ <<>> \in Seq(Pieces)
  BY <1>2, LenProperties, EmptySeq DEF SplitTypeOK
<1>6. CASE \A i \in DOMAIN current : IsWhite(current[i])
  <2>1. chunks' = chunks
    BY <1>6 DEF Ends
  <2>2. Blank \in Docs
    BY EmptySeq DEF Blank, Docs
  <2>3. Parsed(current) = Blank
    BY <1>2, <1>5, <1>6, <2>2, WhiteRead DEF Parsed
  <2>4. Parsed(current).text = <<>>
    BY <2>3 DEF Blank
  <2>5. Shown(chunks) = Parsed(message).text
    <3>1. Shown(chunks) \in Seq(Seq(Opens))
      BY <1>5, ShownFacts
    <3>2. Shown(chunks) \o <<>> = Shown(chunks)
      BY <3>1, ConcatEmptySeq
    <3> QED
      BY <1>4, <2>4, <3>2
  <2>6. SplitTypeOK'
    BY <1>1, <1>2, <1>5, <2>1 DEF SplitTypeOK
  <2> QED
    BY <1>1, <2>1, <2>5, <2>6 DEF SplitInv
<1>7. CASE ~\A i \in DOMAIN current : IsWhite(current[i])
  <2> DEFINE c == current \o Closing(openTags)
  <2>1. chunks' = Append(chunks, c)
    BY <1>7 DEF Ends
  <2>2. /\ c \in Seq(Pieces) /\ Fits(c) /\ Parsed(c).text = Parsed(current).text
        /\ Valid(message) => Valid(c)
    BY <1>2, <1>4, Flushing
  <2> HIDE DEF c
  <2>3. /\ chunks' \in Seq(Seq(Pieces)) /\ Len(chunks') = Len(chunks) + 1
        /\ \A i \in 1..Len(chunks) : chunks'[i] = chunks[i]
        /\ chunks'[Len(chunks) + 1] = c
    BY <1>5, <2>1, <2>2, AppendProperties
  <2>4. Shown(chunks') = Parsed(message).text
    BY <1>4, <1>5, <2>1, <2>2, ShownFacts
  <2>5. ASSUME NEW i \in 1..Len(chunks') PROVE (Valid(message) => Valid(chunks'[i])) /\ Fits(chunks'[i])
    <3>1. CASE i = Len(chunks) + 1
      BY <2>2, <2>3, <3>1
    <3>2. CASE i # Len(chunks) + 1
      <4>1. i \in 1..Len(chunks) + 1
        BY <2>3
      <4>2. i \in 1..Len(chunks)
        BY <1>5, <3>2, <4>1
      <4> QED
        BY <2>3, <4>2 DEF SplitInv
    <3> QED
      BY <3>1, <3>2
  <2>6. SplitTypeOK'
    BY <1>1, <1>2, <1>5, <2>3 DEF SplitTypeOK
  <2> QED
    BY <1>1, <2>4, <2>5, <2>6 DEF SplitInv
<1> QED
  BY <1>6, <1>7

\* SplitInv is inductive.
LEMMA SplitInvariant == SplitSpec => []SplitInv
<1>1. SplitInv /\ [SplitNext]_splitVars => SplitInv'
  <2>1. CASE UNCHANGED splitVars
    <3>1. UNCHANGED splitVars /\ SplitInv => SplitInv'
      BY DEF splitVars, SplitInv, SplitTypeOK, Underway, Shown
    <3> QED
      BY <2>1, <3>1
  <2> QED
    BY <2>1, ReadsTagKeeps, NoRoomKeeps, TakesAllKeeps, CutsKeeps, EndsKeeps DEF SplitNext
<1> QED
  BY <1>1, SplitStarts, PTL DEF SplitSpec

\* The chunks of any message show its characters once, in order, each with the tags it
\* had, and every chunk of a valid message is valid HTML on its own:
\* split_telegram_html closes and reopens what is open at every boundary.
THEOREM FormattingIsKept == SplitSpec => []FormattingKept
<1>1. SplitInv => FormattingKept
  <2>1. SplitInv => DOMAIN chunks = 1..Len(chunks)
    BY LenProperties DEF SplitInv, SplitTypeOK
  <2> QED
    BY <2>1 DEF SplitInv, FormattingKept
<1> QED
  BY <1>1, SplitInvariant, PTL

\* Every chunk, with all its tags, is within the limit split_telegram_html is given,
\* unless it ends with a tag that opens, or closes nothing, after its last character.
THEOREM ChunksFitTheLimit == SplitSpec => []ChunksFit
<1>1. SplitInv => ChunksFit
  <2>1. SplitInv => DOMAIN chunks = 1..Len(chunks)
    BY LenProperties DEF SplitInv, SplitTypeOK
  <2> QED
    BY <2>1 DEF SplitInv, ChunksFit, Fits
<1> QED
  BY <1>1, SplitInvariant, PTL

-----------------------------------------------------------------------------
\* The loop goes on

\* Between tags that fill a chunk there is no room.
LEMMA CrowdedHasNoRoom == SplitInv /\ ReadingText /\ Crowded => Available <= 0
<1> SUFFICES ASSUME SplitInv, ReadingText, Crowded PROVE Available <= 0
  OBVIOUS
<1>1. ~finished
  BY DEF ReadingText, Splitting
<1>2. /\ Underway /\ length \in Nat /\ openTags \in Seq(Opens)
      /\ Size(Closing(openTags)) \in Nat
      /\ Available = Limit - length - Size(Closing(openTags))
  BY <1>1, AtWork
<1>3. Size(openTags) \in Nat /\ Size(openTags) <= length
  BY <1>2, OpenPieces, SizeFacts DEF Underway
<1> QED
  BY <1>2, <1>3, SplitAssumption DEF Crowded

\* What is left of the message after the text ahead, or a part of it, is shorter.
LEMMA Shortens ==
    ASSUME SplitInv, TakesAll \/ Cuts
    PROVE  Len(todo') < Len(todo)
<1> DEFINE r == SubSeq(todo, Len(Rest) + 1, Len(todo))
<1>1. ReadingText
  BY DEF TakesAll, Cuts
<1>2. /\ Rest \in Seq(Pieces) /\ Len(Rest) \in Nat \ {0}
      /\ r \in Seq(Pieces) /\ todo = Rest \o r
  BY <1>1, RestParts
<1> HIDE DEF r
<1>3. Len(todo) = Len(Rest) + Len(r) /\ Len(r) \in Nat
  BY <1>2, ConcatProperties, LenProperties
<1>4. CASE TakesAll
  <2>1. todo' = r
    BY <1>4 DEF TakesAll, r
  <2> QED
    BY <1>2, <1>3, <2>1
<1>5. CASE Cuts
  <2> DEFINE u == SubSeq(Rest, CutAt + 1, Len(Rest))
  <2>1. ~finished /\ Available > 0 /\ Len(Rest) > Available /\ todo' = Stripped(u) \o r
    BY <1>1, <1>5 DEF Cuts, r, ReadingText, Splitting
  <2>2. Available \in Int
    BY <2>1, AtWork
  <2>3. CutAt \in 1..Available
    BY <2>1, <2>2, CutFacts
  <2>4. CutAt \in 0..Len(Rest) /\ CutAt \in Nat \ {0}
    BY <1>2, <2>1, <2>2, <2>3
  <2>5. u \in Seq(Pieces) /\ Len(u) = Len(Rest) - CutAt
    BY <1>2, <2>4, TwoParts
  <2> HIDE DEF u
  <2>6. PICK v \in Seq(Pieces) : Stripped(u) \in Seq(Pieces) /\ u = v \o Stripped(u)
    BY <2>5, StrippedFacts
  <2>7. /\ Len(u) = Len(v) + Len(Stripped(u)) /\ Len(v) \in Nat /\ Len(Stripped(u)) \in Nat
        /\ Len(todo') = Len(Stripped(u)) + Len(r)
    BY <1>2, <2>1, <2>6, ConcatProperties, LenProperties
  <2> QED
    BY <1>2, <1>3, <2>4, <2>5, <2>7
<1> QED
  BY <1>4, <1>5

\* The splitter goes on exactly as long as it does not come to text between tags that
\* fill a chunk, for any message and any limit: the loop over the tokens ends then.
THEOREM SplitGoesOn == SplitSpec => SplitAdvances
<1> DEFINE Advances ==
             IF ReadingText /\ Crowded THEN todo' = todo /\ ~finished'
             ELSE Len(todo') < Len(todo) \/ finished' \/ (Available <= 0 /\ Available' > 0)
<1>1. SplitInv /\ [SplitNext]_splitVars => [Advances]_splitVars
  <2> SUFFICES ASSUME SplitInv, SplitNext PROVE Advances
    OBVIOUS
  <2>1. CASE ReadsTag
    <3>1. ~ReadingText /\ todo' = Tail(todo) /\ todo # <<>>
      BY <2>1 DEF ReadsTag, ReadingText, Splitting
    <3>2. todo \in Seq(Pieces)
      BY DEF SplitInv, SplitTypeOK
    <3>3. Len(todo') < Len(todo)
      BY <3>1, <3>2, HeadTailProperties, LenProperties, EmptySeq
    <3> QED
      BY <3>1, <3>3
  <2>2. CASE NoRoom
    <3>1. /\ ~finished /\ ReadingText /\ Available <= 0
          /\ length' = Size(openTags) /\ todo' = todo
          /\ UNCHANGED <<openTags, finished>>
      BY <2>2 DEF NoRoom, ReadingText, Splitting, Flushes
    <3>2. Size(openTags) \in Nat /\ Size(Closing(openTags)) \in Nat
      BY <3>1, AtWork, OpenPieces, SizeFacts
    <3>3. Available' = Limit - Size(openTags) - Size(Closing(openTags))
      BY <3>1 DEF Available
    <3>4. ~Crowded => Available' > 0
      BY <3>2, <3>3, SplitAssumption DEF Crowded
    <3> QED
      BY <3>1, <3>4
  <2>3. CASE TakesAll
    <3>1. ~finished /\ ReadingText /\ Len(Rest) <= Available
      BY <2>3 DEF TakesAll, ReadingText, Splitting
    <3>2. Len(Rest) \in Nat \ {0} /\ Available \in Int
      BY <3>1, AtWork, RestParts
    <3>3. ~(Available <= 0)
      BY <3>1, <3>2
    <3>4. ~Crowded
      BY <3>1, <3>3, CrowdedHasNoRoom
    <3> QED
      BY <2>3, <3>4, Shortens
  <2>4. CASE Cuts
    <3>1. ~finished /\ ReadingText /\ Available > 0
      BY <2>4 DEF Cuts, ReadingText, Splitting
    <3>2. Available \in Int
      BY <3>1, AtWork
    <3>3. ~(Available <= 0)
      BY <3>1, <3>2
    <3>4. ~Crowded
      BY <3>1, <3>3, CrowdedHasNoRoom
    <3> QED
      BY <2>4, <3>4, Shortens
  <2>5. CASE Ends
    BY <2>5 DEF Ends, ReadingText, Splitting
  <2> QED
    BY <2>1, <2>2, <2>3, <2>4, <2>5 DEF SplitNext
<1> QED
  BY <1>1, SplitInvariant, PTL DEF SplitSpec, SplitAdvances
=============================================================================
