-------------------------- MODULE HistoriesProofs --------------------------
(***************************************************************************)
(* Theorems about Histories, for histories of any length, calls with any   *)
(* ids, and any compaction_keep_messages.                                  *)
(***************************************************************************)
EXTENDS Histories, FiniteSetTheorems, SequenceTheorems, TLAPS

-----------------------------------------------------------------------------
\* Counting positions

\* Positions that all move by the same distance are as many as before.
LEMMA Moved ==
    ASSUME NEW S \in SUBSET Int, IsFiniteSet(S), NEW d \in Int
    PROVE  /\ IsFiniteSet({k + d : k \in S})
           /\ Cardinality({k + d : k \in S}) = Cardinality(S)
<1> DEFINE T == {k + d : k \in S}
           f == [k \in S |-> k + d]
<1>1. f \in [S -> T] /\ \A t \in T : \E k \in S : f[k] = t
  OBVIOUS
<1>2. \A k, l \in S : f[k] = f[l] => k = l
  OBVIOUS
<1>3. f \in Bijection(S, T)
  BY <1>1, <1>2 DEF Bijection, Injection, Surjection, IsInjective
<1>4. ExistsBijection(S, T)
  BY <1>3 DEF ExistsBijection
<1> QED
  BY <1>4, FS_Bijection

\* So are the positions left when a gap at n is closed.
LEMMA GapClosed ==
    ASSUME NEW S \in SUBSET Int, IsFiniteSet(S), NEW n \in Int, n \notin S
    PROVE  Cardinality({IF k < n THEN k ELSE k - 1 : k \in S}) = Cardinality(S)
<1> DEFINE T == {IF k < n THEN k ELSE k - 1 : k \in S}
           f == [k \in S |-> IF k < n THEN k ELSE k - 1]
<1>1. f \in [S -> T] /\ \A t \in T : \E k \in S : f[k] = t
  OBVIOUS
<1>2. \A k, l \in S : f[k] = f[l] => k = l
  OBVIOUS
<1>3. f \in Bijection(S, T)
  BY <1>1, <1>2 DEF Bijection, Injection, Surjection, IsInjective
<1>4. ExistsBijection(S, T)
  BY <1>3 DEF ExistsBijection
<1> QED
  BY <1>4, FS_Bijection

\* The positions of a sequence with some property are finitely many.
LEMMA PositionsFinite ==
    ASSUME NEW n \in Nat, NEW S \in SUBSET (1..n)
    PROVE  IsFiniteSet(S) /\ Cardinality(S) \in Nat
<1>1. IsFiniteSet(1..n)
  BY FS_Interval
<1>2. IsFiniteSet(S)
  BY <1>1, FS_Subset
<1> QED
  BY <1>2, FS_CardinalityType

\* Without its n-th element, a sequence has one occurrence less of that element and
\* as many of every other.
LEMMA OneLess ==
    ASSUME NEW E, NEW s \in Seq(E), NEW n \in DOMAIN s, NEW id
    PROVE  /\ RemoveAt(s, n) \in Seq(E)
           /\ Occurrences(s, id) \in Nat
           /\ Occurrences(RemoveAt(s, n), id) =
                IF s[n] = id THEN Occurrences(s, id) - 1 ELSE Occurrences(s, id)
<1> DEFINE r == RemoveAt(s, n)
           At(q) == {k \in DOMAIN q : q[k] = id}
<1>1. n \in 1..Len(s) /\ Len(s) \in Nat /\ DOMAIN s = 1..Len(s)
  OBVIOUS
<1>2. /\ r \in Seq(E) /\ Len(r) = Len(s) - 1
      /\ \A k \in 1..Len(r) : r[k] = IF k < n THEN s[k] ELSE s[k + 1]
  <2> DEFINE x == SubSeq(s, 1, n - 1)
             y == SubSeq(s, n + 1, Len(s))
  <2>1. /\ x \in Seq(E) /\ Len(x) = n - 1
        /\ \A k \in 1..n - 1 : x[k] = s[k]
    BY <1>1, SubSeqProperties
  <2>2. /\ y \in Seq(E) /\ Len(y) = Len(s) - n
        /\ \A k \in 1..Len(s) - n : y[k] = s[k + n]
    BY <1>1, SubSeqProperties
  <2>3. r = x \o y
    BY DEF RemoveAt
  <2> HIDE DEF x, y, r
  <2>4. /\ r \in Seq(E) /\ Len(r) = (n - 1) + (Len(s) - n)
        /\ \A k \in 1..(n - 1) + (Len(s) - n) : r[k] = IF k <= n - 1 THEN x[k] ELSE y[k - (n - 1)]
    BY <2>1, <2>2, <2>3, ConcatProperties
  <2>5. Len(r) = Len(s) - 1
    BY <1>1, <2>4
  <2>6. ASSUME NEW k \in 1..Len(r) PROVE r[k] = IF k < n THEN s[k] ELSE s[k + 1]
    <3>1. CASE k < n
      <4>1. k \in 1..n - 1 /\ k \in 1..(n - 1) + (Len(s) - n) /\ k <= n - 1
        BY <1>1, <2>4, <3>1
      <4> QED
        BY <2>1, <2>4, <3>1, <4>1
    <3>2. CASE ~(k < n)
      <4>1. /\ k - (n - 1) \in 1..Len(s) - n /\ (k - (n - 1)) + n = k + 1
            /\ k \in 1..(n - 1) + (Len(s) - n) /\ ~(k <= n - 1)
        BY <1>1, <2>4, <3>2
      <4> QED
        BY <2>2, <2>4, <3>2, <4>1
    <3> QED
      BY <3>1, <3>2
  <2> QED
    BY <2>4, <2>5, <2>6
<1> HIDE DEF r
<1>3. IsFiniteSet(At(s)) /\ Cardinality(At(s)) \in Nat
  BY <1>1, PositionsFinite
<1>4. At(r) = {IF k < n THEN k ELSE k - 1 : k \in At(s) \ {n}}
  <2>1. ASSUME NEW k \in At(r) PROVE \E j \in At(s) \ {n} : k = IF j < n THEN j ELSE j - 1
    <3>1. k \in 1..Len(r) /\ r[k] = id
      BY <1>2, <2>1
    <3>2. CASE k < n
      <4>1. k \in At(s) \ {n}
        BY <1>1, <1>2, <3>1, <3>2
      <4> QED
        BY <4>1, <3>2
    <3>3. CASE ~(k < n)
      <4>1. k + 1 \in At(s) \ {n} /\ ~(k + 1 < n) /\ k = (k + 1) - 1
        BY <1>1, <1>2, <3>1, <3>3
      <4> QED
        BY <4>1
    <3> QED
      BY <3>2, <3>3
  <2>2. ASSUME NEW j \in At(s) \ {n} PROVE (IF j < n THEN j ELSE j - 1) \in At(r)
    BY <1>1, <1>2, <2>2
  <2> QED
    BY <2>1, <2>2
<1>5. IsFiniteSet(At(s) \ {n}) /\ At(s) \ {n} \in SUBSET Int
  <2>1. At(s) \in SUBSET Int
    BY <1>1
  <2> HIDE DEF At
  <2> QED
    BY <2>1, <1>3, FS_RemoveElement
<1>6. Cardinality(At(r)) = Cardinality(At(s) \ {n})
  <2> DEFINE S == At(s) \ {n}
  <2>1. S \in SUBSET Int /\ IsFiniteSet(S) /\ n \notin S /\ n \in Int
    BY <1>1, <1>5
  <2> HIDE DEF S
  <2>2. Cardinality({IF k < n THEN k ELSE k - 1 : k \in S}) = Cardinality(S)
    BY <2>1, GapClosed
  <2> QED
    BY <1>4, <2>2 DEF S
<1>7. Cardinality(At(s) \ {n}) = IF s[n] = id THEN Cardinality(At(s)) - 1 ELSE Cardinality(At(s))
  <2>1. n \in At(s) <=> s[n] = id
    OBVIOUS
  <2> QED
    BY <1>3, <2>1, FS_RemoveElement
<1> QED
  BY <1>2, <1>3, <1>6, <1>7 DEF Occurrences, r

\* A set of natural numbers that is not empty has a least one.
LEMMA Least ==
    ASSUME NEW S \in SUBSET Nat, S # {}
    PROVE  \E m \in S : \A k \in S : m <= k
<1> DEFINE Less == {p \in Nat \X Nat : p[1] < p[2]}
<1>1. IsWellFoundedOn(Less, Nat)
  BY NatLessThanWellFounded DEF OpToRel
<1> HIDE DEF Less
<1>2. PICK m \in S : \A k \in S : <<k, m>> \notin Less
  BY <1>1, WFMin
<1>3. \A k \in S : ~(k < m)
  BY <1>2 DEF Less
<1> QED
  BY <1>3

\* RemoveFirst takes one occurrence out.
LEMMA FirstRemoved ==
    ASSUME NEW E, NEW s \in Seq(E), NEW e, Contains(s, e)
    PROVE  \E n \in DOMAIN s : s[n] = e /\ RemoveFirst(s, e) = RemoveAt(s, n)
<1> DEFINE Places == {i \in 1..Len(s) : s[i] = e}
<1>1. Places # {} /\ Places \in SUBSET Nat
  BY DEF Contains
<1>2. \E m \in Places : \A k \in Places : m <= k
  BY <1>1, Least
<1>3. Min(Places) \in Places
  <2> HIDE DEF Places
  <2> QED
    BY <1>2 DEF Min
<1>4. RemoveFirst(s, e) = RemoveAt(s, Min(Places))
  BY <1>1 DEF RemoveFirst, SelectInSeq, Contains
<1> HIDE DEF Places
<1>5. Min(Places) \in DOMAIN s /\ s[Min(Places)] = e
  BY <1>3 DEF Places
<1> QED
  BY <1>4, <1>5

-----------------------------------------------------------------------------
\* The tool messages after a message, in a longer history

HistoryMessage ==
    [kind : {"calls", "tool", "other", "summary"}, ids : Seq(Ids), real : BOOLEAN]

\* Nothing but tool messages follows position i: it can still get an answer.
Open(h, i) == \A k \in i + 1..Len(h) : IsTool(h[k])

\* The tool messages after position i that are in X; the messages of q that are.
Among(h, i, X) == {j \in Answers(h, i) : h[j] \in X}
Within(q, X) == {k \in 1..Len(q) : q[k] \in X}

\* Tool messages at the end answer what is open, and nothing else.
LEMMA ToolsFollow ==
    ASSUME NEW M, NEW h \in Seq(M), NEW q \in Seq(M),
           \A k \in 1..Len(q) : IsTool(q[k]),
           NEW i \in 1..Len(h)
    PROVE  /\ Open(h \o q, i) <=> Open(h, i)
           /\ Answers(h \o q, i) = Answers(h, i) \cup
                (IF Open(h, i) THEN Len(h) + 1..Len(h) + Len(q) ELSE {})
<1> DEFINE g == h \o q
<1>1. /\ Len(g) = Len(h) + Len(q) /\ Len(h) \in Nat /\ Len(q) \in Nat
      /\ \A k \in 1..Len(h) + Len(q) : g[k] = IF k <= Len(h) THEN h[k] ELSE q[k - Len(h)]
  BY ConcatProperties
<1> HIDE DEF g
<1>2. \A k \in Len(h) + 1..Len(h) + Len(q) : IsTool(g[k])
  <2> SUFFICES ASSUME NEW k \in Len(h) + 1..Len(h) + Len(q) PROVE IsTool(g[k])
    OBVIOUS
  <2>1. k - Len(h) \in 1..Len(q) /\ g[k] = q[k - Len(h)]
    BY <1>1
  <2> QED
    BY <2>1
<1>3. \A k \in 1..Len(h) : g[k] = h[k]
  BY <1>1
<1>4. Open(g, i) <=> Open(h, i)
  BY <1>1, <1>2, <1>3 DEF Open
<1>5. ASSUME NEW j \in Answers(g, i)
      PROVE  j \in Answers(h, i) \/ (Open(h, i) /\ j \in Len(h) + 1..Len(h) + Len(q))
  <2>1. j \in i + 1..Len(h) + Len(q) /\ \A k \in i + 1..j : IsTool(g[k])
    BY <1>1, <1>5 DEF Answers
  <2>2. CASE j <= Len(h)
    <3>1. j \in i + 1..Len(h) /\ \A k \in i + 1..j : k \in 1..Len(h)
      BY <1>1, <2>1, <2>2
    <3>2. ASSUME NEW k \in i + 1..j PROVE IsTool(h[k])
      BY <1>3, <2>1, <3>1
    <3>3. j \in Answers(h, i)
      BY <3>1, <3>2 DEF Answers
    <3> QED
      BY <3>3
  <2>3. CASE ~(j <= Len(h))
    <3>1. /\ j \in Len(h) + 1..Len(h) + Len(q)
          /\ \A k \in i + 1..Len(h) : k \in i + 1..j /\ k \in 1..Len(h)
      BY <1>1, <2>1, <2>3
    <3> QED
      BY <1>3, <2>1, <3>1 DEF Open
  <2> QED
    BY <2>2, <2>3
<1>6. ASSUME NEW j \in Answers(h, i) PROVE j \in Answers(g, i)
  BY <1>1, <1>3 DEF Answers
<1>7. ASSUME Open(h, i), NEW j \in Len(h) + 1..Len(h) + Len(q) PROVE j \in Answers(g, i)
  <2>1. j \in i + 1..Len(h) + Len(q)
    BY <1>1, <1>7
  <2>2. ASSUME NEW k \in i + 1..j PROVE IsTool(g[k])
    <3>1. CASE k <= Len(h)
      <4>1. k \in i + 1..Len(h) /\ k \in 1..Len(h)
        BY <1>1, <2>2, <3>1
      <4> QED
        BY <1>3, <1>7, <4>1 DEF Open
    <3>2. CASE ~(k <= Len(h))
      <4>1. k \in Len(h) + 1..Len(h) + Len(q)
        BY <1>1, <1>7, <2>2, <3>2
      <4> QED
        BY <1>2, <4>1
    <3> QED
      BY <3>1, <3>2
  <2> QED
    BY <1>1, <2>1, <2>2 DEF Answers
<1> QED
  BY <1>4, <1>5, <1>6, <1>7 DEF g

\* They add to the answers of an open message, by any measure.
LEMMA AnswersAdded ==
    ASSUME NEW M, NEW h \in Seq(M), NEW q \in Seq(M),
           \A k \in 1..Len(q) : IsTool(q[k]),
           NEW i \in 1..Len(h), NEW X
    PROVE  /\ Cardinality(Among(h, i, X)) \in Nat
           /\ Cardinality(Within(q, X)) \in Nat
           /\ Cardinality(Among(h \o q, i, X)) = Cardinality(Among(h, i, X))
                + (IF Open(h, i) THEN Cardinality(Within(q, X)) ELSE 0)
<1> DEFINE g == h \o q
           old == Among(h, i, X)
           new == {k + Len(h) : k \in Within(q, X)}
<1>1. /\ Len(g) = Len(h) + Len(q) /\ Len(h) \in Nat /\ Len(q) \in Nat
      /\ \A k \in 1..Len(h) + Len(q) : g[k] = IF k <= Len(h) THEN h[k] ELSE q[k - Len(h)]
  BY ConcatProperties
<1>2. Answers(g, i) = Answers(h, i) \cup (IF Open(h, i) THEN Len(h) + 1..Len(h) + Len(q) ELSE {})
  BY ToolsFollow
<1> HIDE DEF g
<1>3. IsFiniteSet(old) /\ Cardinality(old) \in Nat /\ old \subseteq 1..Len(h)
  <2>1. old \in SUBSET (1..Len(h))
    BY <1>1 DEF Among, Answers
  <2> QED
    BY <1>1, <2>1, PositionsFinite
<1>4. IsFiniteSet(Within(q, X)) /\ Cardinality(Within(q, X)) \in Nat
  <2>1. Within(q, X) \in SUBSET (1..Len(q))
    BY DEF Within
  <2> QED
    BY <1>1, <2>1, PositionsFinite
<1>5. IsFiniteSet(new) /\ Cardinality(new) = Cardinality(Within(q, X))
  <2>1. Within(q, X) \in SUBSET Int
    BY DEF Within
  <2>2. Len(h) \in Int
    BY <1>1
  <2> QED
    BY <1>4, <2>1, <2>2, Moved, Zenon
<1>6. \A j \in Answers(h, i) : g[j] = h[j]
  BY <1>1 DEF Answers
<1>7. CASE ~Open(h, i)
  <2>1. Among(g, i, X) = old
    BY <1>2, <1>6, <1>7 DEF Among
  <2> QED
    BY <1>3, <1>4, <1>7, <2>1 DEF g
<1>8. CASE Open(h, i)
  <2>1. {j \in Len(h) + 1..Len(h) + Len(q) : g[j] \in X} = new
    <3>1. ASSUME NEW j \in Len(h) + 1..Len(h) + Len(q), g[j] \in X PROVE j \in new
      <4>1. /\ j - Len(h) \in 1..Len(q) /\ g[j] = q[j - Len(h)]
            /\ j = (j - Len(h)) + Len(h)
        BY <1>1, <3>1
      <4>2. j - Len(h) \in Within(q, X)
        BY <3>1, <4>1 DEF Within
      <4> QED
        BY <4>1, <4>2
    <3>2. ASSUME NEW k \in Within(q, X)
          PROVE  k + Len(h) \in Len(h) + 1..Len(h) + Len(q) /\ g[k + Len(h)] \in X
      <4>1. k \in 1..Len(q) /\ q[k] \in X
        BY DEF Within
      <4>2. k + Len(h) \in Len(h) + 1..Len(h) + Len(q) /\ g[k + Len(h)] = q[k]
        BY <1>1, <4>1
      <4> QED
        BY <4>1, <4>2
    <3> QED
      BY <3>1, <3>2
  <2>2. Among(g, i, X) = old \cup new
    <3> HIDE DEF new
    <3> QED
      BY <1>2, <1>6, <1>8, <2>1 DEF Among
  <2>3. old \cap new = {}
    BY <1>1, <1>3 DEF Within
  <2> HIDE DEF old, new
  <2>4. Cardinality(old \cup new) = Cardinality(old) + Cardinality(new)
    <3>1. Cardinality(old \cup new) = Cardinality(old) + Cardinality(new) - Cardinality({})
      BY <1>3, <1>5, <2>3, FS_Union
    <3>2. Cardinality({}) = 0 /\ Cardinality(new) \in Nat
      BY <1>4, <1>5, FS_EmptySet
    <3> QED
      BY <1>3, <3>1, <3>2
  <2> QED
    BY <1>3, <1>4, <1>5, <1>8, <2>2, <2>4 DEF g, old
<1> QED
  BY <1>7, <1>8

\* A message that is no tool message closes what is open, takes no answer away and
\* is open itself.
LEMMA MessageCloses ==
    ASSUME NEW M, NEW h \in Seq(M), NEW m \in M, ~IsTool(m)
    PROVE  /\ \A i \in 1..Len(h) :
                /\ ~Open(Append(h, m), i)
                /\ Answers(Append(h, m), i) = Answers(h, i)
                /\ \A X : Among(Append(h, m), i, X) = Among(h, i, X)
           /\ Open(Append(h, m), Len(h) + 1)
           /\ Answers(Append(h, m), Len(h) + 1) = {}
<1> DEFINE g == Append(h, m)
           n == Len(h) + 1
<1>1. /\ Len(h) \in Nat /\ Len(g) = n /\ g[n] = m
      /\ \A i \in 1..Len(h) : g[i] = h[i]
  OBVIOUS
<1> HIDE DEF g
<1>2. ASSUME NEW i \in 1..Len(h) PROVE ~Open(g, i) /\ Answers(g, i) = Answers(h, i)
  <2>1. i + 1 <= n /\ n \in i + 1..Len(g)
    BY <1>1
  <2>2. ~Open(g, i)
    BY <1>1, <2>1 DEF Open
  <2>3. ASSUME NEW j \in Answers(g, i) PROVE j \in Answers(h, i)
    <3>1. j \in i + 1..n /\ \A k \in i + 1..j : IsTool(g[k])
      BY <1>1, <2>3 DEF Answers
    <3>2. j # n
      BY <1>1, <3>1
    <3>3. j \in i + 1..Len(h) /\ \A k \in i + 1..j : k \in 1..Len(h)
      BY <1>1, <3>1, <3>2
    <3>4. ASSUME NEW k \in i + 1..j PROVE IsTool(h[k])
      BY <1>1, <3>1, <3>3
    <3> QED
      BY <3>3, <3>4 DEF Answers
  <2>4. ASSUME NEW j \in Answers(h, i) PROVE j \in Answers(g, i)
    <3>1. j \in i + 1..Len(h) /\ \A k \in i + 1..j : IsTool(h[k])
      BY <2>4 DEF Answers
    <3>2. j \in i + 1..Len(g) /\ \A k \in i + 1..j : k \in 1..Len(h)
      BY <1>1, <3>1
    <3>3. ASSUME NEW k \in i + 1..j PROVE IsTool(g[k])
      BY <1>1, <3>1, <3>2
    <3> QED
      BY <3>2, <3>3 DEF Answers
  <2> QED
    BY <2>2, <2>3, <2>4
<1>3. ASSUME NEW i \in 1..Len(h), NEW X PROVE Among(g, i, X) = Among(h, i, X)
  <2>1. \A j \in Answers(h, i) : g[j] = h[j]
    BY <1>1 DEF Answers
  <2> QED
    BY <1>2, <2>1 DEF Among
<1>4. Open(g, n) /\ Answers(g, n) = {}
  <2>1. n + 1..Len(g) = {}
    BY <1>1
  <2> QED
    BY <2>1 DEF Open, Answers
<1> QED
  BY <1>2, <1>3, <1>4 DEF g

\* The messages that name id, and the recorded ones of them.
Naming(id) == {m \in HistoryMessage : m.ids[1] = id}
Real(id) == {m \in Naming(id) : m.real}

LEMMA Measures ==
    ASSUME NEW h \in Seq(HistoryMessage), NEW i \in 1..Len(h), NEW id
    PROVE  /\ AnswersTo(h, i, id) = Among(h, i, Naming(id))
           /\ Recorded(h, i, id) = Among(h, i, Real(id))
<1>1. \A j \in Answers(h, i) : h[j] \in HistoryMessage
  BY DEF Answers
<1>2. AnswersTo(h, i, id) = Among(h, i, Naming(id))
  BY <1>1 DEF AnswersTo, Among, Naming
<1>3. Recorded(h, i, id) = Among(h, i, Real(id))
  BY <1>1 DEF AnswersTo, Recorded, Among, Naming, Real
<1> QED
  BY <1>2, <1>3

-----------------------------------------------------------------------------
\* The repair

(* Every call has as many answers as it was made, counting those still     *)
(* pending of an open call; every tool message is an answer; and what is   *)
(* pending belongs to an open call.                                        *)
Matched(h, p) ==
    /\ h \in Seq(HistoryMessage) /\ p \in Seq(Ids)
    /\ \A i \in 1..Len(h) : h[i].kind = "calls" =>
        \A id \in Ids :
            Cardinality(AnswersTo(h, i, id)) + (IF Open(h, i) THEN Occurrences(p, id) ELSE 0)
                = Occurrences(h[i].ids, id)
    /\ \A j \in 1..Len(h) : IsTool(h[j]) =>
        \E i \in 1..j - 1 : h[i].kind = "calls" /\ j \in Answers(h, i)
    /\ p # <<>> => \E i \in 1..Len(h) : h[i].kind = "calls" /\ Open(h, i)

\* It stays so when tool messages q answer some of the pending calls p and leave r.
LEMMA ResultsAdded ==
    ASSUME NEW h, NEW p, Matched(h, p),
           NEW q \in Seq(HistoryMessage), \A k \in 1..Len(q) : IsTool(q[k]),
           NEW r \in Seq(Ids),
           \A id \in Ids :
                /\ Occurrences(r, id) \in Nat
                /\ Occurrences(p, id) = Cardinality(Within(q, Naming(id))) + Occurrences(r, id),
           p = <<>> => q = <<>> /\ r = <<>>
    PROVE  Matched(h \o q, r)
<1> DEFINE g == h \o q
<1>1. h \in Seq(HistoryMessage) /\ Len(h) \in Nat /\ Len(q) \in Nat
  BY DEF Matched
<1>2. /\ g \in Seq(HistoryMessage) /\ Len(g) = Len(h) + Len(q)
      /\ \A k \in 1..Len(h) + Len(q) : g[k] = IF k <= Len(h) THEN h[k] ELSE q[k - Len(h)]
  BY <1>1, ConcatProperties
<1>3. \A i \in 1..Len(h) :
        /\ Open(g, i) <=> Open(h, i)
        /\ Answers(g, i) = Answers(h, i) \cup
             (IF Open(h, i) THEN Len(h) + 1..Len(h) + Len(q) ELSE {})
  BY <1>1, ToolsFollow
<1>4. \A i \in 1..Len(h) : \A id \in Ids :
        /\ Cardinality(AnswersTo(h, i, id)) \in Nat
        /\ Cardinality(Within(q, Naming(id))) \in Nat
        /\ Cardinality(AnswersTo(g, i, id)) = Cardinality(AnswersTo(h, i, id))
             + (IF Open(h, i) THEN Cardinality(Within(q, Naming(id))) ELSE 0)
  <2> SUFFICES ASSUME NEW i \in 1..Len(h), NEW id \in Ids
               PROVE  /\ Cardinality(AnswersTo(h, i, id)) \in Nat
                      /\ Cardinality(Within(q, Naming(id))) \in Nat
                      /\ Cardinality(AnswersTo(g, i, id)) = Cardinality(AnswersTo(h, i, id))
                           + (IF Open(h, i) THEN Cardinality(Within(q, Naming(id))) ELSE 0)
    OBVIOUS
  <2>1. i \in 1..Len(g)
    BY <1>1, <1>2
  <2>2. /\ AnswersTo(h, i, id) = Among(h, i, Naming(id))
        /\ AnswersTo(g, i, id) = Among(g, i, Naming(id))
    BY <1>1, <1>2, <2>1, Measures
  <2> DEFINE X == Naming(id)
  <2> HIDE DEF X
  <2>3. /\ Cardinality(Among(h, i, X)) \in Nat
        /\ Cardinality(Within(q, X)) \in Nat
        /\ Cardinality(Among(g, i, X)) = Cardinality(Among(h, i, X))
             + (IF Open(h, i) THEN Cardinality(Within(q, X)) ELSE 0)
    BY <1>1, AnswersAdded
  <2> QED
    BY <2>2, <2>3 DEF X
<1> HIDE DEF g
<1>5. \A i \in 1..Len(h) : g[i] = h[i]
  BY <1>1, <1>2
<1>6. \A j \in Len(h) + 1..Len(h) + Len(q) : IsTool(g[j])
  <2> SUFFICES ASSUME NEW j \in Len(h) + 1..Len(h) + Len(q) PROVE IsTool(g[j])
    OBVIOUS
  <2>1. j - Len(h) \in 1..Len(q) /\ g[j] = q[j - Len(h)]
    BY <1>1, <1>2
  <2> QED
    BY <2>1
<1>7. ASSUME NEW i \in 1..Len(g), g[i].kind = "calls", NEW id \in Ids
      PROVE  Cardinality(AnswersTo(g, i, id)) + (IF Open(g, i) THEN Occurrences(r, id) ELSE 0)
                = Occurrences(g[i].ids, id)
  <2>1. i \in 1..Len(h)
    <3>1. i \in 1..Len(h) \/ i \in Len(h) + 1..Len(h) + Len(q)
      BY <1>1, <1>2, <1>7
    <3>2. ~IsTool(g[i])
      BY <1>7 DEF IsTool
    <3> QED
      BY <1>6, <3>1, <3>2
  <2>2. Cardinality(AnswersTo(h, i, id)) + (IF Open(h, i) THEN Occurrences(p, id) ELSE 0)
            = Occurrences(g[i].ids, id)
    BY <1>5, <1>7, <2>1 DEF Matched
  <2>3. CASE Open(h, i)
    <3>1. Cardinality(AnswersTo(h, i, id)) + Occurrences(p, id) = Occurrences(g[i].ids, id)
      BY <2>2, <2>3
    <3>2. Cardinality(AnswersTo(g, i, id))
            = Cardinality(AnswersTo(h, i, id)) + Cardinality(Within(q, Naming(id)))
      BY <1>4, <2>1, <2>3
    <3>3. Occurrences(p, id) = Cardinality(Within(q, Naming(id))) + Occurrences(r, id)
      OBVIOUS
    <3>4. /\ Cardinality(AnswersTo(h, i, id)) \in Nat /\ Occurrences(r, id) \in Nat
          /\ Cardinality(Within(q, Naming(id))) \in Nat
      BY <1>4, <2>1
    <3>5. Cardinality(AnswersTo(g, i, id)) + Occurrences(r, id) = Occurrences(g[i].ids, id)
      BY <3>1, <3>2, <3>3, <3>4
    <3> QED
      BY <1>3, <2>1, <2>3, <3>5
  <2>4. CASE ~Open(h, i)
    <3>1. Cardinality(AnswersTo(g, i, id)) = Cardinality(AnswersTo(h, i, id)) + 0
      BY <1>4, <2>1, <2>4
    <3> QED
      BY <1>3, <1>4, <2>1, <2>2, <2>4, <3>1
  <2> QED
    BY <2>3, <2>4
<1>8. ASSUME NEW j \in 1..Len(g), IsTool(g[j])
      PROVE  \E i \in 1..j - 1 : g[i].kind = "calls" /\ j \in Answers(g, i)
  <2>1. CASE j \in 1..Len(h)
    <3>1. PICK i \in 1..j - 1 : h[i].kind = "calls" /\ j \in Answers(h, i)
      BY <1>5, <1>8, <2>1 DEF Matched
    <3>2. i \in 1..Len(h)
      BY <1>1, <2>1
    <3> QED
      BY <1>3, <1>5, <3>1, <3>2
  <2>2. CASE j \notin 1..Len(h)
    <3>1. j \in Len(h) + 1..Len(h) + Len(q) /\ q # <<>>
      BY <1>1, <1>2, <2>2
    <3>2. PICK i \in 1..Len(h) : h[i].kind = "calls" /\ Open(h, i)
      BY <3>1 DEF Matched
    <3>3. i \in 1..j - 1
      BY <1>1, <3>1
    <3> QED
      BY <1>3, <1>5, <3>1, <3>2, <3>3
  <2> QED
    BY <2>1, <2>2
<1>9. r # <<>> => \E i \in 1..Len(g) : g[i].kind = "calls" /\ Open(g, i)
  <2> SUFFICES ASSUME r # <<>> PROVE \E i \in 1..Len(g) : g[i].kind = "calls" /\ Open(g, i)
    OBVIOUS
  <2>1. PICK i \in 1..Len(h) : h[i].kind = "calls" /\ Open(h, i)
    BY DEF Matched
  <2>2. i \in 1..Len(g)
    BY <1>1, <1>2
  <2> QED
    BY <1>3, <1>5, <2>1, <2>2
<1> QED
  BY <1>2, <1>7, <1>8, <1>9 DEF Matched, g

\* A message that is no tool message closes the calls before it and opens its own.
LEMMA MessageAdded ==
    ASSUME NEW h, Matched(h, <<>>), NEW m \in HistoryMessage, ~IsTool(m)
    PROVE  Matched(Append(h, m), IF m.kind = "calls" THEN m.ids ELSE <<>>)
<1> DEFINE g == Append(h, m)
           p == IF m.kind = "calls" THEN m.ids ELSE <<>>
           n == Len(h) + 1
<1>1. h \in Seq(HistoryMessage) /\ Len(h) \in Nat
  BY DEF Matched
<1>2. /\ g \in Seq(HistoryMessage) /\ Len(g) = n /\ g[n] = m
      /\ \A i \in 1..Len(h) : g[i] = h[i]
  BY <1>1
<1>3. p \in Seq(Ids)
  BY DEF HistoryMessage
<1>4. \A i \in 1..Len(h) : ~Open(g, i) /\ Answers(g, i) = Answers(h, i)
  BY <1>1, MessageCloses
<1>5. Open(g, n) /\ Answers(g, n) = {}
  BY <1>1, MessageCloses
<1> HIDE DEF g, p
<1>6. ASSUME NEW i \in 1..Len(g), g[i].kind = "calls", NEW id \in Ids
      PROVE  Cardinality(AnswersTo(g, i, id)) + (IF Open(g, i) THEN Occurrences(p, id) ELSE 0)
                = Occurrences(g[i].ids, id)
  <2>1. CASE i \in 1..Len(h)
    <3>1. AnswersTo(g, i, id) = AnswersTo(h, i, id)
      <4>1. \A j \in Answers(h, i) : g[j] = h[j]
        BY <1>1, <1>2, <2>1 DEF Answers
      <4> QED
        BY <1>4, <2>1, <4>1 DEF AnswersTo
    <3>2. Occurrences(<<>>, id) = 0
      BY FS_EmptySet DEF Occurrences
    <3>3. /\ AnswersTo(h, i, id) \in SUBSET (1..Len(h))
          /\ Cardinality(AnswersTo(h, i, id)) \in Nat
      <4>1. AnswersTo(h, i, id) \in SUBSET (1..Len(h))
        BY <1>1, <2>1 DEF AnswersTo, Answers
      <4> QED
        BY <1>1, <4>1, PositionsFinite
    <3>4. Cardinality(AnswersTo(h, i, id)) = Occurrences(h[i].ids, id)
      <4>1. Cardinality(AnswersTo(h, i, id)) + (IF Open(h, i) THEN Occurrences(<<>>, id) ELSE 0)
                = Occurrences(h[i].ids, id)
        BY <1>2, <1>6, <2>1 DEF Matched
      <4> QED
        BY <3>2, <3>3, <4>1
    <3> QED
      BY <1>2, <1>4, <2>1, <3>1, <3>3, <3>4
  <2>2. CASE i \notin 1..Len(h)
    <3>1. i = n
      BY <1>1, <1>2, <2>2
    <3>2. AnswersTo(g, i, id) = {} /\ Open(g, i)
      BY <1>5, <3>1 DEF AnswersTo
    <3>3. p = m.ids /\ g[i] = m
      BY <1>2, <1>6, <3>1 DEF p
    <3>4. Occurrences(p, id) \in Nat
      <4>1. {k \in DOMAIN p : p[k] = id} \in SUBSET (1..Len(p)) /\ Len(p) \in Nat
        BY <1>3
      <4> QED
        BY <4>1, PositionsFinite DEF Occurrences
    <3> QED
      BY <3>2, <3>3, <3>4, FS_EmptySet
  <2> QED
    BY <2>1, <2>2
<1>7. ASSUME NEW j \in 1..Len(g), IsTool(g[j])
      PROVE  \E i \in 1..j - 1 : g[i].kind = "calls" /\ j \in Answers(g, i)
  <2>1. j # n
    BY <1>2, <1>7
  <2>2. j \in 1..Len(h)
    BY <1>1, <1>2, <2>1
  <2>3. PICK i \in 1..j - 1 : h[i].kind = "calls" /\ j \in Answers(h, i)
    BY <1>2, <1>7, <2>2 DEF Matched
  <2>4. i \in 1..Len(h)
    BY <1>1, <2>2
  <2> QED
    BY <1>2, <1>4, <2>3, <2>4
<1>8. p # <<>> => \E i \in 1..Len(g) : g[i].kind = "calls" /\ Open(g, i)
  <2> SUFFICES ASSUME p # <<>> PROVE g[n].kind = "calls" /\ n \in 1..Len(g)
    BY <1>5
  <2> QED
    BY <1>1, <1>2 DEF p
<1> QED
  BY <1>2, <1>3, <1>6, <1>7, <1>8 DEF Matched, g, p

\* flush() answers all that is pending.
LEMMA FlushAnswers ==
    ASSUME NEW h, NEW p, Matched(h, p)
    PROVE  Matched(h \o [k \in DOMAIN p |-> Synthetic(p[k])], <<>>)
<1> DEFINE q == [k \in DOMAIN p |-> Synthetic(p[k])]
<1>1. p \in Seq(Ids) /\ Len(p) \in Nat /\ DOMAIN p = 1..Len(p)
  BY DEF Matched
<1>2. \A k \in 1..Len(p) : Synthetic(p[k]) \in HistoryMessage /\ IsTool(Synthetic(p[k]))
  BY <1>1 DEF Synthetic, ToolMessage, HistoryMessage, IsTool
<1>3. q \in Seq(HistoryMessage) /\ Len(q) = Len(p) /\ \A k \in 1..Len(q) : IsTool(q[k])
  BY <1>1, <1>2
<1>4. ASSUME NEW id \in Ids
      PROVE  /\ Occurrences(<<>>, id) \in Nat
             /\ Occurrences(p, id) = Cardinality(Within(q, Naming(id))) + Occurrences(<<>>, id)
  <2>1. Occurrences(<<>>, id) = 0
    BY FS_EmptySet DEF Occurrences
  <2>2. Within(q, Naming(id)) = {k \in DOMAIN p : p[k] = id}
    <3>1. \A k \in 1..Len(p) : q[k].ids[1] = p[k]
      BY <1>1 DEF Synthetic, ToolMessage
    <3> HIDE DEF q
    <3> QED
      BY <1>1, <1>3, <3>1 DEF Within, Naming
  <2>3. Cardinality({k \in DOMAIN p : p[k] = id}) \in Nat
    <3>1. {k \in DOMAIN p : p[k] = id} \in SUBSET (1..Len(p))
      BY <1>1
    <3> QED
      BY <1>1, <3>1, PositionsFinite
  <2> QED
    BY <2>1, <2>2, <2>3 DEF Occurrences
<1>5. p = <<>> => q = <<>>
  BY <1>1, <1>3
<1> HIDE DEF q
<1>6. <<>> \in Seq(Ids)
  OBVIOUS
<1>7. Matched(h \o q, <<>>)
  BY <1>3, <1>4, <1>5, <1>6, ResultsAdded
<1> QED
  BY <1>7 DEF q

\* A result takes its call out of those that are pending.
LEMMA ResultAnswers ==
    ASSUME NEW h, NEW p, Matched(h, p), NEW m \in HistoryMessage, IsTool(m),
           Contains(p, m.ids[1])
    PROVE  Matched(Append(h, m), RemoveFirst(p, m.ids[1]))
<1> DEFINE q == <<m>>
           id0 == m.ids[1]
<1>1. p \in Seq(Ids) /\ h \in Seq(HistoryMessage)
  BY DEF Matched
<1>2. PICK n \in DOMAIN p : p[n] = id0 /\ RemoveFirst(p, id0) = RemoveAt(p, n)
  BY <1>1, FirstRemoved
<1>3. q \in Seq(HistoryMessage) /\ Len(q) = 1 /\ \A k \in 1..Len(q) : IsTool(q[k])
  OBVIOUS
<1>4. RemoveAt(p, n) \in Seq(Ids)
  BY <1>1, OneLess
<1>5. ASSUME NEW id \in Ids
      PROVE  /\ Occurrences(RemoveAt(p, n), id) \in Nat
             /\ Occurrences(p, id) = Cardinality(Within(q, Naming(id))) + Occurrences(RemoveAt(p, n), id)
  <2>1. /\ Occurrences(p, id) \in Nat
        /\ Occurrences(RemoveAt(p, n), id) =
             IF p[n] = id THEN Occurrences(p, id) - 1 ELSE Occurrences(p, id)
    BY <1>1, OneLess
  <2>2. Occurrences(RemoveAt(p, n), id) \in Nat
    <3>1. {k \in DOMAIN RemoveAt(p, n) : RemoveAt(p, n)[k] = id} \in SUBSET (1..Len(RemoveAt(p, n)))
      BY <1>4
    <3>2. Len(RemoveAt(p, n)) \in Nat
      BY <1>4
    <3> QED
      BY <3>1, <3>2, PositionsFinite DEF Occurrences
  <2>3. CASE id = id0
    <3>1. Within(q, Naming(id)) = {1}
      BY <2>3 DEF Within, Naming
    <3>2. Cardinality(Within(q, Naming(id))) = 1
      BY <3>1, FS_Singleton
    <3> QED
      BY <1>2, <2>1, <2>2, <2>3, <3>2
  <2>4. CASE id # id0
    <3>1. Within(q, Naming(id)) = {}
      BY <2>4 DEF Within, Naming
    <3>2. Cardinality(Within(q, Naming(id))) = 0
      BY <3>1, FS_EmptySet
    <3> QED
      BY <1>2, <2>1, <2>2, <2>4, <3>2
  <2> QED
    BY <2>3, <2>4
<1>6. p # <<>>
  BY DEF Contains
<1>7. Append(h, m) = h \o q
  BY <1>1
<1> HIDE DEF q
<1>8. Matched(h \o q, RemoveAt(p, n))
  BY <1>3, <1>4, <1>5, <1>6, ResultsAdded
<1> QED
  BY <1>2, <1>7, <1>8

-----------------------------------------------------------------------------
\* The compaction

\* With nothing pending, what is matched is balanced.
LEMMA MatchedIsBalanced ==
    ASSUME NEW h, Matched(h, <<>>)
    PROVE  Balanced(h)
<1>1. h \in Seq(HistoryMessage) /\ Len(h) \in Nat /\ DOMAIN h = 1..Len(h)
  BY DEF Matched
<1>2. ASSUME NEW i \in DOMAIN h, h[i].kind = "calls", NEW id \in Ids
      PROVE  Cardinality(AnswersTo(h, i, id)) = Occurrences(h[i].ids, id)
  <2>1. Occurrences(<<>>, id) = 0
    BY FS_EmptySet DEF Occurrences
  <2>2. Cardinality(AnswersTo(h, i, id)) \in Nat
    <3>1. AnswersTo(h, i, id) \in SUBSET (1..Len(h))
      BY <1>1 DEF AnswersTo, Answers
    <3> QED
      BY <1>1, <3>1, PositionsFinite
  <2>3. Cardinality(AnswersTo(h, i, id)) + (IF Open(h, i) THEN Occurrences(<<>>, id) ELSE 0)
            = Occurrences(h[i].ids, id)
    BY <1>1, <1>2 DEF Matched
  <2> QED
    BY <2>1, <2>2, <2>3
<1>3. \A j \in DOMAIN h : IsTool(h[j]) =>
        \E i \in 1..j - 1 : h[i].kind = "calls" /\ j \in Answers(h, i)
  BY <1>1 DEF Matched
<1> QED
  BY <1>2, <1>3 DEF Balanced

\* A balanced history stays so when the messages before one that is no tool message
\* give way to a summary.
LEMMA CutIsBalanced ==
    ASSUME NEW h \in Seq(HistoryMessage), Balanced(h),
           NEW n \in Nat \ {0}, n < Len(h) => ~IsTool(h[n + 1])
    PROVE  Balanced(<<Summary>> \o SubSeq(h, n + 1, Len(h)))
<1> DEFINE recent == SubSeq(h, n + 1, Len(h))
           g == <<Summary>> \o recent
           d == n - 1
<1>1. Len(h) \in Nat /\ DOMAIN h = 1..Len(h) /\ n \in Nat /\ n >= 1 /\ d \in Nat
  OBVIOUS
<1>2. Summary \in HistoryMessage /\ Summary.kind = "summary" /\ ~IsTool(Summary)
  <2>1. <<>> \in Seq(Ids)
    OBVIOUS
  <2> QED
    BY <2>1 DEF Summary, HistoryMessage, IsTool
<1>3. /\ recent \in Seq(HistoryMessage)
      /\ Len(recent) = IF n < Len(h) THEN Len(h) - n ELSE 0
      /\ \A k \in 1..Len(h) - n : recent[k] = h[n + k]
  BY <1>1, SubSeqProperties
<1> HIDE DEF recent
<1>4. /\ g \in Seq(HistoryMessage) /\ Len(g) = 1 + Len(recent)
      /\ \A k \in 1..1 + Len(recent) : g[k] = IF k <= 1 THEN Summary ELSE recent[k - 1]
  <2>1. <<Summary>> \in Seq(HistoryMessage) /\ Len(<<Summary>>) = 1 /\ <<Summary>>[1] = Summary
    BY <1>2
  <2> QED
    BY <1>3, <2>1, ConcatProperties
<1> HIDE DEF g
<1>5. ASSUME ~(n < Len(h)) PROVE Balanced(g)
  <2>1. DOMAIN g = {1} /\ g[1] = Summary
    BY <1>3, <1>4, <1>5
  <2> QED
    BY <1>2, <2>1 DEF Balanced
<1>6. ASSUME n < Len(h) PROVE Balanced(g)
  <2>1. /\ Len(g) = Len(h) - d /\ DOMAIN g = 1..Len(h) - d
        /\ g[1] = Summary
    BY <1>1, <1>3, <1>4, <1>6
  <2>2. ASSUME NEW j \in 2..Len(h) - d PROVE g[j] = h[j + d]
    <3>1. /\ j - 1 \in 1..Len(h) - n /\ n + (j - 1) = j + d
          /\ j \in 1..1 + Len(recent) /\ ~(j <= 1)
      BY <1>1, <1>3, <1>6
    <3>2. g[j] = recent[j - 1]
      BY <1>4, <3>1
    <3> QED
      BY <1>3, <3>1, <3>2
  <2>3. ASSUME NEW i \in 2..Len(h) - d, NEW j \in Int
        PROVE  j \in Answers(g, i) <=> j + d \in Answers(h, i + d)
    <3>1. ASSUME j \in Answers(g, i) PROVE j + d \in Answers(h, i + d)
      <4>1. j \in i + 1..Len(h) - d /\ \A k \in i + 1..j : IsTool(g[k])
        BY <2>1, <3>1 DEF Answers
      <4>2. j + d \in (i + d) + 1..Len(h)
        BY <1>1, <4>1
      <4>3. ASSUME NEW k \in (i + d) + 1..j + d PROVE IsTool(h[k])
        <5>1. k - d \in i + 1..j /\ k - d \in 2..Len(h) - d /\ (k - d) + d = k
          BY <1>1, <4>1, <4>3
        <5> QED
          BY <2>2, <4>1, <5>1
      <4> QED
        BY <4>2, <4>3 DEF Answers
    <3>2. ASSUME j + d \in Answers(h, i + d) PROVE j \in Answers(g, i)
      <4>1. j + d \in (i + d) + 1..Len(h) /\ \A k \in (i + d) + 1..j + d : IsTool(h[k])
        BY <3>2 DEF Answers
      <4>2. j \in i + 1..Len(g)
        BY <1>1, <2>1, <4>1
      <4>3. ASSUME NEW k \in i + 1..j PROVE IsTool(g[k])
        <5>1. k + d \in (i + d) + 1..j + d /\ k \in 2..Len(h) - d
          BY <1>1, <4>1, <4>3
        <5> QED
          BY <2>2, <4>1, <5>1
      <4> QED
        BY <4>2, <4>3 DEF Answers
    <3> QED
      BY <3>1, <3>2
  <2>4. ASSUME NEW i \in DOMAIN g, g[i].kind = "calls", NEW id \in Ids
        PROVE  Cardinality(AnswersTo(g, i, id)) = Occurrences(g[i].ids, id)
    <3>1. i \in 2..Len(h) - d /\ g[i] = h[i + d] /\ i + d \in DOMAIN h
      <4>1. i # 1
        BY <1>2, <2>1, <2>4
      <4>2. i \in 2..Len(h) - d /\ i + d \in DOMAIN h
        BY <1>1, <2>1, <4>1
      <4> QED
        BY <2>2, <4>2
    <3> DEFINE S == AnswersTo(g, i, id)
    <3>2. S \in SUBSET (1..Len(g)) /\ Len(g) \in Nat
      BY <1>4, <2>1, <3>1 DEF AnswersTo, Answers
    <3>3. S \in SUBSET Int /\ IsFiniteSet(S)
      <4> HIDE DEF S
      <4>1. S \in SUBSET Int
        BY <3>2
      <4> QED
        BY <3>2, <4>1, PositionsFinite
    <3>4. ASSUME NEW k \in S PROVE k + d \in AnswersTo(h, i + d, id)
      <4>1. k \in Answers(g, i) /\ g[k].ids[1] = id
        BY DEF AnswersTo
      <4>2. k + d \in Answers(h, i + d)
        <5>1. k \in Int
          BY <3>2
        <5> QED
          BY <2>3, <3>1, <4>1, <5>1
      <4>3. k \in 2..Len(h) - d
        BY <2>1, <3>1, <4>1 DEF Answers
      <4> QED
        BY <2>2, <4>1, <4>2, <4>3 DEF AnswersTo
    <3>5. ASSUME NEW k \in AnswersTo(h, i + d, id) PROVE k - d \in S /\ (k - d) + d = k
      <4>1. k \in Answers(h, i + d) /\ h[k].ids[1] = id
        BY DEF AnswersTo
      <4>2. k \in (i + d) + 1..Len(h)
        BY <4>1 DEF Answers
      <4>3. k - d \in Int /\ (k - d) + d = k /\ k - d \in 2..Len(h) - d
        BY <1>1, <3>1, <4>2
      <4>4. k - d \in Answers(g, i)
        BY <2>3, <3>1, <4>1, <4>3
      <4> QED
        BY <2>2, <4>1, <4>3, <4>4 DEF AnswersTo
    <3>6. AnswersTo(h, i + d, id) = {k + d : k \in S}
      <4> HIDE DEF S, d
      <4> QED
        BY <3>4, <3>5
    <3>7. Cardinality({k + d : k \in S}) = Cardinality(S)
      <4> HIDE DEF S, d
      <4> QED
        <5>1. d \in Int
          BY <1>1
        <5> QED
          BY <3>3, <5>1, Moved, Zenon
    <3>8. Cardinality(AnswersTo(h, i + d, id)) = Occurrences(h[i + d].ids, id)
      BY <2>4, <3>1 DEF Balanced
    <3> QED
      BY <3>1, <3>6, <3>7, <3>8
  <2>5. ASSUME NEW j \in DOMAIN g, IsTool(g[j])
        PROVE  \E i \in 1..j - 1 : g[i].kind = "calls" /\ j \in Answers(g, i)
    <3>1. j \in 2..Len(h) - d /\ g[j] = h[j + d] /\ j + d \in DOMAIN h
      <4>1. j # 1
        BY <1>2, <2>1, <2>5
      <4>2. j \in 2..Len(h) - d /\ j + d \in DOMAIN h
        BY <1>1, <2>1, <4>1
      <4> QED
        BY <2>2, <4>2
    <3>2. PICK i \in 1..(j + d) - 1 : h[i].kind = "calls" /\ j + d \in Answers(h, i)
      BY <2>5, <3>1 DEF Balanced
    <3>3. n < i
      <4> SUFFICES ASSUME ~(n < i) PROVE FALSE
        OBVIOUS
      <4>1. n + 1 \in i + 1..j + d
        BY <1>1, <3>1, <3>2
      <4>2. IsTool(h[n + 1])
        BY <3>2, <4>1 DEF Answers
      <4> QED
        BY <1>6, <4>2
    <3>4. i - d \in 2..Len(h) - d /\ i - d \in 1..j - 1 /\ (i - d) + d = i /\ j \in Int
      BY <1>1, <3>1, <3>2, <3>3
    <3>5. g[i - d].kind = "calls"
      BY <2>2, <3>2, <3>4
    <3>6. j \in Answers(g, i - d)
      BY <2>3, <3>2, <3>4
    <3> QED
      BY <3>4, <3>5, <3>6
  <2> QED
    BY <2>4, <2>5 DEF Balanced
<1>7. Balanced(g)
  BY <1>5, <1>6
<1> QED
  BY <1>7 DEF g, recent

-----------------------------------------------------------------------------
\* The state machine

(* The repaired history is matched with what is pending, at each step of   *)
(* the repair and after; the cut leaves at least keep messages; what       *)
(* compact returns is balanced and ends with them.                         *)
HistoriesInv ==
    /\ input \in Seq(Message) /\ read \in Nat /\ keep \in Int /\ split \in Int
    /\ Matched(repaired, pending)
    /\ phase # "repair" => pending = <<>>
    /\ phase # "done" => output = <<>>
    /\ phase # "repair" /\ keep > 0 => split <= Len(repaired) - keep
    /\ Balanced(output)
    /\ RecentKept

\* What a recorded history is made of.
LEMMA MessageKinds ==
    ASSUME NEW m \in Message
    PROVE  /\ m \in HistoryMessage
           /\ m.kind \in {"calls", "other"} => ~IsTool(m)
           /\ m.kind # "calls" /\ ~IsTool(m) => m.ids = <<>>
           /\ IsTool(m) => m.real /\ m.ids[1] \in Ids
<1>1. CASE \E ids \in BoundedSeq(Ids, MaxCalls) : m = CallMessage(ids)
  <2>1. PICK ids \in BoundedSeq(Ids, MaxCalls) : m = CallMessage(ids)
    BY <1>1
  <2>2. ids \in Seq(Ids)
    BY MaxCallsAssumption DEF BoundedSeq, SeqOf
  <2> QED
    BY <2>1, <2>2 DEF CallMessage, HistoryMessage, IsTool
<1>2. CASE \E id \in Ids : m = ToolMessage(id, TRUE)
  <2>1. PICK id \in Ids : m = ToolMessage(id, TRUE)
    BY <1>2
  <2>2. <<id>> \in Seq(Ids)
    OBVIOUS
  <2> QED
    BY <2>1, <2>2 DEF ToolMessage, HistoryMessage, IsTool
<1>3. CASE m = Other
  <2>1. <<>> \in Seq(Ids)
    OBVIOUS
  <2> QED
    BY <1>3, <2>1 DEF Other, HistoryMessage, IsTool
<1> QED
  BY <1>1, <1>2, <1>3 DEF Message

\* The empty history is matched, and balanced.
LEMMA EmptyHistory == Matched(<<>>, <<>>) /\ Balanced(<<>>)
<1>1. Matched(<<>>, <<>>)
  <2>1. <<>> \in Seq(HistoryMessage) /\ <<>> \in Seq(Ids) /\ Len(<<>>) = 0
    OBVIOUS
  <2> QED
    BY <2>1 DEF Matched
<1> QED
  BY <1>1, MatchedIsBalanced

LEMMA HistoriesInit == Init => HistoriesInv
<1> SUFFICES ASSUME Init PROVE HistoriesInv
  OBVIOUS
<1>1. input \in Seq(Message)
  <2>1. input \in BoundedSeq(Message, MaxHistory)
    BY DEF Init
  <2> QED
    BY <2>1, MaxHistoryAssumption DEF BoundedSeq, SeqOf
<1>2. keep \in Int
  BY KeepsAssumption DEF Init
<1>3. repaired = <<>> /\ pending = <<>> /\ output = <<>>
  BY DEF Init
<1>4. Matched(repaired, pending) /\ Balanced(output)
  BY <1>3, EmptyHistory, Zenon
<1>5. read \in Nat /\ split \in Int /\ phase = "repair"
  BY DEF Init
<1>6. RecentKept
  BY <1>3 DEF RecentKept
<1> QED
  BY <1>1, <1>2, <1>3, <1>4, <1>5, <1>6 DEF HistoriesInv

\* The message a step of the repair reads.
LEMMA CurrentMessage ==
    ASSUME HistoriesInv, Reading
    PROVE  Current \in Message /\ read' \in Nat
<1>1. input \in Seq(Message) /\ read \in Nat /\ read < Len(input)
  BY DEF HistoriesInv, Reading
<1>2. read + 1 \in 1..Len(input)
  BY <1>1
<1> QED
  BY <1>1, <1>2 DEF Current, Reading

\* A step of the repair changes repaired and pending only.
LEMMA RepairSteps ==
    ASSUME HistoriesInv, Reading, Matched(repaired', pending')
    PROVE  HistoriesInv'
<1>1. phase = "repair" /\ phase' = "repair" /\ output = <<>> /\ output' = <<>>
  BY DEF Reading, HistoriesInv
<1>2. UNCHANGED <<input, keep, split>> /\ read' \in Nat
  BY CurrentMessage DEF Reading, given
<1>3. Balanced(output')
  BY <1>1, EmptyHistory
<1>4. RecentKept'
  BY <1>1 DEF RecentKept
<1> QED
  BY <1>1, <1>2, <1>3, <1>4 DEF HistoriesInv

\* What the cut of compact returns.
LEMMA CutStep ==
    ASSUME HistoriesInv, Cut
    PROVE  Balanced(output') /\ RecentKept'
<1>1. /\ repaired \in Seq(HistoryMessage) /\ Len(repaired) \in Nat
      /\ split \in Int /\ keep \in Int /\ Balanced(repaired)
  <2>1. Matched(repaired, <<>>)
    BY DEF HistoriesInv, Cut
  <2> QED
    BY <2>1, MatchedIsBalanced DEF HistoriesInv, Matched
<1>2. UNCHANGED <<repaired, split, keep>>
  BY DEF Cut, given
<1>3. CASE split <= 0
  <2>1. output' = <<>>
    BY <1>3 DEF Cut
  <2> QED
    BY <2>1, EmptyHistory DEF RecentKept
<1>4. CASE ~(split <= 0)
  <2>1. output' = <<Summary>> \o SubSeq(repaired, split + 1, Len(repaired))
    BY <1>4 DEF Cut, Recent
  <2>2. Balanced(output')
    <3>1. split \in Nat \ {0}
      BY <1>1, <1>4
    <3>2. split < Len(repaired) => ~IsTool(repaired[split + 1])
      BY <1>1, <1>4 DEF Cut, OnResult
    <3> QED
      BY <1>1, <2>1, <3>1, <3>2, CutIsBalanced
  <2>3. RecentKept'
    <3> SUFFICES ASSUME keep > 0
                 PROVE  /\ Len(output') > keep
                        /\ \A k \in 0..keep - 1 :
                             output'[Len(output') - k] = repaired[Len(repaired) - k]
      BY <1>2 DEF RecentKept
    <3> DEFINE recent == SubSeq(repaired, split + 1, Len(repaired))
    <3>1. split <= Len(repaired) - keep
      BY DEF HistoriesInv, Cut
    <3>2. /\ Len(recent) = Len(repaired) - split
          /\ \A k \in 1..Len(repaired) - split : recent[k] = repaired[split + k]
      <4>1. split + 1 <= Len(repaired) /\ split + 1 >= 1 /\ split + 1 \in Int
        BY <1>1, <1>4, <3>1
      <4> QED
        BY <1>1, <4>1, SubSeqProperties
    <3>3. recent \in Seq(HistoryMessage)
      BY <1>1, <1>4, SubSeqProperties
    <3> HIDE DEF recent
    <3>4. /\ Len(output') = 1 + (Len(repaired) - split)
          /\ \A k \in 1..1 + (Len(repaired) - split) :
               output'[k] = IF k <= 1 THEN Summary ELSE recent[k - 1]
      <4>1. output' = <<Summary>> \o recent
        BY <2>1 DEF recent
      <4>2. Summary \in HistoryMessage
        <5>1. <<>> \in Seq(Ids)
          OBVIOUS
        <5> QED
          BY <5>1 DEF Summary, HistoryMessage
      <4>3. <<Summary>> \in Seq(HistoryMessage) /\ Len(<<Summary>>) = 1 /\ <<Summary>>[1] = Summary
        BY <4>2
      <4> QED
        BY <3>2, <3>3, <4>1, <4>3, ConcatProperties
    <3>5. ASSUME NEW k \in 0..keep - 1
          PROVE  output'[Len(output') - k] = repaired[Len(repaired) - k]
      <4> DEFINE at == Len(output') - k
      <4>1. /\ at \in 1..1 + (Len(repaired) - split) /\ ~(at <= 1)
            /\ at - 1 \in 1..Len(repaired) - split
            /\ split + (at - 1) = Len(repaired) - k
        BY <1>1, <3>1, <3>4
      <4> HIDE DEF at
      <4>2. output'[at] = repaired[Len(repaired) - k]
        BY <3>2, <3>4, <4>1
      <4> QED
        BY <4>2 DEF at
    <3> QED
      BY <1>1, <3>1, <3>4, <3>5
  <2> QED
    BY <2>2, <2>3
<1> QED
  BY <1>1, <1>3, <1>4

\* HistoriesInv is inductive.
LEMMA HistoriesStep == HistoriesInv /\ [Next]_vars => HistoriesInv'
<1> SUFFICES ASSUME HistoriesInv, [Next]_vars PROVE HistoriesInv'
  OBVIOUS
<1>1. Matched(Flushed, <<>>)
  BY FlushAnswers DEF HistoriesInv, Flushed
<1>2. CASE UNCHANGED vars
  <2>1. UNCHANGED <<input, keep, repaired, pending, split, phase, read, output>>
    BY <1>2 DEF vars, given
  <2>2. RecentKept'
    BY <2>1 DEF RecentKept, HistoriesInv
  <2> QED
    BY <2>1, <2>2 DEF HistoriesInv
<1>3. CASE ReadCalls
  <2>1. Reading /\ Current.kind = "calls"
        /\ repaired' = Append(Flushed, Current) /\ pending' = Current.ids
    BY <1>3 DEF ReadCalls
  <2>2. Current \in HistoryMessage /\ ~IsTool(Current)
    BY <2>1, CurrentMessage, MessageKinds
  <2>3. Matched(repaired', pending')
    BY <1>1, <2>1, <2>2, MessageAdded
  <2> QED
    BY <2>1, <2>3, RepairSteps
<1>4. CASE ReadResult
  <2>1. Reading /\ IsTool(Current) /\ Contains(pending, Current.ids[1])
        /\ repaired' = Append(repaired, Current)
        /\ pending' = RemoveFirst(pending, Current.ids[1])
    BY <1>4 DEF ReadResult
  <2>2. Current \in HistoryMessage
    BY <2>1, CurrentMessage, MessageKinds
  <2>3. Matched(repaired', pending')
    BY <2>1, <2>2, ResultAnswers DEF HistoriesInv
  <2> QED
    BY <2>1, <2>3, RepairSteps
<1>5. CASE ReadOrphan
  <2>1. Reading /\ repaired' = repaired /\ pending' = pending
    BY <1>5 DEF ReadOrphan
  <2>2. Matched(repaired', pending')
    BY <2>1 DEF HistoriesInv
  <2> QED
    BY <2>1, <2>2, RepairSteps
<1>6. CASE ReadOther
  <2>1. Reading /\ Current.kind = "other"
        /\ repaired' = Append(Flushed, Current) /\ pending' = <<>>
    BY <1>6 DEF ReadOther
  <2>2. Current \in HistoryMessage /\ ~IsTool(Current)
    BY <2>1, CurrentMessage, MessageKinds
  <2>3. Matched(repaired', pending')
    BY <1>1, <2>1, <2>2, MessageAdded
  <2> QED
    BY <2>1, <2>3, RepairSteps
<1>7. CASE EndRepair
  <2>1. /\ repaired' = Flushed /\ pending' = <<>> /\ output' = output /\ output = <<>>
        /\ UNCHANGED <<input, keep, read>>
        /\ split' = Len(repaired') - (IF keep > 0 THEN keep ELSE 0)
    BY <1>7 DEF EndRepair, given, HistoriesInv
  <2>2. Matched(repaired', pending')
    BY <1>1, <2>1
  <2>3. Len(repaired') \in Nat
    BY <2>2 DEF Matched
  <2>4. split' \in Int /\ (keep' > 0 => split' <= Len(repaired') - keep')
    BY <2>1, <2>3 DEF HistoriesInv
  <2>5. RecentKept'
    BY <2>1 DEF RecentKept
  <2>6. Balanced(output')
    BY <2>1, EmptyHistory
  <2> QED
    BY <2>1, <2>2, <2>4, <2>5, <2>6 DEF HistoriesInv
<1>8. CASE MoveBack
  <2>1. /\ UNCHANGED <<input, keep, repaired, pending, phase, read, output>>
        /\ phase = "split" /\ split' = split - 1
    BY <1>8 DEF MoveBack, given
  <2>2. Len(repaired) \in Nat
    BY DEF HistoriesInv, Matched
  <2>3. split' \in Int /\ (keep' > 0 => split' <= Len(repaired') - keep')
    BY <2>1, <2>2 DEF HistoriesInv
  <2>4. RecentKept'
    BY <2>1 DEF RecentKept, HistoriesInv
  <2> QED
    BY <2>1, <2>3, <2>4 DEF HistoriesInv
<1>9. CASE Cut
  <2>1. /\ UNCHANGED <<input, keep, repaired, pending, split, read>>
        /\ phase = "split" /\ phase' = "done"
    BY <1>9 DEF Cut, given
  <2>2. Balanced(output') /\ RecentKept'
    BY <1>9, CutStep
  <2> QED
    BY <2>1, <2>2 DEF HistoriesInv
<1> QED
  BY <1>2, <1>3, <1>4, <1>5, <1>6, <1>7, <1>8, <1>9 DEF Next

\* Whatever a cancelled run, the iteration limit or an abandoned approval left in
\* the checkpoint, the repaired history and the compacted one answer every call
\* once, right after it, and hold no other tool message.
THEOREM HistoriesAreBalanced == Spec => []AlwaysBalanced
<1>1. HistoriesInv => AlwaysBalanced
  <2> SUFFICES ASSUME HistoriesInv PROVE AlwaysBalanced
    OBVIOUS
  <2>1. phase # "repair" => Matched(repaired, <<>>)
    BY DEF HistoriesInv
  <2>2. RepairedIsBalanced
    BY <2>1, MatchedIsBalanced DEF RepairedIsBalanced
  <2>3. CompactedIsBalanced
    BY DEF HistoriesInv, CompactedIsBalanced
  <2> QED
    BY <2>2, <2>3 DEF AlwaysBalanced
<1> QED
  BY <1>1, HistoriesInit, HistoriesStep, PTL DEF Spec

\* compact never shortens what is kept: the last keep messages come through verbatim.
THEOREM LatestAreKept == Spec => []RecentKept
<1>1. HistoriesInv => RecentKept
  BY DEF HistoriesInv
<1> QED
  BY <1>1, HistoriesInit, HistoriesStep, PTL DEF Spec

-----------------------------------------------------------------------------
\* The order of what was said

\* How many elements of S are not above i.
Rank(S, i) == Cardinality({k \in S : k <= i})

\* The elements of S have the ranks from 1 on, one each, and Nth finds them by it.
LEMMA Ranks ==
    ASSUME NEW n \in Nat, NEW S \in SUBSET (1..n)
    PROVE  /\ Cardinality(S) \in Nat
           /\ \A i \in S : Rank(S, i) \in 1..Cardinality(S) /\ Nth(S, Rank(S, i)) = i
           /\ \A m \in 1..Cardinality(S) : Nth(S, m) \in S /\ Rank(S, Nth(S, m)) = m
<1> DEFINE UpTo(i) == {k \in S : k <= i}
           f == [i \in S |-> Rank(S, i)]
<1>1. IsFiniteSet(S) /\ Cardinality(S) \in Nat
  BY PositionsFinite
<1>2. ASSUME NEW i \in S PROVE Rank(S, i) \in 1..Cardinality(S)
  <2>1. UpTo(i) \in SUBSET S /\ i \in UpTo(i)
    OBVIOUS
  <2> HIDE DEF UpTo
  <2>2. IsFiniteSet(UpTo(i)) /\ Cardinality(UpTo(i)) <= Cardinality(S)
    BY <1>1, <2>1, FS_Subset
  <2>3. Cardinality(UpTo(i)) \in Nat /\ Cardinality(UpTo(i)) # 0
    BY <2>1, <2>2, FS_CardinalityType, FS_EmptySet
  <2> QED
    BY <1>1, <2>2, <2>3 DEF Rank, UpTo
<1>3. ASSUME NEW i \in S, NEW j \in S, i < j PROVE Rank(S, i) # Rank(S, j)
  <2>1. UpTo(i) \in SUBSET UpTo(j) /\ j \in UpTo(j) /\ j \notin UpTo(i) /\ UpTo(j) \in SUBSET S
    <3>1. i \in Nat /\ j \in Nat /\ \A k \in S : k \in Nat
      OBVIOUS
    <3>2. \A k \in S : k <= i => k <= j
      BY <1>3, <3>1
    <3>3. j <= j /\ ~(j <= i)
      BY <1>3, <3>1
    <3> QED
      BY <3>2, <3>3
  <2> HIDE DEF UpTo
  <2>2. IsFiniteSet(UpTo(j))
    BY <1>1, <2>1, FS_Subset
  <2>3. Cardinality(UpTo(i)) # Cardinality(UpTo(j))
    BY <2>1, <2>2, FS_Subset
  <2> QED
    BY <2>3 DEF Rank, UpTo
<1>4. \A i, j \in S : Rank(S, i) = Rank(S, j) => i = j
  <2> SUFFICES ASSUME NEW i \in S, NEW j \in S, Rank(S, i) = Rank(S, j), i # j PROVE FALSE
    OBVIOUS
  <2>1. i < j \/ j < i
    OBVIOUS
  <2> QED
    BY <1>3, <2>1
<1>5. ASSUME NEW i \in S PROVE Nth(S, Rank(S, i)) = i
  <2>1. \A j \in S : Rank(S, j) = Rank(S, i) <=> j = i
    BY <1>4
  <2> QED
    BY <2>1 DEF Nth, Rank
<1>6. ASSUME NEW m \in 1..Cardinality(S) PROVE Nth(S, m) \in S /\ Rank(S, Nth(S, m)) = m
  <2>1. f \in Injection(S, 1..Cardinality(S))
    BY <1>2, <1>4 DEF Injection, IsInjective
  <2>2. IsFiniteSet(1..Cardinality(S)) /\ Cardinality(1..Cardinality(S)) = Cardinality(S)
    BY <1>1, FS_Interval
  <2> HIDE DEF f
  <2>3. f \in Surjection(S, 1..Cardinality(S))
    BY <2>1, <2>2, FS_Injection
  <2>4. PICK i \in S : f[i] = m
    BY <2>3 DEF Surjection
  <2>5. Rank(S, i) = m
    BY <2>4 DEF f
  <2> QED
    BY <1>5, <2>5
<1> QED
  BY <1>1, <1>2, <1>5, <1>6

\* Tool messages add nothing to what was said, any other message comes last in it.
LEMMA SaidAdded ==
    ASSUME NEW M, NEW h \in Seq(M)
    PROVE  /\ Said(h) \in SUBSET (1..Len(h)) /\ Len(h) \in Nat
           /\ \A q \in Seq(M) :
                (\A k \in 1..Len(q) : IsTool(q[k])) => Said(h \o q) = Said(h)
           /\ \A m \in M :
                ~IsTool(m) => /\ Said(Append(h, m)) = Said(h) \cup {Len(h) + 1}
                              /\ Cardinality(Said(Append(h, m))) = Cardinality(Said(h)) + 1
                              /\ Rank(Said(Append(h, m)), Len(h) + 1) = Cardinality(Said(h)) + 1
                              /\ \A i \in Said(h) :
                                   Rank(Said(Append(h, m)), i) = Rank(Said(h), i)
<1>1. Said(h) \in SUBSET (1..Len(h)) /\ Len(h) \in Nat
  BY DEF Said
<1>2. ASSUME NEW q \in Seq(M), \A k \in 1..Len(q) : IsTool(q[k])
      PROVE  Said(h \o q) = Said(h)
  <2> DEFINE g == h \o q
  <2>1. /\ DOMAIN g = 1..Len(h) + Len(q) /\ Len(q) \in Nat
        /\ \A k \in 1..Len(h) + Len(q) : g[k] = IF k <= Len(h) THEN h[k] ELSE q[k - Len(h)]
    BY ConcatProperties
  <2> HIDE DEF g
  <2>2. ASSUME NEW k \in DOMAIN g, ~IsTool(g[k]) PROVE k \in DOMAIN h /\ g[k] = h[k]
    <3>1. k <= Len(h)
      <4> SUFFICES ASSUME ~(k <= Len(h)) PROVE FALSE
        OBVIOUS
      <4>1. k - Len(h) \in 1..Len(q) /\ g[k] = q[k - Len(h)]
        BY <1>1, <2>1
      <4> QED
        BY <1>2, <2>2, <4>1
    <3> QED
      BY <1>1, <2>1, <3>1
  <2>3. \A k \in DOMAIN h : k \in DOMAIN g /\ g[k] = h[k]
    BY <1>1, <2>1
  <2>4. Said(g) = Said(h)
    BY <2>2, <2>3 DEF Said
  <2> QED
    BY <2>4 DEF g
<1>3. ASSUME NEW m \in M, ~IsTool(m)
      PROVE  /\ Said(Append(h, m)) = Said(h) \cup {Len(h) + 1}
             /\ Cardinality(Said(Append(h, m))) = Cardinality(Said(h)) + 1
             /\ Rank(Said(Append(h, m)), Len(h) + 1) = Cardinality(Said(h)) + 1
             /\ \A i \in Said(h) : Rank(Said(Append(h, m)), i) = Rank(Said(h), i)
  <2> DEFINE g == Append(h, m)
             n == Len(h) + 1
  <2>1. DOMAIN g = 1..n /\ g[n] = m /\ \A i \in 1..Len(h) : g[i] = h[i]
    OBVIOUS
  <2> HIDE DEF g
  <2>2. Said(g) = Said(h) \cup {n}
    BY <1>1, <1>3, <2>1 DEF Said
  <2>3. n \notin Said(h) /\ \A i \in Said(h) : i < n
    BY <1>1
  <2>4. Cardinality(Said(h) \cup {n}) = Cardinality(Said(h)) + 1
    <3>1. IsFiniteSet(Said(h))
      BY <1>1, PositionsFinite
    <3> QED
      BY <2>3, <3>1, FS_AddElement
  <2>5. {k \in Said(g) : k <= n} = Said(g)
    BY <1>1, <2>2, <2>3
  <2>6. ASSUME NEW i \in Said(h) PROVE {k \in Said(g) : k <= i} = {k \in Said(h) : k <= i}
    BY <1>1, <2>2, <2>3
  <2> QED
    BY <2>2, <2>4, <2>5, <2>6 DEF Rank, g
<1> QED
  BY <1>1, <1>2, <1>3

-----------------------------------------------------------------------------
\* What the repair keeps

Lesser(before, asked) == IF before < asked THEN before ELSE asked

(* h says what g says, in the same order, and has as many of the recorded  *)
(* results that follow each message as its calls can take.                 *)
Tracks(g, h) ==
    /\ g \in Seq(HistoryMessage) /\ h \in Seq(HistoryMessage)
    /\ Cardinality(Said(g)) = Cardinality(Said(h))
    /\ \A i \in Said(g) : \E j \in Said(h) :
        /\ Rank(Said(h), j) = Rank(Said(g), i)
        /\ h[j] = g[i]
        /\ Open(h, j) <=> Open(g, i)
        /\ \A id \in Ids :
            Cardinality(Recorded(h, j, id))
                = Lesser(Cardinality(Recorded(g, i, id)), Occurrences(g[i].ids, id))

(* The results of an open message are recorded ones, and only calls have   *)
(* ids to be answered.                                                     *)
Genuine(h) ==
    \A j \in Said(h) :
        /\ Open(h, j) => \A k \in j + 1..Len(h) : h[k].real
        /\ h[j].kind # "calls" => h[j].ids = <<>>

LEMMA OccurrencesNat ==
    ASSUME NEW E, NEW s \in Seq(E), NEW id
    PROVE  Occurrences(s, id) \in Nat
<1>1. {k \in DOMAIN s : s[k] = id} \in SUBSET (1..Len(s)) /\ Len(s) \in Nat
  OBVIOUS
<1> QED
  BY <1>1, PositionsFinite DEF Occurrences

\* What tool messages at the end add to the recorded results of a message.
LEMMA RecordedAdded ==
    ASSUME NEW h \in Seq(HistoryMessage), NEW q \in Seq(HistoryMessage),
           \A k \in 1..Len(q) : IsTool(q[k]),
           NEW i \in 1..Len(h), NEW id
    PROVE  /\ Open(h \o q, i) <=> Open(h, i)
           /\ Cardinality(Recorded(h, i, id)) \in Nat
           /\ Cardinality(Within(q, Real(id))) \in Nat
           /\ Cardinality(Recorded(h \o q, i, id)) = Cardinality(Recorded(h, i, id))
                + (IF Open(h, i) THEN Cardinality(Within(q, Real(id))) ELSE 0)
<1> DEFINE X == Real(id)
<1>1. Open(h \o q, i) <=> Open(h, i)
  BY ToolsFollow
<1>2. h \o q \in Seq(HistoryMessage) /\ i \in 1..Len(h \o q)
  BY ConcatProperties
<1>3. Recorded(h, i, id) = Among(h, i, X) /\ Recorded(h \o q, i, id) = Among(h \o q, i, X)
  BY <1>2, Measures
<1> HIDE DEF X
<1>4. /\ Cardinality(Among(h, i, X)) \in Nat
      /\ Cardinality(Within(q, X)) \in Nat
      /\ Cardinality(Among(h \o q, i, X)) = Cardinality(Among(h, i, X))
           + (IF Open(h, i) THEN Cardinality(Within(q, X)) ELSE 0)
  BY AnswersAdded
<1>5. /\ Cardinality(Recorded(h, i, id)) \in Nat
      /\ Cardinality(Recorded(h \o q, i, id)) = Cardinality(Recorded(h, i, id))
           + (IF Open(h, i) THEN Cardinality(Within(q, X)) ELSE 0)
  BY <1>3, <1>4
<1> QED
  BY <1>1, <1>4, <1>5 DEF X

\* Of the results p, the open message of h takes those in q: all while it has calls.
Takes(h, p, q) ==
    \A j \in Said(h) : Open(h, j) =>
        \A id \in Ids : \A before \in Nat :
            Cardinality(Recorded(h, j, id)) = Lesser(before, Occurrences(h[j].ids, id)) =>
                Cardinality(Recorded(h, j, id)) + Cardinality(Within(q, Real(id)))
                  = Lesser(before + Cardinality(Within(p, Real(id))), Occurrences(h[j].ids, id))

\* Tool messages at the end of both change what an open message has recorded.
LEMMA TracksResults ==
    ASSUME NEW g, NEW h, Tracks(g, h),
           NEW p \in Seq(HistoryMessage), \A k \in 1..Len(p) : IsTool(p[k]),
           NEW q \in Seq(HistoryMessage), \A k \in 1..Len(q) : IsTool(q[k]),
           Takes(h, p, q)
    PROVE  Tracks(g \o p, h \o q)
<1> DEFINE g2 == g \o p
           h2 == h \o q
<1>1. g \in Seq(HistoryMessage) /\ h \in Seq(HistoryMessage)
  BY DEF Tracks
<1>2. /\ g2 \in Seq(HistoryMessage) /\ Len(g2) = Len(g) + Len(p)
      /\ \A k \in 1..Len(g) : k \in 1..Len(g2) /\ g2[k] = g[k]
  BY <1>1, ConcatProperties
<1>3. /\ h2 \in Seq(HistoryMessage) /\ Len(h2) = Len(h) + Len(q)
      /\ \A k \in 1..Len(h) : k \in 1..Len(h2) /\ h2[k] = h[k]
  BY <1>1, ConcatProperties
<1>4. /\ Said(g2) = Said(g) /\ Said(g) \in SUBSET (1..Len(g))
      /\ Said(h2) = Said(h) /\ Said(h) \in SUBSET (1..Len(h))
  BY <1>1, SaidAdded
<1>5. ASSUME NEW i \in 1..Len(g), NEW id
      PROVE  /\ Open(g2, i) <=> Open(g, i)
             /\ Cardinality(Recorded(g, i, id)) \in Nat
             /\ Cardinality(Within(p, Real(id))) \in Nat
             /\ Cardinality(Recorded(g2, i, id)) = Cardinality(Recorded(g, i, id))
                  + (IF Open(g, i) THEN Cardinality(Within(p, Real(id))) ELSE 0)
  <2>1. p \in Seq(HistoryMessage) /\ \A k \in 1..Len(p) : IsTool(p[k])
    OBVIOUS
  <2>2. /\ Open(g \o p, i) <=> Open(g, i)
        /\ Cardinality(Recorded(g, i, id)) \in Nat
        /\ Cardinality(Within(p, Real(id))) \in Nat
        /\ Cardinality(Recorded(g \o p, i, id)) = Cardinality(Recorded(g, i, id))
             + (IF Open(g, i) THEN Cardinality(Within(p, Real(id))) ELSE 0)
    BY ONLY <1>1, <2>1, i \in 1..Len(g), RecordedAdded
  <2> QED
    BY <2>2
<1>6. ASSUME NEW i \in 1..Len(h), NEW id
      PROVE  /\ Open(h2, i) <=> Open(h, i)
             /\ Cardinality(Recorded(h, i, id)) \in Nat
             /\ Cardinality(Within(q, Real(id))) \in Nat
             /\ Cardinality(Recorded(h2, i, id)) = Cardinality(Recorded(h, i, id))
                  + (IF Open(h, i) THEN Cardinality(Within(q, Real(id))) ELSE 0)
  <2>1. q \in Seq(HistoryMessage) /\ \A k \in 1..Len(q) : IsTool(q[k])
    OBVIOUS
  <2>2. /\ Open(h \o q, i) <=> Open(h, i)
        /\ Cardinality(Recorded(h, i, id)) \in Nat
        /\ Cardinality(Within(q, Real(id))) \in Nat
        /\ Cardinality(Recorded(h \o q, i, id)) = Cardinality(Recorded(h, i, id))
             + (IF Open(h, i) THEN Cardinality(Within(q, Real(id))) ELSE 0)
    BY ONLY <1>1, <2>1, i \in 1..Len(h), RecordedAdded
  <2> QED
    BY <2>2
<1> HIDE DEF g2, h2
<1>7. ASSUME NEW i \in Said(g2)
      PROVE  \E j \in Said(h2) :
               /\ Rank(Said(h2), j) = Rank(Said(g2), i)
               /\ h2[j] = g2[i]
               /\ Open(h2, j) <=> Open(g2, i)
               /\ \A id \in Ids :
                    Cardinality(Recorded(h2, j, id))
                      = Lesser(Cardinality(Recorded(g2, i, id)), Occurrences(g2[i].ids, id))
  <2>1. i \in Said(g) /\ i \in 1..Len(g)
    BY <1>4
  <2>2. PICK j \in Said(h) :
          /\ Rank(Said(h), j) = Rank(Said(g), i)
          /\ h[j] = g[i]
          /\ Open(h, j) <=> Open(g, i)
          /\ \A id \in Ids :
               Cardinality(Recorded(h, j, id))
                 = Lesser(Cardinality(Recorded(g, i, id)), Occurrences(g[i].ids, id))
    BY <2>1 DEF Tracks
  <2>3. j \in 1..Len(h) /\ j \in Said(h2)
    BY <1>4
  <2>4. h2[j] = g2[i] /\ g2[i] = g[i] /\ (Open(h2, j) <=> Open(g2, i))
    BY <1>2, <1>3, <1>5, <1>6, <2>1, <2>2, <2>3
  <2>5. ASSUME NEW id \in Ids
        PROVE  Cardinality(Recorded(h2, j, id))
                 = Lesser(Cardinality(Recorded(g2, i, id)), Occurrences(g[i].ids, id))
    <3>1. CASE ~Open(h, j)
      <4>1. /\ Cardinality(Recorded(h2, j, id)) = Cardinality(Recorded(h, j, id))
            /\ Cardinality(Recorded(g2, i, id)) = Cardinality(Recorded(g, i, id))
        BY <1>5, <1>6, <2>1, <2>2, <2>3, <3>1
      <4> QED
        BY <2>2, <4>1
    <3>2. CASE Open(h, j)
      <4>1. /\ Cardinality(Recorded(h2, j, id))
                 = Cardinality(Recorded(h, j, id)) + Cardinality(Within(q, Real(id)))
            /\ Cardinality(Recorded(g2, i, id))
                 = Cardinality(Recorded(g, i, id)) + Cardinality(Within(p, Real(id)))
            /\ Cardinality(Recorded(g, i, id)) \in Nat
        BY <1>5, <1>6, <2>1, <2>2, <2>3, <3>2
      <4>2. Cardinality(Recorded(h, j, id))
              = Lesser(Cardinality(Recorded(g, i, id)), Occurrences(h[j].ids, id))
        BY <2>2
      <4>3. Cardinality(Recorded(h, j, id)) + Cardinality(Within(q, Real(id)))
              = Lesser(Cardinality(Recorded(g, i, id)) + Cardinality(Within(p, Real(id))),
                       Occurrences(h[j].ids, id))
        BY <3>2, <4>1, <4>2 DEF Takes
      <4> QED
        BY <2>2, <4>1, <4>3
    <3> QED
      BY <3>1, <3>2
  <2> QED
    BY <1>4, <2>2, <2>3, <2>4, <2>5
<1>8. Cardinality(Said(g2)) = Cardinality(Said(h2))
  BY <1>4 DEF Tracks
<1>9. Tracks(g2, h2)
  BY <1>2, <1>3, <1>7, <1>8 DEF Tracks
<1> QED
  BY <1>9 DEF g2, h2

\* Any other message is said by both, and has no result yet.
LEMMA TracksMessage ==
    ASSUME NEW g, NEW h, Tracks(g, h), NEW m \in HistoryMessage, ~IsTool(m)
    PROVE  Tracks(Append(g, m), Append(h, m))
<1> DEFINE g2 == Append(g, m)
           h2 == Append(h, m)
<1>1. g \in Seq(HistoryMessage) /\ h \in Seq(HistoryMessage)
  BY DEF Tracks
<1>2. /\ g2 \in Seq(HistoryMessage) /\ Len(g2) = Len(g) + 1 /\ g2[Len(g) + 1] = m
      /\ Len(g) \in Nat
      /\ \A k \in 1..Len(g) : k \in 1..Len(g2) /\ g2[k] = g[k]
  BY <1>1
<1>3. /\ h2 \in Seq(HistoryMessage) /\ Len(h2) = Len(h) + 1 /\ h2[Len(h) + 1] = m
      /\ Len(h) \in Nat
      /\ \A k \in 1..Len(h) : k \in 1..Len(h2) /\ h2[k] = h[k]
  BY <1>1
<1>4. /\ Said(g) \in SUBSET (1..Len(g))
      /\ Said(g2) = Said(g) \cup {Len(g) + 1}
      /\ Cardinality(Said(g2)) = Cardinality(Said(g)) + 1
      /\ Rank(Said(g2), Len(g) + 1) = Cardinality(Said(g)) + 1
      /\ \A i \in Said(g) : Rank(Said(g2), i) = Rank(Said(g), i)
  BY <1>1, SaidAdded
<1>5. /\ Said(h) \in SUBSET (1..Len(h))
      /\ Said(h2) = Said(h) \cup {Len(h) + 1}
      /\ Cardinality(Said(h2)) = Cardinality(Said(h)) + 1
      /\ Rank(Said(h2), Len(h) + 1) = Cardinality(Said(h)) + 1
      /\ \A i \in Said(h) : Rank(Said(h2), i) = Rank(Said(h), i)
  BY <1>1, SaidAdded
<1>6. /\ \A i \in 1..Len(g) : /\ ~Open(g2, i)
                             /\ \A X : Among(g2, i, X) = Among(g, i, X)
      /\ Open(g2, Len(g) + 1) /\ Answers(g2, Len(g) + 1) = {}
  BY <1>1, MessageCloses
<1>7. /\ \A i \in 1..Len(h) : /\ ~Open(h2, i)
                             /\ \A X : Among(h2, i, X) = Among(h, i, X)
      /\ Open(h2, Len(h) + 1) /\ Answers(h2, Len(h) + 1) = {}
  BY <1>1, MessageCloses
<1> HIDE DEF g2, h2
<1>8. ASSUME NEW i \in 1..Len(g), NEW id PROVE Recorded(g2, i, id) = Recorded(g, i, id)
  BY <1>1, <1>2, <1>6, Measures
<1>9. ASSUME NEW i \in 1..Len(h), NEW id PROVE Recorded(h2, i, id) = Recorded(h, i, id)
  BY <1>1, <1>3, <1>7, Measures
<1>10. ASSUME NEW i \in Said(g2)
       PROVE  \E j \in Said(h2) :
                /\ Rank(Said(h2), j) = Rank(Said(g2), i)
                /\ h2[j] = g2[i]
                /\ Open(h2, j) <=> Open(g2, i)
                /\ \A id \in Ids :
                     Cardinality(Recorded(h2, j, id))
                       = Lesser(Cardinality(Recorded(g2, i, id)), Occurrences(g2[i].ids, id))
  <2>1. CASE i \in Said(g)
    <3>1. PICK j \in Said(h) :
            /\ Rank(Said(h), j) = Rank(Said(g), i)
            /\ h[j] = g[i]
            /\ \A id \in Ids :
                 Cardinality(Recorded(h, j, id))
                   = Lesser(Cardinality(Recorded(g, i, id)), Occurrences(g[i].ids, id))
      BY <2>1 DEF Tracks
    <3>2. j \in 1..Len(h) /\ i \in 1..Len(g) /\ j \in Said(h2)
      BY <1>4, <1>5, <2>1
    <3>3. Rank(Said(h2), j) = Rank(Said(g2), i)
      BY <1>4, <1>5, <2>1, <3>1
    <3>4. h2[j] = g2[i] /\ g2[i] = g[i] /\ ~Open(h2, j) /\ ~Open(g2, i)
      BY <1>2, <1>3, <1>6, <1>7, <3>1, <3>2
    <3>5. \A id : /\ Recorded(h2, j, id) = Recorded(h, j, id)
                 /\ Recorded(g2, i, id) = Recorded(g, i, id)
      BY <1>8, <1>9, <3>2
    <3> QED
      BY <3>1, <3>2, <3>3, <3>4, <3>5
  <2>2. CASE i = Len(g) + 1
    <3> DEFINE j == Len(h) + 1
    <3>1. j \in Said(h2) /\ Rank(Said(h2), j) = Rank(Said(g2), i)
      BY <1>4, <1>5, <2>2 DEF Tracks
    <3>2. h2[j] = g2[i] /\ g2[i] = m /\ Open(h2, j) /\ Open(g2, i)
      BY <1>2, <1>3, <1>6, <1>7, <2>2
    <3>3. ASSUME NEW id \in Ids
          PROVE  Cardinality(Recorded(h2, j, id))
                   = Lesser(Cardinality(Recorded(g2, i, id)), Occurrences(m.ids, id))
      <4>1. Recorded(h2, j, id) = {} /\ Recorded(g2, i, id) = {}
        BY <1>6, <1>7, <2>2 DEF Recorded, AnswersTo
      <4>2. Cardinality({}) = 0
        BY FS_EmptySet
      <4>3. Occurrences(m.ids, id) \in Nat
        BY OccurrencesNat DEF HistoryMessage
      <4>4. Lesser(0, Occurrences(m.ids, id)) = 0
        BY <4>3 DEF Lesser
      <4> QED
        BY <4>1, <4>2, <4>4
    <3> HIDE DEF j
    <3> QED
      BY <3>1, <3>2, <3>3
  <2> QED
    BY <1>4, <2>1, <2>2
<1>11. Cardinality(Said(g2)) = Cardinality(Said(h2))
  BY <1>4, <1>5 DEF Tracks
<1>12. Tracks(g2, h2)
  BY <1>2, <1>3, <1>10, <1>11 DEF Tracks
<1> QED
  BY <1>12 DEF g2, h2

\* Of an open message, what is recorded and what is pending are its calls.
LEMMA OpenCounts ==
    ASSUME NEW h, NEW p, Matched(h, p), Genuine(h),
           NEW j \in Said(h), Open(h, j), NEW id \in Ids
    PROVE  /\ Cardinality(Recorded(h, j, id)) \in Nat
           /\ Occurrences(p, id) \in Nat
           /\ Occurrences(h[j].ids, id) \in Nat
           /\ Cardinality(Recorded(h, j, id)) + Occurrences(p, id) = Occurrences(h[j].ids, id)
<1>1. /\ h \in Seq(HistoryMessage) /\ p \in Seq(Ids) /\ Len(h) \in Nat
      /\ j \in 1..Len(h) /\ ~IsTool(h[j]) /\ h[j] \in HistoryMessage
  BY DEF Matched, Said
<1>2. Occurrences(p, id) \in Nat
  BY <1>1, OccurrencesNat
<1>3. Occurrences(h[j].ids, id) \in Nat
  BY <1>1, OccurrencesNat DEF HistoryMessage
<1>4. Cardinality(Recorded(h, j, id)) \in Nat
  <2>1. Recorded(h, j, id) \in SUBSET (1..Len(h))
    BY <1>1 DEF Recorded, AnswersTo, Answers
  <2> QED
    BY <1>1, <2>1, PositionsFinite
<1>5. CASE h[j].kind = "calls"
  <2>1. \A k \in Answers(h, j) : h[k].real
    BY DEF Genuine, Answers
  <2>2. Recorded(h, j, id) = AnswersTo(h, j, id)
    BY <2>1 DEF Recorded, AnswersTo
  <2> QED
    BY <1>1, <1>2, <1>3, <1>4, <1>5, <2>2 DEF Matched
<1>6. CASE h[j].kind # "calls"
  <2>1. ASSUME NEW i \in 1..Len(h), h[i].kind = "calls", NEW k \in i + 1..Len(h), k >= j,
               \A l \in i + 1..k : IsTool(h[l])
        PROVE  FALSE
    <3>1. i # j
      BY <1>6, <2>1
    <3>2. CASE i < j
      <4>1. j \in i + 1..k
        BY <1>1, <2>1, <3>2
      <4> QED
        BY <1>1, <2>1, <4>1
    <3>3. CASE i > j
      <4>1. i \in j + 1..Len(h)
        BY <1>1, <2>1, <3>3
      <4> QED
        BY <2>1, <4>1 DEF Open, IsTool
    <3> QED
      BY <1>1, <2>1, <3>1, <3>2, <3>3
  <2>2. Answers(h, j) = {}
    <3> SUFFICES ASSUME NEW k \in Answers(h, j) PROVE FALSE
      OBVIOUS
    <3>1. k \in j + 1..Len(h) /\ IsTool(h[k]) /\ k \in 1..Len(h) /\ k >= j
      BY <1>1 DEF Answers
    <3>2. PICK i \in 1..k - 1 : h[i].kind = "calls" /\ k \in Answers(h, i)
      BY <3>1 DEF Matched
    <3>3. i \in 1..Len(h) /\ k \in i + 1..Len(h) /\ \A l \in i + 1..k : IsTool(h[l])
      BY <3>1, <3>2 DEF Answers
    <3> QED
      BY <2>1, <3>1, <3>2, <3>3
  <2>3. p = <<>>
    <3> SUFFICES ASSUME p # <<>> PROVE FALSE
      OBVIOUS
    <3>1. PICK i \in 1..Len(h) : h[i].kind = "calls" /\ Open(h, i)
      BY DEF Matched
    <3>2. i # j
      BY <1>6, <3>1
    <3>3. CASE i < j
      <4>1. j \in i + 1..Len(h)
        BY <1>1, <3>3
      <4> QED
        BY <1>1, <3>1, <4>1 DEF Open
    <3>4. CASE i > j
      <4>1. i \in j + 1..Len(h)
        BY <1>1, <3>4
      <4> QED
        BY <3>1, <4>1 DEF Open, IsTool
    <3> QED
      BY <1>1, <3>1, <3>2, <3>3, <3>4
  <2>4. Recorded(h, j, id) = {} /\ h[j].ids = <<>>
    BY <1>6, <2>2 DEF Recorded, AnswersTo, Genuine
  <2>5. Occurrences(<<>>, id) = 0 /\ Cardinality({}) = 0
    BY FS_EmptySet DEF Occurrences
  <2> QED
    BY <2>3, <2>4, <2>5
<1> QED
  BY <1>1, <1>2, <1>3, <1>4, <1>5, <1>6

\* A sequence of no or one message, as Within counts it.
LEMMA WithinOne ==
    ASSUME NEW m \in HistoryMessage, NEW id
    PROVE  /\ <<m>> \in Seq(HistoryMessage) /\ <<>> \in Seq(HistoryMessage)
           /\ IsTool(m) => \A k \in 1..Len(<<m>>) : IsTool(<<m>>[k])
           /\ \A k \in 1..Len(<<>>) : IsTool(<<>>[k])
           /\ Cardinality(Within(<<>>, Real(id))) = 0
           /\ m.real => Cardinality(Within(<<m>>, Real(id))) = IF m.ids[1] = id THEN 1 ELSE 0
<1>1. Within(<<>>, Real(id)) = {}
  BY DEF Within
<1>2. ASSUME m.real PROVE Within(<<m>>, Real(id)) = IF m.ids[1] = id THEN {1} ELSE {}
  BY <1>2 DEF Within, Real, Naming
<1>3. Cardinality({}) = 0 /\ Cardinality({1}) = 1
  BY FS_EmptySet, FS_Singleton
<1>4. m.real => Cardinality(Within(<<m>>, Real(id))) = IF m.ids[1] = id THEN 1 ELSE 0
  BY <1>2, <1>3
<1>5. /\ <<m>> \in Seq(HistoryMessage) /\ <<>> \in Seq(HistoryMessage)
      /\ IsTool(m) => \A k \in 1..Len(<<m>>) : IsTool(<<m>>[k])
      /\ \A k \in 1..Len(<<>>) : IsTool(<<>>[k])
  OBVIOUS
<1> QED
  BY <1>1, <1>3, <1>4, <1>5

\* Synthetic results are no recorded ones.
LEMMA FlushTracks ==
    ASSUME NEW g, NEW h, Tracks(g, h), NEW p \in Seq(Ids)
    PROVE  Tracks(g, h \o [k \in DOMAIN p |-> Synthetic(p[k])])
<1> DEFINE q == [k \in DOMAIN p |-> Synthetic(p[k])]
<1>1. \A k \in 1..Len(p) : /\ Synthetic(p[k]) \in HistoryMessage /\ IsTool(Synthetic(p[k]))
                           /\ ~Synthetic(p[k]).real
  BY DEF Synthetic, ToolMessage, HistoryMessage, IsTool
<1>2. /\ q \in Seq(HistoryMessage) /\ Len(q) = Len(p)
      /\ \A k \in 1..Len(q) : IsTool(q[k]) /\ ~q[k].real
  BY <1>1
<1> HIDE DEF q
<1>3. ASSUME NEW id PROVE Within(q, Real(id)) = {} /\ Within(<<>>, Real(id)) = {}
  BY <1>2 DEF Within, Real
<1>4. Cardinality({}) = 0
  BY FS_EmptySet
<1>5. g \in Seq(HistoryMessage) /\ h \in Seq(HistoryMessage) /\ g \o <<>> = g
  BY DEF Tracks
<1>6. ASSUME NEW j \in Said(h), NEW id \in Ids, NEW before \in Nat,
             Cardinality(Recorded(h, j, id)) = Lesser(before, Occurrences(h[j].ids, id))
      PROVE  Cardinality(Recorded(h, j, id)) + Cardinality(Within(q, Real(id)))
               = Lesser(before + Cardinality(Within(<<>>, Real(id))), Occurrences(h[j].ids, id))
  <2>1. Cardinality(Recorded(h, j, id)) \in Nat
    <3>1. Recorded(h, j, id) \in SUBSET (1..Len(h)) /\ Len(h) \in Nat
      BY <1>5 DEF Recorded, AnswersTo, Answers, Said
    <3> QED
      BY <3>1, PositionsFinite
  <2>2. Cardinality(Within(q, Real(id))) = 0 /\ Cardinality(Within(<<>>, Real(id))) = 0
    BY <1>3, <1>4
  <2>3. before + 0 = before /\ Cardinality(Recorded(h, j, id)) + 0 = Cardinality(Recorded(h, j, id))
    BY <2>1
  <2> QED
    BY <1>6, <2>2, <2>3
<1>7. <<>> \in Seq(HistoryMessage) /\ \A k \in 1..Len(<<>>) : IsTool(<<>>[k])
  OBVIOUS
<1>8. Tracks(g \o <<>>, h \o q)
  <2>1. Takes(h, <<>>, q)
    BY <1>6 DEF Takes
  <2> QED
    BY <1>2, <1>7, <2>1, TracksResults
<1> QED
  BY <1>5, <1>8 DEF q

\* A result that is pending is recorded on both sides.
LEMMA ResultTracks ==
    ASSUME NEW g, NEW h, Tracks(g, h), NEW p, Matched(h, p), Genuine(h),
           NEW m \in HistoryMessage, IsTool(m), m.real, Contains(p, m.ids[1])
    PROVE  Tracks(Append(g, m), Append(h, m)) /\ Genuine(Append(h, m))
<1> DEFINE one == <<m>>
<1>1. g \in Seq(HistoryMessage) /\ h \in Seq(HistoryMessage) /\ p \in Seq(Ids)
  BY DEF Tracks, Matched
<1>2. Append(g, m) = g \o one /\ Append(h, m) = h \o one
  BY <1>1, AppendIsConcat
<1>3. one \in Seq(HistoryMessage) /\ Len(one) = 1 /\ \A k \in 1..Len(one) : IsTool(one[k])
  OBVIOUS
<1>4. ASSUME NEW j \in Said(h), Open(h, j), NEW id \in Ids, NEW before \in Nat,
             Cardinality(Recorded(h, j, id)) = Lesser(before, Occurrences(h[j].ids, id))
      PROVE  Cardinality(Recorded(h, j, id)) + Cardinality(Within(one, Real(id)))
               = Lesser(before + Cardinality(Within(one, Real(id))), Occurrences(h[j].ids, id))
  <2>1. /\ Cardinality(Recorded(h, j, id)) \in Nat
        /\ Occurrences(p, id) \in Nat
        /\ Occurrences(h[j].ids, id) \in Nat
        /\ Cardinality(Recorded(h, j, id)) + Occurrences(p, id) = Occurrences(h[j].ids, id)
    BY <1>4, OpenCounts
  <2>2. Cardinality(Within(one, Real(id))) = IF m.ids[1] = id THEN 1 ELSE 0
    BY WithinOne
  <2>3. CASE m.ids[1] # id
    BY <1>4, <2>1, <2>2, <2>3
  <2>4. CASE m.ids[1] = id
    <3>1. Occurrences(p, id) # 0
      <4>1. {k \in DOMAIN p : p[k] = id} \in SUBSET (1..Len(p)) /\ Len(p) \in Nat
        BY <1>1
      <4>2. IsFiniteSet({k \in DOMAIN p : p[k] = id})
        BY <4>1, PositionsFinite
      <4>3. {k \in DOMAIN p : p[k] = id} # {}
        BY <1>1, <2>4 DEF Contains
      <4> QED
        BY <4>2, <4>3, FS_EmptySet DEF Occurrences
    <3>2. Cardinality(Recorded(h, j, id)) < Occurrences(h[j].ids, id)
      BY <2>1, <3>1
    <3>3. Cardinality(Recorded(h, j, id)) = before
      BY <1>4, <2>1, <3>2 DEF Lesser
    <3> QED
      BY <2>1, <2>2, <2>4, <3>2, <3>3 DEF Lesser
  <2> QED
    BY <2>3, <2>4
<1>5. Tracks(g \o one, h \o one)
  <2> HIDE DEF one
  <2>1. Takes(h, one, one)
    BY <1>4 DEF Takes
  <2> QED
    BY <1>3, <2>1, TracksResults
<1>6. Genuine(h \o one)
  <2> DEFINE h2 == h \o one
  <2>1. /\ Said(h2) = Said(h) /\ Said(h) \in SUBSET (1..Len(h)) /\ Len(h) \in Nat
        /\ Len(h2) = Len(h) + 1 /\ h2[Len(h) + 1] = m
        /\ \A k \in 1..Len(h) : h2[k] = h[k]
    <3>1. Said(h \o one) = Said(h) /\ Said(h) \in SUBSET (1..Len(h)) /\ Len(h) \in Nat
      <4> HIDE DEF one
      <4> QED
        BY <1>1, <1>3, SaidAdded
    <3> QED
      BY <1>1, <1>2, <3>1
  <2>2. \A j \in Said(h) : Open(h2, j) <=> Open(h, j)
    <3> HIDE DEF one
    <3> QED
      BY <1>1, <1>3, <2>1, ToolsFollow
  <2> HIDE DEF h2
  <2>3. ASSUME NEW j \in Said(h2), Open(h2, j), NEW k \in j + 1..Len(h2) PROVE h2[k].real
    <3>1. CASE k = Len(h) + 1
      BY <2>1, <3>1
    <3>2. CASE k # Len(h) + 1
      <4>1. k \in j + 1..Len(h) /\ k \in 1..Len(h) /\ j \in Said(h)
        BY <2>1, <3>2
      <4>2. h[k].real
        BY <2>2, <2>3, <4>1 DEF Genuine
      <4> QED
        BY <2>1, <4>1, <4>2
    <3> QED
      BY <3>1, <3>2
  <2>4. \A j \in Said(h2) : h2[j].kind # "calls" => h2[j].ids = <<>>
    BY <2>1 DEF Genuine
  <2>5. Genuine(h2)
    BY <2>3, <2>4 DEF Genuine
  <2> QED
    BY <2>5 DEF h2
<1> QED
  BY <1>2, <1>5, <1>6

\* A result that is not pending is more than the calls can take.
LEMMA OrphanTracks ==
    ASSUME NEW g, NEW h, Tracks(g, h), NEW p, Matched(h, p), Genuine(h),
           NEW m \in HistoryMessage, IsTool(m), m.real, ~Contains(p, m.ids[1])
    PROVE  Tracks(Append(g, m), h)
<1> DEFINE one == <<m>>
<1>1. g \in Seq(HistoryMessage) /\ h \in Seq(HistoryMessage) /\ p \in Seq(Ids)
  BY DEF Tracks, Matched
<1>2. Append(g, m) = g \o one /\ h \o <<>> = h
  BY <1>1
<1>3. /\ one \in Seq(HistoryMessage) /\ Len(one) = 1 /\ \A k \in 1..Len(one) : IsTool(one[k])
      /\ <<>> \in Seq(HistoryMessage) /\ \A k \in 1..Len(<<>>) : IsTool(<<>>[k])
  OBVIOUS
<1>4. ASSUME NEW j \in Said(h), Open(h, j), NEW id \in Ids, NEW before \in Nat,
             Cardinality(Recorded(h, j, id)) = Lesser(before, Occurrences(h[j].ids, id))
      PROVE  Cardinality(Recorded(h, j, id)) + Cardinality(Within(<<>>, Real(id)))
               = Lesser(before + Cardinality(Within(one, Real(id))), Occurrences(h[j].ids, id))
  <2>1. /\ Cardinality(Recorded(h, j, id)) \in Nat
        /\ Occurrences(h[j].ids, id) \in Nat
        /\ Cardinality(Recorded(h, j, id)) + Occurrences(p, id) = Occurrences(h[j].ids, id)
    BY <1>4, OpenCounts
  <2>2. /\ Cardinality(Within(one, Real(id))) = IF m.ids[1] = id THEN 1 ELSE 0
        /\ Cardinality(Within(<<>>, Real(id))) = 0
    BY WithinOne
  <2>3. CASE m.ids[1] # id
    BY <1>4, <2>1, <2>2, <2>3
  <2>4. CASE m.ids[1] = id
    <3>1. Occurrences(p, id) = 0
      <4>1. {k \in DOMAIN p : p[k] = id} = {}
        BY <1>1, <2>4 DEF Contains
      <4> QED
        BY <4>1, FS_EmptySet DEF Occurrences
    <3>2. Cardinality(Recorded(h, j, id)) = Occurrences(h[j].ids, id)
      BY <2>1, <3>1
    <3>3. before >= Occurrences(h[j].ids, id)
      BY <1>4, <2>1, <3>2 DEF Lesser
    <3> QED
      BY <2>1, <2>2, <2>4, <3>2, <3>3 DEF Lesser
  <2> QED
    BY <2>3, <2>4
<1>5. Tracks(g \o one, h \o <<>>)
  <2> HIDE DEF one
  <2>1. Takes(h, one, <<>>)
    BY <1>4 DEF Takes
  <2> QED
    BY <1>3, <2>1, TracksResults
<1> QED
  BY <1>2, <1>5

-----------------------------------------------------------------------------
\* A valid history is left alone

\* The part of a history before position n + 1.
Before(s, n) == SubSeq(s, 1, n)

LEMMA BeforeIsPrefix ==
    ASSUME NEW s \in Seq(HistoryMessage), NEW n \in Nat, n <= Len(s)
    PROVE  /\ Before(s, n) \in Seq(HistoryMessage) /\ Len(Before(s, n)) = n
           /\ \A k \in 1..n : Before(s, n)[k] = s[k]
           /\ Before(s, 0) = <<>> /\ Before(s, Len(s)) = s
           /\ n < Len(s) => Before(s, n + 1) = Append(Before(s, n), s[n + 1])
<1>1. Len(s) \in Nat /\ n \in Nat /\ n <= Len(s)
  OBVIOUS
<1>2. ASSUME NEW l \in 0..Len(s)
      PROVE  /\ Before(s, l) \in Seq(HistoryMessage) /\ Len(Before(s, l)) = l
             /\ \A k \in 1..l : Before(s, l)[k] = s[k]
  BY <1>1, SubSeqProperties DEF Before
<1>3. Before(s, 0) = <<>>
  BY <1>1, <1>2
<1>4. Before(s, Len(s)) = s
  BY <1>1, <1>2
<1>5. ASSUME n < Len(s) PROVE Before(s, n + 1) = Append(Before(s, n), s[n + 1])
  <2> DEFINE x == Before(s, n + 1)
             y == Append(Before(s, n), s[n + 1])
  <2>1. x \in Seq(HistoryMessage) /\ Len(x) = n + 1 /\ \A k \in 1..n + 1 : x[k] = s[k]
    BY <1>1, <1>2, <1>5
  <2>2. s[n + 1] \in HistoryMessage /\ Before(s, n) \in Seq(HistoryMessage) /\ Len(Before(s, n)) = n
    BY <1>1, <1>2, <1>5
  <2>3. /\ y \in Seq(HistoryMessage) /\ Len(y) = n + 1 /\ y[n + 1] = s[n + 1]
        /\ \A k \in 1..n : y[k] = s[k]
    BY <1>2, <2>2, AppendProperties
  <2> HIDE DEF x, y
  <2>4. \A k \in 1..n + 1 : x[k] = y[k]
    <3> SUFFICES ASSUME NEW k \in 1..n + 1 PROVE x[k] = y[k]
      OBVIOUS
    <3>1. k \in 1..n \/ k = n + 1
      BY <1>1
    <3> QED
      BY <2>1, <2>3, <3>1
  <2>5. x = y
    BY <2>1, <2>3, <2>4
  <2> QED
    BY <2>5 DEF x, y
<1>6. /\ Before(s, n) \in Seq(HistoryMessage) /\ Len(Before(s, n)) = n
      /\ \A k \in 1..n : Before(s, n)[k] = s[k]
  BY <1>2
<1> QED
  BY <1>3, <1>4, <1>5, <1>6

\* The messages of a valid history are answered before the next one that is no tool
\* message, and before its end.
LEMMA NothingPending ==
    ASSUME NEW s \in Seq(HistoryMessage), Balanced(s),
           NEW n \in Nat, n <= Len(s), NEW p, Matched(Before(s, n), p),
           n < Len(s) => ~IsTool(s[n + 1])
    PROVE  p = <<>>
<1> DEFINE g == Before(s, n)
<1>1. /\ g \in Seq(HistoryMessage) /\ Len(g) = n /\ n \in Nat /\ Len(s) \in Nat /\ n <= Len(s)
      /\ \A k \in 1..n : g[k] = s[k]
  <2>1. n \in Nat /\ Len(s) \in Nat /\ n <= Len(s)
    OBVIOUS
  <2>2. /\ g \in Seq(HistoryMessage) /\ Len(g) = n
        /\ \A k \in 1..n : g[k] = s[k]
    BY BeforeIsPrefix
  <2> HIDE DEF g
  <2> QED
    BY <2>1, <2>2
<1>2. Matched(g, p)
  OBVIOUS
<1> HIDE DEF g
<1> SUFFICES ASSUME p # <<>> PROVE FALSE
  OBVIOUS
<1>3. PICK i \in 1..n : g[i].kind = "calls" /\ Open(g, i)
  BY <1>1, <1>2 DEF Matched
<1>4. Answers(s, i) = Answers(g, i)
  <2>1. ASSUME NEW j \in Answers(s, i) PROVE j \in Answers(g, i)
    <3>1. j \in i + 1..Len(s) /\ \A k \in i + 1..j : IsTool(s[k])
      BY DEF Answers
    <3>2. j <= n
      <4> SUFFICES ASSUME ~(j <= n) PROVE FALSE
        OBVIOUS
      <4>1. n + 1 \in i + 1..j /\ n < Len(s)
        BY <1>1, <1>3, <3>1
      <4> QED
        BY <3>1, <4>1
    <3>3. j \in i + 1..Len(g) /\ \A k \in i + 1..j : k \in 1..n
      BY <1>1, <3>1, <3>2
    <3>4. \A k \in i + 1..j : IsTool(g[k])
      BY <1>1, <3>1, <3>3
    <3> QED
      BY <3>3, <3>4 DEF Answers
  <2>2. ASSUME NEW j \in Answers(g, i) PROVE j \in Answers(s, i)
    <3>1. j \in i + 1..n /\ \A k \in i + 1..j : IsTool(g[k])
      BY <1>1 DEF Answers
    <3>2. j \in i + 1..Len(s) /\ \A k \in i + 1..j : k \in 1..n
      BY <1>1, <3>1
    <3>3. \A k \in i + 1..j : IsTool(s[k])
      BY <1>1, <3>1, <3>2
    <3> QED
      BY <3>2, <3>3 DEF Answers
  <2> QED
    BY <2>1, <2>2
<1>5. PICK id \in Ids : \E k \in DOMAIN p : p[k] = id
  <2>1. p \in Seq(Ids)
    BY <1>2 DEF Matched
  <2> QED
    BY <2>1
<1>6. AnswersTo(s, i, id) = AnswersTo(g, i, id)
  <2>1. \A j \in Answers(g, i) : g[j] = s[j]
    BY <1>1, <1>3 DEF Answers
  <2> QED
    BY <1>4, <2>1 DEF AnswersTo
<1>7. Cardinality(AnswersTo(s, i, id)) = Occurrences(s[i].ids, id)
  <2>1. i \in DOMAIN s /\ s[i].kind = "calls"
    BY <1>1, <1>3
  <2> QED
    BY <2>1 DEF Balanced
<1>8. Cardinality(AnswersTo(g, i, id)) + Occurrences(p, id) = Occurrences(s[i].ids, id)
  BY <1>1, <1>2, <1>3 DEF Matched
<1>9. Cardinality(AnswersTo(g, i, id)) \in Nat
  <2>1. AnswersTo(g, i, id) \in SUBSET (1..Len(g))
    BY <1>1, <1>3 DEF AnswersTo, Answers
  <2> QED
    BY <1>1, <2>1, PositionsFinite
<1>10. Occurrences(p, id) \in Nat \ {0}
  <2>1. p \in Seq(Ids)
    BY <1>2 DEF Matched
  <2>2. {k \in DOMAIN p : p[k] = id} \in SUBSET (1..Len(p)) /\ Len(p) \in Nat
    BY <2>1
  <2>3. IsFiniteSet({k \in DOMAIN p : p[k] = id}) /\ {k \in DOMAIN p : p[k] = id} # {}
    BY <1>5, <2>2, PositionsFinite
  <2> QED
    BY <2>1, <2>3, OccurrencesNat, FS_EmptySet DEF Occurrences
<1> QED
  BY <1>6, <1>7, <1>8, <1>9, <1>10

\* And its results are all awaited.
LEMMA ResultPending ==
    ASSUME NEW s \in Seq(HistoryMessage), Balanced(s),
           NEW n \in Nat, n < Len(s), NEW p, Matched(Before(s, n), p),
           IsTool(s[n + 1]), s[n + 1].ids[1] \in Ids
    PROVE  Contains(p, s[n + 1].ids[1])
<1> DEFINE g == Before(s, n)
           id == s[n + 1].ids[1]
<1>1. /\ g \in Seq(HistoryMessage) /\ Len(g) = n /\ n \in Nat /\ Len(s) \in Nat
      /\ n + 1 \in 1..Len(s)
      /\ \A k \in 1..n : g[k] = s[k]
  <2>1. n \in Nat /\ Len(s) \in Nat /\ n <= Len(s)
    OBVIOUS
  <2>2. /\ g \in Seq(HistoryMessage) /\ Len(g) = n
        /\ \A k \in 1..n : g[k] = s[k]
    BY BeforeIsPrefix
  <2> HIDE DEF g
  <2> QED
    BY <2>1, <2>2
<1>2. Matched(g, p)
  OBVIOUS
<1> HIDE DEF g
<1>3. PICK i \in 1..n : s[i].kind = "calls" /\ n + 1 \in Answers(s, i)
  <2>1. n + 1 \in DOMAIN s /\ (n + 1) - 1 = n
    BY <1>1
  <2> QED
    BY <2>1 DEF Balanced
<1>4. \A k \in i + 1..n + 1 : IsTool(s[k])
  BY <1>3 DEF Answers
<1>5. Open(g, i) /\ g[i].kind = "calls" /\ i \in 1..Len(s)
  <2>1. \A k \in i + 1..n : k \in 1..n /\ k \in i + 1..n + 1
    BY <1>1, <1>3
  <2> QED
    BY <1>1, <1>3, <1>4, <2>1 DEF Open
<1>6. AnswersTo(g, i, id) \cup {n + 1} \in SUBSET AnswersTo(s, i, id)
  <2>1. n + 1 \in AnswersTo(s, i, id)
    BY <1>3 DEF AnswersTo
  <2>2. ASSUME NEW j \in AnswersTo(g, i, id) PROVE j \in AnswersTo(s, i, id)
    <3>1. j \in i + 1..n /\ g[j].ids[1] = id /\ \A k \in i + 1..j : IsTool(g[k])
      BY <1>1 DEF AnswersTo, Answers
    <3>2. /\ j \in i + 1..Len(s) /\ j \in 1..n
          /\ \A k \in i + 1..j : k \in 1..n
      BY <1>1, <1>3, <3>1
    <3>3. \A k \in i + 1..j : IsTool(s[k])
      BY <1>1, <3>1, <3>2
    <3>4. s[j].ids[1] = id
      BY <1>1, <3>1, <3>2
    <3> QED
      BY <3>2, <3>3, <3>4 DEF AnswersTo, Answers
  <2> QED
    BY <2>1, <2>2
<1>7. /\ IsFiniteSet(AnswersTo(g, i, id)) /\ Cardinality(AnswersTo(g, i, id)) \in Nat
      /\ n + 1 \notin AnswersTo(g, i, id)
  <2>1. AnswersTo(g, i, id) \in SUBSET (1..n)
    BY <1>1, <1>3 DEF AnswersTo, Answers
  <2>2. n + 1 \notin 1..n
    BY <1>1
  <2>3. n + 1 \notin AnswersTo(g, i, id)
    BY <2>1, <2>2
  <2> HIDE DEF id
  <2> QED
    BY <1>1, <2>1, <2>3, PositionsFinite
<1>8. /\ IsFiniteSet(AnswersTo(s, i, id)) /\ Cardinality(AnswersTo(s, i, id)) \in Nat
  <2>1. AnswersTo(s, i, id) \in SUBSET (1..Len(s))
    BY <1>1, <1>3 DEF AnswersTo, Answers
  <2> HIDE DEF id
  <2> QED
    BY <1>1, <2>1, PositionsFinite
<1>9. Cardinality(AnswersTo(g, i, id)) + 1 <= Cardinality(AnswersTo(s, i, id))
  <2>1. Cardinality(AnswersTo(g, i, id) \cup {n + 1}) = Cardinality(AnswersTo(g, i, id)) + 1
    BY <1>7, FS_AddElement
  <2>2. Cardinality(AnswersTo(g, i, id) \cup {n + 1}) <= Cardinality(AnswersTo(s, i, id))
    BY <1>6, <1>8, FS_Subset
  <2> QED
    BY <2>1, <2>2
<1>10. Cardinality(AnswersTo(s, i, id)) = Occurrences(s[i].ids, id)
  BY <1>3, <1>5 DEF Balanced
<1>11. Cardinality(AnswersTo(g, i, id)) + Occurrences(p, id) = Occurrences(s[i].ids, id)
  BY <1>1, <1>2, <1>3, <1>5 DEF Matched
<1>12. p \in Seq(Ids) /\ Occurrences(p, id) \in Nat
  BY <1>2, OccurrencesNat DEF Matched
<1>13. Occurrences(p, id) # 0
  BY <1>7, <1>8, <1>9, <1>10, <1>11, <1>12
<1>14. {k \in DOMAIN p : p[k] = id} # {}
  BY <1>13, FS_EmptySet DEF Occurrences
<1> QED
  BY <1>12, <1>14 DEF Contains
-----------------------------------------------------------------------------
\* What the state machine keeps

(* The repaired history tracks what is read of the input, and is what is   *)
(* read of it when the input is valid.                                     *)
LosslessInv ==
    /\ phase = "repair" =>
        /\ read <= Len(input)
        /\ Tracks(Before(input, read), repaired)
        /\ Genuine(repaired)
        /\ Balanced(input) => repaired = Before(input, read)
    /\ phase # "repair" =>
        /\ Tracks(input, repaired)
        /\ Balanced(input) => repaired = input

LEMMA InputMessages ==
    ASSUME HistoriesInv
    PROVE  input \in Seq(HistoryMessage)
<1>1. input \in Seq(Message) /\ \A m \in Message : m \in HistoryMessage
  BY MessageKinds DEF HistoriesInv
<1> QED
  BY <1>1

\* A message that is no tool message closes the synthetic results before it.
LEMMA GenuineMessage ==
    ASSUME NEW h \in Seq(HistoryMessage), Genuine(h), NEW p \in Seq(Ids),
           NEW m \in HistoryMessage, ~IsTool(m), m.kind # "calls" => m.ids = <<>>
    PROVE  Genuine(Append(h \o [k \in DOMAIN p |-> Synthetic(p[k])], m))
<1> DEFINE q == [k \in DOMAIN p |-> Synthetic(p[k])]
           f == h \o q
           g == Append(f, m)
<1>1. q \in Seq(HistoryMessage) /\ \A k \in 1..Len(q) : IsTool(q[k])
  <2>1. \A k \in 1..Len(p) : Synthetic(p[k]) \in HistoryMessage /\ IsTool(Synthetic(p[k]))
    BY DEF Synthetic, ToolMessage, HistoryMessage, IsTool
  <2> QED
    BY <2>1
<1> HIDE DEF q
<1>2. /\ f \in Seq(HistoryMessage) /\ Said(f) = Said(h)
      /\ \A j \in Said(h) : j \in 1..Len(h) /\ f[j] = h[j]
  <2>1. f \in Seq(HistoryMessage) /\ \A j \in 1..Len(h) : f[j] = h[j]
    BY <1>1, ConcatProperties
  <2>2. Said(f) = Said(h) /\ Said(h) \in SUBSET (1..Len(h))
    BY <1>1, SaidAdded
  <2> HIDE DEF f
  <2> QED
    BY <2>1, <2>2
<1> HIDE DEF f
<1>3. /\ Said(f) \in SUBSET (1..Len(f)) /\ Len(f) \in Nat
      /\ Said(g) = Said(f) \cup {Len(f) + 1}
  BY <1>2, SaidAdded
<1>4. \A j \in 1..Len(f) : ~Open(g, j)
  BY <1>2, MessageCloses
<1>5. Len(g) = Len(f) + 1 /\ g[Len(f) + 1] = m /\ \A j \in 1..Len(f) : g[j] = f[j]
  BY <1>2
<1> HIDE DEF g
<1>6. ASSUME NEW j \in Said(g)
      PROVE  /\ Open(g, j) => \A k \in j + 1..Len(g) : g[k].real
             /\ g[j].kind # "calls" => g[j].ids = <<>>
  <2>1. CASE j \in Said(f)
    <3>1. j \in 1..Len(f) /\ ~Open(g, j) /\ g[j] = h[j]
      BY <1>2, <1>3, <1>4, <1>5, <2>1
    <3> QED
      BY <1>2, <2>1, <3>1 DEF Genuine
  <2>2. CASE j = Len(f) + 1
    <3>1. j + 1..Len(g) = {}
      BY <1>3, <1>5, <2>2
    <3> QED
      BY <1>5, <2>2, <3>1
  <2> QED
    BY <1>3, <2>1, <2>2
<1>7. Genuine(g)
  BY <1>6 DEF Genuine
<1> QED
  BY <1>7 DEF g, f, q

LEMMA LosslessInit == Init => LosslessInv
<1> SUFFICES ASSUME Init PROVE LosslessInv
  OBVIOUS
<1>1. phase = "repair" /\ read = 0 /\ repaired = <<>>
  BY DEF Init
<1>2. input \in Seq(HistoryMessage)
  BY HistoriesInit, InputMessages
<1>3. Before(input, 0) = <<>> /\ Len(input) \in Nat
  <2>1. 0 \in Nat /\ 0 <= Len(input) /\ Len(input) \in Nat
    BY <1>2
  <2> QED
    BY <1>2, <2>1, BeforeIsPrefix
<1>4. Said(<<>>) = {}
  BY DEF Said
<1>5. Tracks(<<>>, <<>>)
  <2>1. <<>> \in Seq(HistoryMessage)
    OBVIOUS
  <2> QED
    BY <1>4, <2>1 DEF Tracks
<1>6. Genuine(<<>>)
  BY <1>4 DEF Genuine
<1> QED
  BY <1>1, <1>3, <1>5, <1>6 DEF LosslessInv

\* What a step of the repair that reads a message has to show.
LEMMA ReadingTracks ==
    ASSUME HistoriesInv, LosslessInv, Reading,
           Tracks(Append(Before(input, read), Current), repaired'), Genuine(repaired'),
           Balanced(input) => repaired' = Append(Before(input, read), Current)
    PROVE  LosslessInv'
<1>1. input \in Seq(HistoryMessage) /\ read \in Nat /\ read < Len(input) /\ Len(input) \in Nat
  BY InputMessages DEF HistoriesInv, Reading
<1>2. read' = read + 1 /\ input' = input /\ phase' = "repair"
  BY DEF Reading, given
<1>3. Before(input, read + 1) = Append(Before(input, read), Current)
  <2>1. read <= Len(input)
    BY <1>1
  <2> QED
    BY <1>1, <2>1, BeforeIsPrefix DEF Current
<1>4. read + 1 <= Len(input)
  BY <1>1
<1> QED
  BY <1>2, <1>3, <1>4 DEF LosslessInv

\* What the repair holds when it reads a message that is no tool message, or ends.
LEMMA FlushedTracks ==
    ASSUME HistoriesInv, LosslessInv, phase = "repair"
    PROVE  /\ Tracks(Before(input, read), Flushed)
           /\ (read < Len(input) => ~IsTool(Current)) /\ Balanced(input)
                => Flushed = Before(input, read)
<1>1. /\ input \in Seq(HistoryMessage) /\ read \in Nat /\ read <= Len(input)
      /\ pending \in Seq(Ids) /\ repaired \in Seq(HistoryMessage)
  BY InputMessages DEF HistoriesInv, LosslessInv, Matched
<1>2. Tracks(Before(input, read), Flushed)
  BY <1>1, FlushTracks DEF Flushed, LosslessInv
<1>3. ASSUME read < Len(input) => ~IsTool(Current), Balanced(input)
      PROVE  Flushed = Before(input, read)
  <2>1. repaired = Before(input, read)
    BY <1>3 DEF LosslessInv
  <2>2. Matched(Before(input, read), pending)
    BY <2>1 DEF HistoriesInv
  <2>3. pending = <<>>
    BY <1>1, <1>3, <2>2, NothingPending DEF Current
  <2>4. [k \in DOMAIN pending |-> Synthetic(pending[k])] = <<>>
    BY <2>3
  <2> QED
    BY <1>1, <2>1, <2>4 DEF Flushed
<1> QED
  BY <1>2, <1>3

\* A message that is no tool message is said by the input and by what is repaired.
LEMMA LosslessMessage ==
    ASSUME HistoriesInv, LosslessInv, Reading, Current.kind \in {"calls", "other"},
           repaired' = Append(Flushed, Current)
    PROVE  LosslessInv'
<1>1. phase = "repair"
  BY DEF Reading
<1>2. /\ Current \in HistoryMessage /\ ~IsTool(Current)
      /\ Current.kind # "calls" => Current.ids = <<>>
  BY CurrentMessage, MessageKinds
<1>3. Tracks(Append(Before(input, read), Current), repaired')
  <2>1. Tracks(Before(input, read), Flushed)
    BY <1>1, FlushedTracks
  <2> QED
    BY <1>2, <2>1, TracksMessage
<1>4. Genuine(repaired')
  <2>1. /\ repaired \in Seq(HistoryMessage) /\ pending \in Seq(Ids)
        /\ Genuine(repaired)
    BY <1>1 DEF HistoriesInv, LosslessInv, Matched
  <2>2. Genuine(Append(repaired \o [k \in DOMAIN pending |-> Synthetic(pending[k])], Current))
    BY <1>2, <2>1, GenuineMessage
  <2> QED
    BY <2>2 DEF Flushed
<1>5. Balanced(input) => repaired' = Append(Before(input, read), Current)
  BY <1>1, <1>2, FlushedTracks
<1> QED
  BY <1>3, <1>4, <1>5, ReadingTracks

\* A result is one of the calls', or more than they can take: never so in a valid history.
LEMMA LosslessResult ==
    ASSUME HistoriesInv, LosslessInv, Reading, IsTool(Current),
           IF Contains(pending, Current.ids[1])
             THEN repaired' = Append(repaired, Current)
             ELSE repaired' = repaired
    PROVE  LosslessInv'
<1>1. /\ Tracks(Before(input, read), repaired) /\ Genuine(repaired)
      /\ Balanced(input) => repaired = Before(input, read)
  BY DEF Reading, LosslessInv
<1>2. /\ Matched(repaired, pending) /\ read \in Nat /\ read < Len(input)
      /\ input \in Seq(HistoryMessage)
  BY InputMessages DEF HistoriesInv, Reading
<1>3. /\ Current \in HistoryMessage /\ Current.real /\ Current.ids[1] \in Ids
  BY CurrentMessage, MessageKinds
<1>4. CASE Contains(pending, Current.ids[1])
  <2>1. repaired' = Append(repaired, Current)
    BY <1>4
  <2>2. Tracks(Append(Before(input, read), Current), repaired') /\ Genuine(repaired')
    BY <1>1, <1>2, <1>3, <1>4, <2>1, ResultTracks
  <2>3. Balanced(input) => repaired' = Append(Before(input, read), Current)
    BY <1>1, <2>1
  <2> QED
    BY <2>2, <2>3, ReadingTracks
<1>5. CASE ~Contains(pending, Current.ids[1])
  <2>1. repaired' = repaired
    BY <1>5
  <2>2. Tracks(Append(Before(input, read), Current), repaired') /\ Genuine(repaired')
    BY <1>1, <1>2, <1>3, <1>5, <2>1, OrphanTracks
  <2>3. ~Balanced(input)
    <3> SUFFICES ASSUME Balanced(input) PROVE FALSE
      OBVIOUS
    <3>1. Matched(Before(input, read), pending)
      BY <1>1, <1>2
    <3>2. Contains(pending, Current.ids[1])
      BY <1>2, <1>3, <3>1, ResultPending DEF Current
    <3> QED
      BY <1>5, <3>2
  <2> QED
    BY <2>2, <2>3, ReadingTracks
<1> QED
  BY <1>4, <1>5

\* LosslessInv is inductive, with HistoriesInv.
LEMMA LosslessStep == HistoriesInv /\ LosslessInv /\ [Next]_vars => LosslessInv'
<1> SUFFICES ASSUME HistoriesInv, LosslessInv, [Next]_vars PROVE LosslessInv'
  OBVIOUS
<1>1. CASE ReadCalls
  BY <1>1, LosslessMessage DEF ReadCalls
<1>2. CASE ReadResult
  BY <1>2, LosslessResult DEF ReadResult
<1>3. CASE ReadOrphan
  BY <1>3, LosslessResult DEF ReadOrphan
<1>4. CASE ReadOther
  BY <1>4, LosslessMessage DEF ReadOther
<1>5. CASE EndRepair
  <2>1. /\ phase = "repair" /\ read = Len(input) /\ repaired' = Flushed /\ input' = input
        /\ phase' # "repair"
    BY <1>5 DEF EndRepair, given
  <2>2. Before(input, read) = input /\ ~(read < Len(input))
    <3>1. input \in Seq(HistoryMessage) /\ Len(input) \in Nat /\ Len(input) <= Len(input)
      BY InputMessages
    <3>2. Before(input, Len(input)) = input
      BY <3>1, BeforeIsPrefix
    <3> QED
      BY <2>1, <3>1, <3>2
  <2>3. Tracks(input, Flushed) /\ (Balanced(input) => Flushed = input)
    BY <2>1, <2>2, FlushedTracks
  <2> QED
    BY <2>1, <2>3 DEF LosslessInv
<1>6. ASSUME UNCHANGED <<input, repaired>>, phase # "repair", phase' # "repair"
      PROVE  LosslessInv'
  BY <1>6 DEF LosslessInv
<1>7. CASE MoveBack
  BY <1>6, <1>7 DEF MoveBack, given
<1>8. CASE Cut
  BY <1>6, <1>8 DEF Cut, given
<1>9. CASE UNCHANGED vars
  BY <1>9 DEF LosslessInv, vars, given
<1> QED
  BY <1>1, <1>2, <1>3, <1>4, <1>5, <1>7, <1>8, <1>9 DEF Next

\* What tracks a history says the same and keeps its results, message by message.
LEMMA TracksKeeps ==
    ASSUME NEW g, NEW h, Tracks(g, h)
    PROVE  /\ Spoken(h) = Spoken(g)
           /\ \A n \in 1..Cardinality(Said(g)) : \A id \in Ids :
                Cardinality(Recorded(h, Nth(Said(h), n), id))
                  = Lesser(Cardinality(Recorded(g, Nth(Said(g), n), id)),
                           Occurrences(g[Nth(Said(g), n)].ids, id))
<1>1. /\ Said(g) \in SUBSET (1..Len(g)) /\ Len(g) \in Nat
      /\ Said(h) \in SUBSET (1..Len(h)) /\ Len(h) \in Nat
  BY SaidAdded DEF Tracks
<1>2. Cardinality(Said(g)) = Cardinality(Said(h))
  BY DEF Tracks
<1>3. ASSUME NEW n \in 1..Cardinality(Said(g))
      PROVE  /\ h[Nth(Said(h), n)] = g[Nth(Said(g), n)]
             /\ \A id \in Ids :
                  Cardinality(Recorded(h, Nth(Said(h), n), id))
                    = Lesser(Cardinality(Recorded(g, Nth(Said(g), n), id)),
                             Occurrences(g[Nth(Said(g), n)].ids, id))
  <2>1. Nth(Said(g), n) \in Said(g) /\ Rank(Said(g), Nth(Said(g), n)) = n
    BY <1>1, Ranks
  <2>2. PICK j \in Said(h) :
          /\ Rank(Said(h), j) = n
          /\ h[j] = g[Nth(Said(g), n)]
          /\ \A id \in Ids :
               Cardinality(Recorded(h, j, id))
                 = Lesser(Cardinality(Recorded(g, Nth(Said(g), n), id)),
                          Occurrences(g[Nth(Said(g), n)].ids, id))
    BY <2>1 DEF Tracks
  <2>3. Nth(Said(h), n) = j
    BY <1>1, <2>2, Ranks
  <2> QED
    BY <2>2, <2>3
<1>4. Spoken(h) = Spoken(g)
  BY <1>2, <1>3 DEF Spoken
<1> QED
  BY <1>3, <1>4

\* The repair loses nothing that was said and no result that its call can take, in
\* whatever order they were recorded, and leaves a valid history as it is.
THEOREM NothingIsLost == Spec => []NothingLost
<1>1. HistoriesInv /\ LosslessInv => NothingLost
  <2> SUFFICES ASSUME HistoriesInv, LosslessInv PROVE NothingLost
    OBVIOUS
  <2>1. phase # "repair" => Tracks(input, repaired)
    BY DEF LosslessInv
  <2>2. ConversationKept
    BY <2>1, TracksKeeps DEF ConversationKept
  <2>3. ResultsKept
    BY <2>1, TracksKeeps DEF ResultsKept, Lesser
  <2>4. ValidIsUnchanged
    BY DEF LosslessInv, ValidIsUnchanged
  <2>5. RecentKept
    BY DEF HistoriesInv
  <2> QED
    BY <2>2, <2>3, <2>4, <2>5 DEF NothingLost
<1> QED
  BY <1>1, HistoriesInit, HistoriesStep, LosslessInit, LosslessStep, PTL DEF Spec

=============================================================================
