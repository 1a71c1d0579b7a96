----------------------------- MODULE PartsProofs -----------------------------
(***************************************************************************)
(* Theorems about three of the parts that stand alone: Search, for any     *)
(* number of concurrent calls, any queries and any limits; VoiceCalls, for *)
(* any number of calls, outbound and incoming; and Playback, for any size  *)
(* of frames and of deltas and any bound.                                  *)
(***************************************************************************)
EXTENDS Search, VoiceCalls, Playback, FiniteSetTheorems, SequenceTheorems, TLAPS

\* A set of natural numbers that is not empty has a least one.
LEMMA Least ==
    ASSUME NEW S \in SUBSET Nat, S # {}
    PROVE  \E m \in S : \A k \in S : m <= k
<1> DEFINE Less == {p \in Nat \X Nat : p[1] < p[2]}
<1>1. IsWellFoundedOn(Less, Nat)
  BY NatLessThanWellFounded DEF OpToRel
<1> HIDE DEF Less
<1>2. PICK m \in S : \A k \in S : <<k, m>> \notin Less
  BY <1>1, WFMin
<1>3. \A k \in S : ~(k < m)
  BY <1>2 DEF Less
<1> QED
  BY <1>3

-----------------------------------------------------------------------------
(* Type correctness *)

SearchTypeOK ==
    /\ queries \in [Searches -> Carried]
    /\ kept \in [Searches -> SUBSET Nat]
    /\ \A c \in Searches : kept[c] \subseteq DOMAIN queries[c]
    /\ pc \in [Searches -> {"dedup", "budget", "search", "done", "refused"}]
    /\ counts \in Nat
    /\ searched \subseteq Queries
    /\ seenUrls \subseteq Urls
    /\ attempts \in [Searches -> [Queries -> Nat]]
    /\ settled \in [Searches -> SUBSET Queries]
    /\ pages \in [Searches -> SUBSET Urls] /\ shown \in [Searches -> SUBSET Urls]

\* A call carries a sequence of queries.
LEMMA CarriedQueries ==
    ASSUME SearchTypeOK, NEW c \in Searches
    PROVE  /\ Len(queries[c]) \in Nat /\ DOMAIN queries[c] = 1..Len(queries[c])
           /\ \A i \in DOMAIN queries[c] : queries[c][i] \in Queries
<1>1. queries[c] \in Seq(Queries)
  BY SearchAssumption DEF SearchTypeOK
<1> QED
  BY <1>1

(* The dedup policy has an outcome for every call: position by position,   *)
(* what was kept before decides.                                           *)
LEMMA KeptIsDeduplicated ==
    ASSUME SearchTypeOK, NEW c \in Searches
    PROVE  Kept(c) \subseteq DOMAIN queries[c] /\ Deduplicated(c, Kept(c))
<1> DEFINE n == Len(queries[c])
           Repeats(i, K) ==
               Duplicate(queries[c][i], searched \cup QueriesAt(c, {j \in K : j < i}))
           UpTo(m, K) == \A i \in 1..m : i \in K <=> ~Repeats(i, K)
           Bad == {m \in 0..n : \A K \in SUBSET (1..m) : ~UpTo(m, K)}
<1>1. n \in Nat /\ DOMAIN queries[c] = 1..n
  BY CarriedQueries
<1> HIDE DEF n
<1>2. ASSUME Bad # {} PROVE FALSE
  <2>1. PICK m \in Bad : \A k \in Bad : m <= k
    <3>1. Bad \in SUBSET (0..n)
      OBVIOUS
    <3> HIDE DEF Bad
    <3> QED
      BY <1>1, <1>2, <3>1, Least
  <2>2. m # 0
    <3>1. UpTo(0, {}) /\ {} \in SUBSET (1..0)
      OBVIOUS
    <3>2. \A K \in SUBSET (1..m) : ~UpTo(m, K)
      BY <2>1
    <3> HIDE DEF UpTo
    <3> QED
      BY <3>1, <3>2
  <2>3. m \in 1..n /\ m \in Nat /\ m - 1 \in 0..n
    BY <1>1, <2>1, <2>2
  <2>4. PICK K \in SUBSET (1..m - 1) : UpTo(m - 1, K)
    <3>1. m - 1 \notin Bad
      <4> HIDE DEF Bad
      <4> QED
        BY <2>1, <2>3
    <3> HIDE DEF UpTo
    <3> QED
      BY <2>3, <3>1
  <2> DEFINE L == IF Repeats(m, K) THEN K ELSE K \cup {m}
  <2>5. \A i \in 1..m : {j \in L : j < i} = {j \in K : j < i}
    BY <2>3
  <2>6. \A i \in 1..m : Repeats(i, L) <=> Repeats(i, K)
    BY <2>5
  <2>7. m \in L <=> ~Repeats(m, K)
    BY <2>3
  <2>8. \A i \in 1..m - 1 : i \in L <=> i \in K
    BY <2>3
  <2>9. \A i \in 1..m : i = m \/ i \in 1..m - 1
    BY <2>3
  <2>10. UpTo(m, L)
    <3> HIDE DEF L, Repeats
    <3> QED
      BY <2>4, <2>6, <2>7, <2>8, <2>9
  <2>11. L \in SUBSET (1..m)
    BY <2>3
  <2> HIDE DEF L, UpTo
  <2> QED
    BY <2>1, <2>10, <2>11
<1>3. \E K \in SUBSET (1..n) : UpTo(n, K)
  <2>1. n \in 0..n
    BY <1>1
  <2>2. n \notin Bad
    <3> HIDE DEF Bad
    <3> QED
      BY <1>2
  <2> HIDE DEF UpTo
  <2> QED
    BY <2>1, <2>2
<1>4. \E K \in SUBSET DOMAIN queries[c] : Deduplicated(c, K)
  BY <1>1, <1>3 DEF Deduplicated
<1> HIDE DEF UpTo, Bad
<1> QED
  BY <1>4 DEF Kept

LEMMA SearchTypes == SearchSpec => []SearchTypeOK
<1>1. SearchInit => SearchTypeOK
  BY DEF SearchInit, SearchTypeOK
<1>2. SearchTypeOK /\ [SearchNext]_searchVars => SearchTypeOK'
  <2> SUFFICES ASSUME SearchTypeOK, [SearchNext]_searchVars PROVE SearchTypeOK'
    OBVIOUS
  <2> USE DEF SearchTypeOK, Moves
  <2>1. CASE UNCHANGED searchVars
    BY <2>1 DEF searchVars
  <2>2. ASSUME NEW c \in Searches, Dedups(c) PROVE SearchTypeOK'
    <3>1. Kept(c) \subseteq DOMAIN queries[c]
      BY KeptIsDeduplicated
    <3>2. DOMAIN queries[c] \subseteq Nat /\ \A i \in DOMAIN queries[c] : queries[c][i] \in Queries
      BY CarriedQueries
    <3>3. QueriesAt(c, Kept(c)) \subseteq Queries
      BY <3>1, <3>2 DEF QueriesAt
    <3> QED
      BY <2>2, <3>1, <3>2, <3>3 DEF Dedups
  <2>3. ASSUME NEW c \in Searches, RefusesRepeat(c) PROVE SearchTypeOK'
    BY <2>3 DEF RefusesRepeat
  <2>4. ASSUME NEW c \in Searches, Admits(c) PROVE SearchTypeOK'
    BY <2>4 DEF Admits
  <2>5. ASSUME NEW c \in Searches, RefusesOverBudget(c) PROVE SearchTypeOK'
    BY <2>5 DEF RefusesOverBudget
  <2>6. ASSUME NEW c \in Searches, NEW q \in Queries, Requests(c, q) PROVE SearchTypeOK'
    BY <2>6 DEF Requests
  <2>7. ASSUME NEW c \in Searches, NEW q \in Queries, Settles(c, q) PROVE SearchTypeOK'
    BY <2>7 DEF Settles
  <2>8. ASSUME NEW c \in Searches, Returns(c) PROVE SearchTypeOK'
    BY <2>8 DEF Returns, Found
  <2> QED
    BY <2>1, <2>2, <2>3, <2>4, <2>5, <2>6, <2>7, <2>8 DEF SearchNext
<1> QED
  BY <1>1, <1>2, PTL DEF SearchSpec

-----------------------------------------------------------------------------
(* No query is sent twice *)

\* The queries a call kept are recorded, and none repeats another one.
KeptApart ==
    /\ \A c \in Searches : pc[c] = "dedup" => kept[c] = {}
    /\ \A c \in Searches : \A i \in kept[c] : queries[c][i] \in searched
    /\ \A c, d \in Searches : \A i \in kept[c], j \in kept[d] :
          c # d \/ i # j => <<queries[c][i], queries[d][j]>> \notin Similar

\* Only what a call kept is sent.
SentIsKept ==
    \A c \in Searches, q \in Queries :
        attempts[c][q] > 0 => pc[c] \in {"search", "done"} /\ q \in Batch(c)

\* A call that passes the policy repeats neither what is recorded nor itself.
LEMMA DedupKeepsApart ==
    ASSUME SearchTypeOK, KeptApart, NEW c \in Searches, Dedups(c)
    PROVE  KeptApart'
<1> DEFINE K == Kept(c)
           q(i) == queries[c][i]
<1>1. K \subseteq DOMAIN queries[c] /\ Deduplicated(c, K)
  BY KeptIsDeduplicated
<1>2. DOMAIN queries[c] \subseteq Nat /\ \A i \in DOMAIN queries[c] : q(i) \in Queries
  BY CarriedQueries
<1>3. /\ UNCHANGED queries /\ kept' = [kept EXCEPT ![c] = K] /\ pc' = [pc EXCEPT ![c] = "budget"]
      /\ searched' = searched \cup QueriesAt(c, K)
  BY DEF Dedups, Moves
<1> HIDE DEF K
<1>4. ASSUME NEW i \in K
      PROVE  /\ \A p \in searched : <<q(i), p>> \notin Similar
             /\ \A j \in K : j < i => <<q(i), q(j)>> \notin Similar
  <2>1. ~Duplicate(q(i), searched \cup QueriesAt(c, {j \in K : j < i}))
    BY <1>1 DEF Deduplicated
  <2> QED
    BY <2>1 DEF Duplicate, QueriesAt
<1>5. \A i, j \in K : i # j => <<q(i), q(j)>> \notin Similar
  <2> SUFFICES ASSUME NEW i \in K, NEW j \in K, i # j PROVE <<q(i), q(j)>> \notin Similar
    OBVIOUS
  <2>1. i < j \/ j < i
    BY <1>1, <1>2
  <2>2. q(i) \in Queries /\ q(j) \in Queries
    BY <1>1, <1>2
  <2> QED
    BY <1>4, <2>1, <2>2, SearchAssumption
<1>6. ASSUME NEW d \in Searches \ {c}, NEW i \in K, NEW j \in kept[d]
      PROVE  <<q(i), queries[d][j]>> \notin Similar /\ <<queries[d][j], q(i)>> \notin Similar
  <2>1. queries[d][j] \in searched /\ queries[d][j] \in Queries /\ q(i) \in Queries
    BY <1>1, <1>2 DEF KeptApart, SearchTypeOK
  <2> QED
    BY <1>4, <2>1, SearchAssumption
<1>7. kept'[c] = K /\ \A d \in Searches \ {c} : kept'[d] = kept[d]
  BY <1>3 DEF SearchTypeOK
<1>8. \A d \in Searches : \A i \in kept'[d] : queries[d][i] \in searched'
  BY <1>3, <1>7 DEF KeptApart, QueriesAt
<1>9. \A d, e \in Searches : \A i \in kept'[d], j \in kept'[e] :
         d # e \/ i # j => <<queries[d][i], queries[e][j]>> \notin Similar
  <2> SUFFICES ASSUME NEW d \in Searches, NEW e \in Searches,
                      NEW i \in kept'[d], NEW j \in kept'[e], d # e \/ i # j
               PROVE  <<queries[d][i], queries[e][j]>> \notin Similar
    OBVIOUS
  <2>1. CASE d = c /\ e = c
    BY <1>5, <1>7, <2>1
  <2>2. CASE d = c /\ e # c
    BY <1>6, <1>7, <2>2
  <2>3. CASE d # c /\ e = c
    BY <1>6, <1>7, <2>3
  <2>4. CASE d # c /\ e # c
    BY <1>7, <2>4 DEF KeptApart
  <2> QED
    BY <2>1, <2>2, <2>3, <2>4
<1>10. \A d \in Searches : pc'[d] = "dedup" => kept'[d] = {}
  BY <1>3, <1>7 DEF KeptApart, SearchTypeOK
<1> QED
  BY <1>3, <1>8, <1>9, <1>10 DEF KeptApart

\* Both are kept by every step.
LEMMA KeptInvariant == SearchSpec => [](KeptApart /\ SentIsKept)
<1>1. SearchInit => KeptApart /\ SentIsKept
  BY DEF SearchInit, KeptApart, SentIsKept
<1>2. SearchTypeOK /\ KeptApart /\ SentIsKept /\ [SearchNext]_searchVars => KeptApart' /\ SentIsKept'
  <2> SUFFICES ASSUME SearchTypeOK, KeptApart, SentIsKept, [SearchNext]_searchVars
               PROVE  KeptApart' /\ SentIsKept'
    OBVIOUS
  <2>0. UNCHANGED <<queries, kept, searched>>
        /\ (\A c \in Searches : pc'[c] = "dedup" => pc[c] = "dedup") => KeptApart'
    BY DEF KeptApart
  <2>1. UNCHANGED <<queries, kept, attempts>>
        /\ (\A c \in Searches : pc[c] \in {"search", "done"} => pc'[c] \in {"search", "done"})
        => SentIsKept'
    BY DEF SentIsKept, Batch, QueriesAt
  <2> USE DEF SearchTypeOK, Moves
  <2>2. CASE UNCHANGED searchVars
    BY <2>0, <2>1, <2>2 DEF searchVars
  <2>3. ASSUME NEW c \in Searches, Dedups(c) PROVE KeptApart' /\ SentIsKept'
    <3>1. /\ UNCHANGED <<queries, attempts>>
          /\ \A d \in Searches \ {c} : kept'[d] = kept[d] /\ pc'[d] = pc[d]
          /\ pc[c] = "dedup"
      BY <2>3 DEF Dedups
    <3>2. \A d \in Searches \ {c} : Batch(d)' = Batch(d)
      BY <3>1 DEF Batch, QueriesAt
    <3>3. \A q \in Queries : ~(attempts[c][q] > 0)
      BY <3>1 DEF SentIsKept
    <3>4. SentIsKept'
      BY <3>1, <3>2, <3>3 DEF SentIsKept
    <3> QED
      BY <2>3, <3>4, DedupKeepsApart
  <2>4. ASSUME NEW c \in Searches, RefusesRepeat(c) PROVE KeptApart' /\ SentIsKept'
    BY <2>0, <2>1, <2>4 DEF RefusesRepeat
  <2>5. ASSUME NEW c \in Searches, Admits(c) PROVE KeptApart' /\ SentIsKept'
    BY <2>0, <2>1, <2>5 DEF Admits
  <2>6. ASSUME NEW c \in Searches, RefusesOverBudget(c) PROVE KeptApart' /\ SentIsKept'
    BY <2>0, <2>1, <2>6 DEF RefusesOverBudget
  <2>7. ASSUME NEW c \in Searches, NEW q \in Queries, Requests(c, q)
        PROVE  KeptApart' /\ SentIsKept'
    <3>1. /\ UNCHANGED <<queries, kept, searched, pc>> /\ pc[c] = "search" /\ q \in Batch(c)
          /\ attempts' = [attempts EXCEPT ![c][q] = @ + 1]
      BY <2>7 DEF Requests
    <3>2. \A d \in Searches, p \in Queries :
             attempts'[d][p] > 0 => attempts[d][p] > 0 \/ (d = c /\ p = q)
      BY <3>1
    <3>3. \A d \in Searches : Batch(d)' = Batch(d)
      BY <3>1 DEF Batch, QueriesAt
    <3> QED
      BY <2>0, <3>1, <3>2, <3>3 DEF SentIsKept
  <2>8. ASSUME NEW c \in Searches, NEW q \in Queries, Settles(c, q)
        PROVE  KeptApart' /\ SentIsKept'
    BY <2>0, <2>1, <2>8 DEF Settles
  <2>9. ASSUME NEW c \in Searches, Returns(c) PROVE KeptApart' /\ SentIsKept'
    BY <2>0, <2>1, <2>9 DEF Returns
  <2> QED
    BY <2>2, <2>3, <2>4, <2>5, <2>6, <2>7, <2>8, <2>9 DEF SearchNext
<1> QED
  BY <1>1, <1>2, SearchTypes, PTL DEF SearchSpec

(* However the calls of a round interleave, no query that is sent to the   *)
(* provider repeats another one that is, in its own call or in another.    *)
THEOREM NothingIsSearchedTwice == SearchSpec => []SearchedOnce
<1>1. SearchTypeOK /\ KeptApart /\ SentIsKept => SearchedOnce
  <2> SUFFICES ASSUME SearchTypeOK, KeptApart, SentIsKept,
                      NEW r \in Requested, NEW s \in Requested, r # s
               PROVE  <<r[2], s[2]>> \notin Similar
    BY DEF SearchedOnce
  <2>1. ASSUME NEW x \in Requested
        PROVE  x = <<x[1], x[2]>> /\ x[1] \in Searches
               /\ \E i \in kept[x[1]] : x[2] = queries[x[1]][i]
    <3>1. /\ x = <<x[1], x[2]>> /\ x[1] \in Searches /\ x[2] \in Queries
          /\ attempts[x[1]][x[2]] > 0
      BY <2>1 DEF Requested
    <3>2. x[2] \in Batch(x[1])
      BY <3>1 DEF SentIsKept
    <3> QED
      BY <3>1, <3>2 DEF Batch, QueriesAt
  <2>2. PICK i \in kept[r[1]] : r[2] = queries[r[1]][i]
    BY <2>1
  <2>3. PICK j \in kept[s[1]] : s[2] = queries[s[1]][j]
    BY <2>1
  <2>4. r[1] # s[1] \/ i # j
    BY <2>1, <2>2, <2>3
  <2> QED
    BY <2>1, <2>2, <2>3, <2>4 DEF KeptApart
<1> QED
  BY <1>1, SearchTypes, KeptInvariant, PTL

-----------------------------------------------------------------------------
(* Every url is shown once *)

\* What calls have shown is what is recorded, and what they found.
ShownRecorded ==
    LET Finished == {c \in Searches : pc[c] = "done"}
    IN  /\ seenUrls = UNION {shown[c] : c \in Finished}
        /\ \A c \in Finished : pages[c] \subseteq seenUrls /\ shown[c] \subseteq pages[c]
        /\ \A c, d \in Finished : c # d => shown[c] \cap shown[d] = {}

(* Every url that calls found is shown by exactly one of them: the results *)
(* are compared with those of the calls that returned before.              *)
THEOREM UrlsAreShownOnce == SearchSpec => []UrlsShownOnce
<1> DEFINE Finished == {c \in Searches : pc[c] = "done"}
<1>1. SearchInit => ShownRecorded
  BY DEF SearchInit, ShownRecorded
<1>2. SearchTypeOK /\ ShownRecorded /\ [SearchNext]_searchVars => ShownRecorded'
  <2> SUFFICES ASSUME SearchTypeOK, ShownRecorded, [SearchNext]_searchVars PROVE ShownRecorded'
    OBVIOUS
  <2>0. /\ Finished' = Finished /\ UNCHANGED <<seenUrls, shown>>
        /\ \A c \in Finished : pages'[c] = pages[c]
        => ShownRecorded'
    BY DEF ShownRecorded
  <2> USE DEF SearchTypeOK, Moves
  <2>1. CASE UNCHANGED searchVars
    BY <2>0, <2>1 DEF searchVars
  <2>2. ASSUME NEW c \in Searches, Dedups(c) PROVE ShownRecorded'
    BY <2>0, <2>2 DEF Dedups
  <2>3. ASSUME NEW c \in Searches, RefusesRepeat(c) PROVE ShownRecorded'
    BY <2>0, <2>3 DEF RefusesRepeat
  <2>4. ASSUME NEW c \in Searches, Admits(c) PROVE ShownRecorded'
    BY <2>0, <2>4 DEF Admits
  <2>5. ASSUME NEW c \in Searches, RefusesOverBudget(c) PROVE ShownRecorded'
    BY <2>0, <2>5 DEF RefusesOverBudget
  <2>6. ASSUME NEW c \in Searches, NEW q \in Queries, Requests(c, q) PROVE ShownRecorded'
    BY <2>0, <2>6 DEF Requests
  <2>7. ASSUME NEW c \in Searches, NEW q \in Queries, Settles(c, q) PROVE ShownRecorded'
    BY <2>0, <2>7 DEF Settles
  <2>8. ASSUME NEW c \in Searches, Returns(c) PROVE ShownRecorded'
    <3>1. Finished' = Finished \cup {c} /\ c \notin Finished
      BY <2>8 DEF Returns
    <3>2. /\ UNCHANGED pages /\ shown'[c] = pages[c] \ seenUrls
          /\ \A d \in Finished : shown'[d] = shown[d]
          /\ seenUrls' = seenUrls \cup (pages[c] \ seenUrls)
      BY <2>8, <3>1 DEF Returns, Found
    <3>3. \A d \in Finished : shown[d] \subseteq seenUrls
      BY DEF ShownRecorded
    <3>4. seenUrls' = UNION {shown'[d] : d \in Finished'}
      <4>1. seenUrls = UNION {shown[d] : d \in Finished}
        BY DEF ShownRecorded
      <4> HIDE DEF Finished
      <4>2. \A u : u \in seenUrls' <=> \E d \in Finished' : u \in shown'[d]
        <5>1. \A u : u \in seenUrls <=> \E d \in Finished : u \in shown[d]
          BY <4>1
        <5> QED
          BY <3>1, <3>2, <5>1
      <4> QED
        BY <4>2
    <3> HIDE DEF Finished
    <3>5. \A d \in Finished' : pages'[d] \subseteq seenUrls' /\ shown'[d] \subseteq pages'[d]
      BY <3>1, <3>2 DEF ShownRecorded, Finished
    <3>6. \A d, e \in Finished' : d # e => shown'[d] \cap shown'[e] = {}
      <4>1. \A d, e \in Finished : d # e => shown[d] \cap shown[e] = {}
        BY DEF ShownRecorded, Finished
      <4> QED
        BY <3>1, <3>2, <3>3, <4>1
    <3> QED
      BY <3>4, <3>5, <3>6 DEF ShownRecorded, Finished
  <2> QED
    BY <2>1, <2>2, <2>3, <2>4, <2>5, <2>6, <2>7, <2>8 DEF SearchNext
<1>3. ShownRecorded => UrlsShownOnce
  BY DEF ShownRecorded, UrlsShownOnce
<1> QED
  BY <1>1, <1>2, <1>3, SearchTypes, PTL DEF SearchSpec

-----------------------------------------------------------------------------
(* The provider gets a bounded number of requests *)

\* The calls the budget has admitted.
Admitted == {c \in Searches : pc[c] \in {"search", "done"}}

\* How many queries a call kept up to a position.
Rank(c, i) == Cardinality({j \in kept[c] : j <= i})

\* The budget counts the admitted calls, and a query is retried so often.
BudgetKept ==
    /\ IsFiniteSet(Admitted) /\ Cardinality(Admitted) = counts
    /\ SearchBudget > 0 => counts <= SearchBudget
    /\ \A c \in Searches, q \in Queries : attempts[c][q] <= MaxAttempts

LEMMA BudgetInvariant == SearchSpec => []BudgetKept
<1> USE SearchAssumption
<1>1. SearchInit => BudgetKept
  <2> SUFFICES ASSUME SearchInit PROVE BudgetKept
    OBVIOUS
  <2>1. Admitted = {}
    BY DEF SearchInit, Admitted
  <2>2. IsFiniteSet(Admitted) /\ Cardinality(Admitted) = 0
    BY <2>1, FS_EmptySet
  <2> QED
    BY <2>2 DEF SearchInit, BudgetKept
<1>2. SearchTypeOK /\ BudgetKept /\ [SearchNext]_searchVars => BudgetKept'
  <2> SUFFICES ASSUME SearchTypeOK, BudgetKept, [SearchNext]_searchVars PROVE BudgetKept'
    OBVIOUS
  <2>0. Admitted' = Admitted /\ UNCHANGED <<counts, attempts>> => BudgetKept'
    BY DEF BudgetKept
  <2> USE DEF SearchTypeOK, Moves, Admitted
  <2>1. CASE UNCHANGED searchVars
    BY <2>0, <2>1 DEF searchVars
  <2>2. ASSUME NEW c \in Searches, Dedups(c) PROVE BudgetKept'
    BY <2>0, <2>2 DEF Dedups
  <2>3. ASSUME NEW c \in Searches, RefusesRepeat(c) PROVE BudgetKept'
    BY <2>0, <2>3 DEF RefusesRepeat
  <2>4. ASSUME NEW c \in Searches, Admits(c) PROVE BudgetKept'
    <3>1. Admitted' = Admitted \cup {c} /\ c \notin Admitted
      BY <2>4 DEF Admits
    <3>2. counts' = counts + 1 /\ UNCHANGED attempts
      BY <2>4 DEF Admits
    <3>3. SearchBudget > 0 => counts < SearchBudget
      BY <2>4 DEF Admits, WithinBudget
    <3> HIDE DEF Admitted
    <3>4. IsFiniteSet(Admitted') /\ Cardinality(Admitted') = counts + 1
      BY <3>1, FS_AddElement DEF BudgetKept
    <3> QED
      BY <3>2, <3>3, <3>4 DEF BudgetKept
  <2>5. ASSUME NEW c \in Searches, RefusesOverBudget(c) PROVE BudgetKept'
    BY <2>0, <2>5 DEF RefusesOverBudget
  <2>6. ASSUME NEW c \in Searches, NEW q \in Queries, Requests(c, q) PROVE BudgetKept'
    <3>1. UNCHANGED <<pc, counts>> /\ attempts[c][q] < MaxAttempts
      BY <2>6 DEF Requests
    <3>2. attempts' = [attempts EXCEPT ![c][q] = @ + 1]
      BY <2>6 DEF Requests
    <3>3. Admitted' = Admitted
      BY <3>1
    <3> HIDE DEF Admitted
    <3>4. \A d \in Searches, p \in Queries : attempts'[d][p] <= MaxAttempts
      BY <3>1, <3>2 DEF BudgetKept
    <3> QED
      BY <3>1, <3>3, <3>4 DEF BudgetKept
  <2>7. ASSUME NEW c \in Searches, NEW q \in Queries, Settles(c, q) PROVE BudgetKept'
    BY <2>0, <2>7 DEF Settles
  <2>8. ASSUME NEW c \in Searches, Returns(c) PROVE BudgetKept'
    BY <2>0, <2>8 DEF Returns
  <2> QED
    BY <2>1, <2>2, <2>3, <2>4, <2>5, <2>6, <2>7, <2>8 DEF SearchNext
<1> QED
  BY <1>1, <1>2, SearchTypes, PTL DEF SearchSpec

\* The positions a call kept are ranked one by one.
LEMMA RanksDiffer ==
    ASSUME SearchTypeOK, NEW c \in Searches, NEW i \in kept[c]
    PROVE  /\ Rank(c, i) \in Nat \ {0}
           /\ \A j \in kept[c] : Rank(c, i) = Rank(c, j) => i = j
<1> DEFINE UpTo(k) == {j \in kept[c] : j <= k}
<1>1. \A k \in kept[c] : k \in Nat /\ UpTo(k) \in SUBSET kept[c]
  BY DEF SearchTypeOK
<1>2. IsFiniteSet(kept[c])
  <2>1. kept[c] \subseteq 1..Len(queries[c]) /\ Len(queries[c]) \in Nat
    BY CarriedQueries DEF SearchTypeOK
  <2>2. IsFiniteSet(1..Len(queries[c]))
    BY <2>1, FS_Interval
  <2> QED
    BY <2>1, <2>2, FS_Subset
<1>3. \A k \in kept[c] : IsFiniteSet(UpTo(k)) /\ Cardinality(UpTo(k)) \in Nat
  BY <1>1, <1>2, FS_Subset, FS_CardinalityType
<1>4. ASSUME NEW k \in kept[c], NEW l \in kept[c], k < l
      PROVE  Cardinality(UpTo(k)) < Cardinality(UpTo(l))
  <2>1. UpTo(k) \subseteq UpTo(l) /\ l \in UpTo(l) /\ l \notin UpTo(k)
    BY <1>1, <1>4
  <2>2. UpTo(k) # UpTo(l)
    BY <2>1
  <2> HIDE DEF UpTo
  <2> QED
    BY <1>3, <2>1, <2>2, FS_Subset
<1>5. UpTo(i) # {}
  BY <1>1
<1>6. Cardinality(UpTo(i)) # 0
  <2> HIDE DEF UpTo
  <2> QED
    BY <1>3, <1>5, FS_EmptySet
<1>7. \A j \in kept[c] : i < j \/ j < i \/ i = j
  BY <1>1
<1> HIDE DEF UpTo
<1>8. \A j \in kept[c] : Cardinality(UpTo(i)) = Cardinality(UpTo(j)) => i = j
  BY <1>3, <1>4, <1>7
<1> QED
  BY <1>3, <1>6, <1>8 DEF Rank, UpTo

(* However the calls of a round interleave, the provider gets at most so   *)
(* many requests in a run: the budget, times the queries of a call, times  *)
(* the attempts at each.                                                   *)
THEOREM SearchesAreBounded == SearchSpec => []SearchesBounded
<1>1. SearchTypeOK /\ SentIsKept /\ BudgetKept => SearchesBounded
  <2> SUFFICES ASSUME SearchTypeOK, SentIsKept, BudgetKept, SearchBudget > 0
               PROVE  Cardinality(Sent) <= SearchBudget * MaxQueries * MaxAttempts
    BY DEF SearchesBounded
  <2> USE SearchAssumption
  <2> DEFINE Ranks == Admitted \X (1..MaxQueries)
             Tries == Ranks \X (1..MaxAttempts)
             position(t) == CHOOSE i \in kept[t[1]] : Rank(t[1], i) = t[2]
             try(t) == <<<<t[1][1], queries[t[1][1]][position(t[1])]>>, t[2]>>
             All == {try(t) : t \in Tries}
             sent == Cardinality(Sent)
             all == Cardinality(All)
             tries == counts * MaxQueries * MaxAttempts
             limit == SearchBudget * MaxQueries * MaxAttempts
  <2>1. /\ IsFiniteSet(Tries)
        /\ Cardinality(Tries) = counts * MaxQueries * MaxAttempts
    <3>1. IsFiniteSet(1..MaxQueries) /\ Cardinality(1..MaxQueries) = MaxQueries
      BY FS_Interval
    <3>2. IsFiniteSet(1..MaxAttempts) /\ Cardinality(1..MaxAttempts) = MaxAttempts
      BY FS_Interval
    <3>3. IsFiniteSet(Admitted) /\ Cardinality(Admitted) = counts
      BY DEF BudgetKept
    <3> HIDE DEF Admitted
    <3>4. IsFiniteSet(Ranks) /\ Cardinality(Ranks) = counts * MaxQueries
      BY <3>1, <3>3, FS_Product
    <3> HIDE DEF Ranks
    <3> QED
      BY <3>2, <3>4, FS_Product
  <2>2. IsFiniteSet(All) /\ Cardinality(All) <= Cardinality(Tries) /\ Cardinality(All) \in Nat
    <3> DEFINE f == [t \in Tries |-> try(t)]
    <3> HIDE DEF Tries, try
    <3>1. f \in Surjection(Tries, All)
      BY DEF Surjection
    <3> HIDE DEF f, All
    <3>2. IsFiniteSet(All) /\ Cardinality(All) <= Cardinality(Tries)
      BY <2>1, <3>1, FS_Surjection
    <3> QED
      BY <3>2, FS_CardinalityType
  <2>3. Sent \subseteq All
    <3> SUFFICES ASSUME NEW c \in Searches, NEW q \in Queries, NEW n \in 1..attempts[c][q],
                        attempts[c][q] > 0
                 PROVE  <<<<c, q>>, n>> \in All
      <4> HIDE DEF All
      <4> SUFFICES ASSUME NEW x \in Sent PROVE x \in All
        OBVIOUS
      <4>1. PICK r \in Requested : x \in {r} \X (1..attempts[r[1]][r[2]])
        BY DEF Sent
      <4>2. PICK c \in Searches, q \in Queries : r = <<c, q>> /\ attempts[c][q] > 0
        BY DEF Requested
      <4>3. PICK n \in 1..attempts[c][q] : x = <<<<c, q>>, n>>
        BY <4>1, <4>2
      <4> QED
        BY <4>2, <4>3
    <3>1. c \in Admitted /\ q \in Batch(c) /\ n \in 1..MaxAttempts
      BY DEF SentIsKept, BudgetKept, Admitted, SearchTypeOK
    <3>2. PICK i \in kept[c] : q = queries[c][i] /\ Rank(c, i) <= MaxQueries
      BY <3>1 DEF Batch, QueriesAt, Rank
    <3>3. Rank(c, i) \in 1..MaxQueries
      BY <3>2, RanksDiffer
    <3> DEFINE t == <<<<c, Rank(c, i)>>, n>>
    <3>4. t \in Tries
      BY <3>1, <3>3
    <3>5. position(<<c, Rank(c, i)>>) = i
      BY RanksDiffer
    <3>6. try(t) = <<<<c, q>>, n>>
      BY <3>2, <3>5
    <3> HIDE DEF t, try, Tries
    <3> QED
      BY <3>4, <3>6
  <2>4. sent <= Cardinality(All) /\ sent \in Nat
    <3> HIDE DEF All
    <3>1. IsFiniteSet(Sent) /\ Cardinality(Sent) <= Cardinality(All)
      BY <2>2, <2>3, FS_Subset
    <3> QED
      BY <3>1, FS_CardinalityType
  <2>5. counts <= SearchBudget /\ counts \in Nat
    BY DEF BudgetKept, SearchTypeOK
  <2>6. counts * MaxQueries <= SearchBudget * MaxQueries
    BY <2>5
  <2>7. tries <= limit /\ tries \in Nat /\ limit \in Nat
    BY <2>5, <2>6
  <2>8. sent <= all /\ all <= tries /\ all \in Nat
    BY <2>1, <2>2, <2>4
  <2> HIDE DEF sent, all, tries, limit
  <2>9. sent <= limit
    BY <2>4, <2>7, <2>8
  <2> QED
    BY <2>9 DEF sent, limit
<1> QED
  BY <1>1, SearchTypes, KeptInvariant, BudgetInvariant, PTL

-----------------------------------------------------------------------------
\* The greeting of a call

\* A call has a greeting registered from the moment before Asterisk hears of it
\* until it is answered, or reported as failed; nobody dials before.
GreetingInPlace ==
    \A c \in Calls :
        /\ caller[c] = "idle" => c \notin dialled /\ c \notin greetings /\ leg[c] = "none"
        /\ caller[c] \notin {"idle", "failed"} /\ leg[c] = "none" => c \in greetings
        /\ c \in greetings => caller[c] # "failed" /\ leg[c] # "bridged"
        /\ opening[c] = "default" => caller[c] = "failed"

\* GreetingInPlace is inductive: the greeting is registered before the request is
\* sent, and only the answered call and a failed request take it away.
LEMMA GreetingInvariant ==
    ASSUME Calls \cap Incoming = {}
    PROVE  VoiceSpec => [](TypeOK /\ GreetingInPlace)
<1> DEFINE Inv == TypeOK /\ GreetingInPlace
<1>1. VoiceInit => Inv
  BY DEF VoiceInit, TypeOK, GreetingInPlace
<1>2. Inv /\ [VoiceNext]_voiceVars => Inv'
  <2> SUFFICES ASSUME Inv, [VoiceNext]_voiceVars PROVE Inv'
    OBVIOUS
  <2> USE DEF TypeOK, GreetingInPlace, Waiting, Goes
  <2>1. CASE UNCHANGED voiceVars
    BY <2>1 DEF voiceVars
  <2>2. ASSUME NEW c \in Calls, Registers(c) PROVE Inv'
    BY <2>2 DEF Registers
  <2>3. ASSUME NEW c \in Calls, Steps(c) PROVE Inv'
    BY <2>3 DEF Steps
  <2>4. ASSUME NEW c \in Calls, Originates(c) PROVE Inv'
    BY <2>4 DEF Originates
  <2>5. ASSUME NEW c \in Calls, Succeeds(c) PROVE Inv'
    BY <2>5 DEF Succeeds
  <2>6. ASSUME NEW c \in Calls, Fails(c) PROVE Inv'
    BY <2>6 DEF Fails
  <2>7. ASSUME NEW c \in Calls, IsCancelled(c) PROVE Inv'
    BY <2>7 DEF IsCancelled
  <2>8. ASSUME NEW c \in Calls \cup Incoming, PicksUp(c) PROVE Inv'
    <3>1. TypeOK'
      BY <2>8 DEF PicksUp
    <3>2. \A d \in Calls \ {c} : /\ leg'[d] = leg[d] /\ opening'[d] = opening[d]
                                 /\ d \in greetings' <=> d \in greetings
      BY <2>8 DEF PicksUp
    <3>3. UNCHANGED <<caller, dialled>> /\ leg'[c] = "bridged" /\ c \notin greetings'
      BY <2>8 DEF PicksUp
    <3>4. c \in Calls => c \in dialled /\ leg[c] = "none"
      BY <2>8 DEF PicksUp
    <3>5. c \in Calls /\ opening'[c] = "default" => c \notin greetings
      BY <2>8 DEF PicksUp
    <3> QED
      BY <3>1, <3>2, <3>3, <3>4, <3>5
  <2>9. ASSUME NEW c \in Calls \cup Incoming, HangsUp(c) PROVE Inv'
    <3>1. c \in Calls /\ leg[c] = "none" => c \in dialled
      BY <2>9 DEF HangsUp
    <3>2. c \in Calls => caller[c] # "idle"
      BY <2>9, <3>1 DEF HangsUp
    <3> QED
      BY <2>9, <3>2 DEF HangsUp
  <2> QED
    BY <2>1, <2>2, <2>3, <2>4, <2>5, <2>6, <2>7, <2>8, <2>9 DEF VoiceNext
<1> QED
  BY <1>1, <1>2, PTL DEF VoiceSpec

\* The callee of a call that was not reported as failed never hears the greeting
\* of somebody else, however early he answers.
THEOREM GreetingIsOwn ==
    ASSUME Calls \cap Incoming = {}
    PROVE  VoiceSpec => []OwnGreeting
<1>1. GreetingInPlace => OwnGreeting
  BY DEF GreetingInPlace, OwnGreeting
<1> QED
  BY <1>1, GreetingInvariant, PTL

\* No greeting stays registered for a call that failed or is being spoken.
THEOREM GreetingsAreTaken ==
    ASSUME Calls \cap Incoming = {}
    PROVE  VoiceSpec => []NoGreetingLeft
<1>1. TypeOK /\ GreetingInPlace => NoGreetingLeft
  BY DEF TypeOK, GreetingInPlace, NoGreetingLeft, Waiting
<1> QED
  BY <1>1, GreetingInvariant, PTL

-----------------------------------------------------------------------------
\* The frames that are played

\* The frames cut from audio hold nothing but that audio.
LEMMA FramesOfAudio ==
    ASSUME FrameUnits \in Nat \ {0}, NEW Units, NEW audio \in Seq(Units)
    PROVE  Frames(audio) \in Seq(Seq(Units))
<1> DEFINE n == Len(audio) \div FrameUnits
<1>1. Len(audio) \in Nat /\ n \in Nat /\ FrameUnits * n <= Len(audio)
  OBVIOUS
<1>2. ASSUME NEW k \in 1..n
      PROVE  SubSeq(audio, (k - 1) * FrameUnits + 1, k * FrameUnits) \in Seq(Units)
  <2> DEFINE from == (k - 1) * FrameUnits + 1
             to == k * FrameUnits
  <2> HIDE DEF n
  <2>1. k \in Nat /\ 1 <= k /\ k <= n
    BY <1>1, <1>2
  <2>2. from \in Nat /\ to \in Nat /\ 1 <= from
    <3>1. (k - 1) * FrameUnits \in Nat
      BY <2>1
    <3> QED
      BY <2>1, <3>1
  <2>3. to <= FrameUnits * n
    BY <1>1, <2>1
  <2>4. \A i \in from..to : audio[i] \in Units
    <3> SUFFICES ASSUME NEW i \in from..to PROVE audio[i] \in Units
      OBVIOUS
    <3> HIDE DEF from, to
    <3>1. i \in 1..Len(audio)
      BY <1>1, <2>2, <2>3
    <3> QED
      BY <3>1
  <2> HIDE DEF from, to
  <2>5. SubSeq(audio, from, to) \in Seq(Units)
    BY <2>2, <2>4, SubSeqProperties
  <2> QED
    BY <2>5 DEF from, to
<1> HIDE DEF n
<1>3. [k \in 1..n |-> SubSeq(audio, (k - 1) * FrameUnits + 1, k * FrameUnits)]
        \in Seq(Seq(Units))
  BY <1>1, <1>2
<1> QED
  BY <1>3 DEF Frames, n

\* What fills no frame is no more than there is.
LEMMA RestOfAudio ==
    ASSUME NEW length \in Nat, NEW frame \in Nat \ {0}
    PROVE  length % frame \in Nat /\ length % frame <= length
<1>1. length = frame * (length \div frame) + (length % frame)
  OBVIOUS
<1>2. length \div frame \in Nat /\ length % frame \in Nat
  OBVIOUS
<1> DEFINE whole == length \div frame
<1> HIDE DEF whole
<1>3. frame * whole \in Nat
  BY <1>2 DEF whole
<1>4. length = frame * whole + (length % frame)
  BY <1>1 DEF whole
<1> QED
  BY <1>2, <1>3, <1>4

-----------------------------------------------------------------------------
After(r) == {n \in Nat : n > r}

\* Everything that waits to be played belongs to a response that was created after
\* the caller last started to speak; while the latest was created before, its audio
\* is ignored.
OnlyLater ==
    /\ response \in Nat /\ spoken \in Nat
    /\ interrupted \in BOOLEAN
    /\ ~interrupted /\ response > 0 => response > spoken
    /\ sendBuffer \in Seq(After(spoken))
    /\ outgoing \in Seq(Seq(After(spoken)))
    /\ spoken <= response

\* OnlyLater is inductive: a barge-in empties both buffers, and nothing is added to
\* them before the next response.
LEMMA LaterInvariant ==
    ASSUME FrameUnits \in Nat \ {0}, Deltas \subseteq Nat
    PROVE  PhoneSpec => []OnlyLater
<1>1. PhoneInit => OnlyLater
  <2>1. <<>> \in Seq(After(spoken)) /\ <<>> \in Seq(Seq(After(spoken)))
    OBVIOUS
  <2>2. ASSUME PhoneInit PROVE OnlyLater
    <3>1. sendBuffer = <<>> /\ outgoing = <<>>
      BY <2>2 DEF PhoneInit
    <3>2. response = 0 /\ spoken = 0 /\ interrupted = FALSE
      BY <2>2 DEF PhoneInit
    <3>3. sendBuffer \in Seq(After(spoken)) /\ outgoing \in Seq(Seq(After(spoken)))
      BY <2>1, <3>1, Zenon
    <3>4. response \in Nat /\ spoken \in Nat /\ ~(response > 0) /\ spoken <= response
      BY <3>2
    <3>5. interrupted \in BOOLEAN
      BY <3>2, Zenon
    <3> QED
      BY <3>3, <3>4, <3>5, Zenon DEF OnlyLater
  <2> QED
    BY <2>2
<1>2. OnlyLater /\ [PhoneNext]_phoneVars => OnlyLater'
  <2> SUFFICES ASSUME OnlyLater, [PhoneNext]_phoneVars PROVE OnlyLater'
    OBVIOUS
  <2> USE DEF OnlyLater
  <2>1. CASE UNCHANGED phoneVars
    BY <2>1 DEF phoneVars, After
  <2>2. CASE SpeechStarts
    <3>1. <<>> \in Seq(After(spoken')) /\ <<>> \in Seq(Seq(After(spoken')))
      OBVIOUS
    <3> QED
      BY <2>2, <3>1 DEF SpeechStarts
  <2>3. CASE ResponseCreated
    <3>1. After(spoken') = After(spoken)
      BY <2>3 DEF ResponseCreated, After
    <3>2. /\ UNCHANGED <<spoken, sendBuffer, outgoing>>
          /\ response' = response + 1 /\ interrupted' = FALSE
      BY <2>3 DEF ResponseCreated
    <3> HIDE DEF After
    <3>3. sendBuffer' \in Seq(After(spoken')) /\ outgoing' \in Seq(Seq(After(spoken')))
      BY <3>1, <3>2
    <3>4. /\ response' \in Nat /\ spoken' \in Nat
          /\ response' > spoken' /\ spoken' <= response'
      BY <3>2
    <3> QED
      BY <3>2, <3>3, <3>4
  <2>4. CASE Delta
    <3>1. PICK units \in Deltas :
            LET audio == sendBuffer \o [k \in 1..units |-> response]
            IN  /\ outgoing' = outgoing \o Frames(audio)
                /\ sendBuffer' = SubSeq(audio, Len(audio) - (Len(audio) % FrameUnits) + 1, Len(audio))
      BY <2>4 DEF Delta
    <3> DEFINE audio == sendBuffer \o [k \in 1..units |-> response]
               from == Len(audio) - (Len(audio) % FrameUnits) + 1
    <3>2. response \in After(spoken) /\ units \in Nat
      BY <2>4 DEF Delta, After
    <3>3. [k \in 1..units |-> response] \in Seq(After(spoken))
      BY <3>2
    <3>4. audio \in Seq(After(spoken))
      BY <3>3
    <3>5. UNCHANGED <<response, spoken, interrupted>> /\ After(spoken') = After(spoken)
      BY <2>4 DEF Delta, After
    <3>6. outgoing' \in Seq(Seq(After(spoken)))
      <4> HIDE DEF audio
      <4>1. Frames(audio) \in Seq(Seq(After(spoken)))
        BY <3>4, FramesOfAudio
      <4>2. outgoing' = outgoing \o Frames(audio)
        BY <3>1 DEF audio
      <4> QED
        BY <4>1, <4>2
    <3>7. sendBuffer' \in Seq(After(spoken))
      <4> HIDE DEF audio
      <4>1. sendBuffer' = SubSeq(audio, from, Len(audio))
        BY <3>1 DEF audio
      <4>2. Len(audio) \in Nat /\ from \in Int /\ 1 <= from
        <5>1. Len(audio) \in Nat
          BY <3>4
        <5>2. Len(audio) % FrameUnits \in Nat /\ Len(audio) % FrameUnits <= Len(audio)
          BY <5>1, RestOfAudio
        <5> QED
          BY <5>1, <5>2
      <4>3. \A i \in from..Len(audio) : audio[i] \in After(spoken)
        <5> HIDE DEF from
        <5> QED
          BY <3>4, <4>2
      <4> HIDE DEF from
      <4> QED
        BY <4>1, <4>2, <4>3, SubSeqProperties
    <3> HIDE DEF After
    <3> QED
      BY <3>5, <3>6, <3>7
  <2>5. CASE Plays
    <3>1. outgoing' \in Seq(Seq(After(spoken)))
      BY <2>5, HeadTailProperties DEF Plays
    <3>2. UNCHANGED <<response, spoken, interrupted, sendBuffer>> /\ After(spoken') = After(spoken)
      BY <2>5 DEF Plays, After
    <3> HIDE DEF After
    <3> QED
      BY <3>1, <3>2
  <2>6. CASE Paced \/ Closes
    <3>1. /\ UNCHANGED <<response, spoken, interrupted, sendBuffer, outgoing>>
          /\ After(spoken') = After(spoken)
      BY <2>6 DEF Paced, Closes, After
    <3> HIDE DEF After
    <3> QED
      BY <3>1
  <2> QED
    BY <2>1, <2>2, <2>3, <2>4, <2>5, <2>6 DEF PhoneNext
<1> QED
  BY <1>1, <1>2, PTL DEF PhoneSpec

\* Once the caller has started to speak, the phone plays nothing of a response that
\* was created before, whatever was buffered and however the deltas fill the frames.
THEOREM CallerSilences ==
    ASSUME FrameUnits \in Nat \ {0}, Deltas \subseteq Nat
    PROVE  PhoneSpec => BargeInSilences
<1> DEFINE Later == pump = "ready" /\ pump' = "paced" /\ ~closed
                        => \A k \in DOMAIN heard' : heard'[k] > spoken
<1>1. OnlyLater /\ [PhoneNext]_phoneVars => [Later]_phoneVars
  <2> SUFFICES ASSUME OnlyLater, PhoneNext, pump = "ready", pump' = "paced", ~closed,
                      NEW k \in DOMAIN heard'
               PROVE  heard'[k] > spoken
    BY DEF phoneVars
  <2>1. Plays
    BY DEF PhoneNext, SpeechStarts, ResponseCreated, Delta, Paced, Closes
  <2>2. heard' = Head(outgoing) /\ outgoing # <<>>
    BY <2>1 DEF Plays
  <2>3. heard' \in Seq(After(spoken))
    BY <2>2, HeadTailProperties DEF OnlyLater
  <2>4. heard'[k] \in After(spoken)
    BY <2>3
  <2> QED
    BY <2>4 DEF After
<1> QED
  BY <1>1, LaterInvariant, PTL DEF PhoneSpec, BargeInSilences
=============================================================================
