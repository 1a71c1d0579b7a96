------------------------------- MODULE Search -------------------------------
(***************************************************************************)
(* The web searches of one run: the policies a web_search call passes      *)
(* before it executes (tools/policy.py), in the order core/graph.py        *)
(* registers them, and its execution (tools/websearch.py).  ToolNode runs  *)
(* the calls of a round concurrently; they share the RunState of the run.  *)
(*                                                                         *)
(* A query is a model value and Similar the pairs query_similarity, which  *)
(* compares sets of words, puts at the threshold or above; a query of one  *)
(* word is not similar even to itself.  A result is its url, a page of     *)
(* results a set.                                                          *)
(***************************************************************************)
EXTENDS Naturals, Sequences, FiniteSets

CONSTANTS
    Searches,     \* web_search calls of the run
    Carried,      \* what arg_queries may find in a call: sequences of queries
    Similar,      \* pairs of queries
    Urls,
    SearchBudget, \* max_calls_per_run
    MaxQueries,   \* max_queries_per_call
    MaxAttempts   \* _MAX_ATTEMPTS

QueriesOf(carried) == {carried[i] : i \in DOMAIN carried}
Queries == UNION {QueriesOf(carried) : carried \in Carried}

ASSUME SearchAssumption ==
    /\ Carried \subseteq Seq(Queries)
    /\ \A p, q \in Queries : <<p, q>> \in Similar => <<q, p>> \in Similar
    /\ SearchBudget \in Nat /\ MaxQueries \in Nat /\ MaxAttempts \in Nat

VARIABLES
    queries,      \* the queries each call carries
    kept,         \* the positions of those the policies left it
    pc,
    counts,       \* RunState.counts["web_search"]
    searched,     \* RunState.search_queries
    seenUrls,     \* RunState.seen_urls
    attempts,     \* requests sent for each query of a call
    settled,      \* the queries of a call that have a result or an error
    pages,        \* the results, none for an error
    shown         \* the urls a call returned to the model

searchVars ==
    <<queries, kept, pc, counts, searched, seenUrls, attempts, settled, pages, shown>>

SearchInit ==
    /\ queries \in [Searches -> Carried]
    /\ kept = [c \in Searches |-> {}]
    /\ pc = [c \in Searches |-> "dedup"]
    /\ counts = 0 /\ searched = {} /\ seenUrls = {}
    /\ attempts = [c \in Searches |-> [q \in Queries |-> 0]]
    /\ settled = [c \in Searches |-> {}]
    /\ pages = [c \in Searches |-> {}]
    /\ shown = [c \in Searches |-> {}]

Moves(c, from, to) == pc[c] = from /\ pc' = [pc EXCEPT ![c] = to]

-----------------------------------------------------------------------------
(* The policies.  Each runs under the lock of the RunState.                *)

Duplicate(q, seen) == \E p \in seen : <<q, p>> \in Similar

QueriesAt(c, positions) == {queries[c][i] : i \in positions}

\* Mutant: a query is compared with the earlier calls and not within its own.
KeptOfCall(c) == {i \in DOMAIN queries[c] : ~Duplicate(queries[c][i], searched)}

\* The queries that repeat neither a recorded one nor one kept before them.
Deduplicated(c, positions) ==
    \A i \in DOMAIN queries[c] :
        i \in positions <=>
            ~Duplicate(queries[c][i], searched \cup QueriesAt(c, {j \in positions : j < i}))

Kept(c) == CHOOSE positions \in SUBSET DOMAIN queries[c] : Deduplicated(c, positions)

\* SearchDedupPolicy, and _with_kept_queries.
Dedups(c) ==
    /\ queries[c] = <<>> \/ Kept(c) # {}
    /\ Moves(c, "dedup", "budget")
    /\ searched' = searched \cup QueriesAt(c, Kept(c))
    /\ kept' = [kept EXCEPT ![c] = Kept(c)]
    /\ UNCHANGED <<queries, counts, seenUrls, attempts, settled, pages, shown>>

RefusesRepeat(c) ==
    /\ queries[c] # <<>> /\ Kept(c) = {}
    /\ Moves(c, "dedup", "refused")
    /\ UNCHANGED <<queries, kept, counts, searched, seenUrls, attempts, settled, pages, shown>>

\* Mutant: the budget is exceeded by one.
WithinBudgetOrOneMore == SearchBudget = 0 \/ counts <= SearchBudget

\* A budget of 0 is none.
WithinBudget == SearchBudget = 0 \/ counts < SearchBudget

\* SearchBudgetPolicy
Admits(c) ==
    /\ WithinBudget
    /\ Moves(c, "budget", "search")
    /\ counts' = counts + 1
    /\ UNCHANGED <<queries, kept, searched, seenUrls, attempts, settled, pages, shown>>

RefusesOverBudget(c) ==
    /\ ~WithinBudget
    /\ Moves(c, "budget", "refused")
    /\ UNCHANGED <<queries, kept, counts, searched, seenUrls, attempts, settled, pages, shown>>

-----------------------------------------------------------------------------
(* Execution.                                                              *)

\* _queries: the first ones.
Batch(c) ==
    QueriesAt(c, {i \in kept[c] : Cardinality({j \in kept[c] : j <= i}) <= MaxQueries})

\* The first request for a query, and the ones after a 429 or a 503.
Requests(c, q) ==
    /\ pc[c] = "search" /\ q \in Batch(c) \ settled[c]
    /\ attempts[c][q] < MaxAttempts
    /\ attempts' = [attempts EXCEPT ![c][q] = @ + 1]
    /\ UNCHANGED <<queries, kept, pc, counts, searched, seenUrls, settled, pages, shown>>

\* A page, or an error: the request failed, its last attempt was refused, there
\* were no results.
Settles(c, q) ==
    /\ pc[c] = "search" /\ q \in Batch(c) \ settled[c]
    /\ attempts[c][q] > 0
    /\ settled' = [settled EXCEPT ![c] = @ \cup {q}]
    /\ \E page \in SUBSET Urls : pages' = [pages EXCEPT ![c] = @ \cup page]
    /\ UNCHANGED <<queries, kept, pc, counts, searched, seenUrls, attempts, shown>>

\* Mutant: what the other calls of the round found is not looked at.
FoundAnew(c) == pages[c]

\* _merge: urls the run has not seen.
Found(c) == pages[c] \ seenUrls

\* The results are merged without an await between the read of seen_urls and its
\* update.  A call without a query, or all of whose queries failed, raises.
Returns(c) ==
    /\ settled[c] = Batch(c)
    /\ Moves(c, "search", "done")
    /\ shown' = [shown EXCEPT ![c] = Found(c)]
    /\ seenUrls' = seenUrls \cup Found(c)
    /\ UNCHANGED <<queries, kept, counts, searched, attempts, settled, pages>>

-----------------------------------------------------------------------------
SearchNext ==
    \E c \in Searches :
        \/ Dedups(c) \/ RefusesRepeat(c)
        \/ Admits(c) \/ RefusesOverBudget(c)
        \/ \E q \in Queries : Requests(c, q) \/ Settles(c, q)
        \/ Returns(c)

SearchSpec == SearchInit /\ [][SearchNext]_searchVars

-----------------------------------------------------------------------------
\* The queries sent to the provider, and the requests sent for them.
Requested == {r \in Searches \X Queries : attempts[r[1]][r[2]] > 0}
Sent == UNION {{r} \X (1..attempts[r[1]][r[2]]) : r \in Requested}

\* However the calls of a round interleave, the provider gets at most so many
\* requests in a run, retries included.
SearchesBounded ==
    SearchBudget > 0 => Cardinality(Sent) <= SearchBudget * MaxQueries * MaxAttempts

\* "Drop web_search queries that repeat (approximately) one already issued": of
\* two queries that were sent, in one call or in concurrent ones, none repeats the
\* other.
SearchedOnce ==
    \A r, s \in Requested : r # s => <<r[2], s[2]>> \notin Similar

\* Every url that calls found is shown by exactly one of them.
UrlsShownOnce ==
    LET Finished == {c \in Searches : pc[c] = "done"}
    IN  /\ UNION {pages[c] : c \in Finished} = UNION {shown[c] : c \in Finished}
        /\ \A c, d \in Finished : c # d => shown[c] \cap shown[d] = {}
=============================================================================
