----------------------------- MODULE MCRunGuard -----------------------------
(* Instances of RunGuard for TLC. *)
EXTENDS RunGuard, TLC

CONSTANTS a1, a2, a3, b1, A, B

MCSessions == {A, B}

\* Three requests for one session: the fewest that can wait for one victim
\* together, or arrive between its end and the wake-up of who waits.
OneSession == {a1, a2, a3}
OneSessionOf == [r \in OneSession |-> A]
Interchangeable == Permutations(OneSession)

\* A run and the request that barges in on it, for liveness.
Pair == {a1, a2}
PairOf == [r \in Pair |-> A]

\* The same three and one request for another session.
TwoSessions == {a1, a2, a3, b1}
TwoSessionsOf == (b1 :> B) @@ [r \in OneSession |-> A]

=============================================================================
