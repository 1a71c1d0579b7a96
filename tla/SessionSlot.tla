---------------------------- MODULE SessionSlot -----------------------------
(***************************************************************************)
(* What the barge-in guard promises, without generators, tasks or queues:  *)
(* each request runs at most once, and never while another of its session  *)
(* runs.                                                                   *)
(***************************************************************************)
CONSTANTS Requests, SessionOf

VARIABLES
    running,   \* requests whose graph executes
    served     \* requests that have had their turn, or have it

vars == <<running, served>>

Init == running = {} /\ served = {}

\* "starting a run cancels the one still in flight for the same session instead
\* of letting two graph executions race on the same thread"
Take(r) ==
    /\ r \notin served
    /\ \A q \in running : SessionOf[q] # SessionOf[r]
    /\ running' = running \cup {r}
    /\ served' = served \cup {r}

\* A run ends: by itself, by an error or cancelled.
Leave(r) ==
    /\ r \in running
    /\ running' = running \ {r}
    /\ UNCHANGED served

Next == \E r \in Requests : Take(r) \/ Leave(r)

Spec == Init /\ [][Next]_vars
=============================================================================
