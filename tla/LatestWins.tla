----------------------------- MODULE LatestWins -----------------------------
(***************************************************************************)
(* What a voice connection keeps about the requests it delegates: they     *)
(* are taken one after the other, a request is taken when it gets its      *)
(* revision (delegate.py:325), and only the newest one taken may be        *)
(* answered, once.  A request without a prompt is refused on the spot and  *)
(* supersedes nothing.  This is weaker than the docstring of               *)
(* DelegationSupervisor (transports/realtime/delegate.py:281-282), where   *)
(* the newer request makes the earlier ones obsolete when it is made:      *)
(* until it gets its revision, handle_call awaits the earlier delegation,  *)
(* which may still be answered.                                            *)
(***************************************************************************)
EXTENDS Sequences, Functions

CONSTANTS Calls,    \* the requests of the voice model
          NoCall    \* none of them

VARIABLES newest,   \* the request taken last, or NoCall
          taken,    \* every request that was taken or refused
          answers   \* the requests that got their output, in order

latestVars == <<newest, taken, answers>>

Init ==
    /\ newest = NoCall
    /\ taken = {}
    /\ answers = <<>>

Take(c) ==
    /\ c \notin taken
    /\ newest' = c
    /\ taken' = taken \cup {c}
    /\ UNCHANGED answers

Refuse(c) ==
    /\ c \notin taken
    /\ taken' = taken \cup {c}
    /\ answers' = Append(answers, c)
    /\ UNCHANGED newest

Answer ==
    /\ newest # NoCall
    /\ newest \notin Range(answers)
    /\ answers' = Append(answers, newest)
    /\ UNCHANGED <<newest, taken>>

Next ==
    \/ \E c \in Calls : Take(c) \/ Refuse(c)
    \/ Answer

Spec == Init /\ [][Next]_latestVars
=============================================================================
