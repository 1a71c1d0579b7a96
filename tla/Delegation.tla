----------------------------- MODULE Delegation -----------------------------
(***************************************************************************)
(* One realtime connection: the bridge between a client (browser or phone) *)
(* and the voice model (transports/realtime/bridge.py), and the supervisor *)
(* that answers its delegate_to_brain calls with runs of the agent         *)
(* (transports/realtime/delegate.py).                                      *)
(*                                                                         *)
(* Four kinds of tasks interleave: the reader _backend_to_client, which    *)
(* also executes handle_call, the writer _client_to_backend, the coroutine *)
(* run() that waits for the first of them, and one task per delegation.    *)
(* A send to the voice model may suspend after it has written, so a        *)
(* cancellation can fall between any two sends.                            *)
(*                                                                         *)
(* A delegation runs on the session every channel shares, of which this    *)
(* module keeps the view of SessionSlot: one run, which the next run       *)
(* cancels and waits for.                                                  *)
(***************************************************************************)
EXTENDS Naturals, Sequences, Functions

CONSTANTS
    Calls,         \* delegate calls of the voice model, named by call_id
    NoCall,        \* none of them
    MaxTurns,      \* bound: turns spoken on the connection
    MaxContext,    \* _MAX_CONTEXT_MESSAGES
    MaxOthers,     \* bound: messages of other transports
    ClientRaises   \* does send() to a client that is gone raise?  A websocket
                   \* does, AudioSocketConnection.send does not

ASSUME DelegationAssumption ==
    /\ NoCall \notin Calls
    /\ {"free", "other"} \cap Calls = {}
    /\ MaxTurns \in Nat /\ MaxOthers \in Nat
    /\ MaxContext \in Nat \ {0}
    /\ ClientRaises \in BOOLEAN

VARIABLES
    main,       \* RealtimeBridge.run(): where it is suspended
    client,     \* is the client connected?
    backend,    \* is the voice model connected?
    reader,     \* _backend_to_client: where it is suspended
    handling,   \* the call whose handle_call the reader executes
    awaited,    \* the delegation that handle_call waits for
    handled,    \* context.handled_calls
    active,     \* context.active
    revision,   \* context.revision
    rev,        \* the revision each delegation was given
    brain,      \* the task _finish of each call: where it is suspended
    slot,       \* the run of the shared session: "free", "other" or a call
    others,     \* messages of other transports so far
    heard,      \* turns recorded so far; a turn is its number
    buffer,     \* context.buffer
    taken,      \* the turns each delegation took from the buffer
    items,      \* outputs sent to the voice model, in order
    asked       \* calls whose output was followed by a request to speak it

bridgeVars == <<main, client, backend>>
readerVars == <<reader, handling, awaited, handled>>
brainVars  == <<active, revision, rev, brain, slot, others>>
turnVars   == <<heard, buffer, taken>>
outVars    == <<items, asked>>
vars == <<bridgeVars, readerVars, brainVars, turnVars, outVars>>

Suspended == {"created", "waiting", "running", "cut", "unwinding", "item"}
Ended     == {"spoken", "cancelled", "failed"}

Init ==
    /\ main = "wait" /\ client = TRUE /\ backend = TRUE
    /\ reader = "events" /\ handling = NoCall /\ awaited = NoCall
    /\ handled = {}
    /\ active = NoCall /\ revision = 0
    /\ rev = [c \in Calls |-> 0]
    /\ brain = [c \in Calls |-> "none"]
    /\ slot = "free" /\ others = 0
    /\ heard = 0 /\ buffer = <<>>
    /\ taken = [c \in Calls |-> {}]
    /\ items = <<>> /\ asked = {}

-----------------------------------------------------------------------------
(* Cancelling a delegation.  One that waits for the run it supersedes is   *)
(* inside the suppress(CancelledError) of the service's _cancel_task and   *)
(* goes on; one that reads its run's events still waits for that run.      *)

AfterCancel(s) ==
    IF s \in {"created", "item"} THEN "cancelled"
    ELSE IF s \in {"running", "cut"} THEN "unwinding"
    ELSE s

Live(c) == c # NoCall /\ brain[c] \in Suspended

-----------------------------------------------------------------------------
(* The reader.                                                             *)

Remember(turn) ==
    LET longer == Append(buffer, turn) IN
    IF Len(longer) > MaxContext THEN Tail(longer) ELSE longer

\* Any event that is not a delegate call: a turn is recorded, then forwarded.
ReadEvent ==
    /\ reader = "events" /\ backend
    /\ heard < MaxTurns
    /\ heard' = heard + 1
    /\ buffer' = Remember(heard + 1)
    /\ reader' = IF client \/ ~ClientRaises THEN "events" ELSE "over"
    /\ UNCHANGED <<bridgeVars, handling, awaited, handled, brainVars, taken, outVars>>

\* Mutant: the second announcement of a call is handled like the first.
FreshAlways(c) == TRUE

\* A call is announced by two events, and in two dialects.
Fresh(c) == c \notin handled

\* A call without a prompt: the output and the request to speak it are two
\* sends of the reader itself.
ReadEmptyCall(c) ==
    /\ reader = "events" /\ backend
    /\ Fresh(c)
    /\ handled' = handled \cup {c}
    /\ handling' = c
    /\ items' = Append(items, c)
    /\ reader' = "refuse"
    /\ UNCHANGED <<bridgeVars, awaited, brainVars, turnVars, asked>>

\* Mutant: a refused call gets its output and no request to speak.
AskRefusedSilently ==
    /\ reader = "refuse"
    /\ reader' = IF backend THEN "events" ELSE "over"
    /\ handling' = NoCall
    /\ UNCHANGED <<bridgeVars, awaited, handled, brainVars, turnVars, outVars>>

AskRefused ==
    /\ reader = "refuse"
    /\ reader' = IF backend THEN "events" ELSE "over"
    /\ asked' = IF backend THEN asked \cup {handling} ELSE asked
    /\ handling' = NoCall
    /\ UNCHANGED <<bridgeVars, awaited, handled, brainVars, turnVars, items>>

\* Mutant: the buffer is read and not drained.
AcceptKeeping(c) ==
    /\ revision' = revision + 1
    /\ rev' = [rev EXCEPT ![c] = revision + 1]
    /\ taken' = [taken EXCEPT ![c] = Range(buffer)]
    /\ UNCHANGED buffer
    /\ reader' = IF backend THEN "filler" ELSE "over"

\* What handle_call does once nothing is active: next revision, the buffered
\* turns, the filler.  The task is created when the filler has been sent.
Accept(c) ==
    /\ revision' = revision + 1
    /\ rev' = [rev EXCEPT ![c] = revision + 1]
    /\ taken' = [taken EXCEPT ![c] = Range(buffer)]
    /\ buffer' = <<>>
    /\ reader' = IF backend THEN "filler" ELSE "over"

ReadCall(c) ==
    /\ reader = "events" /\ backend
    /\ Fresh(c)
    /\ handled' = handled \cup {c}
    /\ handling' = c
    /\ active' = NoCall
    /\ IF Live(active)
       THEN /\ awaited' = active
            /\ brain' = [brain EXCEPT ![active] = AfterCancel(@)]
            /\ reader' = "cancel"
            /\ UNCHANGED <<revision, rev, buffer, taken>>
       ELSE Accept(c) /\ UNCHANGED <<awaited, brain>>
    /\ UNCHANGED <<bridgeVars, slot, others, heard, outVars>>

\* The await on the superseded delegation is over, however it ended.
EndCancel ==
    /\ reader = "cancel" /\ ~Live(awaited)
    /\ awaited' = NoCall
    /\ Accept(handling)
    /\ UNCHANGED <<bridgeVars, handling, handled, active, brain, slot, others,
                   heard, outVars>>

Delegate ==
    /\ reader = "filler"
    /\ active' = handling
    /\ brain' = [brain EXCEPT ![handling] = "created"]
    /\ reader' = "events"
    /\ handling' = NoCall
    /\ UNCHANGED <<bridgeVars, awaited, handled, revision, rev, slot, others,
                   turnVars, outVars>>

\* The event stream of the voice model ends.
ReaderEnds ==
    /\ reader = "events" /\ ~backend
    /\ reader' = "over"
    /\ UNCHANGED <<bridgeVars, handling, awaited, handled, brainVars, turnVars, outVars>>

-----------------------------------------------------------------------------
(* A delegation: _finish and _run_brain.                                   *)

\* First step of the task, up to the run of the session, or to the wait for
\* the run that holds it (which is being cancelled).
Launch(c) ==
    /\ brain[c] = "created"
    /\ IF slot = "free"
       THEN slot' = c /\ brain' = [brain EXCEPT ![c] = "running"]
       ELSE brain' = [brain EXCEPT ![c] = "waiting"] /\ UNCHANGED slot
    /\ UNCHANGED <<bridgeVars, readerVars, active, revision, rev, others, turnVars, outVars>>

StartRun(c) ==
    /\ brain[c] = "waiting" /\ slot = "free"
    /\ slot' = c
    /\ brain' = [brain EXCEPT ![c] = "running"]
    /\ UNCHANGED <<bridgeVars, readerVars, active, revision, rev, others, turnVars, outVars>>

\* Mutant: the revision is compared after the next one was announced.
IsCurrentBehind(c) == rev[c] = revision + 1

IsCurrent(c) == rev[c] = revision

Released(c) == IF slot = c THEN "free" ELSE slot

\* The run is over or was cut off by another transport: its text, whole or
\* partial, is sent as the output if the revision is still the current one.
RunEnds(c) ==
    /\ brain[c] \in {"running", "cut"}
    /\ slot' = Released(c)
    /\ IF ~IsCurrent(c)
       THEN brain' = [brain EXCEPT ![c] = "cancelled"] /\ UNCHANGED items
       ELSE IF backend
       THEN brain' = [brain EXCEPT ![c] = "item"] /\ items' = Append(items, c)
       ELSE brain' = [brain EXCEPT ![c] = "failed"] /\ UNCHANGED items
    /\ UNCHANGED <<bridgeVars, readerVars, active, revision, rev, others, turnVars, asked>>

\* The run raises: the exception is logged and nothing is sent.
RunFails(c) ==
    /\ brain[c] = "running"
    /\ slot' = Released(c)
    /\ brain' = [brain EXCEPT ![c] = "failed"]
    /\ UNCHANGED <<bridgeVars, readerVars, active, revision, rev, others, turnVars, outVars>>

\* The second send of _send_output.
AskSpoken(c) ==
    /\ brain[c] = "item"
    /\ brain' = [brain EXCEPT ![c] = IF backend THEN "spoken" ELSE "failed"]
    /\ asked' = IF backend THEN asked \cup {c} ELSE asked
    /\ UNCHANGED <<bridgeVars, readerVars, active, revision, rev, slot, others, turnVars, items>>

\* The cancelled delegation has waited for its run to be cancelled.
Unwind(c) ==
    /\ brain[c] = "unwinding"
    /\ slot' = Released(c)
    /\ brain' = [brain EXCEPT ![c] = "cancelled"]
    /\ UNCHANGED <<bridgeVars, readerVars, active, revision, rev, others, turnVars, outVars>>

-----------------------------------------------------------------------------
(* The other transports, on the same session.                              *)

OtherArrives ==
    /\ others < MaxOthers
    /\ \/ slot = "free" /\ UNCHANGED brain
       \/ /\ slot \in Calls /\ brain[slot] = "running"
          /\ brain' = [brain EXCEPT ![slot] = "cut"]
    /\ slot' = "other"
    /\ others' = others + 1
    /\ UNCHANGED <<bridgeVars, readerVars, active, revision, rev, turnVars, outVars>>

OtherEnds ==
    /\ slot = "other"
    /\ slot' = "free"
    /\ UNCHANGED <<bridgeVars, readerVars, active, revision, rev, brain, others, turnVars, outVars>>

-----------------------------------------------------------------------------
(* The bridge.                                                             *)

ClientHangsUp ==
    /\ client /\ main # "closed"
    /\ client' = FALSE
    /\ UNCHANGED <<main, backend, readerVars, brainVars, turnVars, outVars>>

BackendLost ==
    /\ backend /\ main # "closed"
    /\ backend' = FALSE
    /\ UNCHANGED <<main, client, readerVars, brainVars, turnVars, outVars>>

\* Mutant: only the loop that reads the voice model is watched.
StopReaderOnBackend ==
    /\ main = "wait" /\ ~backend /\ reader \notin {"cancel", "over"}
    /\ main' = "stopping"
    /\ reader' = "over" /\ handling' = NoCall
    /\ UNCHANGED <<client, backend, awaited, handled, brainVars, turnVars, outVars>>

\* The writer is over (the client is gone, or a send to the voice model
\* failed): the reader is cancelled.  Inside handle_call's await the
\* cancellation goes to the delegation that it waits for, and stops there.
StopReader ==
    /\ main = "wait" /\ ~(client /\ backend) /\ reader # "over"
    /\ main' = "stopping"
    /\ IF reader = "cancel"
       THEN /\ brain' = [brain EXCEPT ![awaited] = AfterCancel(@)]
            /\ UNCHANGED <<reader, handling>>
       ELSE /\ reader' = "over" /\ handling' = NoCall
            /\ UNCHANGED brain
    /\ UNCHANGED <<client, backend, awaited, handled, active, revision, rev, slot,
                   others, turnVars, outVars>>

\* Both loops are over: supervisor.wait().
BothOver ==
    /\ main \in {"wait", "stopping"} /\ reader = "over"
    /\ main' = "draining"
    /\ UNCHANGED <<client, backend, readerVars, brainVars, turnVars, outVars>>

\* Mutant: the connection is closed without waiting for the delegation.
CloseAtOnce ==
    /\ main = "draining"
    /\ main' = "closed"
    /\ active' = NoCall
    /\ client' = FALSE /\ backend' = FALSE
    /\ UNCHANGED <<readerVars, revision, rev, brain, slot, others, turnVars, outVars>>

\* supervisor.aclose() and backend.close().
Close ==
    /\ main = "draining" /\ ~Live(active)
    /\ main' = "closed"
    /\ active' = NoCall
    /\ client' = FALSE /\ backend' = FALSE
    /\ UNCHANGED <<readerVars, revision, rev, brain, slot, others, turnVars, outVars>>

-----------------------------------------------------------------------------
Reader == AskRefused \/ EndCancel \/ Delegate \/ ReaderEnds
Brain(c) ==
    \/ Launch(c) \/ StartRun(c) \/ RunEnds(c) \/ RunFails(c)
    \/ AskSpoken(c) \/ Unwind(c)
Bridge == StopReader \/ BothOver \/ Close

Next ==
    \/ ReadEvent
    \/ \E c \in Calls : ReadEmptyCall(c) \/ ReadCall(c)
    \/ Reader
    \/ \E c \in Calls : Brain(c)
    \/ OtherArrives \/ OtherEnds
    \/ ClientHangsUp \/ BackendLost
    \/ Bridge

Spec == Init /\ [][Next]_vars

\* The event loop runs what is ready, and runs end: a delegated one by itself,
\* another transport's because it is cancelled by the delegation that waits.
FairSpec ==
    /\ Spec
    /\ WF_vars(Reader) /\ WF_vars(Bridge) /\ WF_vars(OtherEnds)
    /\ \A c \in Calls : WF_vars(Brain(c))

\* The voice model, too, keeps talking as long as it is connected.
TalkingSpec == FairSpec /\ WF_vars(ReadEvent)

-----------------------------------------------------------------------------
TypeOK ==
    /\ main \in {"wait", "stopping", "draining", "closed"}
    /\ client \in BOOLEAN /\ backend \in BOOLEAN
    /\ reader \in {"events", "refuse", "cancel", "filler", "over"}
    /\ handling \in Calls \cup {NoCall}
    /\ awaited \in Calls \cup {NoCall}
    /\ handled \subseteq Calls
    /\ active \in Calls \cup {NoCall}
    /\ revision \in Nat
    /\ rev \in [Calls -> Nat]
    /\ brain \in [Calls -> {"none"} \cup Suspended \cup Ended]
    /\ slot \in {"free", "other"} \cup Calls
    /\ others \in Nat /\ heard \in Nat
    /\ buffer \in Seq(Nat)
    /\ taken \in [Calls -> SUBSET Nat]
    /\ items \in Seq(Calls)
    /\ asked \subseteq Calls

-----------------------------------------------------------------------------
(* Safety.                                                                 *)

Newest == IF revision = 0 THEN NoCall ELSE CHOOSE c \in Calls : rev[c] = revision

Latest == INSTANCE LatestWins WITH
    newest  <- Newest,
    taken   <- {c \in Calls : rev[c] > 0} \cup Range(items),
    answers <- items

\* The connection keeps the promise of LatestWins: calls are taken in order and
\* each is answered at most once, while it is the newest that was taken, although
\* a call is announced twice, superseded delegations do not stop at once and
\* refusals are sent between the two sends of an answer.  The newest is the one
\* with the last revision: of a call that is still being handled nothing is said,
\* see ObsoleteDropped.
OnlyLatestAnswered == Latest!Spec

\* A later call is being handled, or has its filler.
Superseded(c) ==
    /\ brain[c] # "none"
    /\ \/ \E d \in Calls : rev[d] > rev[c]
       \/ reader = "cancel"

\* While both ends are connected, an output that the voice model was not asked to
\* speak is about to be, or a newer call makes it speak instead: _send_output
\* sends twice and a cancellation may fall in between.
NoSilentOutput ==
    client /\ backend =>
        \A c \in Range(items) \ asked :
            brain[c] = "item" \/ handling = c \/ Superseded(c)

\* No task outlives its connection: when run() returns, both loops are over and
\* no delegation goes on sending to the voice model it closes.
NothingOutlivesBridge ==
    main = "closed" =>
        /\ reader = "over"
        /\ \A c \in Calls : brain[c] \notin Suspended

\* A turn is handed to one delegation only ("never duplicates", says the
\* docstring of SessionContext): none is both taken and still buffered, or taken
\* twice.
TurnsHandedOnce ==
    \A c \in Calls :
        /\ taken[c] \cap Range(buffer) = {}
        /\ \A d \in Calls \ {c} : taken[c] \cap taken[d] = {}

-----------------------------------------------------------------------------
(* Liveness.                                                               *)

\* Every call of the voice model is answered, with a whole or a partial text,
\* unless its run raised, a newer call superseded it or the connection went down.
CallsSettle ==
    \A c \in Calls :
        c \in handled ~>
            \/ c \in asked \/ brain[c] = "failed" \/ Superseded(c)
            \/ ~client \/ ~backend

\* When the client hangs up the connection is closed, unless the cancellation of
\* the reader was lost in handle_call's await.
HangupNoticed ==
    ~client ~> main = "closed" \/ (main = "stopping" /\ reader # "over")

\* A connection whose client is gone is closed (test_run_returns_when_client_stream_ends).
HangupCloses == ~client ~> main = "closed"

\* Once a newer call is handled, the output of the older one is dropped (the
\* docstring of DelegationSupervisor, delegate.py:281-282).  A delegation that
\* waits for another run of the session loses its cancellation there, runs, and
\* sends its output while handle_call still awaits it.
ObsoleteDropped ==
    [][\A c \in Calls : items' # items /\ items'[Len(items')] = c => ~Superseded(c)]_vars
=============================================================================
