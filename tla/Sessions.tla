------------------------------ MODULE Sessions ------------------------------
(***************************************************************************)
(* SessionManager (core/sessions.py): the one conversation thread that     *)
(* every transport shares, "shared:<generation>", its reset by /new or by  *)
(* the idle TTL, and the checkpoints the threads leave in the store, which *)
(* outlives the process while the generation does not.                     *)
(*                                                                         *)
(* A caller is one message or one /new.  delete_thread suspends reset();   *)
(* the sqlite saver serves the deletes in the order they were asked for.   *)
(* The content of a thread is the set of messages its checkpoints hold.    *)
(*                                                                         *)
(* The run of a message starts as AgentService lets it (core/service.py,   *)
(* whose tasks are RunGuard's): it cancels the run that the table shows on *)
(* its thread, waits for its end and takes the entry over.  Two callers    *)
(* that wait for one run both start then, and two runs write the thread    *)
(* side by side; `raced' keeps the threads on which a caller came while    *)
(* another one waited.                                                     *)
(***************************************************************************)
EXTENDS Integers, Sequences

CONSTANTS
    Callers,       \* messages and /new commands
    MaxGeneration, \* bound: generations
    MaxRestarts,   \* bound: restarts of the process
    HasTTL         \* session_ttl_minutes is set

ASSUME MaxGenerationAssumption == MaxGeneration \in Nat \ {0}
ASSUME MaxRestartsAssumption == MaxRestarts \in Nat
ASSUME HasTTLAssumption == HasTTL \in BOOLEAN

VARIABLES
    session,   \* self._session.generation, 0 for None
    stale,     \* more than ttl_seconds have passed since last_seen
    stage,        \* where a caller is
    asks,      \* what a caller is: "message" or "new"
    previous,  \* the generation reset() captured
    thread,    \* the generation a caller was given, 0 for none yet
    past,      \* the messages that had a thread when reset() was called
    purges,    \* the callers awaiting delete_thread, in order
    store,     \* the messages in each thread's latest checkpoint
    held,      \* the state a run has in memory
    table,     \* the callers whose task AgentService._active holds
    awaits,    \* the runs whose end a caller waits for
    raced,     \* the generations with two callers at the barge-in at once
    restarts

callVars == <<stage, asks, previous, thread, past>>
guardVars == <<table, awaits, raced>>
sessionVars == <<session, stale, callVars, purges, store, held, guardVars, restarts>>

Generations == 1..MaxGeneration

SessionInit ==
    /\ session = 0
    /\ stale = FALSE
    /\ stage = [c \in Callers |-> "idle"]
    /\ asks = [c \in Callers |-> "none"]
    /\ previous = [c \in Callers |-> 0]
    /\ thread = [c \in Callers |-> 0]
    /\ past = [c \in Callers |-> {}]
    /\ purges = <<>>
    /\ store = [g \in Generations |-> {}]
    /\ held = [c \in Callers |-> {}]
    /\ table = {}
    /\ awaits = [c \in Callers |-> {}]
    /\ raced = {}
    /\ restarts = 0

Placed == {m \in Callers : asks[m] = "message" /\ thread[m] # 0}

\* reset() up to its await: the session it found, and a delete asked for.
BeginReset(c, kind) ==
    /\ stage[c] = "idle"
    /\ session < MaxGeneration
    /\ stage' = [stage EXCEPT ![c] = "purging"]
    /\ asks' = [asks EXCEPT ![c] = kind]
    /\ previous' = [previous EXCEPT ![c] = session]
    /\ past' = [past EXCEPT ![c] = Placed]
    /\ purges' = Append(purges, c)
    /\ UNCHANGED <<session, stale, thread, store, held, guardVars, restarts>>

New(c) == BeginReset(c, "new")

\* thread_id() when the idle session has expired.
MessageExpired(c) == session # 0 /\ stale /\ BeginReset(c, "message")

\* thread_id() otherwise: the first session, or the same one seen again.
MessageCurrent(c) ==
    /\ stage[c] = "idle"
    /\ ~(session # 0 /\ stale)
    /\ session' = IF session = 0 THEN 1 ELSE session
    /\ stale' = FALSE
    /\ stage' = [stage EXCEPT ![c] = "loading"]
    /\ asks' = [asks EXCEPT ![c] = "message"]
    /\ thread' = [thread EXCEPT ![c] = session']
    /\ UNCHANGED <<previous, past, purges, store, held, guardVars, restarts>>

\* Mutant: the thread is purged and used again, its generation not bumped.
EndResetInPlace(c) ==
    LET old == IF previous[c] = 0 THEN 1 ELSE previous[c] IN
    /\ store' = [store EXCEPT ![old] = {}]
    /\ session' = old
    /\ stale' = FALSE
    /\ thread' = [thread EXCEPT ![c] = old]
    /\ stage' = [stage EXCEPT ![c] = IF asks[c] = "message" THEN "loading" ELSE "done"]
    /\ UNCHANGED <<asks, previous, past, held, guardVars, restarts>>

\* The rest of reset() for caller c: the captured thread is purged, and the
\* generation after the captured one becomes the session.
EndReset(c) ==
    LET old == IF previous[c] = 0 THEN 1 ELSE previous[c]
        new == previous[c] + 1 IN
    /\ store' = [store EXCEPT ![old] = {}]
    /\ session' = new
    /\ stale' = FALSE
    /\ thread' = [thread EXCEPT ![c] = new]
    /\ stage' = [stage EXCEPT ![c] = IF asks[c] = "message" THEN "loading" ELSE "done"]
    /\ UNCHANGED <<asks, previous, past, held, guardVars, restarts>>

\* Mutant: deletes return in any order.
PurgeAny ==
    \E c \in Callers :
        /\ stage[c] = "purging"
        /\ purges' = SelectSeq(purges, LAMBDA d : d # c)
        /\ EndReset(c)

\* The oldest delete returns to its reset().
Purge ==
    /\ purges # <<>>
    /\ purges' = Tail(purges)
    /\ EndReset(Head(purges))

Runs == {"started", "running", "cancelling"}
OnThread(g) == {d \in Callers : thread[d] = g}
InFlight(g) == {d \in table \cap OnThread(g) : stage[d] \in Runs}
AtGuard(g) == {d \in OnThread(g) : stage[d] = "barging"}

\* A caller comes to the guard: this is a race when another one waits there.
Arrives(c) ==
    /\ stage[c] = "loading"
    /\ raced' = IF AtGuard(thread[c]) = {} THEN raced ELSE raced \cup {thread[c]}

\* The task of c is created and takes the entry of its thread.
Register(c, states) ==
    /\ stage' = [states EXCEPT ![c] = "started"]
    /\ table' = (table \ OnThread(thread[c])) \cup {c}

\* Nothing to supersede.
Begin(c) ==
    /\ Arrives(c)
    /\ InFlight(thread[c]) = {}
    /\ Register(c, stage)
    /\ UNCHANGED <<session, stale, asks, previous, thread, past, purges, store,
                   held, awaits, restarts>>

\* Mutant: the run in flight is cancelled and not awaited.
BargeInAtOnce(c) ==
    /\ Arrives(c)
    /\ InFlight(thread[c]) # {}
    /\ Register(c, [d \in Callers |->
                      IF d \in InFlight(thread[c]) THEN "cancelling" ELSE stage[d]])
    /\ UNCHANGED <<session, stale, asks, previous, thread, past, purges, store,
                   held, awaits, restarts>>

\* The run in flight on the thread is cancelled, and its end awaited.
BargeIn(c) ==
    /\ Arrives(c)
    /\ InFlight(thread[c]) # {}
    /\ awaits' = [awaits EXCEPT ![c] = InFlight(thread[c])]
    /\ stage' = [d \in Callers |-> IF d = c THEN "barging"
                                ELSE IF d \in awaits'[c] THEN "cancelling"
                                ELSE stage[d]]
    /\ UNCHANGED <<session, stale, asks, previous, thread, past, purges, store,
                   held, table, restarts>>

\* It is over: c registers, whoever else has done so meanwhile.
Resume(c) ==
    /\ stage[c] = "barging"
    /\ \A d \in awaits[c] : stage[d] = "done"
    /\ Register(c, stage)
    /\ UNCHANGED <<session, stale, asks, previous, thread, past, purges, store,
                   held, awaits, raced, restarts>>

\* The graph reads the thread's latest checkpoint and appends the message.
Load(c) ==
    /\ stage[c] = "started"
    /\ stage' = [stage EXCEPT ![c] = "running"]
    /\ held' = [held EXCEPT ![c] = store[thread[c]] \cup {c}]
    /\ UNCHANGED <<session, stale, asks, previous, thread, past, purges, store,
                   guardVars, restarts>>

\* A step of the run writes the state it has in memory, one that is being
\* cancelled its last ones.
Checkpoint(c) ==
    /\ stage[c] \in {"running", "cancelling"}
    /\ held[c] # {}
    /\ store' = [store EXCEPT ![thread[c]] = held[c]]
    /\ UNCHANGED <<session, stale, callVars, purges, held, guardVars, restarts>>

\* A run ends, fails or has been cancelled; its generator drops its entry.
End(c) ==
    /\ stage[c] \in Runs
    /\ stage' = [stage EXCEPT ![c] = "done"]
    /\ table' = table \ {c}
    /\ UNCHANGED <<session, stale, asks, previous, thread, past, purges, store,
                   held, awaits, raced, restarts>>

Idle ==
    /\ HasTTL
    /\ session # 0
    /\ stale' = TRUE
    /\ UNCHANGED <<session, callVars, purges, store, held, guardVars, restarts>>

\* A new process: the store is a file, the SessionManager is not.
Restart ==
    /\ restarts < MaxRestarts
    /\ restarts' = restarts + 1
    /\ session' = 0
    /\ stale' = FALSE
    /\ purges' = <<>>
    /\ stage' = [c \in Callers |-> IF stage[c] = "idle" THEN "idle" ELSE "done"]
    /\ table' = {}
    /\ raced' = {}
    /\ UNCHANGED <<asks, previous, thread, past, store, held, awaits>>

SessionNext ==
    \/ \E c \in Callers :
          \/ New(c) \/ MessageExpired(c) \/ MessageCurrent(c)
          \/ Begin(c) \/ BargeIn(c) \/ Resume(c)
          \/ Load(c) \/ Checkpoint(c) \/ End(c)
    \/ Purge \/ Idle \/ Restart

SessionSpec == SessionInit /\ [][SessionNext]_sessionVars

-----------------------------------------------------------------------------
SessionTypeOK ==
    /\ session \in 0..MaxGeneration
    /\ stale \in BOOLEAN
    /\ stage \in [Callers -> {"idle", "purging", "loading", "barging", "done"} \cup Runs]
    /\ asks \in [Callers -> {"none", "message", "new"}]
    /\ previous \in [Callers -> 0..(MaxGeneration - 1)]
    /\ thread \in [Callers -> 0..MaxGeneration]
    /\ past \in [Callers -> SUBSET Callers]
    /\ purges \in Seq(Callers)
    /\ store \in [Generations -> SUBSET Callers]
    /\ held \in [Callers -> SUBSET Callers]
    /\ table \subseteq Callers
    /\ awaits \in [Callers -> SUBSET Callers]
    /\ raced \subseteq Generations
    /\ restarts \in 0..MaxRestarts
    /\ \A c \in Callers : stage[c] \in {"loading", "barging"} \cup Runs => thread[c] # 0

\* A reset, asked for or by expiry, gives a thread in which no message shows
\* that had a thread before it: /new is "Start a fresh session" (bot.py:56).
\* It fails across a restart.
FreshThread ==
    \A c \in Callers :
        thread[c] # 0 => store[thread[c]] \cap past[c] = {}

\* The same within the process that first used the store, however messages,
\* /new commands, expiry and runs in flight overlap (sessions.py:52-61).
FreshInProcess == restarts = 0 => FreshThread

\* The generation never goes back while the process lives, however many
\* resets overlap: a thread that was left is not entered again.
GenerationForward == [][session' >= session \/ restarts' > restarts]_sessionVars

\* A run writes the thread from the copy it has in memory, to its last step while
\* the next one waits for its end, and yet no message is lost to another run: a
\* thread forgets a message only when it is purged, or when two callers have been
\* at the barge-in at once and two runs write it.
MessagesKept ==
    [][\A g \in Generations \ raced :
          store[g] \subseteq store'[g] \/ purges' # purges]_sessionVars

\* A reset "purges the previous thread's checkpoints" (sessions.py:26).  No
\* run checks it: it fails when a run is in flight on that thread.
LeftThreadsPurged ==
    \A g \in Generations : g < session => store[g] = {}

=============================================================================
