------------------------------ MODULE Channels ------------------------------
(***************************************************************************)
(* The channels of one conversation: handlers of Telegram messages,        *)
(* buttons and commands (transports/telegram/bot.py), of HTTP completions  *)
(* and approvals (transports/http/app.py) and of scheduled jobs            *)
(* (scheduler/cron.py), the thread they share through the service          *)
(* (core/service.py) and what the chat shows.                              *)
(*                                                                         *)
(* Every handler looks at the thread, awaits, and acts on what it saw: a   *)
(* message asks for the mode it looked up, /compact writes a summary of    *)
(* the messages it read, an HTTP approval resumes what it found pending.   *)
(* A run has a copy of the thread and stores the whole of it at each step. *)
(*                                                                         *)
(* Which run the session may execute is the view of SessionSlot: one, and  *)
(* one request that waits for it (the regime of RunGuard's SerialSpec).    *)
(***************************************************************************)
CONSTANTS
    Requests,      \* what reaches the channels
    Offered,       \* kinds of requests that may come
    None,          \* no request
    DefaultMode    \* channels.telegram.approval_mode

Modes == {"auto", "manual"}
Commands == {"auto", "manual", "compact"}
Messages == {"text", "http", "job"}
Answers == {"press", "resolve"}

ASSUME ChannelsAssumption ==
    /\ None \notin Requests
    /\ Offered \subseteq Commands \cup Messages \cup Answers
    /\ DefaultMode \in Modes

VARIABLES
    thread,        \* the latest checkpoint: approval mode, the run whose question
                   \* is pending, messages, and the run in flight that wrote it
    slot,          \* the run of the session
    kind,          \* what each request is
    target,        \* the question an answer names, until the answer is stored
    wish,          \* the mode a message asks for
    pc,            \* where the handler of each request is suspended
    run,           \* where its graph execution is
    held,          \* the thread as its run, or its update, has it in memory
    buttons,       \* chat: questions whose buttons can be pressed
    placeholders,  \* chat: streamed previews
    replies        \* final texts, HTTP bodies and reports of jobs

\* What happened, kept for the properties.
VARIABLES
    pinned,        \* /manual was the last word about the mode, and was said
                   \* when nothing was in progress
    raced          \* messages stored while a command was between read and write

chatVars == <<buttons, placeholders, replies>>
seenVars == <<pinned, raced>>
vars == <<thread, slot, kind, target, wish, pc, run, held, chatVars, seenVars>>

Blank == [mode |-> "unset", asks |-> None, msgs |-> {}, by |-> None]

Init ==
    /\ thread = Blank
    /\ slot = None
    /\ kind = [r \in Requests |-> "none"]
    /\ target = [r \in Requests |-> None]
    /\ wish = [r \in Requests |-> "none"]
    /\ pc = [r \in Requests |-> "idle"]
    /\ run = [r \in Requests |-> "none"]
    /\ held = [r \in Requests |-> Blank]
    /\ buttons = {} /\ placeholders = {} /\ replies = {}
    /\ pinned = FALSE /\ raced = {}

Live == {"load", "open", "saved", "asking", "cut"}
Over == {"answered", "asked", "cancelled", "failed"}

AtRest(r) == pc[r] \in {"idle", "done"} /\ run[r] \notin Live
Goes(r, from, to) == pc[r] = from /\ pc' = [pc EXCEPT ![r] = to]
InChat(r) == kind[r] \in {"text", "press"}

-----------------------------------------------------------------------------
(* Requests arrive.                                                        *)

Arrives(r, k, at) ==
    /\ k \in Offered
    /\ Goes(r, "idle", at)
    /\ kind' = [kind EXCEPT ![r] = k]
    /\ UNCHANGED <<thread, slot, run, held, chatVars, raced>>

\* A Telegram message.
MessageArrives(r) ==
    /\ Arrives(r, "text", "lookup")
    /\ UNCHANGED <<target, wish, pinned>>

\* The other channels run in auto mode.  A job has a thread of its own unless it
\* was created with the session of this one: here it always has.
AutoArrives(r) ==
    /\ \E k \in {"http", "job"} : Arrives(r, k, "start")
    /\ wish' = [wish EXCEPT ![r] = "auto"]
    /\ pinned' = FALSE
    /\ UNCHANGED target

ButtonPressed(r) ==
    /\ Arrives(r, "press", "pressed")
    /\ \E b \in buttons : target' = [target EXCEPT ![r] = b]
    /\ UNCHANGED <<wish, pinned>>

\* The approval endpoint, with an id from an earlier answer.
ApprovalPosted(r) ==
    /\ Arrives(r, "resolve", "check")
    /\ \E b \in Requests : run[b] = "asked" /\ target' = [target EXCEPT ![r] = b]
    /\ UNCHANGED <<wish, pinned>>

CommandArrives(r) ==
    /\ \E k \in Commands :
        /\ Arrives(r, k, "read")
        /\ pinned' = (pinned /\ k # "auto")
    /\ UNCHANGED <<target, wish>>

-----------------------------------------------------------------------------
(* What a handler does before its run.                                     *)

\* Mutant: the channel's default, whatever the user set.
ModeForDefault == DefaultMode

\* _resolve_approval_mode
ModeFor == IF thread.mode = "unset" THEN DefaultMode ELSE thread.mode

LooksUpMode(r) ==
    /\ Goes(r, "lookup", "start")
    /\ wish' = [wish EXCEPT ![r] = ModeFor]
    /\ UNCHANGED <<thread, slot, kind, target, run, held, chatVars, seenVars>>

DeletesButton(r) ==
    /\ Goes(r, "pressed", "start")
    /\ buttons' = buttons \ {target[r]}
    /\ UNCHANGED <<thread, slot, kind, target, wish, run, held, placeholders, replies, seenVars>>

\* pending_approval, and 404 if it is not the one.
ChecksPending(r) ==
    /\ Goes(r, "check", IF thread.asks = target[r] THEN "start" ELSE "done")
    /\ target' = [target EXCEPT ![r] = None]
    /\ UNCHANGED <<thread, slot, kind, wish, run, held, chatVars, seenVars>>

-----------------------------------------------------------------------------
(* run() and resume(): the run in flight is cancelled and waited for.      *)

Starts(r) ==
    /\ slot = None
    /\ Goes(r, "start", "reading")
    /\ slot' = r
    /\ run' = [run EXCEPT ![r] = "load"]
    /\ UNCHANGED <<thread, kind, target, wish, held, chatVars, seenVars>>

Supersedes(r) ==
    /\ slot # None
    /\ \A q \in Requests : pc[q] # "barging"
    /\ Goes(r, "start", "barging")
    /\ run' = [run EXCEPT ![slot] = "cut"]
    /\ held' = [held EXCEPT ![slot] = Blank]
    /\ UNCHANGED <<thread, slot, kind, target, wish, chatVars, seenVars>>

\* Mutant: the victim is cancelled and not waited for.
BargesAtOnce(r) ==
    /\ Goes(r, "barging", "reading")
    /\ slot' = r
    /\ run' = [run EXCEPT ![r] = "load"]
    /\ UNCHANGED <<thread, kind, target, wish, held, chatVars, seenVars>>

Barges(r) ==
    /\ slot = None
    /\ Goes(r, "barging", "reading")
    /\ slot' = r
    /\ run' = [run EXCEPT ![r] = "load"]
    /\ UNCHANGED <<thread, kind, target, wish, held, chatVars, seenVars>>

-----------------------------------------------------------------------------
(* The graph execution.                                                    *)

\* The checkpoint a run starts from, with its message or its answer.
Entered(r) ==
    IF kind[r] \in Answers THEN [thread EXCEPT !.asks = None, !.by = r]
    ELSE [mode |-> wish[r], asks |-> None, msgs |-> thread.msgs \cup {r}, by |-> r]

Loads(r) ==
    /\ run[r] = "load"
    /\ run' = [run EXCEPT ![r] = "open"]
    /\ held' = [held EXCEPT ![r] = Entered(r)]
    /\ wish' = [wish EXCEPT ![r] = "none"]
    /\ UNCHANGED <<thread, slot, kind, target, pc, chatVars, seenVars>>

Updating(c) == kind[c] \in Commands /\ pc[c] \in {"summary", "write"}

\* A superstep stores the whole state.
Stores(r, checkpoint) ==
    /\ thread' = checkpoint
    /\ raced' = IF kind[r] \in Messages /\ \E c \in Requests : Updating(c)
                THEN raced \cup {r} ELSE raced

Saves(r) ==
    /\ run[r] \in {"open", "saved"} /\ thread # held[r]
    /\ run' = [run EXCEPT ![r] = "saved"]
    /\ target' = [target EXCEPT ![r] = None]
    /\ Stores(r, held[r])
    /\ UNCHANGED <<slot, kind, wish, pc, held, chatVars, pinned>>

RunEnds(r, how) ==
    /\ run' = [run EXCEPT ![r] = how]
    /\ slot' = IF slot = r THEN None ELSE slot
    /\ held' = [held EXCEPT ![r] = Blank]
    /\ wish' = [wish EXCEPT ![r] = "none"]
    /\ UNCHANGED <<kind, target, pc, chatVars, pinned>>

RunAnswers(r) ==
    /\ run[r] = "saved"
    /\ Stores(r, [held[r] EXCEPT !.by = None])
    /\ RunEnds(r, "answered")

\* A sensitive call interrupts the run.  The question belongs to the checkpoint
\* the run wrote: if an update wrote another since, nobody will see it.
RunIsInterrupted(r) ==
    /\ run[r] = "saved" /\ held[r].mode = "manual"
    /\ run' = [run EXCEPT ![r] = "asking"]
    /\ held' = [held EXCEPT ![r] = Blank]
    /\ thread' = IF thread.by = r THEN [thread EXCEPT !.asks = r, !.by = None] ELSE thread
    /\ UNCHANGED <<slot, kind, target, wish, pc, chatVars, seenVars>>

\* The state is read once more: with a question the run asks, without one it ends
\* like one that is done.
RunAsks(r) ==
    /\ run[r] = "asking"
    /\ RunEnds(r, IF thread.asks = r THEN "asked" ELSE "answered")
    /\ UNCHANGED <<thread, raced>>

\* The checkpoint is no longer that of a run in flight.
Released(r) == IF thread.by = r THEN [thread EXCEPT !.by = None] ELSE thread

\* The run raises: before it has stored anything, between two checkpoints, or
\* when the state is read once more.
RunFails(r) ==
    /\ run[r] \in Live \ {"cut"}
    /\ RunEnds(r, "failed")
    /\ thread' = Released(r)
    /\ UNCHANGED raced

RunIsCut(r) ==
    /\ run[r] = "cut"
    /\ RunEnds(r, "cancelled")
    /\ thread' = Released(r)
    /\ UNCHANGED raced

-----------------------------------------------------------------------------
(* The handler reads the events of its run.                                *)

\* _stream_reply: the first thing to show.
Shows(r) ==
    /\ pc[r] = "reading" /\ InChat(r)
    /\ run[r] \in {"open", "saved"} \cup Over
    /\ placeholders' = placeholders \cup {r}
    /\ UNCHANGED <<thread, slot, kind, target, wish, pc, run, held, buttons, replies, seenVars>>

\* The stream has ended; an exception of the run ends the handler.
ReadsAll(r) ==
    /\ InChat(r)
    /\ run[r] \in Over
    /\ Goes(r, "reading", IF run[r] = "failed" THEN "done" ELSE "erase")
    /\ UNCHANGED <<thread, slot, kind, target, wish, run, held, chatVars, seenVars>>

\* Mutant: a cancelled run's preview stays.
ErasesUnlessCancelled(r) ==
    /\ Goes(r, "erase", IF run[r] = "cancelled" THEN "done" ELSE "final")
    /\ placeholders' = IF run[r] = "cancelled" THEN placeholders ELSE placeholders \ {r}
    /\ UNCHANGED <<thread, slot, kind, target, wish, run, held, buttons, replies, seenVars>>

Erases(r) ==
    /\ Goes(r, "erase", IF run[r] = "cancelled" THEN "done" ELSE "final")
    /\ placeholders' = placeholders \ {r}
    /\ UNCHANGED <<thread, slot, kind, target, wish, run, held, buttons, replies, seenVars>>

\* Mutant: a question is only sent after a text.
SendsFinalOrNothing(r) ==
    /\ \/ /\ replies' = replies \cup {r}
          /\ Goes(r, "final", IF run[r] = "asked" THEN "question" ELSE "done")
       \/ Goes(r, "final", "done") /\ UNCHANGED replies
    /\ UNCHANGED <<thread, slot, kind, target, wish, run, held, buttons, placeholders, seenVars>>

SendsFinal(r) ==
    /\ Goes(r, "final", IF run[r] = "asked" THEN "question" ELSE "done")
    /\ \/ replies' = replies \cup {r}
       \/ UNCHANGED replies           \* nothing was said
    /\ UNCHANGED <<thread, slot, kind, target, wish, run, held, buttons, placeholders, seenVars>>

SendsQuestion(r) ==
    /\ Goes(r, "question", "done")
    /\ buttons' = buttons \cup {r}
    /\ UNCHANGED <<thread, slot, kind, target, wish, run, held, placeholders, replies, seenVars>>

Body(r) == IF run[r] = "failed" THEN replies ELSE replies \cup {r}

\* The HTTP answer: the text collected, a question included, also of a run that
\* was cancelled.
Responds(r) ==
    /\ kind[r] \in {"http", "resolve"} /\ run[r] \in Over
    /\ Goes(r, "reading", "done")
    /\ replies' = Body(r)
    /\ UNCHANGED <<thread, slot, kind, target, wish, run, held, buttons, placeholders, seenVars>>

\* The client of a streamed completion goes away: the run it reads is cancelled.
Leaves(r) ==
    /\ kind[r] = "http"
    /\ Goes(r, "reading", "done")
    /\ IF run[r] \in Live
       THEN /\ run' = [run EXCEPT ![r] = "cut"]
            /\ held' = [held EXCEPT ![r] = Blank]
       ELSE UNCHANGED <<run, held>>
    /\ UNCHANGED <<thread, slot, kind, target, wish, chatVars, seenVars>>

\* execute_job: its report is left out, no handler looks at it.
Reports(r) ==
    /\ kind[r] = "job" /\ run[r] \in Over
    /\ Goes(r, "reading", "done")
    /\ UNCHANGED <<thread, slot, kind, target, wish, run, held, chatVars, seenVars>>

-----------------------------------------------------------------------------
(* Commands: aupdate_state reads a checkpoint and writes the next one.     *)

ModeRead(r) == [thread EXCEPT !.mode = kind[r], !.asks = None, !.by = None]

ReadsMode(r) ==
    /\ kind[r] \in Modes
    /\ Goes(r, "read", "write")
    /\ held' = [held EXCEPT ![r] = ModeRead(r)]
    /\ UNCHANGED <<thread, slot, kind, target, wish, run, chatVars, seenVars>>

\* compact_session reads the messages and awaits their summary, if there is
\* enough to compact.
ReadsToCompact(r) ==
    /\ kind[r] = "compact"
    /\ \/ Goes(r, "read", "summary") /\ held' = [held EXCEPT ![r] = thread]
       \/ Goes(r, "read", "done") /\ UNCHANGED held
    /\ UNCHANGED <<thread, slot, kind, target, wish, run, chatVars, seenVars>>

\* The summary stands for the messages that were read.
Updated(r) == [thread EXCEPT !.msgs = held[r].msgs, !.asks = None, !.by = None]

ReadsToUpdate(r) ==
    /\ Goes(r, "summary", "write")
    /\ held' = [held EXCEPT ![r] = Updated(r)]
    /\ UNCHANGED <<thread, slot, kind, target, wish, run, chatVars, seenVars>>

Writes(r) ==
    /\ Goes(r, "write", "done")
    /\ thread' = held[r]
    /\ held' = [held EXCEPT ![r] = Blank]
    /\ pinned' = \/ pinned
                 \/ kind[r] = "manual" /\ \A q \in Requests \ {r} : AtRest(q)
    /\ UNCHANGED <<slot, kind, target, wish, run, chatVars, raced>>

-----------------------------------------------------------------------------
Arrival(r) ==
    \/ MessageArrives(r) \/ AutoArrives(r) \/ ButtonPressed(r)
    \/ ApprovalPosted(r) \/ CommandArrives(r)

Handler(r) ==
    \/ LooksUpMode(r) \/ DeletesButton(r) \/ ChecksPending(r)
    \/ Starts(r) \/ Supersedes(r) \/ Barges(r)
    \/ Shows(r) \/ ReadsAll(r) \/ Erases(r) \/ SendsFinal(r) \/ SendsQuestion(r)
    \/ Responds(r) \/ Leaves(r) \/ Reports(r)
    \/ ReadsMode(r) \/ ReadsToCompact(r) \/ ReadsToUpdate(r) \/ Writes(r)

Execution(r) ==
    \/ Loads(r) \/ Saves(r)
    \/ RunAnswers(r) \/ RunIsInterrupted(r) \/ RunAsks(r)
    \/ RunFails(r) \/ RunIsCut(r)

Next == \E r \in Requests : Arrival(r) \/ Handler(r) \/ Execution(r)

Spec == Init /\ [][Next]_vars

-----------------------------------------------------------------------------
Checkpoints == [mode : Modes \cup {"unset"}, asks : Requests \cup {None},
                msgs : SUBSET Requests, by : Requests \cup {None}]

TypeOK ==
    /\ thread \in Checkpoints
    /\ slot \in Requests \cup {None}
    /\ kind \in [Requests -> Commands \cup Messages \cup Answers \cup {"none"}]
    /\ target \in [Requests -> Requests \cup {None}]
    /\ wish \in [Requests -> Modes \cup {"none"}]
    /\ pc \in [Requests -> {"idle", "lookup", "pressed", "check", "start", "barging", "reading",
                            "erase", "final", "question", "read", "summary", "write", "done"}]
    /\ run \in [Requests -> {"none"} \cup Live \cup Over]
    /\ held \in [Requests -> Checkpoints]
    /\ buttons \subseteq Requests /\ placeholders \subseteq Requests /\ replies \subseteq Requests
    /\ pinned \in BOOLEAN /\ raced \subseteq Requests

-----------------------------------------------------------------------------
(* Safety.                                                                 *)

\* "Manual mode on: sensitive tools will ask for your approval" (the reply to
\* /manual): said when nothing was in progress, it holds until /auto or a channel
\* that runs in auto mode, whatever messages, answers, questions and compactions
\* come in between.
ManualHolds ==
    pinned =>
        /\ thread.mode = "manual"
        /\ \A r \in Requests : run[r] \in {"open", "saved"} => held[r].mode = "manual"

CutOff(r) == run[r] \in {"failed", "cancelled"}
LeftAlone(r) == kind[r] = "http" /\ pc[r] = "done" /\ r \notin replies

\* The run of the question was cut off before its handler heard of it, or the run
\* its button was pressed for before it stored the answer, and what followed, if
\* anything, was not a run that went on: one raised, or lost its client.
Unheard(q) ==
    /\ CutOff(q) \/ \E p \in Requests : kind[p] = "press" /\ target[p] = q /\ CutOff(p)
    /\ \E r \in Requests : run[r] = "failed" \/ LeftAlone(r)

\* When nothing is in progress, the question that blocks the thread can be
\* answered: its buttons are in the chat, or its id is in an HTTP answer.  Answers
\* that cross, runs that supersede each other and updates of the thread never
\* leave it otherwise; a run that raises at the wrong moment may.
PendingAnswerable ==
    (\A r \in Requests : AtRest(r)) /\ thread.asks # None =>
        \/ thread.asks \in (IF InChat(thread.asks) THEN buttons ELSE replies)
        \/ Unheard(thread.asks)

\* What a handler leaves in the chat is true: a preview only if its run raised,
\* a final text or a question only of a run that was not cancelled.
ChatTruthful ==
    \A r \in Requests :
        InChat(r) =>
            /\ r \in placeholders /\ pc[r] = "done" => run[r] = "failed"
            /\ r \in replies \cup buttons => run[r] \in {"answered", "asked"}

\* A message that was answered stays in the conversation, itself or in a summary,
\* unless a command was between its read and its write when it was stored.
AnsweredKept ==
    \A r \in Requests :
        kind[r] \in Messages /\ run[r] \in {"answered", "asked"} => r \in thread.msgs \cup raced

=============================================================================
