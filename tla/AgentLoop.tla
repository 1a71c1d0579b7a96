----------------------------- MODULE AgentLoop ------------------------------
(***************************************************************************)
(* The agent graph (core/graph.py) on one conversation thread: compact,    *)
(* agent, then tools and again, or limit, or the end; with the runs and    *)
(* resumes AgentService starts on the thread (core/service.py), the        *)
(* interrupt that asks the user to approve a sensitive tool, the user's    *)
(* answers, barge-in, and a change of the approval mode from outside.      *)
(*                                                                         *)
(* A run keeps the thread's state in memory and the checkpointer stores it *)
(* after every node.  `at' is the node a run executes, `next' the one the  *)
(* latest checkpoint would continue with; they differ while a run goes on  *)
(* after set_approval_mode has written a checkpoint of its own.            *)
(*                                                                         *)
(* The tools node calls execute_tool_call for all the calls of a round at  *)
(* once (asyncio.gather).  Each one runs without suspending until its tool *)
(* executes, so their first steps are one action, StartTools.  A call that *)
(* has to ask raises an interrupt, which ends the run at once; the tools   *)
(* that execute beside it go on and their results are lost.  The resumed   *)
(* run executes the whole node again and gives the user's answers, in      *)
(* order, to the calls that ask.                                           *)
(*                                                                         *)
(* A call is its round and its slot in the round; its kind says what the   *)
(* code looks at: whether the tool is known, requires approval, or is      *)
(* web_search, the one that tools/policy.py may short-circuit.             *)
(***************************************************************************)
EXTENDS Integers, FiniteSets

CONSTANTS
    Offered,       \* the kinds of tools the model asks for
    MaxRounds,     \* bound: assistant messages with tool calls
    MaxCalls,      \* bound: tool calls of one message
    MaxIterations, \* agent.max_iterations
    RepeatLimit,   \* agent.repeat_tool_call_limit, 0 disables it
    MaxInputs,     \* bound: messages of the user
    MaxClicks,     \* bound: approvals answered by the user
    MaxModeSets    \* bound: calls of set_approval_mode

Kinds == {"unknown", "search", "safe", "sensitive"}

ASSUME OfferedAssumption == Offered \subseteq Kinds
ASSUME BoundsAssumption ==
    /\ MaxRounds \in Nat /\ MaxCalls \in Nat /\ MaxInputs \in Nat
    /\ MaxClicks \in Nat /\ MaxModeSets \in Nat
ASSUME LimitsAssumption == MaxIterations \in Nat /\ RepeatLimit \in Nat

Rounds == 1..MaxRounds
Slots == 1..MaxCalls
Modes == {"manual", "auto"}
Nodes == {"compact", "agent", "tools", "limit"}

VARIABLES
    at,         \* the node the run in flight executes, "none" without one
    next,       \* the node the latest checkpoint continues with
    runMode,    \* approval_mode in the run's memory
    mode,       \* approval_mode in the latest checkpoint
    iterations, \* state["iterations"]
    round,      \* the last assistant message with tool calls
    kind,       \* what each call of each round asks for, "none" for no call
    answer,     \* the ToolMessage in the history for each call
    decision,   \* the resume values of the tools node, by the call they went to
    given,      \* the resume value no call has taken yet
    asked,      \* slot of the pending interrupt, 0 for none
    attempt,    \* where each call of the round is, in the run in flight
    counts      \* metrics.signatures

historyVars == <<iterations, round, kind, answer>>
threadVars == <<next, mode, historyVars, decision, given, asked>>
runVars == <<at, runMode, attempt, counts>>

\* What happened, kept for the properties.
VARIABLES
    orphans,   \* calls that execute although their run has ended
    starts,    \* executions started, by call
    ran,       \* executions started in the run in flight, by kind
    unasked,   \* sensitive calls started in auto mode
    finished,  \* calls whose tool has returned
    told,      \* calls the model was told were not executed
    buttons,   \* calls the user was asked about
    approved,  \* calls whose own button the user pressed to approve
    chosen,    \* the approval mode that was set last
    inputs,    \* messages of the user so far
    clicks,    \* approvals answered so far
    granted,   \* of those, approving
    modeSets   \* calls of set_approval_mode so far

effectVars == <<orphans, starts, unasked, finished>>
clickVars == <<clicks, granted, approved>>
userVars == <<told, buttons, clickVars, chosen, inputs, modeSets>>
vars == <<threadVars, runVars, ran, effectVars, userVars>>

Calls == Rounds \X Slots

NoAttempt == [s \in Slots |-> "none"]
NoDecision == [s \in Slots |-> "none"]
NoCounts == [k \in Kinds |-> 0]

Init ==
    /\ at = "none"
    /\ next = "end"
    /\ runMode = "manual"
    /\ mode = "manual"
    /\ iterations = 0
    /\ round = 0
    /\ kind = [c \in Calls |-> "none"]
    /\ answer = [c \in Calls |-> "none"]
    /\ decision = NoDecision
    /\ given = "none"
    /\ asked = 0
    /\ attempt = NoAttempt
    /\ counts = NoCounts
    /\ ran = NoCounts
    /\ unasked = {}
    /\ chosen = "manual"
    /\ orphans = {}
    /\ starts = [c \in Calls |-> 0]
    /\ finished = {}
    /\ told = {}
    /\ buttons = {}
    /\ approved = {}
    /\ inputs = 0
    /\ clicks = 0
    /\ granted = 0
    /\ modeSets = 0

-----------------------------------------------------------------------------
\* Runs start and stop

\* start_run_metrics: every run and every resume counts anew.
FreshRun ==
    /\ attempt' = NoAttempt
    /\ counts' = NoCounts
    /\ ran' = NoCounts

\* What a new checkpoint leaves behind: interrupts and resume values.
NewCheckpoint ==
    /\ decision' = NoDecision
    /\ given' = "none"
    /\ asked' = 0

(* run(): cancels the run in flight and starts over from the top with the  *)
(* new message; a pending interrupt is abandoned with its answers.         *)
Run(wish) ==
    /\ inputs < MaxInputs
    /\ inputs' = inputs + 1
    /\ at' = "compact"
    /\ next' = "compact"
    /\ mode' = IF wish \in Modes THEN wish ELSE mode
    /\ chosen' = IF wish \in Modes THEN wish ELSE chosen
    /\ runMode' = mode'
    /\ iterations' = 0
    /\ NewCheckpoint
    /\ FreshRun
    /\ UNCHANGED <<round, kind, answer, effectVars, told, buttons, clickVars, modeSets>>

(* resume(): cancels the run in flight and continues from the latest       *)
(* checkpoint, whatever it waits for.  The button the user pressed names a *)
(* call, which nothing compares with the one that asks.                    *)
Resume(c, verdict) ==
    /\ clicks < MaxClicks
    /\ c \in buttons
    /\ clicks' = clicks + 1
    /\ granted' = granted + (IF verdict = "yes" THEN 1 ELSE 0)
    /\ approved' = IF verdict = "yes" THEN approved \cup {c} ELSE approved
    /\ at' = IF next = "end" THEN "none" ELSE next
    /\ runMode' = mode
    /\ given' = verdict
    /\ asked' = 0
    /\ FreshRun
    /\ UNCHANGED <<next, mode, historyVars, decision, effectVars, told, buttons, chosen, inputs, modeSets>>

\* The reader goes away or the service shuts down: the run is cancelled.
Stop ==
    /\ at # "none"
    /\ at' = "none"
    /\ FreshRun
    /\ UNCHANGED <<threadVars, runMode, effectVars, userVars>>

(* set_approval_mode: a checkpoint of its own, written as "__start__".  A  *)
(* run in flight goes on from what it has in memory, the resume values     *)
(* included.                                                               *)
SetApprovalMode(m) ==
    /\ modeSets < MaxModeSets
    /\ modeSets' = modeSets + 1
    /\ chosen' = m
    /\ mode' = m
    /\ next' = "compact"
    /\ asked' = 0
    /\ UNCHANGED <<historyVars, decision, given, runVars, ran, effectVars, told, buttons, clickVars, inputs>>

-----------------------------------------------------------------------------
\* Nodes

\* The node of the run is done: its state is stored and the next one begins.
Commit(node) ==
    /\ next' = node
    /\ at' = IF node = "end" THEN "none" ELSE node
    /\ mode' = runMode
    /\ NewCheckpoint
    /\ attempt' = NoAttempt

Compact ==
    /\ at = "compact"
    /\ Commit("agent")
    /\ UNCHANGED <<historyVars, runMode, counts, ran, effectVars, userVars>>

\* The calls the repaired history answers with INTERRUPTED_TOOL_RESULT.
Dangling == {c \in Calls : kind[c] # "none" /\ answer[c] = "none"}

\* Answered in text, or the model failed.
AgentAnswers ==
    /\ at = "agent"
    /\ told' = told \cup Dangling
    /\ iterations' = iterations + 1
    /\ Commit("end")
    /\ UNCHANGED <<round, kind, answer, runMode, counts, ran, effectVars, buttons, clickVars, chosen, inputs, modeSets>>

\* Mutant: one round too many.
TooLong(n) == n > MaxIterations

\* should_continue: the calls just asked for come too late.
OverLimit(n) == n >= MaxIterations

AgentCalls(wanted) ==
    /\ at = "agent"
    /\ round < MaxRounds
    /\ told' = told \cup Dangling
    /\ iterations' = iterations + 1
    /\ round' = round + 1
    /\ kind' = [c \in Calls |-> IF c[1] = round + 1 THEN wanted[c[2]] ELSE kind[c]]
    /\ Commit(IF OverLimit(iterations + 1) THEN "limit" ELSE "tools")
    /\ UNCHANGED <<answer, runMode, counts, ran, effectVars, buttons, clickVars, chosen, inputs, modeSets>>

\* Mutant: the graph goes on to the model again.
LimitGoesOn ==
    /\ at = "limit"
    /\ answer' = [c \in Calls |-> IF c[1] = round /\ kind[c] # "none" THEN "skipped" ELSE answer[c]]
    /\ Commit("compact")
    /\ UNCHANGED <<iterations, round, kind, runMode, counts, ran, effectVars, userVars>>

\* limit_node answers the calls it does not execute.
Limit ==
    /\ at = "limit"
    /\ answer' = [c \in Calls |-> IF c[1] = round /\ kind[c] # "none" THEN "skipped" ELSE answer[c]]
    /\ Commit("end")
    /\ UNCHANGED <<iterations, round, kind, runMode, counts, ran, effectVars, userVars>>

-----------------------------------------------------------------------------
\* The tools node

KindOf(s) == kind[<<round, s>>]
AsksFirst(s) == runMode = "manual" /\ KindOf(s) = "sensitive"
Waits(s) == AsksFirst(s) /\ decision[s] = "none"

\* Mutant: the resume value goes to every call that asks.
DecidedAll ==
    [s \in Slots |-> IF given # "none" /\ Waits(s) THEN given ELSE decision[s]]

\* Mutant: the new value replaces those given before.
DecidedAnew ==
    [s \in Slots |->
        IF given # "none" /\ AsksFirst(s) /\ \A t \in 1..s - 1 : ~Waits(t)
        THEN given ELSE decision[s]]

(* The resume values, in order, answer the calls that ask; the new one     *)
(* goes to the first that has none.                                        *)
Decided ==
    [s \in Slots |->
        IF given # "none" /\ Waits(s) /\ \A t \in 1..s - 1 : ~Waits(t)
        THEN given ELSE decision[s]]

MustAsk(s) == AsksFirst(s) /\ Decided[s] = "none"
Denied(s) == AsksFirst(s) /\ Decided[s] = "no"

\* The calls that pass the policies and the approval, and are counted.
Admitted(refused) ==
    {s \in Slots : KindOf(s) \notin {"none", "unknown"} /\ s \notin refused /\ ~MustAsk(s) /\ ~Denied(s)}

\* Mutant: the calls of one round do not see each other's count.
OccurrenceBefore(s, refused) == counts[KindOf(s)] + 1

\* How often the signature of this call has been counted, this call included.
Occurrence(s, refused) ==
    counts[KindOf(s)] + Cardinality({t \in Admitted(refused) : t <= s /\ KindOf(t) = KindOf(s)})

Repeated(s, refused) == RepeatLimit > 0 /\ Occurrence(s, refused) > RepeatLimit

\* execute_tool_call up to the tool's own execution.
FirstStep(s, refused) ==
    IF KindOf(s) \in {"none", "unknown"} THEN KindOf(s)
    ELSE IF s \in refused THEN "refused"
    ELSE IF MustAsk(s) THEN "asks"
    ELSE IF Denied(s) THEN "denied"
    ELSE IF Repeated(s, refused) THEN "repeated"
    ELSE "runs"

Runs(refused) == {s \in Slots : FirstStep(s, refused) = "runs"}
Asks(refused) == {s \in Slots : FirstStep(s, refused) = "asks"}
InRound(slots) == {<<round, s>> : s \in slots}

\* Every call of the round takes its first step and none has to ask.
Execute(refused) ==
    /\ Asks(refused) = {}
    /\ attempt' = [s \in Slots |-> FirstStep(s, refused)]
    /\ counts' = [k \in Kinds |-> counts[k] + Cardinality({s \in Admitted(refused) : KindOf(s) = k})]
    /\ ran' = [k \in Kinds |-> ran[k] + Cardinality({s \in Runs(refused) : KindOf(s) = k})]
    /\ UNCHANGED <<at, asked, orphans, buttons>>

(* The first call that asks ends the run.  Its interrupt belongs to the    *)
(* checkpoint the run started from: it is seen if that one is the latest.  *)
Interrupt(refused) ==
    /\ at' = "none"
    /\ FreshRun
    /\ orphans' = orphans \cup InRound(Runs(refused))
    /\ \E s \in Asks(refused) :
        /\ \A t \in Asks(refused) : s <= t
        /\ asked' = IF next = "tools" THEN s ELSE 0
        /\ buttons' = IF next = "tools" THEN buttons \cup {<<round, s>>} ELSE buttons

StartTools(refused) ==
    /\ at = "tools"
    /\ attempt = NoAttempt
    /\ refused \subseteq {s \in Slots : KindOf(s) = "search"}
    /\ decision' = Decided
    /\ given' = "none"
    /\ starts' = [c \in Calls |-> starts[c] + (IF c \in InRound(Runs(refused)) THEN 1 ELSE 0)]
    /\ unasked' = IF runMode = "auto"
                  THEN unasked \cup InRound({s \in Runs(refused) : KindOf(s) = "sensitive"})
                  ELSE unasked
    /\ Execute(refused) \/ Interrupt(refused)
    /\ UNCHANGED <<next, mode, historyVars, runMode, finished, told, clickVars, chosen, inputs, modeSets>>

\* A tool returns, or raises: both are results.
ToolReturns(s) ==
    /\ at = "tools"
    /\ attempt[s] = "runs"
    /\ attempt' = [attempt EXCEPT ![s] = "result"]
    /\ finished' = finished \cup {<<round, s>>}
    /\ UNCHANGED <<threadVars, at, runMode, counts, ran, orphans, starts, unasked, userVars>>

\* Nobody awaits the result of an orphan.
OrphanReturns(c) ==
    /\ c \in orphans
    /\ orphans' = orphans \ {c}
    /\ finished' = finished \cup {c}
    /\ UNCHANGED <<threadVars, runVars, ran, starts, unasked, userVars>>

\* Every call has an answer: the round goes into the history.
EndTools ==
    /\ at = "tools"
    /\ attempt # NoAttempt
    /\ \A s \in Slots : attempt[s] # "runs"
    /\ answer' = [c \in Calls |-> IF c[1] = round THEN attempt[c[2]] ELSE answer[c]]
    /\ Commit("compact")
    /\ UNCHANGED <<iterations, round, kind, runMode, counts, ran, effectVars, userVars>>

-----------------------------------------------------------------------------

\* What the model may ask for: at least one call, the slots filled in order.
Wanted ==
    {w \in [Slots -> Offered \cup {"none"}] :
        /\ \E s \in Slots : w[s] # "none"
        /\ \A s, t \in Slots : s < t /\ w[t] # "none" => w[s] # "none"}

\* The run goes on as long as it can.
GoesOn ==
    \/ Compact
    \/ \E wanted \in Wanted : AgentCalls(wanted)
    \/ Limit
    \/ \E refused \in SUBSET Slots : StartTools(refused)
    \/ \E s \in Slots : ToolReturns(s)
    \/ EndTools

Graph == AgentAnswers \/ GoesOn

Click(c) == \E verdict \in {"yes", "no"} : Resume(c, verdict)

Others ==
    \/ \E wish \in Modes \cup {"kept"} : Run(wish)
    \/ Stop
    \/ \E m \in Modes : SetApprovalMode(m)
    \/ Graph
    \/ \E c \in Calls : OrphanReturns(c)

Next == Others \/ \E c \in Calls : Click(c)

Spec == Init /\ [][Next]_vars

(* A user who answers what is asked, while it is asked: on the CLI, and    *)
(* behind the HTTP endpoint, which looks the pending approval up first.    *)
ClickAsked == at = "none" /\ asked # 0 /\ Click(<<round, asked>>)
CarefulSpec == Init /\ [][Others \/ ClickAsked]_vars

(* The same, when the model and the tools answer (the shell, web and phone *)
(* tools time out; of the model and of MCP servers it is assumed): the     *)
(* event loop runs what is ready.  Nothing makes the model answer in text: *)
(* it may ask for tools every time.  MaxRounds has to leave room for all   *)
(* the rounds of a run, MaxIterations and one for each mode change; a run  *)
(* that wants more of them stays at "agent", and does not end.             *)
FairSpec == CarefulSpec /\ WF_vars(GoesOn)

-----------------------------------------------------------------------------
\* Properties

TypeOK ==
    /\ at \in Nodes \cup {"none"}
    /\ next \in Nodes \cup {"end"}
    /\ runMode \in Modes /\ mode \in Modes /\ chosen \in Modes
    /\ iterations \in Nat
    /\ round \in 0..MaxRounds
    /\ kind \in [Calls -> Kinds \cup {"none"}]
    /\ answer \in [Calls -> {"none", "unknown", "refused", "denied", "repeated", "result", "skipped"}]
    /\ decision \in [Slots -> {"none", "yes", "no"}]
    /\ given \in {"none", "yes", "no"}
    /\ asked \in Slots \cup {0}
    /\ attempt \in [Slots -> {"none", "unknown", "refused", "denied", "repeated", "runs", "result"}]
    /\ counts \in [Kinds -> Nat] /\ ran \in [Kinds -> Nat]
    /\ orphans \subseteq Calls
    /\ starts \in [Calls -> Nat]
    /\ finished \subseteq Calls /\ unasked \subseteq Calls
    /\ told \subseteq Calls /\ buttons \subseteq Calls /\ approved \subseteq Calls
    /\ inputs \in Nat /\ clicks \in Nat /\ granted \in Nat /\ modeSets \in Nat

(* graph.py:243-261: a result in the history is the result of an execution *)
(* that returned, whatever was cancelled, interrupted or executed again.   *)
ResultsAreReal == \A c \in Calls : answer[c] = "result" => c \in finished

(* graph.py:193-203: a call the history says the user denied was never     *)
(* executed, in no attempt at the round.                                   *)
DeniedNeverRan == \A c \in Calls : answer[c] = "denied" => starts[c] = 0

(* graph.py:263-282: what limit_node says is true: "the last requested     *)
(* tool calls were not executed".                                          *)
SkippedNeverRan == \A c \in Calls : answer[c] = "skipped" => starts[c] = 0

\* What the history tells the model about its calls is true of what was executed:
\* the results, the denials and the skips.
AnswersTruthful == ResultsAreReal /\ DeniedNeverRan /\ SkippedNeverRan

(* In manual mode every sensitive call that executes costs the user an     *)
(* approval of its own (graph.py:182-193).                                 *)
NoFreeExecution ==
    Cardinality({c \in Calls : kind[c] = "sensitive" /\ starts[c] > 0} \ unasked) <= granted

(* One run executes the same call at most RepeatLimit times, the calls of  *)
(* one round, which run at once, included (graph.py:205-219).              *)
RepeatsBounded == RepeatLimit > 0 => \A k \in Kinds : ran[k] <= RepeatLimit

(* The model is called at most MaxIterations times for one message, and    *)
(* once more for each mode change that makes a stale approval start the    *)
(* graph from the top.                                                     *)
ModelCallsBounded == iterations <= MaxIterations + modeSets

(* A call the model was told "was not executed" has not been executed      *)
(* (messages.py:5-8).                                                      *)
MissingMeansNotRun == told \cap finished = {}

(* In manual mode a sensitive call executes only after the user was asked  *)
(* about this call and approved it.                                        *)
OwnApproval ==
    \A c \in Calls : kind[c] = "sensitive" /\ starts[c] > 0 => c \in approved \cup unasked

\* A call the user approved is executed once.
ApprovedRunsOnce == \A c \in approved : starts[c] <= 1

\* The approval mode that was set stays, from one run to the next.
ModePersists == at = "none" => mode = chosen

(* A run ends, in an answer, in an approval request or at the iteration    *)
(* limit, even if the model never stops asking for tools.                  *)
RunEnds == (at # "none") ~> (at = "none")

=============================================================================
