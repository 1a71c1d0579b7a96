-------------------------- MODULE AgentLoopProofs ---------------------------
(***************************************************************************)
(* Theorems about AgentLoop, for every bound, every limit and every kind   *)
(* of tool the model may ask for.                                          *)
(***************************************************************************)
EXTENDS AgentLoop, FiniteSetTheorems, TLAPS

-----------------------------------------------------------------------------
(* Type correctness *)

\* A set of calls of one round can be counted.
LEMMA SlotsCount ==
    ASSUME NEW S \in SUBSET Slots
    PROVE  Cardinality(S) \in Nat
<1>1. IsFiniteSet(1..MaxCalls)
  BY BoundsAssumption, FS_Interval
<1> QED
  BY <1>1, FS_Subset, FS_CardinalityType DEF Slots

FirstSteps == {"none", "unknown", "refused", "asks", "denied", "repeated", "runs"}

\* execute_tool_call has an outcome for every call.
LEMMA FirstStepType ==
    ASSUME NEW refused \in SUBSET Slots, NEW s \in Slots
    PROVE  FirstStep(s, refused) \in FirstSteps
  BY DEF FirstStep, FirstSteps

\* The thread of a run that has calls to execute has a round.
RoundExists == at \in {"tools", "limit"} \/ next \in {"tools", "limit"} => round \in Rounds

\* Whoever may execute tools or skip them has a round, and everything its type.
LEMMA TypeInit == Init => TypeOK /\ RoundExists
<1> USE BoundsAssumption
<1> SUFFICES ASSUME Init PROVE TypeOK /\ RoundExists
  OBVIOUS
<1>1. TypeOK
  BY DEF Init, TypeOK, NoAttempt, NoDecision, NoCounts, Modes, Kinds
<1>2. RoundExists
  BY DEF Init, RoundExists
<1> QED
  BY <1>1, <1>2

\* Every step keeps both.
LEMMA TypeStep == TypeOK /\ RoundExists /\ [Next]_vars => TypeOK' /\ RoundExists'
<1> USE BoundsAssumption
<1> SUFFICES ASSUME TypeOK, RoundExists, [Next]_vars PROVE TypeOK' /\ RoundExists'
  OBVIOUS
<1> USE DEF TypeOK, RoundExists, historyVars, threadVars, runVars, effectVars, clickVars, userVars,
            NewCheckpoint, FreshRun, NoAttempt, NoDecision, NoCounts, Nodes, Modes
<1>1. CASE UNCHANGED vars
  BY <1>1 DEF vars
<1>2. ASSUME NEW wish \in Modes \cup {"kept"}, Run(wish)
      PROVE  TypeOK' /\ RoundExists'
  BY <1>2 DEF Run
<1>3. ASSUME NEW c \in Calls, NEW verdict \in {"yes", "no"}, Resume(c, verdict)
      PROVE  TypeOK' /\ RoundExists'
  BY <1>3 DEF Resume
<1>4. CASE Stop
  BY <1>4 DEF Stop
<1>5. ASSUME NEW m \in Modes, SetApprovalMode(m)
      PROVE  TypeOK' /\ RoundExists'
  BY <1>5 DEF SetApprovalMode
<1>6. CASE Compact
  BY <1>6 DEF Compact, Commit
<1>7. CASE AgentAnswers
  BY <1>7 DEF AgentAnswers, Commit, Dangling
<1>8. ASSUME NEW wanted \in Wanted, AgentCalls(wanted)
      PROVE  TypeOK' /\ RoundExists'
  <2>1. round' \in Rounds /\ iterations' \in Nat
    BY <1>8 DEF AgentCalls, Rounds
  <2>2. kind' \in [Calls -> Kinds \cup {"none"}]
    <3>1. wanted \in [Slots -> Kinds \cup {"none"}]
      BY OfferedAssumption DEF Wanted
    <3> QED
      BY <1>8, <3>1 DEF AgentCalls, Calls
  <2>3. next' \in {"limit", "tools"} /\ at' \in {"limit", "tools"}
    BY <1>8 DEF AgentCalls, Commit
  <2> QED
    BY <1>8, <2>1, <2>2, <2>3 DEF AgentCalls, Commit, Dangling, Rounds
<1>9. CASE Limit
  BY <1>9 DEF Limit, Commit
<1>10. ASSUME NEW refused \in SUBSET Slots, StartTools(refused)
       PROVE  TypeOK' /\ RoundExists'
  <2>1. round \in Rounds
    BY <1>10 DEF StartTools
  <2>2. decision' \in [Slots -> {"none", "yes", "no"}]
    BY <1>10 DEF StartTools, Decided
  <2>3. starts' \in [Calls -> Nat]
    BY <1>10 DEF StartTools
  <2>4. InRound(Runs(refused)) \subseteq Calls /\ Runs(refused) \subseteq Slots
    BY <2>1 DEF InRound, Runs, Calls
  <2>5. unasked' \subseteq Calls
    BY <1>10, <2>1 DEF StartTools, InRound, Runs, Calls
  <2>6. ASSUME Execute(refused) PROVE TypeOK' /\ RoundExists'
    <3>1. attempt' \in [Slots -> {"none", "unknown", "refused", "denied", "repeated", "runs"}]
      <4>1. \A s \in Slots : FirstStep(s, refused) \in FirstSteps /\ FirstStep(s, refused) # "asks"
        BY <2>6, FirstStepType DEF Execute, Asks
      <4> HIDE DEF FirstStep
      <4> QED
        BY <2>6, <4>1 DEF Execute, FirstSteps
    <3>2. counts' \in [Kinds -> Nat]
      <4>1. \A k \in Kinds : Cardinality({s \in Admitted(refused) : KindOf(s) = k}) \in Nat
        BY SlotsCount DEF Admitted
      <4> QED
        BY <2>6, <4>1 DEF Execute
    <3>3. ran' \in [Kinds -> Nat]
      <4>1. \A k \in Kinds : Cardinality({s \in Runs(refused) : KindOf(s) = k}) \in Nat
        BY SlotsCount DEF Runs
      <4> QED
        BY <2>6, <4>1 DEF Execute
    <3>4. UNCHANGED <<at, asked, orphans, buttons>>
      BY <2>6 DEF Execute
    <3> QED
      BY <1>10, <2>2, <2>3, <2>5, <3>1, <3>2, <3>3, <3>4 DEF StartTools
  <2>7. ASSUME Interrupt(refused) PROVE TypeOK' /\ RoundExists'
    <3>1. asked' \in Slots \cup {0} /\ buttons' \subseteq Calls
      BY <2>1, <2>7 DEF Interrupt, Asks, Calls
    <3>2. orphans' \subseteq Calls
      BY <2>4, <2>7 DEF Interrupt
    <3>3. at' = "none" /\ attempt' = NoAttempt /\ counts' = NoCounts /\ ran' = NoCounts
      BY <2>7 DEF Interrupt
    <3> QED
      BY <1>10, <2>2, <2>3, <2>5, <3>1, <3>2, <3>3 DEF StartTools
  <2> QED
    BY <1>10, <2>6, <2>7 DEF StartTools
<1>11. ASSUME NEW s \in Slots, ToolReturns(s)
       PROVE  TypeOK' /\ RoundExists'
  BY <1>11 DEF ToolReturns, Calls
<1>12. CASE EndTools
  <2>1. answer' \in [Calls -> {"none", "unknown", "refused", "denied", "repeated", "result", "skipped"}]
    BY <1>12 DEF EndTools, Calls
  <2> QED
    BY <1>12, <2>1 DEF EndTools, Commit
<1>13. ASSUME NEW c \in Calls, OrphanReturns(c)
       PROVE  TypeOK' /\ RoundExists'
  BY <1>13 DEF OrphanReturns
<1> QED
  BY <1>1, <1>2, <1>3, <1>4, <1>5, <1>6, <1>7, <1>8, <1>9, <1>10, <1>11, <1>12, <1>13
     DEF Next, Others, Click, Graph, GoesOn

\* So every reachable state has them.
LEMMA TypeInvariant == Spec => [](TypeOK /\ RoundExists)
  BY TypeInit, TypeStep, PTL DEF Spec

\* Every reachable state of the agent loop has the declared types.
THEOREM TypeCorrect == Spec => []TypeOK
BY TypeInvariant, PTL

-----------------------------------------------------------------------------
(* What the history says about the calls is true *)

\* A run is where the latest checkpoint is, unless set_approval_mode wrote it.
RunFollowsCheckpoint == at = "none" \/ at = next \/ next = "compact"

\* Rounds to come have left no trace.
FutureIsBlank == \A c \in Calls : c[1] > round => starts[c] = 0 /\ answer[c] = "none"

\* A round that is to be executed, again or for the first time, is unanswered.
RoundIsOpen == at = "tools" \/ next = "tools" => \A s \in Slots : answer[<<round, s>>] = "none"

\* A round that came too late has not been executed.
LateIsUnrun == at = "limit" \/ next = "limit" => \A s \in Slots : starts[<<round, s>>] = 0

\* Outcomes that wait for the round to end are true already.
AttemptsAreTrue ==
    /\ attempt # NoAttempt => at = "tools"
    /\ \A s \in Slots : attempt[s] = "result" => <<round, s>> \in finished
    /\ \A s \in Slots : attempt[s] = "denied" => starts[<<round, s>>] = 0

\* A run of the latest checkpoint's round has that checkpoint's mode.
ModesAgree == at = "tools" /\ next = "tools" => mode = runMode

(* What an earlier attempt executed in manual mode had been approved, and  *)
(* every later attempt knows it.                                           *)
ExecutedWasApproved ==
    \A s \in Slots : round > 0 /\ kind[<<round, s>>] = "sensitive" /\ starts[<<round, s>>] > 0 =>
        /\ at = "tools" /\ runMode = "manual" => decision[s] = "yes"
        /\ next = "tools" /\ mode = "manual" => decision[s] = "yes"

HistoryInv ==
    /\ RunFollowsCheckpoint
    /\ FutureIsBlank
    /\ RoundIsOpen
    /\ LateIsUnrun
    /\ AttemptsAreTrue
    /\ ModesAgree
    /\ ExecutedWasApproved
    /\ ResultsAreReal
    /\ DeniedNeverRan
    /\ SkippedNeverRan

LEMMA HistoryInvariant == Spec => []HistoryInv
<1> USE BoundsAssumption
<1>1. Init => HistoryInv
  BY DEF Init, HistoryInv, RunFollowsCheckpoint, FutureIsBlank, RoundIsOpen, LateIsUnrun, AttemptsAreTrue, ModesAgree,
         ExecutedWasApproved, ResultsAreReal, DeniedNeverRan, SkippedNeverRan, NoAttempt, Slots
<1>2. TypeOK /\ RoundExists /\ HistoryInv /\ [Next]_vars => HistoryInv'
  <2> SUFFICES ASSUME TypeOK, RoundExists, HistoryInv, [Next]_vars PROVE HistoryInv'
    OBVIOUS
  <2> USE DEF TypeOK, RoundExists, historyVars, threadVars, runVars, effectVars, clickVars, userVars,
              NewCheckpoint, FreshRun, NoAttempt, NoDecision, NoCounts, Nodes, Modes, Calls, Rounds,
              HistoryInv, RunFollowsCheckpoint, FutureIsBlank, RoundIsOpen, LateIsUnrun, AttemptsAreTrue, ModesAgree,
              ExecutedWasApproved, ResultsAreReal, DeniedNeverRan, SkippedNeverRan
  <2>1. CASE UNCHANGED vars
    BY <2>1 DEF vars
  <2>2. ASSUME NEW wish \in Modes \cup {"kept"}, Run(wish)
        PROVE  HistoryInv'
    BY <2>2 DEF Run
  <2>3. ASSUME NEW c \in Calls, NEW verdict \in {"yes", "no"}, Resume(c, verdict)
        PROVE  HistoryInv'
    BY <2>3 DEF Resume
  <2>4. CASE Stop
    BY <2>4 DEF Stop
  <2>5. ASSUME NEW m \in Modes, SetApprovalMode(m)
        PROVE  HistoryInv'
    BY <2>5 DEF SetApprovalMode
  <2>6. CASE Compact
    BY <2>6 DEF Compact, Commit
  <2>7. CASE AgentAnswers
    BY <2>7 DEF AgentAnswers, Commit
  <2>8. ASSUME NEW wanted \in Wanted, AgentCalls(wanted)
        PROVE  HistoryInv'
    <3>1. round' = round + 1 /\ round' \in Rounds
      BY <2>8 DEF AgentCalls
    <3>2. \A s \in Slots : starts[<<round', s>>] = 0 /\ answer[<<round', s>>] = "none"
      BY <3>1
    <3>3. UNCHANGED <<answer, starts, finished>> /\ attempt' = NoAttempt /\ mode' = runMode'
      BY <2>8 DEF AgentCalls, Commit
    <3>4. at' = next' /\ at' # "none"
      BY <2>8 DEF AgentCalls, Commit
    <3> QED
      BY <3>1, <3>2, <3>3, <3>4
  <2>9. CASE Limit
    <3>1. at' = "none" /\ next' = "end" /\ attempt' = NoAttempt
      BY <2>9 DEF Limit, Commit
    <3>2. UNCHANGED <<round, kind, starts, finished>>
      BY <2>9 DEF Limit
    <3>3. \A c \in Calls : c[1] = round => starts[c] = 0
      BY <2>9 DEF Limit
    <3>4. \A c \in Calls : answer'[c] = "skipped" => answer[c] = "skipped" \/ c[1] = round
      BY <2>9 DEF Limit
    <3>5. \A c \in Calls : answer'[c] # "skipped" => answer'[c] = answer[c]
      BY <2>9 DEF Limit
    <3>6. \A c \in Calls : c[1] > round => answer'[c] = answer[c]
      BY <2>9 DEF Limit
    <3> QED
      BY <3>1, <3>2, <3>3, <3>4, <3>5, <3>6
  <2>10. ASSUME NEW refused \in SUBSET Slots, StartTools(refused)
         PROVE  HistoryInv'
    <3>1. /\ at = "tools" /\ round \in Rounds
          /\ UNCHANGED <<next, mode, runMode, round, kind, answer, finished>>
      BY <2>10 DEF StartTools
    <3>2. \A s \in Slots : decision[s] = "yes" => decision'[s] = "yes"
      BY <2>10 DEF StartTools, Decided, Waits
    <3>3. \A c \in Calls : c[1] # round => starts'[c] = starts[c]
      BY <2>10 DEF StartTools, InRound
    <3>4. \A s \in Slots : starts'[<<round, s>>] # starts[<<round, s>>] => FirstStep(s, refused) = "runs"
      BY <2>10, <3>1 DEF StartTools, InRound, Runs
    <3>5. \A s \in Slots : /\ FirstStep(s, refused) = "runs"
                            /\ runMode = "manual"
                            /\ kind[<<round, s>>] = "sensitive"
                            => decision'[s] = "yes"
      <4>1. \A s \in Slots : Decided[s] \in {"none", "yes", "no"} /\ decision'[s] = Decided[s]
        BY <2>10 DEF StartTools, Decided
      <4> QED
        BY <3>1, <4>1 DEF FirstStep, MustAsk, Denied, AsksFirst, KindOf
    <3>6. FutureIsBlank'
      BY <3>1, <3>3
    <3>7. RoundIsOpen'
      BY <3>1
    <3>8. LateIsUnrun'
      <4>1. next # "limit"
        BY <3>1
      <4>2. at' \in {"none", "tools"}
        BY <3>1, <2>10 DEF StartTools, Execute, Interrupt
      <4> QED
        BY <3>1, <4>1, <4>2
    <3>9. ModesAgree'
      BY <3>1, <2>10 DEF StartTools, Execute, Interrupt
    <3>10. ExecutedWasApproved'
      BY <3>1, <3>2, <3>4, <3>5
    <3>11. AttemptsAreTrue'
      <4>1. CASE Interrupt(refused)
        BY <4>1 DEF Interrupt
      <4>2. CASE Execute(refused)
        <5>1. at' = "tools" /\ attempt' = [s \in Slots |-> FirstStep(s, refused)]
          BY <3>1, <4>2 DEF Execute
        <5>2. \A s \in Slots : attempt'[s] # "result"
          BY <5>1, FirstStepType DEF FirstSteps
        <5>3. ASSUME NEW s \in Slots, attempt'[s] = "denied" PROVE starts'[<<round, s>>] = 0
          <6>1. FirstStep(s, refused) = "denied"
            BY <5>1, <5>3
          <6>2. runMode = "manual" /\ kind[<<round, s>>] = "sensitive" /\ Decided[s] = "no"
            BY <6>1, FirstStepType DEF FirstStep, FirstSteps, Denied, AsksFirst, KindOf
          <6>3. decision[s] # "yes"
            BY <6>2 DEF Decided, Waits
          <6>4. starts[<<round, s>>] = 0
            BY <3>1, <6>2, <6>3
          <6> QED
            BY <3>4, <6>1, <6>4
        <5> QED
          BY <3>1, <5>1, <5>2, <5>3
      <4> QED
        BY <2>10, <4>1, <4>2 DEF StartTools
    <3>13. RunFollowsCheckpoint'
      BY <3>1, <2>10 DEF StartTools, Execute, Interrupt
    <3>12. ResultsAreReal' /\ DeniedNeverRan' /\ SkippedNeverRan'
      BY <3>1, <3>3
    <3> QED
      BY <3>6, <3>7, <3>8, <3>9, <3>10, <3>11, <3>12, <3>13
  <2>11. ASSUME NEW s \in Slots, ToolReturns(s)
         PROVE  HistoryInv'
    BY <2>11 DEF ToolReturns
  <2>12. CASE EndTools
    BY <2>12 DEF EndTools, Commit
  <2>13. ASSUME NEW c \in Calls, OrphanReturns(c)
         PROVE  HistoryInv'
    BY <2>13 DEF OrphanReturns
  <2> QED
    BY <2>1, <2>2, <2>3, <2>4, <2>5, <2>6, <2>7, <2>8, <2>9, <2>10, <2>11, <2>12, <2>13
       DEF Next, Others, Click, Graph, GoesOn
<1> QED
  BY <1>1, <1>2, TypeInvariant, PTL DEF Spec

(* What the history says of a call is true in every interleaving: a result *)
(* comes from an execution that returned, whatever was cancelled,          *)
(* interrupted or executed again in between; a call the user denied was    *)
(* executed in no attempt at its round; a call limit_node answers never.   *)
THEOREM AnswersAreTrue == Spec => []AnswersTruthful
<1>1. HistoryInv => AnswersTruthful
  BY DEF HistoryInv, AnswersTruthful
<1> QED
  BY <1>1, HistoryInvariant, PTL

-----------------------------------------------------------------------------
(* The model is asked a bounded number of times per message *)

\* There is one iteration left wherever the graph may still ask the model, one
\* more for every change of the mode that sent the thread to the top.
OneLeft ==
    /\ ModelCallsBounded
    /\ at \in {"compact", "agent", "tools"} \/ next \in {"compact", "agent", "tools"} =>
         iterations < MaxIterations + modeSets

\* iterations is stored with the thread, and yet no resume, cancellation or mode
\* change lets a message ask the model oftener than the limit and these changes.
THEOREM ModelCallsAreBounded ==
    ASSUME MaxIterations > 0
    PROVE  Spec => []ModelCallsBounded
<1> USE LimitsAssumption DEF OneLeft, ModelCallsBounded
<1>1. Init => OneLeft
  BY DEF Init
<1>2. TypeOK /\ OneLeft /\ [Next]_vars => OneLeft'
  <2> SUFFICES ASSUME TypeOK, OneLeft, [Next]_vars PROVE OneLeft'
    OBVIOUS
  <2> USE DEF TypeOK, threadVars, historyVars, runVars, userVars, clickVars
  <2>1. CASE UNCHANGED vars
    BY <2>1 DEF vars
  <2>2. ASSUME NEW wish \in Modes \cup {"kept"}, Run(wish) PROVE OneLeft'
    BY <2>2 DEF Run
  <2>3. ASSUME NEW c \in Calls, NEW verdict \in {"yes", "no"}, Resume(c, verdict)
        PROVE  OneLeft'
    BY <2>3 DEF Resume
  <2>4. CASE Stop
    BY <2>4 DEF Stop
  <2>5. ASSUME NEW m \in Modes, SetApprovalMode(m) PROVE OneLeft'
    BY <2>5 DEF SetApprovalMode
  <2>6. CASE Compact
    BY <2>6 DEF Compact, Commit
  <2>7. CASE AgentAnswers
    BY <2>7 DEF AgentAnswers, Commit
  <2>8. ASSUME NEW wanted \in Wanted, AgentCalls(wanted) PROVE OneLeft'
    <3>1. iterations' = iterations + 1 /\ modeSets' = modeSets /\ at = "agent"
      BY <2>8 DEF AgentCalls
    <3>2. /\ at' = next' /\ next' \in {"limit", "tools"}
          /\ next' = "tools" => iterations + 1 < MaxIterations
      BY <2>8 DEF AgentCalls, Commit, OverLimit
    <3> QED
      BY <3>1, <3>2
  <2>9. CASE Limit
    BY <2>9 DEF Limit, Commit
  <2>10. ASSUME NEW refused \in SUBSET Slots, StartTools(refused) PROVE OneLeft'
    BY <2>10 DEF StartTools, Execute, Interrupt
  <2>11. ASSUME NEW s \in Slots, ToolReturns(s) PROVE OneLeft'
    BY <2>11 DEF ToolReturns
  <2>12. CASE EndTools
    BY <2>12 DEF EndTools, Commit
  <2>13. ASSUME NEW c \in Calls, OrphanReturns(c) PROVE OneLeft'
    BY <2>13 DEF OrphanReturns
  <2> QED
    BY <2>1, <2>2, <2>3, <2>4, <2>5, <2>6, <2>7, <2>8, <2>9, <2>10, <2>11, <2>12, <2>13
       DEF Next, Others, Click, Graph, GoesOn
<1>3. OneLeft => ModelCallsBounded
  OBVIOUS
<1> QED
  BY <1>1, <1>2, <1>3, TypeCorrect, PTL DEF Spec

-----------------------------------------------------------------------------
(* Every sensitive execution in manual mode has been paid for *)

LEMMA CallsFinite == IsFiniteSet(Calls)
<1>1. IsFiniteSet(1..MaxRounds) /\ IsFiniteSet(1..MaxCalls)
  BY BoundsAssumption, FS_Interval
<1> QED
  BY <1>1, FS_Product DEF Calls, Rounds, Slots

\* A set of calls has a size, which one more call raises by one at most.
LEMMA CallsCount ==
    ASSUME NEW S \in SUBSET Calls
    PROVE  /\ Cardinality(S) \in Nat
           /\ \A T \in SUBSET S : Cardinality(T) <= Cardinality(S)
           /\ \A c \in Calls : Cardinality(S \cup {c}) <= Cardinality(S) + 1
<1>1. IsFiniteSet(S)
  BY CallsFinite, FS_Subset
<1>2. Cardinality(S) \in Nat
  BY <1>1, FS_CardinalityType
<1>3. \A T \in SUBSET S : Cardinality(T) <= Cardinality(S)
  BY <1>1, FS_Subset
<1>4. ASSUME NEW c \in Calls PROVE Cardinality(S \cup {c}) <= Cardinality(S) + 1
  <2> DEFINE size == Cardinality(S)
             after == Cardinality(S \cup {c})
  <2>1. after = size \/ after = size + 1
    BY <1>1, FS_AddElement
  <2>2. size \in Nat
    BY <1>2
  <2> HIDE DEF size, after
  <2>3. after <= size + 1
    BY <2>1, <2>2
  <2> QED
    BY <2>3 DEF size, after
<1> QED
  BY <1>2, <1>3, <1>4

\* What approvals were spent on: calls executed, and calls of the round approved.
Executed == {c \in Calls : kind[c] = "sensitive" /\ starts[c] > 0 /\ c \notin unasked}
Cleared == {c \in Calls : c[1] = round /\ decision[c[2]] = "yes"}
Spent == Executed \cup Cleared

\* The approval no call has taken yet.
Unspent == IF given = "yes" THEN 1 ELSE 0

Solvent == Cardinality(Spent) + Unspent <= granted

\* A step that spends nothing keeps the account.
LEMMA NothingSpent ==
    ASSUME TypeOK, Solvent, granted' \in Nat, Spent' \subseteq Spent,
           Unspent' + granted <= Unspent + granted'
    PROVE  Solvent'
<1>1. Spent \in SUBSET Calls
  BY DEF Spent, Executed, Cleared
<1>2. Cardinality(Spent) \in Nat /\ Cardinality(Spent') \in Nat /\ Cardinality(Spent') <= Cardinality(Spent)
  BY <1>1, CallsCount
<1>3. Unspent \in Nat /\ Unspent' \in Nat /\ granted \in Nat
  BY DEF Unspent, TypeOK
<1> DEFINE size == Cardinality(Spent)
           after == Cardinality(Spent')
           credit == Unspent
           credited == Unspent'
<1>4. size \in Nat /\ after \in Nat /\ after <= size
  BY <1>2
<1>5. credit \in Nat /\ credited \in Nat /\ credited + granted <= credit + granted'
  BY <1>3
<1>6. size + credit <= granted
  BY DEF Solvent
<1> HIDE DEF size, after, credit, credited
<1>7. after + credited <= granted'
  <2> DEFINE before == granted
             later == granted'
  <2>1. before \in Nat /\ later \in Nat /\ size + credit <= before /\ credited + before <= credit + later
    BY <1>3, <1>5, <1>6
  <2> HIDE DEF before, later
  <2>2. after + credited <= later
    BY <1>4, <1>5, <2>1
  <2> QED
    BY <2>2 DEF later
<1> QED
  BY <1>7 DEF Solvent, after, credited

LEMMA SolventInvariant == Spec => []Solvent
<1>1. Init => Solvent
  <2> SUFFICES ASSUME Init PROVE Solvent
    OBVIOUS
  <2>1. Spent = {}
    BY DEF Init, Spent, Executed, Cleared, NoDecision, Calls
  <2>2. Unspent = 0 /\ granted = 0 /\ Cardinality({}) = 0
    BY FS_EmptySet DEF Init, Unspent
  <2> QED
    BY <2>1, <2>2 DEF Solvent
<1>2. TypeOK /\ RoundExists /\ HistoryInv /\ Solvent /\ [Next]_vars => Solvent'
  <2> SUFFICES ASSUME TypeOK, RoundExists, HistoryInv, Solvent, [Next]_vars PROVE Solvent'
    OBVIOUS
  <2>0. FutureIsBlank /\ granted \in Nat /\ given \in {"none", "yes", "no"}
    BY DEF HistoryInv, TypeOK
  <2> USE DEF historyVars, threadVars, runVars, effectVars, clickVars, userVars, NewCheckpoint, NoDecision
  <2>1. CASE UNCHANGED vars
    <3>1. granted' \in Nat /\ Unspent' + granted <= Unspent + granted'
      BY <2>0, <2>1 DEF vars, Unspent
    <3>2. Spent' \subseteq Spent
      BY <2>0, <2>1 DEF vars, Spent, Executed, Cleared
    <3> QED
      BY <3>1, <3>2, NothingSpent
  <2>2. ASSUME NEW wish \in Modes \cup {"kept"}, Run(wish)
        PROVE  Solvent'
    <3>1. granted' \in Nat /\ Unspent' + granted <= Unspent + granted'
      BY <2>0, <2>2 DEF Run, Unspent
    <3>2. Spent' \subseteq Spent
      BY <2>0, <2>2 DEF Run, Calls, Spent, Executed, Cleared
    <3> QED
      BY <3>1, <3>2, NothingSpent
  <2>3. ASSUME NEW c \in Calls, NEW verdict \in {"yes", "no"}, Resume(c, verdict)
        PROVE  Solvent'
    <3>1. granted' \in Nat /\ Unspent' + granted <= Unspent + granted'
      BY <2>0, <2>3 DEF Resume, Unspent
    <3>2. Spent' \subseteq Spent
      BY <2>0, <2>3 DEF Resume, Spent, Executed, Cleared
    <3> QED
      BY <3>1, <3>2, NothingSpent
  <2>4. CASE Stop
    <3>1. granted' \in Nat /\ Unspent' + granted <= Unspent + granted'
      BY <2>0, <2>4 DEF Stop, Unspent
    <3>2. Spent' \subseteq Spent
      BY <2>0, <2>4 DEF Stop, Spent, Executed, Cleared
    <3> QED
      BY <3>1, <3>2, NothingSpent
  <2>5. ASSUME NEW m \in Modes, SetApprovalMode(m)
        PROVE  Solvent'
    <3>1. granted' \in Nat /\ Unspent' + granted <= Unspent + granted'
      BY <2>0, <2>5 DEF SetApprovalMode, Unspent
    <3>2. Spent' \subseteq Spent
      BY <2>0, <2>5 DEF SetApprovalMode, Spent, Executed, Cleared
    <3> QED
      BY <3>1, <3>2, NothingSpent
  <2>6. CASE Compact
    <3>1. granted' \in Nat /\ Unspent' + granted <= Unspent + granted'
      BY <2>0, <2>6 DEF Compact, Commit, Unspent
    <3>2. Spent' \subseteq Spent
      BY <2>0, <2>6 DEF Compact, Commit, Calls, Spent, Executed, Cleared
    <3> QED
      BY <3>1, <3>2, NothingSpent
  <2>7. CASE AgentAnswers
    <3>1. granted' \in Nat /\ Unspent' + granted <= Unspent + granted'
      BY <2>0, <2>7 DEF AgentAnswers, Commit, Unspent
    <3>2. Spent' \subseteq Spent
      BY <2>0, <2>7 DEF AgentAnswers, Commit, Calls, Spent, Executed, Cleared
    <3> QED
      BY <3>1, <3>2, NothingSpent
  <2>8. ASSUME NEW wanted \in Wanted, AgentCalls(wanted)
        PROVE  Solvent'
    <3>1. granted' \in Nat /\ Unspent' + granted <= Unspent + granted'
      BY <2>0, <2>8 DEF AgentCalls, Commit, Unspent
    <3>2. Spent' \subseteq Spent
      BY <2>0, <2>8 DEF AgentCalls, Commit, FutureIsBlank, Calls, Rounds, TypeOK, Spent, Executed, Cleared
    <3> QED
      BY <3>1, <3>2, NothingSpent
  <2>9. CASE Limit
    <3>1. granted' \in Nat /\ Unspent' + granted <= Unspent + granted'
      BY <2>0, <2>9 DEF Limit, Commit, Unspent
    <3>2. Spent' \subseteq Spent
      BY <2>0, <2>9 DEF Limit, Commit, Calls, Spent, Executed, Cleared
    <3> QED
      BY <3>1, <3>2, NothingSpent
  <2>10. ASSUME NEW refused \in SUBSET Slots, StartTools(refused)
         PROVE  Solvent'
    <3>1. /\ at = "tools" /\ round \in Rounds
          /\ UNCHANGED <<round, kind, granted>>
          /\ given' = "none" /\ decision' = Decided
          /\ unasked \subseteq unasked'
      BY <2>10 DEF StartTools, RoundExists
    <3>2. \A s \in Slots : FirstStep(s, refused) = "runs" /\ AsksFirst(s) => Decided[s] = "yes"
      <4>1. \A s \in Slots : Decided[s] \in {"none", "yes", "no"}
        BY <2>0 DEF Decided, TypeOK
      <4> QED
        BY <4>1, <3>1 DEF FirstStep, MustAsk, Denied, AsksFirst, KindOf
    <3>3. Executed' \subseteq Executed \cup Cleared'
      <4> SUFFICES ASSUME NEW c \in Calls, c \in Executed', c \notin Executed
                   PROVE  c \in Cleared'
        BY DEF Executed
      <4>1. kind[c] = "sensitive" /\ c \notin unasked' /\ starts'[c] # starts[c]
        BY <3>1 DEF Executed
      <4>2. PICK s \in Slots : c = <<round, s>> /\ FirstStep(s, refused) = "runs"
        BY <2>10, <4>1 DEF StartTools, InRound, Runs, TypeOK
      <4>3. KindOf(s) = "sensitive"
        BY <4>1, <4>2 DEF KindOf
      <4>4. runMode = "manual"
        <5>1. runMode \in {"manual", "auto"}
          BY DEF TypeOK, Modes
        <5>2. ASSUME runMode = "auto" PROVE FALSE
          <6>1. unasked' = unasked \cup InRound({t \in Runs(refused) : KindOf(t) = "sensitive"})
            BY <2>10, <5>2 DEF StartTools
          <6>2. s \in {t \in Runs(refused) : KindOf(t) = "sensitive"}
            BY <4>2, <4>3 DEF Runs
          <6> QED
            BY <4>1, <4>2, <6>1, <6>2 DEF InRound
        <5> QED
          BY <5>1, <5>2
      <4>5. decision'[s] = "yes"
        BY <3>1, <3>2, <4>2, <4>3, <4>4 DEF AsksFirst
      <4> QED
        BY <3>1, <4>2, <4>5 DEF Cleared
    <3>4. ASSUME given # "yes" PROVE Cleared' \subseteq Cleared
      BY <3>1, <3>4 DEF Cleared, Decided, Calls
    <3>5. ASSUME given = "yes"
          PROVE  Cleared' \subseteq Cleared \/ \E x \in Calls : Cleared' \subseteq Cleared \cup {x}
      <4> DEFINE Taker(s) == Waits(s) /\ \A t \in 1..s - 1 : ~Waits(t)
      <4>1. CASE \E s \in Slots : Taker(s)
        <5>1. PICK s \in Slots : Taker(s)
          BY <4>1
        <5>2. \A t \in Slots : Taker(t) => t = s
          BY <5>1 DEF Slots
        <5>3. \A t \in Slots : t # s => Decided[t] = decision[t]
          BY <5>2 DEF Decided
        <5>4. <<round, s>> \in Calls
          BY <3>1 DEF Calls
        <5>5. Cleared' \subseteq Cleared \cup {<<round, s>>}
          BY <3>1, <5>3 DEF Cleared, Calls
        <5> QED
          BY <5>4, <5>5
      <4>2. CASE ~\E s \in Slots : Taker(s)
        <5>1. \A t \in Slots : Decided[t] = decision[t]
          BY <4>2 DEF Decided
        <5>2. Cleared' \subseteq Cleared
          BY <3>1, <5>1 DEF Cleared, Calls
        <5> QED
          BY <5>2
      <4> QED
        BY <4>1, <4>2
    <3>6. CASE Cleared' \subseteq Cleared
      <4>1. Spent' \subseteq Spent
        BY <3>3, <3>6 DEF Spent
      <4>2. granted' \in Nat /\ Unspent' + granted <= Unspent + granted'
        BY <2>0, <3>1 DEF Unspent
      <4> QED
        BY <4>1, <4>2, NothingSpent
    <3>7. CASE given = "yes" /\ \E x \in Calls : Cleared' \subseteq Cleared \cup {x}
      <4>1. PICK x \in Calls : Cleared' \subseteq Cleared \cup {x}
        BY <3>7
      <4> DEFINE size == Cardinality(Spent)
                 more == Cardinality(Spent \cup {x})
                 after == Cardinality(Spent')
      <4>2. Spent \subseteq Calls /\ Spent \cup {x} \subseteq Calls /\ Spent' \subseteq Spent \cup {x}
        BY <3>3, <4>1 DEF Spent, Executed, Cleared
      <4>3. size \in Nat /\ more \in Nat /\ after \in Nat /\ more <= size + 1 /\ after <= more
        BY <4>2, CallsCount
      <4>4. size + 1 <= granted
        BY <3>7 DEF Solvent, Unspent
      <4>5. Unspent' = 0 /\ granted' = granted
        BY <3>1 DEF Unspent
      <4> HIDE DEF size, more, after
      <4>6. after + 0 <= granted
        BY <2>0, <4>3, <4>4
      <4> QED
        BY <4>5, <4>6 DEF Solvent, after
    <3> QED
      BY <3>4, <3>5, <3>6, <3>7
  <2>11. ASSUME NEW s \in Slots, ToolReturns(s)
        PROVE  Solvent'
    <3>1. granted' \in Nat /\ Unspent' + granted <= Unspent + granted'
      BY <2>0, <2>11 DEF ToolReturns, Unspent
    <3>2. Spent' \subseteq Spent
      BY <2>0, <2>11 DEF ToolReturns, Spent, Executed, Cleared
    <3> QED
      BY <3>1, <3>2, NothingSpent
  <2>12. CASE EndTools
    <3>1. granted' \in Nat /\ Unspent' + granted <= Unspent + granted'
      BY <2>0, <2>12 DEF EndTools, Commit, Unspent
    <3>2. Spent' \subseteq Spent
      BY <2>0, <2>12 DEF EndTools, Commit, Calls, Spent, Executed, Cleared
    <3> QED
      BY <3>1, <3>2, NothingSpent
  <2>13. ASSUME NEW c \in Calls, OrphanReturns(c)
        PROVE  Solvent'
    <3>1. granted' \in Nat /\ Unspent' + granted <= Unspent + granted'
      BY <2>0, <2>13 DEF OrphanReturns, Unspent
    <3>2. Spent' \subseteq Spent
      BY <2>0, <2>13 DEF OrphanReturns, Spent, Executed, Cleared
    <3> QED
      BY <3>1, <3>2, NothingSpent
  <2> QED
    BY <2>1, <2>2, <2>3, <2>4, <2>5, <2>6, <2>7, <2>8, <2>9, <2>10, <2>11, <2>12, <2>13
       DEF Next, Others, Click, Graph, GoesOn
<1> QED
  BY <1>1, <1>2, TypeInvariant, HistoryInvariant, PTL DEF Spec

(* In manual mode, no sensitive call executes without an approval that no  *)
(* other call was executed for.                                            *)
THEOREM ExecutionsArePaid == Spec => []NoFreeExecution
<1>1. TypeOK /\ Solvent => NoFreeExecution
  <2> SUFFICES ASSUME TypeOK, Solvent PROVE NoFreeExecution
    OBVIOUS
  <2> DEFINE Free == {c \in Calls : kind[c] = "sensitive" /\ starts[c] > 0} \ unasked
             free == Cardinality(Free)
             spent == Cardinality(Spent)
  <2>1. Free \subseteq Spent /\ Spent \subseteq Calls
    BY DEF Spent, Executed, Cleared
  <2>2. free \in Nat /\ spent \in Nat /\ free <= spent
    BY <2>1, CallsCount
  <2>3. Unspent \in Nat /\ granted \in Nat /\ spent + Unspent <= granted
    BY DEF TypeOK, Solvent, Unspent
  <2> HIDE DEF free, spent, Unspent
  <2>4. free <= granted
    BY <2>2, <2>3
  <2> QED
    BY <2>4 DEF NoFreeExecution, free
<1> QED
  BY <1>1, TypeInvariant, SolventInvariant, PTL

-----------------------------------------------------------------------------
(* A run executes the same call a bounded number of times *)

\* A set of slots that is not empty has a last one.
LEMMA LastSlot ==
    ASSUME NEW S \in SUBSET Slots, S # {}
    PROVE  \E s \in S : \A t \in S : t <= s
<1> DEFINE After(s) == {t \in S : t > s}
           Afters == {After(s) : s \in S}
<1>1. IsFiniteSet(S)
  <2>1. IsFiniteSet(1..MaxCalls)
    BY BoundsAssumption, FS_Interval
  <2> QED
    BY <2>1, FS_Subset DEF Slots
<1>2. IsWellFoundedOn(StrictSubsetOrdering(S), SUBSET S)
  BY <1>1, FS_StrictSubsetOrderingWellFounded, FS_FiniteSubsetsOfFinite
<1>3. PICK A \in Afters : \A B \in Afters : <<B, A>> \notin StrictSubsetOrdering(S)
  <2>1. Afters \subseteq SUBSET S /\ Afters # {}
    OBVIOUS
  <2> HIDE DEF Afters
  <2> QED
    BY <1>2, <2>1, WFMin
<1>4. PICK s \in S : A = After(s)
  BY <1>3
<1>5. ASSUME NEW t \in S, ~(t <= s) PROVE FALSE
  <2>1. t \in Nat /\ s \in Nat /\ t > s
    BY <1>5, BoundsAssumption DEF Slots
  <2>2. After(t) \subseteq After(s) /\ t \in After(s) /\ t \notin After(t)
    <3>1. \A u \in S : u \in Nat
      BY BoundsAssumption DEF Slots
    <3>2. \A u \in S : u > t => u > s
      BY <2>1, <3>1
    <3>3. t > s /\ ~(t > t)
      BY <2>1
    <3> QED
      BY <3>2, <3>3
  <2>3. <<After(t), After(s)>> \in StrictSubsetOrdering(S)
    BY <2>2 DEF StrictSubsetOrdering
  <2> QED
    BY <1>3, <1>4, <2>3
<1> QED
  BY <1>5

\* Of two sets of slots, the smaller one does not have more.
LEMMA FewerSlots ==
    ASSUME NEW S \in SUBSET Slots, NEW T \in SUBSET S
    PROVE  /\ Cardinality(S) \in Nat /\ Cardinality(T) \in Nat
           /\ Cardinality(T) <= Cardinality(S)
<1>1. IsFiniteSet(1..MaxCalls)
  BY BoundsAssumption, FS_Interval
<1> QED
  BY <1>1, FS_Subset, FS_CardinalityType DEF Slots

\* What a run has executed has been counted, and no kind beyond the limit.
CountedRuns ==
    /\ \A k \in Kinds : ran[k] <= counts[k]
    /\ RepeatsBounded

(* A round counts all its admitted calls before any of them executes, so   *)
(* the last one that executes has seen the others' counts.                 *)
LEMMA RoundWithinLimit ==
    ASSUME TypeOK, CountedRuns, NEW refused \in SUBSET Slots, Execute(refused)
    PROVE  CountedRuns'
<1> SUFFICES ASSUME NEW k \in Kinds
             PROVE  /\ ran'[k] <= counts'[k]
                    /\ RepeatLimit > 0 => ran'[k] <= RepeatLimit
  BY DEF CountedRuns, RepeatsBounded
<1> DEFINE Here == {s \in Runs(refused) : KindOf(s) = k}
           There == {s \in Admitted(refused) : KindOf(s) = k}
           here == Cardinality(Here)
           there == Cardinality(There)
<1>1. Here \subseteq There /\ There \subseteq Slots
  BY DEF Runs, FirstStep, Admitted
<1>2. here \in Nat /\ there \in Nat /\ here <= there
  BY <1>1, FewerSlots
<1>3. /\ ran[k] \in Nat /\ counts[k] \in Nat /\ ran[k] <= counts[k]
      /\ RepeatLimit > 0 => ran[k] <= RepeatLimit
  BY DEF TypeOK, CountedRuns, RepeatsBounded
<1>4. ran'[k] = ran[k] + here /\ counts'[k] = counts[k] + there
  BY DEF Execute
<1>5. ASSUME RepeatLimit > 0, Here # {} PROVE counts[k] + here <= RepeatLimit
  <2>1. PICK s \in Here : \A t \in Here : t <= s
    BY <1>1, <1>5, LastSlot
  <2> DEFINE Before == {t \in Admitted(refused) : t <= s /\ KindOf(t) = k}
             before == Cardinality(Before)
  <2>2. Here \subseteq Before /\ Before \subseteq Slots
    BY <1>1, <2>1
  <2>3. here <= before /\ before \in Nat
    BY <2>2, FewerSlots
  <2>4. ~Repeated(s, refused) /\ KindOf(s) = k
    BY <2>1 DEF Runs, FirstStep
  <2>5. Occurrence(s, refused) = counts[k] + before
    BY <2>4 DEF Occurrence
  <2>6. ~(counts[k] + before > RepeatLimit)
    BY <1>5, <2>4, <2>5 DEF Repeated
  <2> HIDE DEF here, before
  <2> QED
    BY <1>2, <1>3, <2>3, <2>6, LimitsAssumption
<1>6. Here = {} => here = 0
  BY FS_EmptySet
<1> HIDE DEF here, there, Here
<1> QED
  BY <1>2, <1>3, <1>4, <1>5, <1>6, LimitsAssumption

(* One run executes the same call at most RepeatLimit times, the calls of  *)
(* one round, which run at once, and those of earlier rounds included.     *)
THEOREM RepeatsAreBounded == Spec => []RepeatsBounded
<1> USE LimitsAssumption
<1>1. Init => CountedRuns
  BY DEF Init, CountedRuns, RepeatsBounded, NoCounts
<1>2. TypeOK /\ CountedRuns /\ [Next]_vars => CountedRuns'
  <2> SUFFICES ASSUME TypeOK, CountedRuns, [Next]_vars PROVE CountedRuns'
    OBVIOUS
  <2>0. ran' = NoCounts /\ counts' = NoCounts => CountedRuns'
    BY DEF CountedRuns, RepeatsBounded, NoCounts
  <2>1. UNCHANGED <<ran, counts>> => CountedRuns'
    BY DEF CountedRuns, RepeatsBounded
  <2>2. CASE UNCHANGED vars
    BY <2>1, <2>2 DEF vars, runVars
  <2>3. ASSUME NEW wish \in Modes \cup {"kept"}, Run(wish) PROVE CountedRuns'
    BY <2>0, <2>3 DEF Run, FreshRun
  <2>4. ASSUME NEW c \in Calls, NEW verdict \in {"yes", "no"}, Resume(c, verdict)
        PROVE  CountedRuns'
    BY <2>0, <2>4 DEF Resume, FreshRun
  <2>5. CASE Stop
    BY <2>0, <2>5 DEF Stop, FreshRun
  <2>6. ASSUME NEW m \in Modes, SetApprovalMode(m) PROVE CountedRuns'
    BY <2>1, <2>6 DEF SetApprovalMode, runVars
  <2>7. CASE Compact
    BY <2>1, <2>7 DEF Compact
  <2>8. CASE AgentAnswers
    BY <2>1, <2>8 DEF AgentAnswers
  <2>9. ASSUME NEW wanted \in Wanted, AgentCalls(wanted) PROVE CountedRuns'
    BY <2>1, <2>9 DEF AgentCalls
  <2>10. CASE Limit
    BY <2>1, <2>10 DEF Limit
  <2>11. ASSUME NEW refused \in SUBSET Slots, StartTools(refused) PROVE CountedRuns'
    <3>1. CASE Execute(refused)
      BY <3>1, RoundWithinLimit
    <3>2. CASE Interrupt(refused)
      BY <2>0, <3>2 DEF Interrupt, FreshRun
    <3> QED
      BY <2>11, <3>1, <3>2 DEF StartTools
  <2>12. ASSUME NEW s \in Slots, ToolReturns(s) PROVE CountedRuns'
    BY <2>1, <2>12 DEF ToolReturns
  <2>13. CASE EndTools
    BY <2>1, <2>13 DEF EndTools
  <2>14. ASSUME NEW c \in Calls, OrphanReturns(c) PROVE CountedRuns'
    BY <2>1, <2>14 DEF OrphanReturns, runVars
  <2> QED
    BY <2>2, <2>3, <2>4, <2>5, <2>6, <2>7, <2>8, <2>9, <2>10, <2>11, <2>12, <2>13, <2>14
       DEF Next, Others, Click, Graph, GoesOn
<1>3. CountedRuns => RepeatsBounded
  BY DEF CountedRuns
<1> QED
  BY <1>1, <1>2, <1>3, TypeCorrect, PTL DEF Spec

-----------------------------------------------------------------------------
(* A careful user's approvals go where they were given *)

\* What a careful user may do is what any user may do.
LEMMA CarefulStep == TypeOK /\ [Others \/ ClickAsked]_vars => [Next]_vars
<1> SUFFICES ASSUME TypeOK, ClickAsked PROVE \E c \in Calls : Click(c)
  BY DEF Next
<1>1. <<round, asked>> \in Calls
  BY DEF ClickAsked, Click, Resume, TypeOK
<1> QED
  BY <1>1 DEF ClickAsked

(* Under CarefulSpec the thread only does what Spec allows: what is proved *)
(* of every user holds of the careful one.                                 *)
THEOREM CarefulIsAllowed == CarefulSpec => Spec /\ []TypeOK
<1> DEFINE Inv == TypeOK /\ RoundExists
<1>1. Init => Inv
  BY TypeInit
<1>2. Inv /\ [Others \/ ClickAsked]_vars => Inv' /\ [Next]_vars
  BY TypeStep, CarefulStep
<1> QED
  BY <1>1, <1>2, PTL DEF CarefulSpec, Spec

\* The call of the round that the resume value goes to.
FirstUndecided(s) ==
    /\ kind[<<round, s>>] = "sensitive" /\ decision[s] = "none"
    /\ \A t \in 1..s - 1 : kind[<<round, t>>] = "sensitive" => decision[t] # "none"

\* The user is asked about that call, and each yes is for the call it goes to.
Owned ==
    /\ asked # 0 => at = "none" /\ FirstUndecided(asked)
    /\ given = "yes" => \E s \in Slots : FirstUndecided(s) /\ <<round, s>> \in approved
    /\ \A s \in Slots : decision[s] = "yes" => <<round, s>> \in approved
    /\ OwnApproval

(* A round takes its decisions in the order of its calls, an earlier       *)
(* attempt's included.                                                     *)
LEMMA RoundIsOwned ==
    ASSUME TypeOK, RoundExists, Owned, NEW refused \in SUBSET Slots, StartTools(refused)
    PROVE  Owned'
<1> USE BoundsAssumption
<1>1. /\ UNCHANGED <<round, kind, approved>> /\ round \in Rounds
      /\ given' = "none" /\ decision' = Decided
      /\ decision' \in [Slots -> {"none", "yes", "no"}]
      /\ refused \subseteq {s \in Slots : KindOf(s) = "search"}
  BY DEF StartTools, historyVars, clickVars, RoundExists, TypeOK, Decided
<1>2. \A s \in Slots : /\ <<round, s>> \in Calls
                       /\ KindOf(s) = kind[<<round, s>>]
  BY <1>1 DEF Calls, KindOf
<1>3. ASSUME NEW s \in Slots, decision'[s] = "yes" PROVE <<round, s>> \in approved
  <2>1. CASE decision[s] = "yes"
    BY <2>1 DEF Owned
  <2>2. CASE decision[s] # "yes"
    <3>1. given = "yes" /\ Waits(s) /\ \A t \in 1..s - 1 : ~Waits(t)
      BY <1>1, <1>3, <2>2 DEF Decided
    <3>2. PICK o \in Slots : FirstUndecided(o) /\ <<round, o>> \in approved
      BY <3>1 DEF Owned
    <3>3. ~(o < s) /\ ~(s < o)
      BY <3>1, <3>2 DEF Waits, AsksFirst, KindOf, FirstUndecided, Slots
    <3>4. o = s
      BY <3>3 DEF Slots
    <3> QED
      BY <3>2, <3>4
  <2> QED
    BY <2>1, <2>2
<1>4. ASSUME NEW c \in Calls, kind[c] = "sensitive", starts'[c] > 0
      PROVE  c \in approved \cup unasked'
  <2>1. CASE starts'[c] = starts[c]
    BY <1>4, <2>1 DEF Owned, OwnApproval, StartTools
  <2>2. CASE starts'[c] # starts[c]
    <3>1. PICK s \in Slots : c = <<round, s>> /\ FirstStep(s, refused) = "runs"
      BY <2>2 DEF StartTools, InRound, Runs, TypeOK
    <3>2. KindOf(s) = "sensitive"
      BY <1>2, <1>4, <3>1
    <3>3. CASE runMode = "auto"
      <4>1. unasked' = unasked \cup InRound({t \in Runs(refused) : KindOf(t) = "sensitive"})
        BY <3>3 DEF StartTools
      <4>2. s \in {t \in Runs(refused) : KindOf(t) = "sensitive"}
        BY <3>1, <3>2 DEF Runs
      <4> QED
        BY <3>1, <4>1, <4>2 DEF InRound
    <3>4. CASE runMode = "manual"
      <4>1. decision'[s] = "yes"
        BY <1>1, <3>1, <3>2, <3>4 DEF FirstStep, MustAsk, Denied, AsksFirst
      <4> QED
        BY <1>3, <3>1, <4>1
    <3> QED
      BY <3>3, <3>4 DEF TypeOK, Modes
  <2> QED
    BY <2>1, <2>2
<1>5. ASSUME asked' # 0 PROVE at' = "none" /\ FirstUndecided(asked)'
  <2>1. CASE Interrupt(refused)
    <3>1. PICK s \in Asks(refused) : asked' = s /\ \A t \in Asks(refused) : s <= t
      BY <1>5, <2>1 DEF Interrupt
    <3>2. MustAsk(s) /\ s \in Slots
      BY <3>1 DEF Asks, FirstStep
    <3>3. runMode = "manual" /\ KindOf(s) = "sensitive" /\ decision'[s] = "none"
      BY <1>1, <3>2 DEF MustAsk, AsksFirst
    <3>4. ASSUME NEW t \in 1..s - 1, KindOf(t) = "sensitive", decision'[t] = "none" PROVE FALSE
      <4>1. t \in Slots /\ t < s
        BY <3>2 DEF Slots
      <4>2. MustAsk(t) /\ t \notin refused
        BY <1>1, <3>3, <3>4 DEF MustAsk, AsksFirst
      <4>3. t \in Asks(refused)
        BY <3>4, <4>1, <4>2 DEF Asks, FirstStep
      <4> QED
        BY <3>1, <3>2, <4>1, <4>3 DEF Slots
    <3> QED
      BY <1>1, <1>2, <2>1, <3>1, <3>2, <3>3, <3>4 DEF FirstUndecided, KindOf, Interrupt
  <2>2. CASE Execute(refused)
    BY <1>5, <2>2 DEF Execute, Owned, StartTools
  <2> QED
    BY <2>1, <2>2 DEF StartTools
<1> QED
  BY <1>1, <1>3, <1>4, <1>5 DEF Owned, OwnApproval

(* In manual mode a sensitive call executes only after the user was asked  *)
(* about this very call and approved it, if answers are given while the    *)
(* question is asked: through stops, mode changes and repeated rounds, no  *)
(* yes goes to another call of the round.                                  *)
THEOREM ApprovalsAreOwn == CarefulSpec => []OwnApproval
<1> USE BoundsAssumption
<1>1. Init => Owned
  BY DEF Init, Owned, OwnApproval, NoDecision
<1>2. TypeOK /\ RoundExists /\ FutureIsBlank /\ Owned /\ [Others \/ ClickAsked]_vars => Owned'
  <2> SUFFICES ASSUME TypeOK, RoundExists, FutureIsBlank, Owned, [Others \/ ClickAsked]_vars PROVE Owned'
    OBVIOUS
  <2> USE DEF historyVars, threadVars, runVars, effectVars, clickVars, userVars,
              NewCheckpoint, NoDecision, Owned, OwnApproval
  <2>0. TypeOK
    OBVIOUS
  <2>1. CASE UNCHANGED vars
    BY <2>1 DEF vars, FirstUndecided
  <2>2. ASSUME NEW wish \in Modes \cup {"kept"}, Run(wish) PROVE Owned'
    BY <2>2 DEF Run
  <2>3. CASE ClickAsked
    <3>1. PICK verdict \in {"yes", "no"} : Resume(<<round, asked>>, verdict)
      BY <2>3 DEF ClickAsked, Click
    <3>2. asked \in Slots /\ FirstUndecided(asked)
      BY <2>0, <2>3 DEF ClickAsked, TypeOK
    <3>3. /\ UNCHANGED <<round, kind, decision, starts, unasked>>
          /\ asked' = 0 /\ given' = verdict /\ approved \subseteq approved'
          /\ verdict = "yes" => <<round, asked>> \in approved'
      BY <3>1 DEF Resume
    <3>4. FirstUndecided(asked) => \A s : s = asked => FirstUndecided(s)'
      BY <3>3 DEF FirstUndecided
    <3> QED
      BY <3>2, <3>3, <3>4
  <2>4. CASE Stop
    BY <2>4 DEF Stop, FirstUndecided
  <2>5. ASSUME NEW m \in Modes, SetApprovalMode(m) PROVE Owned'
    BY <2>5 DEF SetApprovalMode, FirstUndecided
  <2>6. CASE Compact
    BY <2>6 DEF Compact, Commit
  <2>7. CASE AgentAnswers
    BY <2>7 DEF AgentAnswers, Commit
  <2>8. ASSUME NEW wanted \in Wanted, AgentCalls(wanted) PROVE Owned'
    <3>1. asked' = 0 /\ given' = "none" /\ decision' = NoDecision
      BY <2>8 DEF AgentCalls, Commit
    <3>2. UNCHANGED <<starts, approved, unasked>> /\ round' = round + 1
      BY <2>8 DEF AgentCalls
    <3>3. ASSUME NEW c \in Calls, kind'[c] = "sensitive", starts'[c] > 0
          PROVE  kind[c] = "sensitive"
      BY <2>0, <2>8, <3>2, <3>3 DEF AgentCalls, TypeOK, FutureIsBlank
    <3> QED
      BY <3>1, <3>2, <3>3
  <2>9. CASE Limit
    BY <2>9 DEF Limit, Commit
  <2>10. ASSUME NEW refused \in SUBSET Slots, StartTools(refused) PROVE Owned'
    BY <2>10, RoundIsOwned
  <2>11. ASSUME NEW s \in Slots, ToolReturns(s) PROVE Owned'
    BY <2>11 DEF ToolReturns, FirstUndecided
  <2>12. CASE EndTools
    BY <2>12 DEF EndTools, Commit
  <2>13. ASSUME NEW c \in Calls, OrphanReturns(c) PROVE Owned'
    BY <2>13 DEF OrphanReturns, FirstUndecided
  <2> QED
    BY <2>1, <2>2, <2>3, <2>4, <2>5, <2>6, <2>7, <2>8, <2>9, <2>10, <2>11, <2>12, <2>13
       DEF Others, Graph, GoesOn
<1>3. Owned => OwnApproval
  BY DEF Owned
<1>4. CarefulSpec => [](TypeOK /\ RoundExists /\ FutureIsBlank)
  BY CarefulIsAllowed, TypeInvariant, HistoryInvariant, PTL DEF HistoryInv
<1> QED
  BY <1>1, <1>2, <1>3, <1>4, PTL DEF CarefulSpec

=============================================================================
