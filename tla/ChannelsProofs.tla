--------------------------- MODULE ChannelsProofs ---------------------------
(***************************************************************************)
(* Theorems about Channels, for any number of requests and any default     *)
(* mode.                                                                   *)
(***************************************************************************)
EXTENDS Channels, TLAPS

-----------------------------------------------------------------------------
(* Type correctness, and where handlers and runs are *)

\* A handler that has started a run waits for it, or goes on when it is over;
\* commands start none, and a message asks for a mode.
Placed(r) ==
    /\ pc[r] = "idle" <=> kind[r] = "none"
    /\ pc[r] = "lookup" => kind[r] = "text"
    /\ pc[r] = "pressed" => kind[r] = "press"
    /\ pc[r] = "check" => kind[r] = "resolve"
    /\ pc[r] \in {"read", "summary", "write"} => kind[r] \in Commands
    /\ kind[r] \in Commands => pc[r] \in {"read", "summary", "write", "done"} /\ run[r] = "none"
    /\ pc[r] = "summary" => kind[r] = "compact"
    /\ pc[r] \in {"start", "barging"} \/ run[r] = "load" => kind[r] \in Answers \/ wish[r] \in Modes
    /\ pc[r] \in {"erase", "final", "question"} => InChat(r) /\ run[r] \in Over
    /\ run[r] \in Live => pc[r] = "reading" \/ (run[r] = "cut" /\ pc[r] = "done" /\ kind[r] = "http")
    /\ run[r] # "none" => pc[r] \in {"reading", "erase", "final", "question", "done"}

\* The run of the session is the one that is not over.
SlotIsLive == \A r \in Requests : slot = r <=> run[r] \in Live

Control == SlotIsLive /\ \A r \in Requests : Placed(r)

\* Releasing a checkpoint changes nothing but the run that wrote it.
LEMMA ReleasingOnlyReleases ==
    ASSUME TypeOK, NEW r \in Requests
    PROVE  /\ Released(r) \in Checkpoints
           /\ Released(r).mode = thread.mode
           /\ Released(r).asks = thread.asks
           /\ Released(r).msgs = thread.msgs
<1>1. ASSUME NEW t \in Checkpoints
      PROVE  LET released == [t EXCEPT !.by = None]
             IN  /\ released \in Checkpoints
                 /\ released.mode = t.mode /\ released.asks = t.asks /\ released.msgs = t.msgs
  BY DEF Checkpoints
<1>2. thread \in Checkpoints
  BY DEF TypeOK
<1> QED
  BY <1>1, <1>2 DEF Released

LEMMA ControlInvariant == Spec => [](TypeOK /\ Control)
<1> DEFINE Inv == TypeOK /\ Control
<1> USE ChannelsAssumption
<1>1. Init => Inv
  <2> SUFFICES ASSUME Init PROVE Inv
    OBVIOUS
  <2>1. Blank \in Checkpoints
    BY DEF Blank, Checkpoints
  <2>2. TypeOK
    BY <2>1 DEF Init, TypeOK
  <2>3. Control
    BY DEF Init, Control, SlotIsLive, Placed, Commands, Live
  <2> QED
    BY <2>2, <2>3
<1>2. Inv /\ [Next]_vars => Inv'
  <2> SUFFICES ASSUME TypeOK, Control, [Next]_vars PROVE TypeOK' /\ Control'
    OBVIOUS
  <2> USE DEF TypeOK, Control, SlotIsLive, Placed, Blank, Checkpoints, Modes, Commands,
              Messages, Answers, Live, Over, Goes, InChat, chatVars, seenVars
  <2>0. CASE UNCHANGED vars
    BY <2>0 DEF vars
  <2>1. ASSUME NEW r \in Requests, MessageArrives(r) PROVE TypeOK' /\ Control'
    BY <2>1 DEF MessageArrives, Arrives
  <2>2. ASSUME NEW r \in Requests, AutoArrives(r) PROVE TypeOK' /\ Control'
    <3>1. PICK k \in {"http", "job"} : Arrives(r, k, "start")
      BY <2>2 DEF AutoArrives
    <3>2. TypeOK'
      BY <2>2, <3>1 DEF AutoArrives, Arrives
    <3>3. Control'
      BY <2>2, <3>1 DEF AutoArrives, Arrives
    <3> QED
      BY <3>2, <3>3
  <2>3. ASSUME NEW r \in Requests, ButtonPressed(r) PROVE TypeOK' /\ Control'
    BY <2>3 DEF ButtonPressed, Arrives
  <2>4. ASSUME NEW r \in Requests, ApprovalPosted(r) PROVE TypeOK' /\ Control'
    BY <2>4 DEF ApprovalPosted, Arrives
  <2>5. ASSUME NEW r \in Requests, CommandArrives(r) PROVE TypeOK' /\ Control'
    BY <2>5 DEF CommandArrives, Arrives
  <2>6. ASSUME NEW r \in Requests, LooksUpMode(r) PROVE TypeOK' /\ Control'
    BY <2>6 DEF LooksUpMode, ModeFor
  <2>7. ASSUME NEW r \in Requests, DeletesButton(r) PROVE TypeOK' /\ Control'
    BY <2>7 DEF DeletesButton
  <2>8. ASSUME NEW r \in Requests, ChecksPending(r) PROVE TypeOK' /\ Control'
    BY <2>8 DEF ChecksPending
  <2>9. ASSUME NEW r \in Requests, Starts(r) PROVE TypeOK' /\ Control'
    BY <2>9 DEF Starts
  <2>10. ASSUME NEW r \in Requests, Supersedes(r) PROVE TypeOK' /\ Control'
    BY <2>10 DEF Supersedes
  <2>11. ASSUME NEW r \in Requests, Barges(r) PROVE TypeOK' /\ Control'
    BY <2>11 DEF Barges
  <2>12. ASSUME NEW r \in Requests, Loads(r) PROVE TypeOK' /\ Control'
    <3>1. Entered(r) \in Checkpoints
      <4>1. kind[r] \in Answers \/ wish[r] \in Modes
        BY <2>12 DEF Loads
      <4>2. [thread EXCEPT !.asks = None, !.by = r] \in Checkpoints
        OBVIOUS
      <4>3. ASSUME NEW m \in Modes
            PROVE  [mode |-> m, asks |-> None, msgs |-> thread.msgs \cup {r}, by |-> r] \in Checkpoints
        OBVIOUS
      <4> HIDE DEF Checkpoints
      <4> QED
        BY <4>1, <4>2, <4>3 DEF Entered
    <3> HIDE DEF Checkpoints
    <3> QED
      BY <2>12, <3>1 DEF Loads
  <2>13. ASSUME NEW r \in Requests, Saves(r) PROVE TypeOK' /\ Control'
    BY <2>13 DEF Saves, Stores
  <2>14. ASSUME NEW r \in Requests, RunAnswers(r) PROVE TypeOK' /\ Control'
    BY <2>14 DEF RunAnswers, Stores, RunEnds
  <2>15. ASSUME NEW r \in Requests, RunAsks(r) PROVE TypeOK' /\ Control'
    BY <2>15 DEF RunAsks, RunEnds
  <2>16. ASSUME NEW r \in Requests, RunFails(r) PROVE TypeOK' /\ Control'
    <3>1. thread' \in Checkpoints
      BY <2>16, ReleasingOnlyReleases DEF RunFails
    <3>2. TypeOK'
      BY <2>16, <3>1 DEF RunFails, RunEnds
    <3>3. Control'
      BY <2>16 DEF RunFails, RunEnds
    <3> QED
      BY <3>2, <3>3
  <2>17. ASSUME NEW r \in Requests, RunIsCut(r) PROVE TypeOK' /\ Control'
    <3>1. thread' \in Checkpoints
      BY <2>17, ReleasingOnlyReleases DEF RunIsCut
    <3>2. TypeOK'
      BY <2>17, <3>1 DEF RunIsCut, RunEnds
    <3>3. Control'
      BY <2>17 DEF RunIsCut, RunEnds
    <3> QED
      BY <3>2, <3>3
  <2>18. ASSUME NEW r \in Requests, Shows(r) PROVE TypeOK' /\ Control'
    BY <2>18 DEF Shows
  <2>19. ASSUME NEW r \in Requests, ReadsAll(r) PROVE TypeOK' /\ Control'
    BY <2>19 DEF ReadsAll
  <2>20. ASSUME NEW r \in Requests, Erases(r) PROVE TypeOK' /\ Control'
    BY <2>20 DEF Erases
  <2>21. ASSUME NEW r \in Requests, SendsFinal(r) PROVE TypeOK' /\ Control'
    BY <2>21 DEF SendsFinal
  <2>22. ASSUME NEW r \in Requests, SendsQuestion(r) PROVE TypeOK' /\ Control'
    BY <2>22 DEF SendsQuestion
  <2>23. ASSUME NEW r \in Requests, Responds(r) PROVE TypeOK' /\ Control'
    BY <2>23 DEF Responds, Body
  <2>24. ASSUME NEW r \in Requests, Reports(r) PROVE TypeOK' /\ Control'
    BY <2>24 DEF Reports
  <2>25. ASSUME NEW r \in Requests, ReadsMode(r) PROVE TypeOK' /\ Control'
    <3>1. ModeRead(r) \in Checkpoints
      BY <2>25 DEF ReadsMode, ModeRead
    <3> HIDE DEF Checkpoints
    <3> QED
      BY <2>25, <3>1 DEF ReadsMode
  <2>26. ASSUME NEW r \in Requests, ReadsToCompact(r) PROVE TypeOK' /\ Control'
    BY <2>26 DEF ReadsToCompact
  <2>27. ASSUME NEW r \in Requests, ReadsToUpdate(r) PROVE TypeOK' /\ Control'
    <3>1. Updated(r) \in Checkpoints
      BY <2>27 DEF ReadsToUpdate, Updated
    <3> HIDE DEF Checkpoints
    <3> QED
      BY <2>27, <3>1 DEF ReadsToUpdate
  <2>28. ASSUME NEW r \in Requests, Writes(r) PROVE TypeOK' /\ Control'
    BY <2>28 DEF Writes
  <2>29. ASSUME NEW r \in Requests, RunIsInterrupted(r) PROVE TypeOK' /\ Control'
    <3>1. thread' \in Checkpoints
      <4>1. [thread EXCEPT !.asks = r, !.by = None] \in Checkpoints
        OBVIOUS
      <4> HIDE DEF Checkpoints
      <4> QED
        BY <2>29, <4>1 DEF RunIsInterrupted
    <3>2. Blank \in Checkpoints
      OBVIOUS
    <3> HIDE DEF Checkpoints, Blank
    <3>3. TypeOK'
      BY <2>29, <3>1, <3>2 DEF RunIsInterrupted
    <3>4. Control'
      BY <2>29 DEF RunIsInterrupted
    <3> QED
      BY <3>3, <3>4
  <2>30. ASSUME NEW r \in Requests, Leaves(r) PROVE TypeOK' /\ Control'
    BY <2>30 DEF Leaves
  <2> QED
    BY <2>0, <2>1, <2>2, <2>3, <2>4, <2>5, <2>6, <2>7, <2>8, <2>9, <2>10, <2>11, <2>12,
       <2>13, <2>14, <2>15, <2>16, <2>17, <2>18, <2>19, <2>20, <2>21, <2>22, <2>23,
       <2>24, <2>25, <2>26, <2>27, <2>28, <2>29, <2>30
       DEF Next, Arrival, Handler, Execution
<1> QED
  BY <1>1, <1>2, PTL DEF Spec

\* Every reachable state of the channels has the declared types.
THEOREM TypeCorrect == Spec => []TypeOK
  BY ControlInvariant, PTL

\* What a run that comes to a sensitive call does: its copy goes, and the thread
\* changes only in the question, if the checkpoint is still the run's own.
LEMMA InterruptOnlyAsks ==
    ASSUME TypeOK, NEW r \in Requests, RunIsInterrupted(r)
    PROVE  /\ run[r] = "saved" /\ held[r].mode = "manual"
           /\ UNCHANGED <<kind, target, wish, pc, chatVars, pinned, raced>>
           /\ run' = [run EXCEPT ![r] = "asking"]
           /\ held' = [held EXCEPT ![r] = Blank]
           /\ thread'.mode = thread.mode /\ thread'.msgs = thread.msgs
           /\ thread'.asks = r \/ thread' = thread
<1>1. ASSUME NEW t \in Checkpoints
      PROVE  LET asking == [t EXCEPT !.asks = r, !.by = None]
             IN  asking.mode = t.mode /\ asking.msgs = t.msgs /\ asking.asks = r
  BY DEF Checkpoints
<1>2. thread \in Checkpoints
  BY DEF TypeOK
<1> QED
  BY <1>1, <1>2 DEF RunIsInterrupted, seenVars

-----------------------------------------------------------------------------
(* Manual mode, once said at rest *)

\* An update of the mode writes the one it was asked for.
ModeWritten == \A r \in Requests : pc[r] = "write" /\ kind[r] \in Modes => held[r].mode = kind[r]

\* While /manual is the last word, whoever is to store a mode has manual mode: a
\* run, a message that has yet to start one, an update of the thread.
AllManual ==
    pinned => \A r \in Requests :
        /\ kind[r] = "auto" => pc[r] = "done"
        /\ pc[r] \in {"start", "barging"} \/ run[r] = "load" =>
             kind[r] \in Answers \/ wish[r] = "manual"
        /\ pc[r] = "write" => held[r].mode = "manual"

Pinned == ModeWritten /\ AllManual /\ ManualHolds

\* Pinned is inductive: /manual is the last word only if nothing else is in
\* progress, and what starts then reads the mode from the thread.
LEMMA PinnedInvariant == Spec => []Pinned
<1> USE ChannelsAssumption
<1>1. Init => Pinned
  BY DEF Init, Pinned, ModeWritten, AllManual, ManualHolds, Blank, Commands, Messages, Live,
         InChat
<1>2. TypeOK /\ Control /\ Pinned /\ [Next]_vars => Pinned'
  <2> SUFFICES ASSUME TypeOK, Control, Pinned, [Next]_vars PROVE Pinned'
    OBVIOUS
  <2> USE DEF TypeOK, Control, SlotIsLive, Placed, Blank, Modes, Commands, Messages,
              Answers, Live, Over, Goes, InChat, chatVars, seenVars, Pinned, ModeWritten,
              AllManual, ManualHolds
  <2>0. CASE UNCHANGED vars
    BY <2>0 DEF vars
  <2>1. ASSUME NEW r \in Requests, MessageArrives(r) PROVE Pinned'
    BY <2>1 DEF MessageArrives, Arrives
  <2>2. ASSUME NEW r \in Requests, AutoArrives(r) PROVE Pinned'
    BY <2>2 DEF AutoArrives, Arrives
  <2>3. ASSUME NEW r \in Requests, ButtonPressed(r) PROVE Pinned'
    BY <2>3 DEF ButtonPressed, Arrives
  <2>4. ASSUME NEW r \in Requests, ApprovalPosted(r) PROVE Pinned'
    BY <2>4 DEF ApprovalPosted, Arrives
  <2>5. ASSUME NEW r \in Requests, CommandArrives(r) PROVE Pinned'
    <3>1. PICK k \in Commands : Arrives(r, k, "read") /\ pinned' = (pinned /\ k # "auto")
      BY <2>5 DEF CommandArrives
    <3>2. UNCHANGED <<thread, wish, run, held>>
      BY <2>5, <3>1 DEF CommandArrives, Arrives
    <3>3. pc' = [pc EXCEPT ![r] = "read"] /\ kind' = [kind EXCEPT ![r] = k]
      BY <3>1 DEF Arrives
    <3>4. ModeWritten'
      BY <3>2, <3>3
    <3>5. CASE pinned' = FALSE
      BY <3>4, <3>5
    <3>6. CASE pinned' # FALSE
      <4>1. pinned /\ k # "auto"
        BY <3>1, <3>6
      <4>2. run[r] = "none"
        BY <3>1 DEF Arrives
      <4>3. AllManual'
        BY <3>2, <3>3, <4>1, <4>2
      <4>4. ManualHolds'
        BY <3>2, <4>1
      <4> QED
        BY <3>4, <4>3, <4>4
    <3> QED
      BY <3>5, <3>6
  <2>6. ASSUME NEW r \in Requests, LooksUpMode(r) PROVE Pinned'
    BY <2>6 DEF LooksUpMode, ModeFor
  <2>7. ASSUME NEW r \in Requests, DeletesButton(r) PROVE Pinned'
    BY <2>7 DEF DeletesButton
  <2>8. ASSUME NEW r \in Requests, ChecksPending(r) PROVE Pinned'
    BY <2>8 DEF ChecksPending
  <2>9. ASSUME NEW r \in Requests, Starts(r) PROVE Pinned'
    BY <2>9 DEF Starts
  <2>10. ASSUME NEW r \in Requests, Supersedes(r) PROVE Pinned'
    BY <2>10 DEF Supersedes
  <2>11. ASSUME NEW r \in Requests, Barges(r) PROVE Pinned'
    BY <2>11 DEF Barges
  <2>12. ASSUME NEW r \in Requests, Loads(r) PROVE Pinned'
    BY <2>12 DEF Loads, Entered
  <2>13. ASSUME NEW r \in Requests, Saves(r) PROVE Pinned'
    BY <2>13 DEF Saves, Stores
  <2>14. ASSUME NEW r \in Requests, RunAnswers(r) PROVE Pinned'
    BY <2>14 DEF RunAnswers, Stores, RunEnds
  <2>15. ASSUME NEW r \in Requests, RunAsks(r) PROVE Pinned'
    BY <2>15 DEF RunAsks, RunEnds
  <2>16. ASSUME NEW r \in Requests, RunFails(r) PROVE Pinned'
    <3>1. /\ thread'.mode = thread.mode /\ thread'.asks = thread.asks
          /\ thread'.msgs = thread.msgs
      BY <2>16, ReleasingOnlyReleases DEF RunFails
    <3> QED
      BY <2>16, <3>1 DEF RunFails, RunEnds
  <2>17. ASSUME NEW r \in Requests, RunIsCut(r) PROVE Pinned'
    <3>1. /\ thread'.mode = thread.mode /\ thread'.asks = thread.asks
          /\ thread'.msgs = thread.msgs
      BY <2>17, ReleasingOnlyReleases DEF RunIsCut
    <3> QED
      BY <2>17, <3>1 DEF RunIsCut, RunEnds
  <2>18. ASSUME NEW r \in Requests, Shows(r) PROVE Pinned'
    BY <2>18 DEF Shows
  <2>19. ASSUME NEW r \in Requests, ReadsAll(r) PROVE Pinned'
    BY <2>19 DEF ReadsAll
  <2>20. ASSUME NEW r \in Requests, Erases(r) PROVE Pinned'
    BY <2>20 DEF Erases
  <2>21. ASSUME NEW r \in Requests, SendsFinal(r) PROVE Pinned'
    BY <2>21 DEF SendsFinal
  <2>22. ASSUME NEW r \in Requests, SendsQuestion(r) PROVE Pinned'
    BY <2>22 DEF SendsQuestion
  <2>23. ASSUME NEW r \in Requests, Responds(r) PROVE Pinned'
    BY <2>23 DEF Responds, Body
  <2>24. ASSUME NEW r \in Requests, Reports(r) PROVE Pinned'
    BY <2>24 DEF Reports
  <2>25. ASSUME NEW r \in Requests, ReadsMode(r) PROVE Pinned'
    BY <2>25 DEF ReadsMode, ModeRead
  <2>26. ASSUME NEW r \in Requests, ReadsToCompact(r) PROVE Pinned'
    BY <2>26 DEF ReadsToCompact
  <2>27. ASSUME NEW r \in Requests, ReadsToUpdate(r) PROVE Pinned'
    BY <2>27 DEF ReadsToUpdate, Updated
  <2>28. ASSUME NEW r \in Requests, Writes(r) PROVE Pinned'
    <3>1. CASE pinned
      BY <2>28, <3>1 DEF Writes
    <3>2. CASE ~pinned /\ pinned'
      <4>1. kind[r] = "manual" /\ \A q \in Requests \ {r} : AtRest(q)
        BY <2>28, <3>2 DEF Writes
      <4> QED
        BY <2>28, <4>1 DEF Writes, AtRest
    <3>3. CASE ~pinned'
      BY <2>28, <3>3 DEF Writes
    <3> QED
      BY <3>1, <3>2, <3>3
  <2>29. ASSUME NEW r \in Requests, RunIsInterrupted(r) PROVE Pinned'
    <3>1. /\ run[r] = "saved" /\ held[r].mode = "manual"
          /\ UNCHANGED <<kind, target, wish, pc, chatVars, pinned, raced>>
          /\ run' = [run EXCEPT ![r] = "asking"]
      BY <2>29, InterruptOnlyAsks
    <3>2. held' = [held EXCEPT ![r] = Blank] /\ (thread'.asks = r \/ thread' = thread)
      BY <2>29, InterruptOnlyAsks
    <3>3. thread'.mode = thread.mode /\ thread'.msgs = thread.msgs
      BY <2>29, InterruptOnlyAsks
    <3> QED
      BY <3>1, <3>2, <3>3
  <2>30. ASSUME NEW r \in Requests, Leaves(r) PROVE Pinned'
    BY <2>30 DEF Leaves
  <2> QED
    BY <2>0, <2>1, <2>2, <2>3, <2>4, <2>5, <2>6, <2>7, <2>8, <2>9, <2>10, <2>11, <2>12,
       <2>13, <2>14, <2>15, <2>16, <2>17, <2>18, <2>19, <2>20, <2>21, <2>22, <2>23,
       <2>24, <2>25, <2>26, <2>27, <2>28, <2>29, <2>30
       DEF Next, Arrival, Handler, Execution
<1> QED
  BY <1>1, <1>2, ControlInvariant, PTL DEF Spec

\* Manual mode holds from the moment it was confirmed at rest until /auto or a
\* channel that runs in auto mode, whatever runs and updates come in between.
THEOREM ManualIsHeld == Spec => []ManualHolds
<1>1. Pinned /\ TypeOK /\ Control => ManualHolds
  BY ChannelsAssumption DEF Pinned, ModeWritten, AllManual, ManualHolds, AtRest, InChat,
         TypeOK
<1> QED
  BY <1>1, PinnedInvariant, ControlInvariant, PTL

-----------------------------------------------------------------------------
(* The pending question *)

\* The question of a run is shown, or its handler is about to show it.
ToBeShown(q) ==
    /\ run[q] \in {"asking", "asked"}
    /\ IF InChat(q) THEN pc[q] \in {"reading", "erase", "final", "question"} \/ q \in buttons
       ELSE pc[q] = "reading" \/ q \in replies

\* A request that is about to store a thread without a question.
Replaces(r) == pc[r] \in {"start", "barging"} \/ run[r] \in {"load", "open"}

\* The run of the question was cut off, or its button was pressed for a run that
\* has not stored the answer.
Misses(q) ==
    \/ run[q] \in {"cut", "failed", "cancelled"}
    \/ \E p \in Requests :
        /\ kind[p] = "press" /\ target[p] = q
        /\ pc[p] \in {"start", "barging"} \/ run[p] \in {"load", "open", "cut", "failed", "cancelled"}

\* Then another request is about to replace it, or was cut off in turn.
Followed == \E r \in Requests : Replaces(r) \/ run[r] = "failed" \/ LeftAlone(r)

QuestionKnown ==
    thread.asks # None =>
        /\ run[thread.asks] \in {"asking", "asked", "cut", "failed", "cancelled"}
        /\ kind[thread.asks] \notin {"http", "job"}
        /\ ToBeShown(thread.asks) \/ (Misses(thread.asks) /\ Followed)

\* The channels without a button run in auto mode and ask nothing; what is to be
\* stored leaves no question behind.
AutoAsksNothing ==
    \A r \in Requests :
        /\ kind[r] \in {"http", "job"} =>
             /\ pc[r] \in {"start", "barging"} \/ run[r] = "load" => wish[r] = "auto"
             /\ run[r] \in {"open", "saved"} => held[r].mode = "auto"
        /\ run[r] \in {"open", "saved"} \/ pc[r] = "write" => held[r].asks = None

\* No HTTP answer is given before its run is read.
AnswersLast ==
    \A r \in Requests :
        ~InChat(r) /\ pc[r] \in {"idle", "check", "start", "barging", "reading"} => r \notin replies

Asked == QuestionKnown /\ AutoAsksNothing /\ AnswersLast

\* Asked is inductive: a button goes away only with a request that replaces the
\* question, and if that is superseded the next one does, unless it is cut off.
LEMMA AskedInvariant == Spec => []Asked
<1> USE ChannelsAssumption
<1>1. Init => Asked
  BY DEF Init, Asked, QuestionKnown, AutoAsksNothing, AnswersLast, ToBeShown, Replaces, Misses, Followed, LeftAlone, Blank, Commands,
         Messages, Live, InChat
<1>2. TypeOK /\ Control /\ Asked /\ [Next]_vars => Asked'
  <2> SUFFICES ASSUME TypeOK, Control, Asked, [Next]_vars PROVE Asked'
    OBVIOUS
  <2> USE DEF TypeOK, Control, SlotIsLive, Placed, Blank, Modes, Commands, Messages,
              Answers, Live, Over, Goes, InChat, chatVars, seenVars, Asked, QuestionKnown,
              AutoAsksNothing, AnswersLast, ToBeShown, Replaces, Misses, Followed,
              LeftAlone
  <2>0. CASE UNCHANGED vars
    BY <2>0 DEF vars
  <2>1. ASSUME NEW r \in Requests, MessageArrives(r) PROVE Asked'
    BY <2>1 DEF MessageArrives, Arrives
  <2>2. ASSUME NEW r \in Requests, AutoArrives(r) PROVE Asked'
    BY <2>2 DEF AutoArrives, Arrives
  <2>3. ASSUME NEW r \in Requests, ButtonPressed(r) PROVE Asked'
    BY <2>3 DEF ButtonPressed, Arrives
  <2>4. ASSUME NEW r \in Requests, ApprovalPosted(r) PROVE Asked'
    BY <2>4 DEF ApprovalPosted, Arrives
  <2>5. ASSUME NEW r \in Requests, CommandArrives(r) PROVE Asked'
    BY <2>5 DEF CommandArrives, Arrives
  <2>6. ASSUME NEW r \in Requests, LooksUpMode(r) PROVE Asked'
    BY <2>6 DEF LooksUpMode, ModeFor
  <2>7. ASSUME NEW r \in Requests, DeletesButton(r) PROVE Asked'
    BY <2>7 DEF DeletesButton
  <2>8. ASSUME NEW r \in Requests, ChecksPending(r) PROVE Asked'
    BY <2>8 DEF ChecksPending
  <2>9. ASSUME NEW r \in Requests, Starts(r) PROVE Asked'
    BY <2>9 DEF Starts
  <2>10. ASSUME NEW r \in Requests, Supersedes(r) PROVE Asked'
    BY <2>10 DEF Supersedes
  <2>11. ASSUME NEW r \in Requests, Barges(r) PROVE Asked'
    BY <2>11 DEF Barges
  <2>12. ASSUME NEW r \in Requests, Loads(r) PROVE Asked'
    BY <2>12 DEF Loads, Entered
  <2>13. ASSUME NEW r \in Requests, Saves(r) PROVE Asked'
    BY <2>13 DEF Saves, Stores
  <2>14. ASSUME NEW r \in Requests, RunAnswers(r) PROVE Asked'
    BY <2>14 DEF RunAnswers, Stores, RunEnds
  <2>15. ASSUME NEW r \in Requests, RunAsks(r) PROVE Asked'
    BY <2>15 DEF RunAsks, RunEnds
  <2>16. ASSUME NEW r \in Requests, RunFails(r) PROVE Asked'
    <3>1. /\ thread'.mode = thread.mode /\ thread'.asks = thread.asks
          /\ thread'.msgs = thread.msgs
      BY <2>16, ReleasingOnlyReleases DEF RunFails
    <3> QED
      BY <2>16, <3>1 DEF RunFails, RunEnds
  <2>17. ASSUME NEW r \in Requests, RunIsCut(r) PROVE Asked'
    <3>1. /\ thread'.mode = thread.mode /\ thread'.asks = thread.asks
          /\ thread'.msgs = thread.msgs
      BY <2>17, ReleasingOnlyReleases DEF RunIsCut
    <3> QED
      BY <2>17, <3>1 DEF RunIsCut, RunEnds
  <2>18. ASSUME NEW r \in Requests, Shows(r) PROVE Asked'
    BY <2>18 DEF Shows
  <2>19. ASSUME NEW r \in Requests, ReadsAll(r) PROVE Asked'
    BY <2>19 DEF ReadsAll
  <2>20. ASSUME NEW r \in Requests, Erases(r) PROVE Asked'
    BY <2>20 DEF Erases
  <2>21. ASSUME NEW r \in Requests, SendsFinal(r) PROVE Asked'
    BY <2>21 DEF SendsFinal
  <2>22. ASSUME NEW r \in Requests, SendsQuestion(r) PROVE Asked'
    BY <2>22 DEF SendsQuestion
  <2>23. ASSUME NEW r \in Requests, Responds(r) PROVE Asked'
    BY <2>23 DEF Responds, Body
  <2>24. ASSUME NEW r \in Requests, Reports(r) PROVE Asked'
    BY <2>24 DEF Reports
  <2>25. ASSUME NEW r \in Requests, ReadsMode(r) PROVE Asked'
    BY <2>25 DEF ReadsMode, ModeRead
  <2>26. ASSUME NEW r \in Requests, ReadsToCompact(r) PROVE Asked'
    <3>1. UNCHANGED <<thread, kind, target, wish, run, buttons, replies>>
      BY <2>26 DEF ReadsToCompact
    <3>2. kind[r] \in Commands /\ run[r] = "none"
      BY <2>26 DEF ReadsToCompact
    <3>3. \A q \in Requests : q # r => held'[q] = held[q] /\ pc'[q] = pc[q]
      BY <2>26 DEF ReadsToCompact
    <3>4. pc[r] = "read" /\ pc'[r] \in {"summary", "done"}
      BY <2>26 DEF ReadsToCompact
    <3>5. QuestionKnown'
      <4>1. Followed' <=> Followed
        BY <3>1, <3>2, <3>3, <3>4
      <4>2. \A q \in Requests : Misses(q)' <=> Misses(q)
        BY <3>1, <3>2, <3>3, <3>4
      <4>3. \A q \in Requests : q # r => (ToBeShown(q)' <=> ToBeShown(q))
        BY <3>1, <3>3
      <4>4. thread.asks # None => thread.asks \in Requests \ {r}
        BY <3>2 DEF Checkpoints
      <4> HIDE DEF Followed, Misses, ToBeShown
      <4> QED
        BY <3>1, <4>1, <4>2, <4>3, <4>4
    <3>6. AutoAsksNothing'
      <4>1. pc'[r] # "write" /\ run'[r] = "none" /\ pc'[r] \notin {"start", "barging"}
        BY <3>1, <3>2, <3>4
      <4> QED
        BY <3>1, <3>2, <3>3, <4>1
    <3>7. AnswersLast'
      BY <3>1, <3>2, <3>3, <3>4
    <3> QED
      BY <3>5, <3>6, <3>7
  <2>27. ASSUME NEW r \in Requests, ReadsToUpdate(r) PROVE Asked'
    BY <2>27 DEF ReadsToUpdate, Updated
  <2>28. ASSUME NEW r \in Requests, Writes(r) PROVE Asked'
    BY <2>28 DEF Writes
  <2>29. ASSUME NEW r \in Requests, RunIsInterrupted(r) PROVE Asked'
    <3>1. /\ run[r] = "saved" /\ held[r].mode = "manual"
          /\ UNCHANGED <<kind, target, wish, pc, chatVars, pinned, raced>>
          /\ run' = [run EXCEPT ![r] = "asking"]
      BY <2>29, InterruptOnlyAsks
    <3>2. held' = [held EXCEPT ![r] = Blank] /\ (thread'.asks = r \/ thread' = thread)
      BY <2>29, InterruptOnlyAsks
    <3>3. thread'.mode = thread.mode /\ thread'.msgs = thread.msgs
      BY <2>29, InterruptOnlyAsks
    <3> QED
      BY <3>1, <3>2, <3>3
  <2>30. ASSUME NEW r \in Requests, Leaves(r) PROVE Asked'
    <3>1. UNCHANGED <<thread, kind, target, wish, buttons, replies>> /\ kind[r] = "http"
      BY <2>30 DEF Leaves
    <3>2. pc[r] = "reading" /\ pc' = [pc EXCEPT ![r] = "done"]
      BY <2>30 DEF Leaves
    <3>3. \A q \in Requests : q # r => run'[q] = run[q] /\ held'[q] = held[q]
      BY <2>30 DEF Leaves
    <3>4. run'[r] \in {"cut", "none"} \cup Over
      BY <2>30 DEF Leaves
    <3>5. QuestionKnown'
      <4>1. LeftAlone(r)'
        BY <3>1, <3>2
      <4>2. Followed'
        BY <4>1
      <4>3. \A q \in Requests : q # r => (Misses(q) => Misses(q)')
        BY <3>1, <3>2, <3>3
      <4>4. \A q \in Requests : q # r => (ToBeShown(q)' <=> ToBeShown(q))
        BY <3>1, <3>2, <3>3
      <4>5. thread.asks # None => thread.asks \in Requests \ {r}
        BY <3>1 DEF Checkpoints
      <4> HIDE DEF Followed, Misses, ToBeShown
      <4> QED
        BY <3>1, <3>3, <4>2, <4>3, <4>4, <4>5
    <3>6. AutoAsksNothing'
      BY <3>1, <3>2, <3>3, <3>4
    <3>7. AnswersLast'
      BY <3>1, <3>2
    <3> QED
      BY <3>5, <3>6, <3>7
  <2> QED
    BY <2>0, <2>1, <2>2, <2>3, <2>4, <2>5, <2>6, <2>7, <2>8, <2>9, <2>10, <2>11, <2>12,
       <2>13, <2>14, <2>15, <2>16, <2>17, <2>18, <2>19, <2>20, <2>21, <2>22, <2>23,
       <2>24, <2>25, <2>26, <2>27, <2>28, <2>29, <2>30
       DEF Next, Arrival, Handler, Execution
<1> QED
  BY <1>1, <1>2, ControlInvariant, PTL DEF Spec

\* The question that blocks a thread at rest can be answered: no interleaving of
\* presses, superseded runs and updates takes its button and leaves it pending,
\* unless a run that was to ask or to answer was cut off before it did.
THEOREM QuestionsAreAnswerable == Spec => []PendingAnswerable
<1>1. Asked /\ TypeOK /\ Control => PendingAnswerable
  BY ChannelsAssumption DEF Asked, QuestionKnown, AutoAsksNothing, AnswersLast, ToBeShown, Replaces, Misses, Followed, LeftAlone,
         PendingAnswerable, Unheard, CutOff, AtRest, InChat, TypeOK, Control, Placed, Live, Checkpoints
<1> QED
  BY <1>1, AskedInvariant, ControlInvariant, PTL

-----------------------------------------------------------------------------
(* What the chat shows *)

ChatFollows(r) ==
    /\ run[r] = "none" => r \notin replies \cup buttons \cup placeholders
    /\ pc[r] = "erase" => run[r] # "failed"
    /\ pc[r] = "final" => run[r] \in {"answered", "asked"}
    /\ pc[r] = "question" => run[r] = "asked"
    /\ pc[r] \in {"final", "question"} => r \notin placeholders

Truthful == ChatTruthful /\ \A r \in Requests : ChatFollows(r)

\* Truthful is inductive: a handler erases its preview before it sends what its
\* run came to.
LEMMA TruthfulInvariant == Spec => []Truthful
<1> USE ChannelsAssumption
<1>1. Init => Truthful
  BY DEF Init, Truthful, ChatFollows, ChatTruthful, Blank, Commands, Messages, Live, InChat
<1>2. TypeOK /\ Control /\ Truthful /\ [Next]_vars => Truthful'
  <2> SUFFICES ASSUME TypeOK, Control, Truthful, [Next]_vars PROVE Truthful'
    OBVIOUS
  <2> USE DEF TypeOK, Control, SlotIsLive, Placed, Blank, Modes, Commands, Messages,
              Answers, Live, Over, Goes, InChat, chatVars, seenVars, Truthful, ChatFollows,
              ChatTruthful
  <2>0. CASE UNCHANGED vars
    BY <2>0 DEF vars
  <2>1. ASSUME NEW r \in Requests, MessageArrives(r) PROVE Truthful'
    BY <2>1 DEF MessageArrives, Arrives
  <2>2. ASSUME NEW r \in Requests, AutoArrives(r) PROVE Truthful'
    BY <2>2 DEF AutoArrives, Arrives
  <2>3. ASSUME NEW r \in Requests, ButtonPressed(r) PROVE Truthful'
    BY <2>3 DEF ButtonPressed, Arrives
  <2>4. ASSUME NEW r \in Requests, ApprovalPosted(r) PROVE Truthful'
    BY <2>4 DEF ApprovalPosted, Arrives
  <2>5. ASSUME NEW r \in Requests, CommandArrives(r) PROVE Truthful'
    BY <2>5 DEF CommandArrives, Arrives
  <2>6. ASSUME NEW r \in Requests, LooksUpMode(r) PROVE Truthful'
    BY <2>6 DEF LooksUpMode, ModeFor
  <2>7. ASSUME NEW r \in Requests, DeletesButton(r) PROVE Truthful'
    BY <2>7 DEF DeletesButton
  <2>8. ASSUME NEW r \in Requests, ChecksPending(r) PROVE Truthful'
    BY <2>8 DEF ChecksPending
  <2>9. ASSUME NEW r \in Requests, Starts(r) PROVE Truthful'
    BY <2>9 DEF Starts
  <2>10. ASSUME NEW r \in Requests, Supersedes(r) PROVE Truthful'
    BY <2>10 DEF Supersedes
  <2>11. ASSUME NEW r \in Requests, Barges(r) PROVE Truthful'
    BY <2>11 DEF Barges
  <2>12. ASSUME NEW r \in Requests, Loads(r) PROVE Truthful'
    BY <2>12 DEF Loads, Entered
  <2>13. ASSUME NEW r \in Requests, Saves(r) PROVE Truthful'
    BY <2>13 DEF Saves, Stores
  <2>14. ASSUME NEW r \in Requests, RunAnswers(r) PROVE Truthful'
    BY <2>14 DEF RunAnswers, Stores, RunEnds
  <2>15. ASSUME NEW r \in Requests, RunAsks(r) PROVE Truthful'
    BY <2>15 DEF RunAsks, RunEnds
  <2>16. ASSUME NEW r \in Requests, RunFails(r) PROVE Truthful'
    <3>1. /\ thread'.mode = thread.mode /\ thread'.asks = thread.asks
          /\ thread'.msgs = thread.msgs
      BY <2>16, ReleasingOnlyReleases DEF RunFails
    <3> QED
      BY <2>16, <3>1 DEF RunFails, RunEnds
  <2>17. ASSUME NEW r \in Requests, RunIsCut(r) PROVE Truthful'
    <3>1. /\ thread'.mode = thread.mode /\ thread'.asks = thread.asks
          /\ thread'.msgs = thread.msgs
      BY <2>17, ReleasingOnlyReleases DEF RunIsCut
    <3> QED
      BY <2>17, <3>1 DEF RunIsCut, RunEnds
  <2>18. ASSUME NEW r \in Requests, Shows(r) PROVE Truthful'
    BY <2>18 DEF Shows
  <2>19. ASSUME NEW r \in Requests, ReadsAll(r) PROVE Truthful'
    BY <2>19 DEF ReadsAll
  <2>20. ASSUME NEW r \in Requests, Erases(r) PROVE Truthful'
    BY <2>20 DEF Erases
  <2>21. ASSUME NEW r \in Requests, SendsFinal(r) PROVE Truthful'
    BY <2>21 DEF SendsFinal
  <2>22. ASSUME NEW r \in Requests, SendsQuestion(r) PROVE Truthful'
    BY <2>22 DEF SendsQuestion
  <2>23. ASSUME NEW r \in Requests, Responds(r) PROVE Truthful'
    BY <2>23 DEF Responds, Body
  <2>24. ASSUME NEW r \in Requests, Reports(r) PROVE Truthful'
    BY <2>24 DEF Reports
  <2>25. ASSUME NEW r \in Requests, ReadsMode(r) PROVE Truthful'
    BY <2>25 DEF ReadsMode, ModeRead
  <2>26. ASSUME NEW r \in Requests, ReadsToCompact(r) PROVE Truthful'
    BY <2>26 DEF ReadsToCompact
  <2>27. ASSUME NEW r \in Requests, ReadsToUpdate(r) PROVE Truthful'
    BY <2>27 DEF ReadsToUpdate, Updated
  <2>28. ASSUME NEW r \in Requests, Writes(r) PROVE Truthful'
    BY <2>28 DEF Writes
  <2>29. ASSUME NEW r \in Requests, RunIsInterrupted(r) PROVE Truthful'
    <3>1. /\ run[r] = "saved" /\ held[r].mode = "manual"
          /\ UNCHANGED <<kind, target, wish, pc, chatVars, pinned, raced>>
          /\ run' = [run EXCEPT ![r] = "asking"]
      BY <2>29, InterruptOnlyAsks
    <3>2. held' = [held EXCEPT ![r] = Blank] /\ (thread'.asks = r \/ thread' = thread)
      BY <2>29, InterruptOnlyAsks
    <3>3. thread'.mode = thread.mode /\ thread'.msgs = thread.msgs
      BY <2>29, InterruptOnlyAsks
    <3> QED
      BY <3>1, <3>2, <3>3
  <2>30. ASSUME NEW r \in Requests, Leaves(r) PROVE Truthful'
    BY <2>30 DEF Leaves
  <2> QED
    BY <2>0, <2>1, <2>2, <2>3, <2>4, <2>5, <2>6, <2>7, <2>8, <2>9, <2>10, <2>11, <2>12,
       <2>13, <2>14, <2>15, <2>16, <2>17, <2>18, <2>19, <2>20, <2>21, <2>22, <2>23,
       <2>24, <2>25, <2>26, <2>27, <2>28, <2>29, <2>30
       DEF Next, Arrival, Handler, Execution
<1> QED
  BY <1>1, <1>2, ControlInvariant, PTL DEF Spec

\* What a handler leaves in the chat is true of its run: a preview only of one
\* that raised, a text or a question only of one that was not cancelled.
THEOREM ChatIsTruthful == Spec => []ChatTruthful
<1>1. Truthful /\ TypeOK /\ Control => ChatTruthful
  BY ChannelsAssumption DEF Truthful, ChatFollows, ChatTruthful, AtRest, InChat, TypeOK
<1> QED
  BY <1>1, TruthfulInvariant, ControlInvariant, PTL

-----------------------------------------------------------------------------
(* Answered messages stay *)

\* Messages whose run has stored them and was not cancelled since.
Stored == {r \in Requests : kind[r] \in Messages /\ run[r] \in {"saved", "asking", "answered", "asked"}}

\* Every copy of the thread that may still be stored has the stored messages,
\* except those stored while a command was between its read and its write.
CopiesKeep ==
    /\ Stored \subseteq thread.msgs \cup raced
    /\ \A r \in Requests : Updating(r) => Stored \subseteq held[r].msgs \cup raced
    /\ \A r \in Requests : run[r] \in {"open", "saved"} => Stored \subseteq held[r].msgs \cup raced
    /\ \A r \in Requests : run[r] \in {"open", "saved"} /\ kind[r] \in Messages => r \in held[r].msgs

\* CopiesKeep is inductive: one run has a copy, taken from the thread, and a
\* command that reads or waits while it stores makes it a race.
LEMMA CopiesInvariant == Spec => []CopiesKeep
<1> USE ChannelsAssumption
<1>1. Init => CopiesKeep
  BY DEF Init, CopiesKeep, Stored, Updating, Blank, Commands, Messages, Live, InChat
<1>2. TypeOK /\ Control /\ CopiesKeep /\ [Next]_vars => CopiesKeep'
  <2> SUFFICES ASSUME TypeOK, Control, CopiesKeep, [Next]_vars PROVE CopiesKeep'
    OBVIOUS
  <2> USE DEF TypeOK, Control, SlotIsLive, Placed, Blank, Modes, Commands, Messages,
              Answers, Live, Over, Goes, InChat, chatVars, seenVars, CopiesKeep, Stored,
              Updating
  <2>0. CASE UNCHANGED vars
    BY <2>0 DEF vars
  <2>1. ASSUME NEW r \in Requests, MessageArrives(r) PROVE CopiesKeep'
    BY <2>1 DEF MessageArrives, Arrives
  <2>2. ASSUME NEW r \in Requests, AutoArrives(r) PROVE CopiesKeep'
    BY <2>2 DEF AutoArrives, Arrives
  <2>3. ASSUME NEW r \in Requests, ButtonPressed(r) PROVE CopiesKeep'
    BY <2>3 DEF ButtonPressed, Arrives
  <2>4. ASSUME NEW r \in Requests, ApprovalPosted(r) PROVE CopiesKeep'
    BY <2>4 DEF ApprovalPosted, Arrives
  <2>5. ASSUME NEW r \in Requests, CommandArrives(r) PROVE CopiesKeep'
    BY <2>5 DEF CommandArrives, Arrives
  <2>6. ASSUME NEW r \in Requests, LooksUpMode(r) PROVE CopiesKeep'
    BY <2>6 DEF LooksUpMode, ModeFor
  <2>7. ASSUME NEW r \in Requests, DeletesButton(r) PROVE CopiesKeep'
    BY <2>7 DEF DeletesButton
  <2>8. ASSUME NEW r \in Requests, ChecksPending(r) PROVE CopiesKeep'
    BY <2>8 DEF ChecksPending
  <2>9. ASSUME NEW r \in Requests, Starts(r) PROVE CopiesKeep'
    BY <2>9 DEF Starts
  <2>10. ASSUME NEW r \in Requests, Supersedes(r) PROVE CopiesKeep'
    BY <2>10 DEF Supersedes
  <2>11. ASSUME NEW r \in Requests, Barges(r) PROVE CopiesKeep'
    BY <2>11 DEF Barges
  <2>12. ASSUME NEW r \in Requests, Loads(r) PROVE CopiesKeep'
    BY <2>12 DEF Loads, Entered
  <2>13. ASSUME NEW r \in Requests, Saves(r) PROVE CopiesKeep'
    BY <2>13 DEF Saves, Stores
  <2>14. ASSUME NEW r \in Requests, RunAnswers(r) PROVE CopiesKeep'
    BY <2>14 DEF RunAnswers, Stores, RunEnds
  <2>15. ASSUME NEW r \in Requests, RunAsks(r) PROVE CopiesKeep'
    BY <2>15 DEF RunAsks, RunEnds
  <2>16. ASSUME NEW r \in Requests, RunFails(r) PROVE CopiesKeep'
    <3>1. /\ thread'.mode = thread.mode /\ thread'.asks = thread.asks
          /\ thread'.msgs = thread.msgs
      BY <2>16, ReleasingOnlyReleases DEF RunFails
    <3> QED
      BY <2>16, <3>1 DEF RunFails, RunEnds
  <2>17. ASSUME NEW r \in Requests, RunIsCut(r) PROVE CopiesKeep'
    <3>1. /\ thread'.mode = thread.mode /\ thread'.asks = thread.asks
          /\ thread'.msgs = thread.msgs
      BY <2>17, ReleasingOnlyReleases DEF RunIsCut
    <3> QED
      BY <2>17, <3>1 DEF RunIsCut, RunEnds
  <2>18. ASSUME NEW r \in Requests, Shows(r) PROVE CopiesKeep'
    BY <2>18 DEF Shows
  <2>19. ASSUME NEW r \in Requests, ReadsAll(r) PROVE CopiesKeep'
    BY <2>19 DEF ReadsAll
  <2>20. ASSUME NEW r \in Requests, Erases(r) PROVE CopiesKeep'
    BY <2>20 DEF Erases
  <2>21. ASSUME NEW r \in Requests, SendsFinal(r) PROVE CopiesKeep'
    BY <2>21 DEF SendsFinal
  <2>22. ASSUME NEW r \in Requests, SendsQuestion(r) PROVE CopiesKeep'
    BY <2>22 DEF SendsQuestion
  <2>23. ASSUME NEW r \in Requests, Responds(r) PROVE CopiesKeep'
    BY <2>23 DEF Responds, Body
  <2>24. ASSUME NEW r \in Requests, Reports(r) PROVE CopiesKeep'
    BY <2>24 DEF Reports
  <2>25. ASSUME NEW r \in Requests, ReadsMode(r) PROVE CopiesKeep'
    BY <2>25 DEF ReadsMode, ModeRead
  <2>26. ASSUME NEW r \in Requests, ReadsToCompact(r) PROVE CopiesKeep'
    BY <2>26 DEF ReadsToCompact
  <2>27. ASSUME NEW r \in Requests, ReadsToUpdate(r) PROVE CopiesKeep'
    BY <2>27 DEF ReadsToUpdate, Updated
  <2>28. ASSUME NEW r \in Requests, Writes(r) PROVE CopiesKeep'
    BY <2>28 DEF Writes
  <2>29. ASSUME NEW r \in Requests, RunIsInterrupted(r) PROVE CopiesKeep'
    <3>1. /\ run[r] = "saved" /\ held[r].mode = "manual"
          /\ UNCHANGED <<kind, target, wish, pc, chatVars, pinned, raced>>
          /\ run' = [run EXCEPT ![r] = "asking"]
      BY <2>29, InterruptOnlyAsks
    <3>2. held' = [held EXCEPT ![r] = Blank] /\ (thread'.asks = r \/ thread' = thread)
      BY <2>29, InterruptOnlyAsks
    <3>3. thread'.mode = thread.mode /\ thread'.msgs = thread.msgs
      BY <2>29, InterruptOnlyAsks
    <3> QED
      BY <3>1, <3>2, <3>3
  <2>30. ASSUME NEW r \in Requests, Leaves(r) PROVE CopiesKeep'
    BY <2>30 DEF Leaves
  <2> QED
    BY <2>0, <2>1, <2>2, <2>3, <2>4, <2>5, <2>6, <2>7, <2>8, <2>9, <2>10, <2>11, <2>12,
       <2>13, <2>14, <2>15, <2>16, <2>17, <2>18, <2>19, <2>20, <2>21, <2>22, <2>23,
       <2>24, <2>25, <2>26, <2>27, <2>28, <2>29, <2>30
       DEF Next, Arrival, Handler, Execution
<1> QED
  BY <1>1, <1>2, ControlInvariant, PTL DEF Spec

\* A message that was answered stays in the conversation, itself or summarised,
\* unless a command was between its read and its write when it was stored.
THEOREM AnswersAreKept == Spec => []AnsweredKept
<1>1. CopiesKeep /\ TypeOK /\ Control => AnsweredKept
  BY ChannelsAssumption DEF CopiesKeep, Stored, Updating, AnsweredKept, AtRest, InChat,
         TypeOK
<1> QED
  BY <1>1, CopiesInvariant, ControlInvariant, PTL
=============================================================================
