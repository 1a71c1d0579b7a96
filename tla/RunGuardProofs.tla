--------------------------- MODULE RunGuardProofs ---------------------------
(***************************************************************************)
(* Theorems about RunGuard, for every set of requests and sessions.        *)
(***************************************************************************)
EXTENDS RunGuard, TLAPS

-----------------------------------------------------------------------------
(* Type correctness *)

\* Cancelling leaves a task that is over, or not created, alone, and never
\* turns a task that is not over into one that is.
LEMMA CancelledFacts ==
    ASSUME NEW t \in TaskStates
    PROVE  /\ Cancelled(t) \in TaskStates
           /\ t \in Over => Cancelled(t) = t
           /\ t = "none" => Cancelled(t) = t
           /\ t \in Live => Cancelled(t) \in Live
           /\ Cancelled(t) = "done" => t = "done"
           /\ Cancelled(t) = "failed" => t = "failed"
           /\ Cancelled(t) = "cancelled" => t = "cancelled"
  BY DEF Cancelled, TaskStates, Live, Over

\* Every reachable state of the guard has the declared types: the queue never
\* goes below empty, the table holds requests only.
THEOREM TypeCorrect == Spec => []TypeOK
<1>1. Init => TypeOK
  BY SessionOfAssumption DEF Init, TypeOK, TaskStates
<1>2. TypeOK /\ [Next]_vars => TypeOK'
  <2> SUFFICES ASSUME TypeOK, [Next]_vars PROVE TypeOK'
    OBVIOUS
  <2> USE SessionOfAssumption, NoRequestAssumption
  <2> USE DEF TypeOK, TaskStates, Live, Over, requestVars, taskVars, stopVars, drainVars
  <2>1. CASE UNCHANGED vars
    BY <2>1 DEF vars
  <2>2. ASSUME NEW r \in Requests, StartFree(r) PROVE TypeOK'
    BY <2>2 DEF StartFree, Register
  <2>3. ASSUME NEW r \in Requests, StartBargeIn(r) PROVE TypeOK'
    <3> DEFINE a == active[SessionOf[r]]
    <3>1. a \in Requests
      BY <2>3 DEF StartBargeIn
    <3>2. Cancelled(task[a]) \in TaskStates
      BY <3>1, CancelledFacts
    <3> QED
      BY <2>3, <3>1, <3>2 DEF StartBargeIn
  <2>4. ASSUME NEW r \in Requests, BargeIn(r) PROVE TypeOK'
    BY <2>4 DEF BargeIn, Register
  <2>5. ASSUME NEW r \in Requests, Relay(r) PROVE TypeOK'
    BY <2>5 DEF Relay
  <2>6. ASSUME NEW r \in Requests, RelayEnd(r) PROVE TypeOK'
    BY <2>6 DEF RelayEnd, Unregister
  <2>7. ASSUME NEW r \in Requests, RelayCancelled(r) PROVE TypeOK'
    BY <2>7 DEF RelayCancelled
  <2>8. ASSUME NEW r \in Requests, Abandon(r) PROVE TypeOK'
    <3>1. Cancelled(task[r]) \in TaskStates
      BY CancelledFacts
    <3> QED
      BY <2>8, <3>1 DEF Abandon
  <2>9. ASSUME NEW r \in Requests, Close(r) PROVE TypeOK'
    BY <2>9 DEF Close, Unregister
  <2>10. ASSUME NEW r \in Requests, Launch(r) PROVE TypeOK'
    BY <2>10 DEF Launch
  <2>11. ASSUME NEW r \in Requests, Emit(r) PROVE TypeOK'
    BY <2>11 DEF Emit
  <2>12. ASSUME NEW r \in Requests, Finish(r) PROVE TypeOK'
    BY <2>12 DEF Finish
  <2>13. ASSUME NEW r \in Requests, Fail(r) PROVE TypeOK'
    BY <2>13 DEF Fail
  <2>14. ASSUME NEW r \in Requests, EndCancelled(r) PROVE TypeOK'
    BY <2>14 DEF EndCancelled
  <2>15. ASSUME NEW r \in Requests, EndStillborn(r) PROVE TypeOK'
    BY <2>15 DEF EndStillborn
  <2>16. CASE StopBegin
    BY <2>16 DEF StopBegin
  <2>17. ASSUME NEW r \in Requests, StopNext(r) PROVE TypeOK'
    <3>1. Cancelled(task[r]) \in TaskStates
      BY CancelledFacts
    <3> QED
      BY <2>17, <3>1 DEF StopNext
  <2>18. CASE StopResume
    BY <2>18 DEF StopResume
  <2>19. CASE StopEnd
    BY <2>19 DEF StopEnd
  <2>20. CASE StopDone
    BY <2>20 DEF StopDone
  <2> QED
    BY <2>1, <2>2, <2>3, <2>4, <2>5, <2>6, <2>7, <2>8, <2>9, <2>10, <2>11,
       <2>12, <2>13, <2>14, <2>15, <2>16, <2>17, <2>18, <2>19, <2>20
       DEF Next, Start, Consume, EndRun, Unwind, Stop, StopStep
<1> QED
  BY <1>1, <1>2, PTL DEF Spec

-----------------------------------------------------------------------------
(* Safety *)

\* A generator that has not registered has no task; one that has, has one.
Begun ==
    \A r \in Requests : task[r] = "none" <=> pc[r] \in {"idle", "barging"}

\* The sentinel is behind the events of a task that is over, and the verdict
\* a stream gave is about a task that was over when it was given.
Outcome ==
    \A r \in Requests :
        /\ sentinel[r] => IsOver(r)
        /\ finished[r] <=> task[r] = "done"
        /\ verdict[r] = "raised" => task[r] = "failed"

\* What shutdown() has passed is over, except the task it is waiting for.
DrainProgress ==
    /\ \A r \in drain : task[r] # "none"
    /\ \A r \in drained : IsOver(r) \/ drainOn = r
    /\ service = "up" => drained = {} /\ drainOn = NoRequest
    /\ service \in {"closing", "closed"} => drained = drain /\ drainOn = NoRequest

Safe ==
    /\ TypeOK
    /\ Begun
    /\ RegistryOwned
    /\ NoOrphanTask
    /\ Outcome
    /\ VerdictTruthful
    /\ DrainProgress

\* Safe is inductive: the table, the tasks and the verdicts agree whatever
\* the order in which requests start, barge in, end and are shut down.
LEMMA SafeInvariant == Spec => []Safe
<1>1. Init => Safe
  BY SessionOfAssumption DEF Init, Safe, TypeOK, TaskStates, Begun, RegistryOwned,
     NoOrphanTask, Outcome, VerdictTruthful, DrainProgress, IsLive, IsOver, Live, Over
<1>2. Safe /\ TypeOK' /\ [Next]_vars => Safe'
  <2> SUFFICES ASSUME Safe, TypeOK', [Next]_vars PROVE Safe'
    OBVIOUS
  <2> USE SessionOfAssumption, NoRequestAssumption
  <2> USE DEF Safe, TypeOK, Begun, RegistryOwned, NoOrphanTask, Outcome,
              VerdictTruthful, DrainProgress, IsLive, IsOver, TaskStates,
              Live, Over, requestVars, taskVars, stopVars, drainVars
  <2>1. CASE UNCHANGED vars
    BY <2>1 DEF vars
  <2>2. ASSUME NEW r \in Requests, StartFree(r) PROVE Safe'
    BY <2>2 DEF StartFree, Register
  <2>3. ASSUME NEW r \in Requests, StartBargeIn(r) PROVE Safe'
    <3> DEFINE a == active[SessionOf[r]]
    <3>1. a \in Requests
      BY <2>3 DEF StartBargeIn
    <3>2. task[a] \in TaskStates
      BY <3>1
    <3> HIDE DEF a
    <3> QED
      BY <2>3, <3>1, <3>2, CancelledFacts DEF StartBargeIn, a
  <2>4. ASSUME NEW r \in Requests, BargeIn(r) PROVE Safe'
    BY <2>4 DEF BargeIn, Register
  <2>5. ASSUME NEW r \in Requests, Relay(r) PROVE Safe'
    BY <2>5 DEF Relay
  <2>6. ASSUME NEW r \in Requests, RelayEnd(r) PROVE Safe'
    BY <2>6 DEF RelayEnd, Unregister
  <2>7. ASSUME NEW r \in Requests, RelayCancelled(r) PROVE Safe'
    BY <2>7 DEF RelayCancelled
  <2>8. ASSUME NEW r \in Requests, Abandon(r) PROVE Safe'
    <3>1. task[r] \in TaskStates
      OBVIOUS
    <3> QED
      BY <2>8, <3>1, CancelledFacts DEF Abandon
  <2>9. ASSUME NEW r \in Requests, Close(r) PROVE Safe'
    BY <2>9 DEF Close, Unregister
  <2>10. ASSUME NEW r \in Requests, Launch(r) PROVE Safe'
    BY <2>10 DEF Launch
  <2>11. ASSUME NEW r \in Requests, Emit(r) PROVE Safe'
    BY <2>11 DEF Emit
  <2>12. ASSUME NEW r \in Requests, Finish(r) PROVE Safe'
    BY <2>12 DEF Finish
  <2>13. ASSUME NEW r \in Requests, Fail(r) PROVE Safe'
    BY <2>13 DEF Fail
  <2>14. ASSUME NEW r \in Requests, EndCancelled(r) PROVE Safe'
    BY <2>14 DEF EndCancelled
  <2>15. ASSUME NEW r \in Requests, EndStillborn(r) PROVE Safe'
    BY <2>15 DEF EndStillborn
  <2>16. CASE StopBegin
    BY <2>16 DEF StopBegin
  <2>17. ASSUME NEW r \in Requests, StopNext(r) PROVE Safe'
    <3>1. task[r] \in TaskStates
      OBVIOUS
    <3> QED
      BY <2>17, <3>1, CancelledFacts DEF StopNext
  <2>18. CASE StopResume
    BY <2>18 DEF StopResume
  <2>19. CASE StopEnd
    BY <2>19 DEF StopEnd
  <2>20. CASE StopDone
    BY <2>20 DEF StopDone
  <2> QED
    BY <2>1, <2>2, <2>3, <2>4, <2>5, <2>6, <2>7, <2>8, <2>9, <2>10,
       <2>11, <2>12, <2>13, <2>14, <2>15, <2>16, <2>17, <2>18, <2>19, <2>20
       DEF Next, Start, Consume, EndRun, Unwind, Stop, StopStep
<1> QED
  BY <1>1, <1>2, TypeCorrect, PTL DEF Spec

\* The table never leaks an entry, holds one for another session, or loses
\* the entry of a run to the finally clause of the run it superseded.
THEOREM RegistryIsOwned == Spec => []RegistryOwned
  BY SafeInvariant, PTL DEF Safe

\* A stream that has ended, whichever way, has left no graph task running.
THEOREM NoTaskOrphaned == Spec => []NoOrphanTask
  BY SafeInvariant, PTL DEF Safe

\* The verdict a stream gives is what happened to its run.
THEOREM VerdictsAreTrue == Spec => []VerdictTruthful
  BY SafeInvariant, PTL DEF Safe

\* When shutdown() closes the database every run it found is over.
THEOREM ShutdownDrains == Spec => []ShutdownDrained
<1>1. Safe => ShutdownDrained
  BY NoRequestAssumption
     DEF Safe, TypeOK, DrainProgress, ShutdownDrained, IsLive, IsOver, Live, Over
<1> QED
  BY <1>1, SafeInvariant, PTL

-----------------------------------------------------------------------------
(* One run per session *)

\* Until shutdown() the table shows every run that is alive: a run that is not in
\* the table cannot be cancelled by the next request.
LiveRegistered ==
    service = "up" =>
        \A r \in Requests : IsLive(r) => active[SessionOf[r]] = r

\* Who waits for a victim is alone in its session, and only the victim can be
\* alive there: whatever it registers is then the only run.
BargesAlone ==
    \A r \in Requests : pc[r] = "barging" =>
        \A q \in Requests : SessionOf[q] = SessionOf[r] =>
            /\ IsLive(q) => q = victim[r]
            /\ pc[q] = "barging" => q = r

Serial ==
    /\ TypeOK
    /\ Begun
    /\ RegistryOwned
    /\ LiveRegistered
    /\ BargesAlone
    /\ OneRunPerSession

\* When the requests of a session start one at a time, Serial is inductive.
LEMMA SerialInvariant == SerialSpec => []Serial
<1>1. Init => Serial
  BY SessionOfAssumption DEF Init, Serial, TypeOK, TaskStates, Begun,
     RegistryOwned, LiveRegistered, BargesAlone, OneRunPerSession, IsLive, Live
<1>2. SerialSpec => []Safe
  <2>1. [SerialNext]_vars => [Next]_vars
    BY DEF SerialNext
  <2> QED
    BY <2>1, SafeInvariant, PTL DEF Spec, SerialSpec
<1>3. Serial /\ Safe' /\ [SerialNext]_vars => Serial'
  <2> SUFFICES ASSUME Serial, TypeOK', Begun', RegistryOwned',
                      NoOrphanTask', [SerialNext]_vars
               PROVE  Serial'
    BY DEF Safe
  <2> USE SessionOfAssumption, NoRequestAssumption
  <2> USE DEF Serial, TypeOK, Begun, RegistryOwned, LiveRegistered, BargesAlone,
              OneRunPerSession, NoOrphanTask, IsLive, IsOver, TaskStates,
              Live, Over,
              requestVars, taskVars, stopVars, drainVars
  <2>1. CASE UNCHANGED vars
    BY <2>1 DEF vars
  <2>2. ASSUME NEW r \in Requests, StartFree(r), StartsAlone PROVE Serial'
    BY <2>2 DEF StartFree, Register, StartsAlone
  <2>3. ASSUME NEW r \in Requests, StartBargeIn(r), StartsAlone PROVE Serial'
    <3> DEFINE a == active[SessionOf[r]]
    <3>1. a \in Requests
      BY <2>3 DEF StartBargeIn
    <3>2. task[a] \in TaskStates
      BY <3>1
    <3> HIDE DEF a
    <3> QED
      BY <2>3, <3>1, <3>2, CancelledFacts DEF StartBargeIn, StartsAlone, a
  <2>4. ASSUME NEW r \in Requests, BargeIn(r) PROVE Serial'
    BY <2>4 DEF BargeIn, Register
  <2>5. ASSUME NEW r \in Requests, Relay(r) PROVE Serial'
    BY <2>5 DEF Relay
  <2>6. ASSUME NEW r \in Requests, RelayEnd(r) PROVE Serial'
    BY <2>6 DEF RelayEnd, Unregister
  <2>7. ASSUME NEW r \in Requests, RelayCancelled(r) PROVE Serial'
    BY <2>7 DEF RelayCancelled
  <2>8. ASSUME NEW r \in Requests, Abandon(r) PROVE Serial'
    <3>1. task[r] \in TaskStates
      OBVIOUS
    <3> QED
      BY <2>8, <3>1, CancelledFacts DEF Abandon
  <2>9. ASSUME NEW r \in Requests, Close(r) PROVE Serial'
    BY <2>9 DEF Close, Unregister
  <2>10. ASSUME NEW r \in Requests, Launch(r) PROVE Serial'
    BY <2>10 DEF Launch
  <2>11. ASSUME NEW r \in Requests, Emit(r) PROVE Serial'
    BY <2>11 DEF Emit
  <2>12. ASSUME NEW r \in Requests, Finish(r) PROVE Serial'
    BY <2>12 DEF Finish
  <2>13. ASSUME NEW r \in Requests, Fail(r) PROVE Serial'
    BY <2>13 DEF Fail
  <2>14. ASSUME NEW r \in Requests, EndCancelled(r) PROVE Serial'
    BY <2>14 DEF EndCancelled
  <2>15. ASSUME NEW r \in Requests, EndStillborn(r) PROVE Serial'
    BY <2>15 DEF EndStillborn
  <2>16. CASE StopBegin
    BY <2>16 DEF StopBegin
  <2>17. ASSUME NEW r \in Requests, StopNext(r) PROVE Serial'
    <3>1. task[r] \in TaskStates
      OBVIOUS
    <3> QED
      BY <2>17, <3>1, CancelledFacts DEF StopNext
  <2>18. CASE StopResume
    BY <2>18 DEF StopResume
  <2>19. CASE StopEnd
    BY <2>19 DEF StopEnd
  <2>20. CASE StopDone
    BY <2>20 DEF StopDone
  <2> QED
    BY <2>1, <2>2, <2>3, <2>4, <2>5, <2>6, <2>7, <2>8, <2>9, <2>10,
       <2>11, <2>12, <2>13, <2>14, <2>15, <2>16, <2>17, <2>18, <2>19, <2>20
       DEF SerialNext, Next, Start, Consume, EndRun, Unwind, Stop, StopStep
<1> QED
  BY <1>1, <1>2, <1>3, PTL DEF SerialSpec

\* The docstring of _guard_stream holds for any number of requests as long as
\* no request of a session starts while another waits for a run to be cancelled,
\* or, once shutdown() has begun, before the earlier ones are over.
THEOREM OneRunWhenSerial == SerialSpec => []OneRunPerSession
  BY SerialInvariant, PTL DEF Serial

-----------------------------------------------------------------------------
(* Refinement *)

\* A task begins to be live by the step of its own request that creates it, and
\* ceases by a step that ends it; every other step leaves the slots alone.
LEMMA StepTakesTurns ==
    ASSUME Serial, OneRunPerSession', [SerialNext]_vars
    PROVE  [Slot!Next]_(Slot!vars)
  <1> USE SessionOfAssumption, NoRequestAssumption
  <1> DEFINE running == {r \in Requests : IsLive(r)}
             served == {r \in Requests : task[r] # "none"}
  <1> USE DEF Slot!Next, Slot!Take, Slot!Leave, Slot!vars
  <1> USE DEF Serial, TypeOK, Begun, IsLive, IsOver, TaskStates, Live, Over,
              requestVars, taskVars, stopVars, drainVars
  <1>1. ASSUME NEW r \in Requests, task[r] = "none", task' = [task EXCEPT ![r] = "new"]
        PROVE  Slot!Take(r)
    BY <1>1 DEF OneRunPerSession
  <1>2. ASSUME NEW r \in Requests, NEW t \in Over,
               IsLive(r), task' = [task EXCEPT ![r] = t]
        PROVE  Slot!Leave(r)
    BY <1>2
  <1>3. ASSUME NEW r \in Requests, task' = [task EXCEPT ![r] = Cancelled(@)]
        PROVE  UNCHANGED Slot!vars
    <2>1. task[r] \in TaskStates
      OBVIOUS
    <2> QED
      BY <1>3, <2>1, CancelledFacts
  <1>4. ASSUME UNCHANGED task PROVE UNCHANGED Slot!vars
    BY <1>4
  <1>5. CASE UNCHANGED vars
    BY <1>4, <1>5 DEF vars
  <1>6. ASSUME NEW r \in Requests, StartFree(r) \/ BargeIn(r) PROVE Slot!Take(r)
    BY <1>6, <1>1 DEF StartFree, BargeIn, Register
  <1>7. ASSUME NEW r \in Requests, StartBargeIn(r) PROVE UNCHANGED Slot!vars
    BY <1>7, <1>3 DEF StartBargeIn
  <1>8. ASSUME NEW r \in Requests, Consume(r) \/ Close(r) \/ Emit(r)
        PROVE UNCHANGED Slot!vars
    BY <1>8, <1>4 DEF Consume, Relay, RelayEnd, RelayCancelled, Close, Emit
  <1>9. ASSUME NEW r \in Requests, Abandon(r) PROVE UNCHANGED Slot!vars
    BY <1>9, <1>3 DEF Abandon
  <1>10. ASSUME NEW r \in Requests, Launch(r) PROVE Slot!Leave(r) \/ UNCHANGED Slot!vars
    <2>1. CASE task' = [task EXCEPT ![r] = "failed"]
      BY <1>10, <1>2, <2>1 DEF Launch
    <2>2. CASE task' = [task EXCEPT ![r] = "running"]
      BY <1>10, <2>2 DEF Launch
    <2> QED
      BY <1>10, <2>1, <2>2 DEF Launch
  <1>11. ASSUME NEW r \in Requests, EndRun(r) \/ Unwind(r) PROVE Slot!Leave(r)
    BY <1>11, <1>2 DEF EndRun, Finish, Fail, Unwind, EndCancelled, EndStillborn
  <1>12. CASE Stop
    BY <1>12, <1>3, <1>4 DEF Stop, StopStep, StopBegin, StopNext, StopResume, StopEnd, StopDone
  <1> QED
    BY <1>5, <1>6, <1>7, <1>8, <1>9, <1>10, <1>11, <1>12 DEF SerialNext, Next, Start

\* With at most one waiting request per session the guard implements SessionSlot.
THEOREM SlotImplemented == SerialSpec => TakesTurns
<1>1. Init => Slot!Init
  BY DEF Init, Slot!Init, IsLive, Live
<1>2. Serial /\ Serial' /\ [SerialNext]_vars => [Slot!Next]_(Slot!vars)
  BY StepTakesTurns DEF Serial
<1> QED
  BY <1>1, <1>2, SerialInvariant, PTL DEF SerialSpec, TakesTurns, Slot!Spec

-----------------------------------------------------------------------------
(* Who cancels whom *)

\* A run is cancelled only from its own session, by its reader or by shutdown.
THEOREM CancelsHaveCause == Spec => CancelCause
<1>1. Safe /\ [Next]_vars => [CancelHasCause]_vars
  <2> SUFFICES ASSUME Safe, [Next]_vars PROVE CancelHasCause \/ UNCHANGED vars
    OBVIOUS
  <2> USE SessionOfAssumption, NoRequestAssumption
  <2> USE DEF Safe, TypeOK, Begun, RegistryOwned, CancelHasCause, IsOver,
              TaskStates, Live, Uncancelled, Over, requestVars, taskVars,
              stopVars, drainVars
  <2>1. ASSUME UNCHANGED vars PROVE UNCHANGED vars
    BY <2>1
  <2>2. ASSUME NEW r \in Requests, StartFree(r) PROVE CancelHasCause
    BY <2>2 DEF StartFree, Register
  <2>3. ASSUME NEW r \in Requests, StartBargeIn(r) PROVE CancelHasCause
    <3> DEFINE a == active[SessionOf[r]]
    <3>1. a \in Requests
      BY <2>3 DEF StartBargeIn
    <3>2. task[a] \in TaskStates
      BY <3>1
    <3> HIDE DEF a
    <3> QED
      BY <2>3, <3>1, <3>2, CancelledFacts DEF StartBargeIn, a
  <2>4. ASSUME NEW r \in Requests, BargeIn(r) PROVE CancelHasCause
    BY <2>4 DEF BargeIn, Register
  <2>5. ASSUME NEW r \in Requests, Relay(r) PROVE CancelHasCause
    BY <2>5 DEF Relay
  <2>6. ASSUME NEW r \in Requests, RelayEnd(r) PROVE CancelHasCause
    BY <2>6 DEF RelayEnd, Unregister
  <2>7. ASSUME NEW r \in Requests, RelayCancelled(r) PROVE CancelHasCause
    BY <2>7 DEF RelayCancelled
  <2>8. ASSUME NEW r \in Requests, Abandon(r) PROVE CancelHasCause
    <3>1. task[r] \in TaskStates
      OBVIOUS
    <3> QED
      BY <2>8, <3>1, CancelledFacts DEF Abandon
  <2>9. ASSUME NEW r \in Requests, Close(r) PROVE CancelHasCause
    BY <2>9 DEF Close, Unregister
  <2>10. ASSUME NEW r \in Requests, Launch(r) PROVE CancelHasCause
    BY <2>10 DEF Launch
  <2>11. ASSUME NEW r \in Requests, Emit(r) PROVE CancelHasCause
    BY <2>11 DEF Emit
  <2>12. ASSUME NEW r \in Requests, Finish(r) PROVE CancelHasCause
    BY <2>12 DEF Finish
  <2>13. ASSUME NEW r \in Requests, Fail(r) PROVE CancelHasCause
    BY <2>13 DEF Fail
  <2>14. ASSUME NEW r \in Requests, EndCancelled(r) PROVE CancelHasCause
    BY <2>14 DEF EndCancelled
  <2>15. ASSUME NEW r \in Requests, EndStillborn(r) PROVE CancelHasCause
    BY <2>15 DEF EndStillborn
  <2>16. CASE StopBegin
    BY <2>16 DEF StopBegin
  <2>17. ASSUME NEW r \in Requests, StopNext(r) PROVE CancelHasCause
    <3>1. task[r] \in TaskStates
      OBVIOUS
    <3> QED
      BY <2>17, <3>1, CancelledFacts DEF StopNext
  <2>18. CASE StopResume
    BY <2>18 DEF StopResume
  <2>19. CASE StopEnd
    BY <2>19 DEF StopEnd
  <2>20. CASE StopDone
    BY <2>20 DEF StopDone
  <2> QED
    BY <2>1, <2>2, <2>3, <2>4, <2>5, <2>6, <2>7, <2>8, <2>9, <2>10,
       <2>11, <2>12, <2>13, <2>14, <2>15, <2>16, <2>17, <2>18, <2>19, <2>20
       DEF Next, Start, Consume, EndRun, Unwind, Stop, StopStep
<1> QED
  BY <1>1, SafeInvariant, PTL DEF Spec, CancelCause

=============================================================================
