--------------------------- MODULE SessionsProofs ---------------------------
(***************************************************************************)
(* Theorems about Sessions, for every set of callers and every bound.      *)
(***************************************************************************)
EXTENDS Sessions, TLAPS

-----------------------------------------------------------------------------
(* Type correctness *)

\* The head of a queue and what is left behind it.
LEMMA HeadAndTail ==
    ASSUME NEW S, NEW q \in Seq(S), q # <<>>
    PROVE  /\ Head(q) = q[1] /\ 1 \in 1..Len(q) /\ q[1] \in S
           /\ Tail(q) \in Seq(S)
           /\ \A i \in 1..Len(Tail(q)) : /\ i + 1 \in 1..Len(q)
                                         /\ 1 < i + 1
                                         /\ Tail(q)[i] = q[i + 1]
  OBVIOUS

\* Every reachable state of the session manager has the declared types.
THEOREM TypeCorrect == SessionSpec => []SessionTypeOK
<1> USE MaxGenerationAssumption, MaxRestartsAssumption
<1>1. SessionInit => SessionTypeOK
  <2> SUFFICES ASSUME SessionInit PROVE SessionTypeOK
    OBVIOUS
  <2> USE DEF SessionInit
  <2>1. purges \in Seq(Callers)
    OBVIOUS
  <2>2. session \in 0..MaxGeneration /\ restarts \in 0..MaxRestarts
    OBVIOUS
  <2>3. previous \in [Callers -> 0..(MaxGeneration - 1)]
    OBVIOUS
  <2>4. thread \in [Callers -> 0..MaxGeneration]
    OBVIOUS
  <2>5. store \in [Generations -> SUBSET Callers]
    OBVIOUS
  <2>6. /\ stage \in [Callers -> {"idle", "purging", "loading", "barging", "done"} \cup Runs]
        /\ \A c \in Callers : stage[c] \notin {"loading", "barging"} \cup Runs
    BY DEF Runs
  <2>7. /\ stale \in BOOLEAN
        /\ asks \in [Callers -> {"none", "message", "new"}]
        /\ past \in [Callers -> SUBSET Callers] /\ held \in [Callers -> SUBSET Callers]
        /\ awaits \in [Callers -> SUBSET Callers]
        /\ table \subseteq Callers /\ raced \subseteq Generations
    OBVIOUS
  <2> HIDE DEF SessionInit
  <2> QED
    BY <2>1, <2>2, <2>3, <2>4, <2>5, <2>6, <2>7 DEF SessionTypeOK
<1>2. SessionTypeOK /\ [SessionNext]_sessionVars => SessionTypeOK'
  <2> SUFFICES ASSUME SessionTypeOK, [SessionNext]_sessionVars PROVE SessionTypeOK'
    OBVIOUS
  <2> USE DEF SessionTypeOK, callVars, guardVars, Runs
  <2>1. CASE UNCHANGED sessionVars
    BY <2>1 DEF sessionVars
  <2>2. ASSUME NEW c \in Callers, NEW kind \in {"message", "new"},
               BeginReset(c, kind)
        PROVE  SessionTypeOK'
    <3>1. purges' \in Seq(Callers)
      BY <2>2 DEF BeginReset
    <3>2. previous' \in [Callers -> 0..(MaxGeneration - 1)]
      BY <2>2 DEF BeginReset
    <3> QED
      BY <2>2, <3>1, <3>2 DEF BeginReset, Placed
  <2>3. ASSUME NEW c \in Callers, MessageCurrent(c) PROVE SessionTypeOK'
    <3>1. session' \in 1..MaxGeneration
      BY <2>3 DEF MessageCurrent
    <3>2. thread' = [thread EXCEPT ![c] = session']
      BY <2>3 DEF MessageCurrent
    <3>3. thread' \in [Callers -> 0..MaxGeneration] /\ session' \in 0..MaxGeneration
      BY <3>1, <3>2
    <3>4. \A d \in Callers :
             stage'[d] \in {"loading", "barging"} \cup Runs => thread'[d] # 0
      BY <2>3, <3>1, <3>2 DEF MessageCurrent
    <3> QED
      BY <2>3, <3>3, <3>4 DEF MessageCurrent
  <2>4. CASE Purge
    <3> DEFINE c == Head(purges)
    <3>1. c \in Callers /\ purges' \in Seq(Callers)
      BY <2>4, HeadAndTail DEF Purge
    <3>2. EndReset(c)
      BY <2>4 DEF Purge
    <3> HIDE DEF c
    <3>3. session' \in 1..MaxGeneration
      BY <3>1, <3>2 DEF EndReset
    <3>4. thread' = [thread EXCEPT ![c] = session']
      BY <3>2 DEF EndReset
    <3>5. store' \in [Generations -> SUBSET Callers]
      BY <3>2 DEF EndReset
    <3>6. /\ stage' \in [Callers -> {"idle", "purging", "loading", "barging", "done"}
                                      \cup Runs]
          /\ \A d \in Callers \ {c} : stage'[d] = stage[d]
      BY <3>1, <3>2 DEF EndReset
    <3>7. UNCHANGED <<asks, previous, past, held, guardVars, restarts>> /\ stale' = FALSE
      BY <3>2 DEF EndReset
    <3>8. thread' \in [Callers -> 0..MaxGeneration] /\ session' \in 0..MaxGeneration
      BY <3>1, <3>3, <3>4
    <3>9. \A d \in Callers :
             stage'[d] \in {"loading", "barging"} \cup Runs => thread'[d] # 0
      BY <3>1, <3>3, <3>4, <3>6
    <3> QED
      BY <3>1, <3>5, <3>6, <3>7, <3>8, <3>9
  <2>5. ASSUME NEW c \in Callers, Begin(c) PROVE SessionTypeOK'
    <3>1. stage[c] = "loading" /\ thread[c] \in Generations
      BY <2>5 DEF Begin, Arrives, Generations
    <3>2. raced' \subseteq Generations
      BY <2>5, <3>1 DEF Begin, Arrives
    <3>3. table' \subseteq Callers /\ stage' = [stage EXCEPT ![c] = "started"]
      BY <2>5 DEF Begin, Register
    <3> QED
      BY <2>5, <3>1, <3>2, <3>3 DEF Begin, Generations
  <2>6. ASSUME NEW c \in Callers, BargeIn(c) PROVE SessionTypeOK'
    <3>1. stage[c] = "loading" /\ thread[c] \in Generations
      BY <2>6 DEF BargeIn, Arrives, Generations
    <3>7. raced' \subseteq Generations
      BY <2>6, <3>1 DEF BargeIn, Arrives
    <3>2. InFlight(thread[c]) \subseteq {d \in Callers : stage[d] \in Runs}
      BY DEF InFlight, OnThread
    <3>3. /\ awaits' = [awaits EXCEPT ![c] = InFlight(thread[c])]
          /\ stage' = [d \in Callers |-> IF d = c THEN "barging"
                                       ELSE IF d \in awaits'[c] THEN "cancelling"
                                       ELSE stage[d]]
      BY <2>6 DEF BargeIn
    <3>4. awaits' \in [Callers -> SUBSET Callers]
      BY <3>2, <3>3
    <3>5. awaits'[c] = InFlight(thread[c])
      BY <3>3
    <3>6. \A d \in Callers : stage'[d] \in {"loading", "barging"} \cup Runs =>
             thread[d] # 0
      BY <3>1, <3>2, <3>3, <3>5
    <3> QED
      BY <2>6, <3>1, <3>3, <3>4, <3>6, <3>7 DEF BargeIn
  <2>9. ASSUME NEW c \in Callers, Resume(c) PROVE SessionTypeOK'
    BY <2>9 DEF Resume, Register
  <2>10. ASSUME NEW c \in Callers, Load(c) PROVE SessionTypeOK'
    <3>1. thread[c] \in Generations
      BY <2>10 DEF Load, Generations
    <3>2. held' \in [Callers -> SUBSET Callers]
      BY <2>10, <3>1 DEF Load
    <3> QED
      BY <2>10, <3>2 DEF Load
  <2>11. ASSUME NEW c \in Callers, Checkpoint(c) PROVE SessionTypeOK'
    BY <2>11 DEF Checkpoint
  <2>12. ASSUME NEW c \in Callers, End(c) PROVE SessionTypeOK'
    BY <2>12 DEF End
  <2>7. CASE Idle
    BY <2>7 DEF Idle
  <2>8. CASE Restart
    <3>1. purges' \in Seq(Callers)
      BY <2>8 DEF Restart
    <3>2. session' \in 0..MaxGeneration /\ restarts' \in 0..MaxRestarts
      BY <2>8 DEF Restart
    <3>3. stage' \in [Callers -> {"idle", "done"}]
      BY <2>8 DEF Restart
    <3> QED
      BY <2>8, <3>1, <3>2, <3>3 DEF Restart
  <2> QED
    BY <2>1, <2>2, <2>3, <2>4, <2>5, <2>6, <2>7, <2>8, <2>9, <2>10, <2>11, <2>12
       DEF SessionNext, New, MessageExpired
<1> QED
  BY <1>1, <1>2, PTL DEF SessionSpec

-----------------------------------------------------------------------------
(* The generation never goes back *)

\* The resets in the store's queue are in the order of the generations they
\* captured, and none of these is more than one behind the session.
QueueSorted ==
    /\ \A i \in 1..Len(purges) :
          /\ stage[purges[i]] = "purging"
          /\ previous[purges[i]] <= session
          /\ session <= previous[purges[i]] + 1
    /\ \A i, j \in 1..Len(purges) :
          i < j => /\ purges[i] # purges[j]
                   /\ previous[purges[i]] <= previous[purges[j]]

\* A step of a message past the session manager: the guard and the run.
GuardStep(c) ==
    Begin(c) \/ BargeIn(c) \/ Resume(c) \/ Load(c) \/ Checkpoint(c) \/ End(c)

\* The order of the queue is inductive: a reset captures the generation of
\* the moment it joins, and those before it move the session by one at most.
LEMMA QueueInvariant == SessionSpec => []QueueSorted
<1>1. SessionInit => QueueSorted
  BY DEF SessionInit, QueueSorted
<1>2. SessionTypeOK /\ QueueSorted /\ [SessionNext]_sessionVars => QueueSorted'
  <2> SUFFICES ASSUME SessionTypeOK, QueueSorted, [SessionNext]_sessionVars PROVE QueueSorted'
    OBVIOUS
  <2> USE DEF SessionTypeOK, QueueSorted, callVars
  <2>1. CASE UNCHANGED sessionVars
    BY <2>1 DEF sessionVars
  <2>2. ASSUME NEW c \in Callers, NEW kind \in {"message", "new"},
               BeginReset(c, kind)
        PROVE  QueueSorted'
    <3>1. /\ Len(purges') = Len(purges) + 1
          /\ purges'[Len(purges) + 1] = c
          /\ \A i \in 1..Len(purges) : purges'[i] = purges[i]
      BY <2>2 DEF BeginReset
    <3>2. \A i \in 1..Len(purges) : purges[i] \in Callers /\ purges[i] # c
      BY <2>2 DEF BeginReset
    <3>3. /\ previous' = [previous EXCEPT ![c] = session]
          /\ stage' = [stage EXCEPT ![c] = "purging"]
          /\ session' = session
      BY <2>2 DEF BeginReset
    <3>4. previous'[c] = session /\ stage'[c] = "purging" /\ session \in Nat
      BY <3>3
    <3>5. \A i \in 1..Len(purges) :
             /\ stage[purges[i]] = "purging"
             /\ previous[purges[i]] \in Nat
             /\ previous[purges[i]] <= session
             /\ session <= previous[purges[i]] + 1
      BY <3>2
    <3>6. \A i, j \in 1..Len(purges) :
             i < j => /\ purges[i] # purges[j]
                      /\ previous[purges[i]] <= previous[purges[j]]
      OBVIOUS
    <3>7. \A i \in 1..Len(purges) :
             /\ previous'[purges'[i]] = previous[purges[i]]
             /\ stage'[purges'[i]] = "purging"
      BY <3>1, <3>2, <3>3, <3>5
    <3>8. Len(purges) \in Nat
      OBVIOUS
    <3> HIDE DEF SessionTypeOK, QueueSorted
    <3>9. \A i \in 1..Len(purges') :
             /\ stage'[purges'[i]] = "purging"
             /\ previous'[purges'[i]] <= session'
             /\ session' <= previous'[purges'[i]] + 1
      <4> SUFFICES ASSUME NEW i \in 1..Len(purges')
                   PROVE  /\ stage'[purges'[i]] = "purging"
                          /\ previous'[purges'[i]] <= session'
                          /\ session' <= previous'[purges'[i]] + 1
        OBVIOUS
      <4>1. i \in 1..Len(purges) \/ purges'[i] = c
        BY <3>1, <3>8
      <4>2. CASE i \in 1..Len(purges)
        BY <3>3, <3>5, <3>7, <4>2
      <4>3. CASE purges'[i] = c
        BY <3>3, <3>4, <4>3
      <4> QED
        BY <4>1, <4>2, <4>3
    <3>10. \A i, j \in 1..Len(purges') :
             i < j => /\ purges'[i] # purges'[j]
                      /\ previous'[purges'[i]] <= previous'[purges'[j]]
      <4> SUFFICES ASSUME NEW i \in 1..Len(purges'), NEW j \in 1..Len(purges'),
                          i < j
                   PROVE  /\ purges'[i] # purges'[j]
                          /\ previous'[purges'[i]] <= previous'[purges'[j]]
        OBVIOUS
      <4>1. i \in 1..Len(purges) /\ (j \in 1..Len(purges) \/ purges'[j] = c)
        BY <3>1, <3>8
      <4>2. CASE j \in 1..Len(purges)
        BY <3>1, <3>6, <3>7, <4>1, <4>2
      <4>3. CASE purges'[j] = c
        BY <3>1, <3>2, <3>4, <3>5, <3>7, <4>1, <4>3
      <4> QED
        BY <4>1, <4>2, <4>3
    <3> QED
      BY <3>9, <3>10 DEF QueueSorted
  <2>3. ASSUME NEW c \in Callers, MessageCurrent(c) PROVE QueueSorted'
    BY <2>3 DEF MessageCurrent
  <2>4. CASE Purge
    <3> DEFINE c == Head(purges)
    <3>1. c = purges[1] /\ c \in Callers /\ 1 \in 1..Len(purges)
      BY <2>4, HeadAndTail DEF Purge
    <3>2. \A i \in 1..Len(purges') : /\ i + 1 \in 1..Len(purges)
                                     /\ 1 < i + 1
                                     /\ purges'[i] = purges[i + 1]
                                     /\ purges'[i] \in Callers
      BY <2>4, HeadAndTail DEF Purge
    <3>3. /\ session' = previous[c] + 1
          /\ \A d \in Callers \ {c} : stage'[d] = stage[d]
          /\ previous' = previous
      BY <2>4, <3>1 DEF Purge, EndReset
    <3> HIDE DEF c
    <3>4. \A i \in 1..Len(purges') :
             /\ purges'[i] # c
             /\ previous[c] <= previous[purges'[i]]
             /\ previous[purges'[i]] <= session
             /\ stage'[purges'[i]] = "purging"
      <4> SUFFICES ASSUME NEW i \in 1..Len(purges')
                   PROVE  /\ purges'[i] # c
                          /\ previous[c] <= previous[purges'[i]]
                          /\ previous[purges'[i]] <= session
                          /\ stage'[purges'[i]] = "purging"
        OBVIOUS
      <4> DEFINE k == i + 1
      <4>1. k \in 1..Len(purges) /\ 1 < k /\ purges'[i] = purges[k]
        BY <3>2
      <4> HIDE DEF k
      <4>2. /\ purges[1] # purges[k]
            /\ previous[purges[1]] <= previous[purges[k]]
            /\ previous[purges[k]] <= session
            /\ stage[purges[k]] = "purging"
        BY <3>1, <4>1
      <4>3. purges'[i] \in Callers
        BY <3>2
      <4> HIDE DEF SessionTypeOK, QueueSorted
      <4> QED
        BY <3>1, <3>3, <4>1, <4>2, <4>3
    <3>5. session <= previous[c] + 1
      BY <3>1
    <3>6. \A i \in 1..Len(purges') :
             /\ previous[purges'[i]] <= session'
             /\ session' <= previous[purges'[i]] + 1
      <4> SUFFICES ASSUME NEW i \in 1..Len(purges')
                   PROVE  /\ previous[purges'[i]] <= session'
                          /\ session' <= previous[purges'[i]] + 1
        OBVIOUS
      <4>1. previous[purges'[i]] \in Nat /\ previous[c] \in Nat /\ session \in Nat
        BY <3>1, <3>2
      <4> QED
        BY <3>3, <3>4, <3>5, <4>1
    <3>7. \A i, j \in 1..Len(purges') :
             i < j => /\ purges'[i] # purges'[j]
                      /\ previous[purges'[i]] <= previous[purges'[j]]
      <4> SUFFICES ASSUME NEW i \in 1..Len(purges'), NEW j \in 1..Len(purges'),
                          i < j
                   PROVE  /\ purges'[i] # purges'[j]
                          /\ previous[purges'[i]] <= previous[purges'[j]]
        OBVIOUS
      <4> DEFINE k == i + 1
                 l == j + 1
      <4>1. /\ k \in 1..Len(purges) /\ l \in 1..Len(purges) /\ k < l
            /\ purges'[i] = purges[k] /\ purges'[j] = purges[l]
        BY <3>2
      <4> HIDE DEF k, l
      <4> QED
        BY <4>1
    <3> QED
      BY <3>3, <3>4, <3>6, <3>7
  <2>5. ASSUME NEW c \in Callers, GuardStep(c) PROVE QueueSorted'
    <3>1. \A d \in Callers : stage[d] = "purging" => stage'[d] = "purging"
      BY <2>5 DEF GuardStep, Begin, BargeIn, Arrives, Resume, Register, Load,
         Checkpoint, End, InFlight, Runs
    <3>2. UNCHANGED <<session, previous, purges>>
      BY <2>5 DEF GuardStep, Begin, BargeIn, Resume, Load, Checkpoint, End
    <3>3. \A i \in 1..Len(purges) : purges[i] \in Callers
      OBVIOUS
    <3> QED
      BY <3>1, <3>2, <3>3
  <2>7. CASE Idle
    BY <2>7 DEF Idle
  <2>8. CASE Restart
    BY <2>8 DEF Restart
  <2> QED
    BY <2>1, <2>2, <2>3, <2>4, <2>5, <2>7, <2>8
       DEF SessionNext, New, MessageExpired, GuardStep
<1> QED
  BY <1>1, <1>2, TypeCorrect, PTL DEF SessionSpec

\* The generation never goes back while the process lives.
THEOREM GenerationsGoForward == SessionSpec => GenerationForward
<1>1. SessionTypeOK /\ QueueSorted /\ [SessionNext]_sessionVars =>
        [session' >= session \/ restarts' > restarts]_sessionVars
  <2> SUFFICES ASSUME SessionTypeOK, QueueSorted, [SessionNext]_sessionVars, sessionVars' # sessionVars
               PROVE  session' >= session \/ restarts' > restarts
    OBVIOUS
  <2> USE DEF SessionTypeOK
  <2>1. CASE session' = session
    BY <2>1
  <2>2. ASSUME NEW c \in Callers, MessageCurrent(c) PROVE session' >= session
    BY <2>2 DEF MessageCurrent
  <2>3. CASE Purge
    <3> DEFINE c == Head(purges)
    <3>1. c = purges[1] /\ c \in Callers /\ 1 \in 1..Len(purges)
      BY <2>3, HeadAndTail DEF Purge
    <3>2. session' = previous[c] + 1
      BY <2>3, <3>1 DEF Purge, EndReset
    <3> HIDE DEF c
    <3>3. session <= previous[c] + 1
      BY <3>1 DEF QueueSorted
    <3> QED
      BY <3>2, <3>3
  <2>4. CASE Restart
    BY <2>4, MaxRestartsAssumption DEF Restart
  <2>5. \/ session' = session \/ Purge \/ Restart
        \/ \E c \in Callers : MessageCurrent(c)
    BY DEF SessionNext, New, MessageExpired, BeginReset, Begin, BargeIn, Resume,
       Load, Checkpoint, End, Idle, sessionVars
  <2> QED
    BY <2>1, <2>2, <2>3, <2>4, <2>5
<1> QED
  BY <1>1, TypeCorrect, QueueInvariant, PTL DEF SessionSpec, GenerationForward

-----------------------------------------------------------------------------
(* A reset gives a fresh thread *)

\* While the process has not been restarted, a message shows only in the
\* thread it was given, and a reset, which takes the generation after the one
\* it captured, captured one no lower than any thread given before.
Placement ==
    /\ \A c \in Callers :
          /\ thread[c] <= session
          /\ stage[c] \in {"idle", "purging"} => thread[c] = 0
          /\ stage[c] \in {"loading", "barging"} \cup Runs => asks[c] = "message"
          /\ stage[c] = "idle" => past[c] = {} /\ asks[c] = "none"
          /\ \A m \in past[c] : thread[m] # 0 /\ thread[m] <= previous[c]
          /\ thread[c] # 0 /\ past[c] # {} => thread[c] = previous[c] + 1
          /\ \A m \in held[c] : thread[c] # 0 /\ thread[m] = thread[c]
    /\ \A g \in Generations : \A m \in store[g] : thread[m] = g

\* What giving c a thread leaves of Placement: c was in no set of messages.
PlacementStep(c) ==
    /\ \A d \in Callers :
          /\ thread'[d] <= session'
          /\ d # c => thread'[d] = thread[d]
          /\ \A m \in past[d] : thread'[m] = thread[m]
          /\ \A m \in held[d] : thread'[d] = thread[d] /\ thread'[m] = thread[m]
    /\ \A g \in Generations : \A m \in store[g] : thread'[m] = thread[m]

LEMMA GivingAThread ==
    ASSUME SessionTypeOK, Placement, NEW c \in Callers, thread[c] = 0,
           thread' = [thread EXCEPT ![c] = session'],
           session' \in Nat, session' >= session
    PROVE  PlacementStep(c)
<1> USE DEF SessionTypeOK, Placement
<1>1. \A d \in Callers : thread'[d] = IF d = c THEN session' ELSE thread[d]
  OBVIOUS
<1>2. \A d \in Callers : thread'[d] <= session'
  BY <1>1
<1>3. \A d \in Callers : \A m \in past[d] : thread'[m] = thread[m]
  BY <1>1
<1>4. \A d \in Callers : \A m \in held[d] :
         thread'[d] = thread[d] /\ thread'[m] = thread[m]
  BY <1>1
<1>5. \A g \in Generations : \A m \in store[g] : thread'[m] = thread[m]
  BY <1>1 DEF Generations
<1> QED
  BY <1>1, <1>2, <1>3, <1>4, <1>5 DEF PlacementStep

\* Placement is inductive until the process is restarted.
InProcess == restarts = 0 => Placement

LEMMA PlacementInvariant == SessionSpec => []InProcess
<1>1. SessionInit => InProcess
  BY MaxGenerationAssumption DEF SessionInit, InProcess, Placement, Generations, Runs
<1>2. SessionTypeOK /\ QueueSorted /\ InProcess /\ [SessionNext]_sessionVars => InProcess'
  <2> SUFFICES ASSUME SessionTypeOK, QueueSorted, InProcess, [SessionNext]_sessionVars, restarts' = 0
               PROVE  Placement'
    BY DEF InProcess
  <2>8. restarts = 0 /\ ~Restart
    BY DEF SessionNext, New, MessageExpired, MessageCurrent, BeginReset, Purge, EndReset,
           Begin, BargeIn, Resume, Load, Checkpoint, End, Idle, Restart,
           sessionVars, SessionTypeOK
  <2>9. Placement
    BY <2>8 DEF InProcess
  <2> USE <2>9 DEF SessionTypeOK, Placement, callVars, Runs
  <2>1. CASE UNCHANGED sessionVars
    BY <2>1 DEF sessionVars
  <2>2. ASSUME NEW c \in Callers, NEW kind \in {"message", "new"},
               BeginReset(c, kind)
        PROVE  Placement'
    BY <2>2 DEF BeginReset, Placed
  <2>3. ASSUME NEW c \in Callers, MessageCurrent(c) PROVE Placement'
    <3>1. session' >= session /\ session' \in Nat /\ session' # 0
      BY <2>3, MaxGenerationAssumption DEF MessageCurrent
    <3>2. thread' = [thread EXCEPT ![c] = session'] /\ thread[c] = 0
      BY <2>3 DEF MessageCurrent
    <3>3. PlacementStep(c)
      BY <3>1, <3>2, GivingAThread
    <3> QED
      BY <2>3, <3>1, <3>2, <3>3 DEF MessageCurrent, PlacementStep
  <2>4. CASE Purge
    <3> DEFINE c == Head(purges)
    <3>1. c = purges[1] /\ c \in Callers /\ 1 \in 1..Len(purges)
      BY <2>4, HeadAndTail DEF Purge
    <3>2. stage[c] = "purging" /\ session <= previous[c] + 1
      BY <3>1 DEF QueueSorted
    <3>3. EndReset(c)
      BY <2>4 DEF Purge
    <3> HIDE DEF c
    <3>4. /\ session' = previous[c] + 1 /\ thread[c] = 0
          /\ thread' = [thread EXCEPT ![c] = session']
          /\ UNCHANGED <<previous, past, held, asks>>
      BY <3>1, <3>2, <3>3 DEF EndReset
    <3>5. session' >= session /\ session' \in Nat /\ session' # 0
      BY <3>1, <3>2, <3>4
    <3>6. PlacementStep(c)
      BY <3>1, <3>4, <3>5, GivingAThread
    <3>7. \A g \in Generations : store'[g] \subseteq store[g]
      BY <3>3 DEF EndReset
    <3>8. \A d \in Callers :
             /\ stage'[d] = IF d = c THEN stage'[c] ELSE stage[d]
             /\ stage'[c] \in {"loading", "done"}
             /\ stage'[c] = "loading" => asks[c] = "message"
      BY <3>1, <3>3 DEF EndReset
    <3>9. \A d \in Callers : \A m \in held[d] : thread'[d] # 0 /\ thread'[m] = thread'[d]
      BY <3>6 DEF PlacementStep
    <3>10. \A g \in Generations : \A m \in store'[g] : thread'[m] = g
      BY <3>6, <3>7 DEF PlacementStep
    <3> QED
      BY <3>1, <3>4, <3>5, <3>6, <3>8, <3>9, <3>10 DEF PlacementStep
  <2>5. ASSUME NEW c \in Callers, Begin(c) PROVE Placement'
    BY <2>5 DEF Begin, Arrives, Register
  <2>6. ASSUME NEW c \in Callers, BargeIn(c) PROVE Placement'
    <3>1. awaits'[c] = InFlight(thread[c])
      BY <2>6 DEF BargeIn
    <3>2. \A d \in InFlight(thread[c]) : stage[d] \in Runs
      BY DEF InFlight
    <3> QED
      BY <2>6, <3>1, <3>2 DEF BargeIn, Arrives
  <2>10. ASSUME NEW c \in Callers, Resume(c) PROVE Placement'
    BY <2>10 DEF Resume, Register
  <2>11. ASSUME NEW c \in Callers, Load(c) PROVE Placement'
    BY <2>11 DEF Load, Generations
  <2>12. ASSUME NEW c \in Callers, Checkpoint(c) PROVE Placement'
    BY <2>12 DEF Checkpoint
  <2>13. ASSUME NEW c \in Callers, End(c) PROVE Placement'
    BY <2>13 DEF End
  <2>7. CASE Idle
    BY <2>7 DEF Idle
  <2> QED
    BY <2>8, <2>1, <2>2, <2>3, <2>4, <2>5, <2>6, <2>7, <2>10, <2>11, <2>12, <2>13
       DEF SessionNext, New, MessageExpired
<1> QED
  BY <1>1, <1>2, TypeCorrect, QueueInvariant, PTL DEF SessionSpec

\* As long as the process lives, /new and an expired session give a thread
\* that shows no message that had a thread when they were asked for.
THEOREM ThreadsAreFresh == SessionSpec => []FreshInProcess
<1>1. SessionTypeOK /\ InProcess => FreshInProcess
  <2> SUFFICES ASSUME SessionTypeOK, InProcess, restarts = 0, NEW c \in Callers, thread[c] # 0,
                      NEW m \in store[thread[c]], m \in past[c]
               PROVE  FALSE
    BY DEF FreshInProcess, FreshThread
  <2>1. thread[c] \in Generations /\ previous[c] \in Nat
    BY DEF SessionTypeOK, Generations
  <2>2. thread[m] = thread[c] /\ thread[c] = previous[c] + 1
    BY <2>1 DEF InProcess, Placement
  <2> QED
    BY <2>1, <2>2 DEF InProcess, Placement
<1>2. SessionSpec => []InProcess
  BY PlacementInvariant
<1> QED
  BY <1>1, <1>2, TypeCorrect, PTL

-----------------------------------------------------------------------------
(* No message is lost to another run *)

\* On a thread without a race the table shows every run in flight, one at most;
\* it has every message of the thread's latest checkpoint once it has read it; and
\* who waits for it waits alone.
OneWriter ==
    \A c \in Callers :
        /\ c \in table => stage[c] \in Runs
        /\ \A d \in Callers : c \in table /\ d \in table /\ thread[d] = thread[c] => d = c
        /\ stage[c] \in {"idle", "purging", "loading", "barging", "started"} =>
              held[c] = {}

CopiesUpToDate ==
    \A c \in Callers : thread[c] \notin raced =>
        /\ stage[c] \in Runs =>
              c \in table /\ (held[c] # {} => store[thread[c]] \subseteq held[c])
        /\ stage[c] = "barging" => \A d \in Callers : thread[d] = thread[c] =>
              /\ d \in table => d \in awaits[c]
              /\ stage[d] = "barging" => d = c

\* Both are inductive: a run starts when the one it superseded has written for the
\* last time, with the messages that one stored, and a purge only takes away.
LEMMA CopiesInvariant == SessionSpec => [](OneWriter /\ CopiesUpToDate)
<1>1. SessionInit => OneWriter /\ CopiesUpToDate
  BY DEF SessionInit, OneWriter, CopiesUpToDate, Runs
<1>2. SessionTypeOK /\ QueueSorted /\ OneWriter /\ CopiesUpToDate /\ [SessionNext]_sessionVars
        => OneWriter' /\ CopiesUpToDate'
  <2> SUFFICES ASSUME SessionTypeOK, QueueSorted, OneWriter, CopiesUpToDate,
                      [SessionNext]_sessionVars
               PROVE  OneWriter' /\ CopiesUpToDate'
    OBVIOUS
  <2> USE DEF callVars, guardVars, Runs
  <2>1. CASE UNCHANGED sessionVars
    BY <2>1 DEF sessionVars, OneWriter, CopiesUpToDate
  <2>2. ASSUME NEW c \in Callers, NEW kind \in {"message", "new"},
               BeginReset(c, kind)
        PROVE  OneWriter' /\ CopiesUpToDate'
    BY <2>2 DEF BeginReset, OneWriter, CopiesUpToDate, SessionTypeOK
  <2>3. ASSUME NEW c \in Callers, MessageCurrent(c) PROVE OneWriter' /\ CopiesUpToDate'
    <3>1. /\ stage[c] = "idle" /\ stage' = [stage EXCEPT ![c] = "loading"]
          /\ thread' = [thread EXCEPT ![c] = session']
          /\ UNCHANGED <<store, held, table, awaits, raced>>
      BY <2>3 DEF MessageCurrent
    <3>2. \A d \in Callers : /\ stage'[d] = IF d = c THEN "loading" ELSE stage[d]
                            /\ d # c => thread'[d] = thread[d]
      BY <3>1 DEF SessionTypeOK
    <3>3. c \notin table /\ held[c] = {}
      BY <3>1 DEF OneWriter
    <3>4. OneWriter'
      BY <3>1, <3>2, <3>3 DEF OneWriter
    <3>5. CopiesUpToDate'
      BY <3>1, <3>2, <3>3 DEF CopiesUpToDate
    <3> QED
      BY <3>4, <3>5
  <2>4. CASE Purge
    <3> DEFINE c == Head(purges)
    <3>1. c = purges[1] /\ c \in Callers /\ 1 \in 1..Len(purges) /\ EndReset(c)
      BY <2>4, HeadAndTail DEF Purge, SessionTypeOK
    <3>2. stage[c] = "purging"
      BY <3>1 DEF QueueSorted
    <3> HIDE DEF c
    <3>3. /\ stage'[c] \in {"loading", "done"}
          /\ \A d \in Callers : d # c => stage'[d] = stage[d] /\ thread'[d] = thread[d]
          /\ UNCHANGED <<held, table, awaits, raced>>
      BY <3>1 DEF EndReset, SessionTypeOK
    <3>4. \A g \in Generations : store'[g] \subseteq store[g]
      BY <3>1 DEF EndReset, SessionTypeOK
    <3>5. \A d \in Callers : stage[d] \in Runs => thread[d] \in Generations
      BY DEF Generations, SessionTypeOK
    <3>6. c \notin table /\ held[c] = {}
      BY <3>1, <3>2 DEF OneWriter
    <3>7. OneWriter'
      BY <3>3, <3>6 DEF OneWriter
    <3>8. CopiesUpToDate'
      BY <3>3, <3>4, <3>5, <3>6 DEF CopiesUpToDate
    <3> QED
      BY <3>7, <3>8
  <2>5. ASSUME NEW c \in Callers, Begin(c) PROVE OneWriter' /\ CopiesUpToDate'
    <3>1. /\ stage[c] = "loading" /\ held[c] = {}
          /\ UNCHANGED <<thread, store, held, awaits>>
      BY <2>5 DEF Begin, Arrives, OneWriter
    <3>4. \A d \in Callers : stage'[d] = IF d = c THEN "started" ELSE stage[d]
      BY <2>5 DEF Begin, Register, SessionTypeOK
    <3>5. \A d \in Callers :
             d \in table' <=> (d = c \/ (d \in table /\ thread[d] # thread[c]))
      BY <2>5 DEF Begin, Register, OnThread
    <3>2. \A d \in Callers : thread[d] = thread[c] => d \notin table
      BY <2>5 DEF Begin, InFlight, OnThread, OneWriter
    <3>3. /\ raced \subseteq raced'
          /\ thread[c] \notin raced' =>
                \A d \in Callers : thread[d] = thread[c] => stage[d] # "barging"
      BY <2>5 DEF Begin, Arrives, AtGuard, OnThread
    <3>6. OneWriter'
      BY <3>1, <3>2, <3>4, <3>5 DEF OneWriter
    <3>7. CopiesUpToDate'
      BY <3>1, <3>2, <3>3, <3>4, <3>5 DEF CopiesUpToDate
    <3> QED
      BY <3>6, <3>7
  <2>6. ASSUME NEW c \in Callers, BargeIn(c) PROVE OneWriter' /\ CopiesUpToDate'
    <3>1. /\ stage[c] = "loading" /\ UNCHANGED <<thread, store, held, table>>
          /\ \A d \in Callers : d # c => awaits'[d] = awaits[d]
      BY <2>6 DEF BargeIn, Arrives, SessionTypeOK
    <3>2. awaits'[c] = {d \in Callers : d \in table /\ thread[d] = thread[c]}
      <4>1. awaits'[c] = InFlight(thread[c])
        BY <2>6 DEF BargeIn, SessionTypeOK
      <4> QED
        BY <4>1 DEF InFlight, OnThread, OneWriter
    <3>3. \A d \in Callers :
             stage'[d] = IF d = c THEN "barging"
                         ELSE IF d \in awaits'[c] THEN "cancelling" ELSE stage[d]
      BY <2>6 DEF BargeIn
    <3>4. /\ raced \subseteq raced'
          /\ thread[c] \notin raced' =>
                \A d \in Callers : thread[d] = thread[c] => stage[d] # "barging"
      BY <2>6 DEF BargeIn, Arrives, AtGuard, OnThread
    <3>5. c \notin table /\ held[c] = {} /\ \A d \in awaits'[c] : stage[d] \in Runs
      BY <3>1, <3>2 DEF OneWriter
    <3>8. \A d \in Callers : stage'[d] \in Runs <=> stage[d] \in Runs
      BY <3>1, <3>3, <3>5
    <3>9. \A d \in Callers \ {c} : stage'[d] = "cancelling" \/ stage'[d] = stage[d]
      BY <3>3
    <3>10. stage'[c] = "barging"
      BY <3>3
    <3>6. OneWriter'
      <4> SUFFICES ASSUME NEW e \in Callers
                   PROVE  /\ e \in table => stage'[e] \in Runs
                          /\ \A d \in Callers :
                                e \in table /\ d \in table /\ thread[d] = thread[e] => d = e
                          /\ stage'[e] \in {"idle", "purging", "loading", "barging",
                                            "started"} => held[e] = {}
        BY <3>1 DEF OneWriter
      <4>1. e \in table => stage'[e] \in Runs
        BY <3>8 DEF OneWriter
      <4>2. \A d \in Callers : e \in table /\ d \in table /\ thread[d] = thread[e] => d = e
        BY DEF OneWriter
      <4>3. stage'[e] \in {"idle", "purging", "loading", "barging", "started"} =>
               held[e] = {}
        <5>1. CASE e = c
          BY <3>5, <5>1
        <5>2. CASE e # c
          <6>1. stage'[e] \in {"idle", "purging", "loading", "barging", "started"} =>
                   stage[e] \in {"idle", "purging", "loading", "barging", "started"}
            BY <3>9, <5>2
          <6>2. stage[e] \in {"idle", "purging", "loading", "barging", "started"} =>
                   held[e] = {}
            BY DEF OneWriter
          <6> QED
            BY <6>1, <6>2
        <5> QED
          BY <5>1, <5>2
      <4> QED
        BY <4>1, <4>2, <4>3
    <3>7. CopiesUpToDate'
      <4> SUFFICES ASSUME NEW e \in Callers, thread[e] \notin raced'
                   PROVE  /\ stage'[e] \in Runs =>
                               /\ e \in table
                               /\ held[e] # {} => store[thread[e]] \subseteq held[e]
                          /\ stage'[e] = "barging" => \A d \in Callers :
                                thread[d] = thread[e] =>
                                   /\ d \in table => d \in awaits'[e]
                                   /\ stage'[d] = "barging" => d = e
        BY <3>1 DEF CopiesUpToDate
      <4>1. thread[e] \notin raced
        BY <3>4
      <4>2. stage'[e] \in Runs =>
               e \in table /\ (held[e] # {} => store[thread[e]] \subseteq held[e])
        BY <3>8, <4>1 DEF CopiesUpToDate
      <4>3. ASSUME stage'[e] = "barging", NEW d \in Callers, thread[d] = thread[e]
            PROVE  /\ d \in table => d \in awaits'[e]
                   /\ stage'[d] = "barging" => d = e
        <5>1. CASE e = c
          BY <3>1, <3>2, <3>4, <3>9, <4>3, <5>1
        <5>2. CASE e # c
          <6>1. stage[e] = "barging" /\ thread[e] # thread[c] /\ awaits'[e] = awaits[e]
            BY <3>1, <3>4, <3>9, <4>3, <5>2
          <6> QED
            BY <3>9, <3>10, <4>1, <4>3, <6>1 DEF CopiesUpToDate
        <5> QED
          BY <5>1, <5>2
      <4> QED
        BY <4>2, <4>3
    <3> QED
      BY <3>6, <3>7
  <2>9. ASSUME NEW c \in Callers, Resume(c) PROVE OneWriter' /\ CopiesUpToDate'
    <3>1. /\ stage[c] = "barging" /\ held[c] = {}
          /\ UNCHANGED <<thread, store, held, awaits, raced>>
      BY <2>9 DEF Resume, OneWriter
    <3>3. \A d \in Callers : stage'[d] = IF d = c THEN "started" ELSE stage[d]
      BY <2>9 DEF Resume, Register, SessionTypeOK
    <3>4. \A d \in Callers :
             d \in table' <=> (d = c \/ (d \in table /\ thread[d] # thread[c]))
      BY <2>9 DEF Resume, Register, OnThread
    <3>2. thread[c] \notin raced =>
             \A d \in Callers : thread[d] = thread[c] =>
                d \notin table /\ (d # c => stage[d] # "barging")
      BY <2>9, <3>1 DEF Resume, OneWriter, CopiesUpToDate
    <3>5. OneWriter'
      BY <3>1, <3>3, <3>4 DEF OneWriter
    <3>6. CopiesUpToDate'
      BY <3>1, <3>2, <3>3, <3>4 DEF CopiesUpToDate
    <3> QED
      BY <3>5, <3>6
  <2>10. ASSUME NEW c \in Callers, Load(c) PROVE OneWriter' /\ CopiesUpToDate'
    BY <2>10 DEF Load, OneWriter, CopiesUpToDate, SessionTypeOK
  <2>11. ASSUME NEW c \in Callers, Checkpoint(c) PROVE OneWriter' /\ CopiesUpToDate'
    <3>1. /\ stage[c] \in Runs /\ held[c] # {}
          /\ UNCHANGED <<stage, thread, held, table, awaits, raced>>
          /\ store' = [store EXCEPT ![thread[c]] = held[c]]
      BY <2>11 DEF Checkpoint
    <3>2. thread[c] \in Generations
      BY <3>1 DEF Generations, SessionTypeOK
    <3>3. \A d \in Callers :
             stage[d] \in Runs /\ d # c /\ thread[d] \notin raced => thread[d] # thread[c]
      BY <3>1 DEF OneWriter, CopiesUpToDate
    <3>4. \A d \in Callers : stage[d] \in Runs => thread[d] \in Generations
      BY DEF Generations, SessionTypeOK
    <3>7. /\ store'[thread[c]] = held[c]
          /\ \A g \in Generations : g # thread[c] => store'[g] = store[g]
      BY <3>1, <3>2 DEF SessionTypeOK
    <3>5. OneWriter'
      BY <3>1 DEF OneWriter
    <3>6. CopiesUpToDate'
      BY <3>1, <3>3, <3>4, <3>7 DEF CopiesUpToDate
    <3> QED
      BY <3>5, <3>6
  <2>12. ASSUME NEW c \in Callers, End(c) PROVE OneWriter' /\ CopiesUpToDate'
    BY <2>12 DEF End, OneWriter, CopiesUpToDate, SessionTypeOK
  <2>7. CASE Idle
    BY <2>7 DEF Idle, OneWriter, CopiesUpToDate
  <2>8. CASE Restart
    BY <2>8 DEF Restart, OneWriter, CopiesUpToDate, SessionTypeOK
  <2> QED
    BY <2>1, <2>2, <2>3, <2>4, <2>5, <2>6, <2>7, <2>8, <2>9, <2>10, <2>11, <2>12
       DEF SessionNext, New, MessageExpired
<1> QED
  BY <1>1, <1>2, TypeCorrect, QueueInvariant, PTL DEF SessionSpec

\* A thread on which no two callers were at the barge-in at once forgets a message
\* only when it is purged, runs that write their own copies of it notwithstanding.
THEOREM MessagesAreKept == SessionSpec => MessagesKept
<1> DEFINE Kept == \A g \in Generations \ raced :
                      store[g] \subseteq store'[g] \/ purges' # purges
<1>1. SessionTypeOK /\ CopiesUpToDate /\ [SessionNext]_sessionVars => [Kept]_sessionVars
  <2> SUFFICES ASSUME SessionTypeOK, CopiesUpToDate, [SessionNext]_sessionVars
               PROVE  Kept \/ UNCHANGED sessionVars
    OBVIOUS
  <2> USE DEF SessionTypeOK, Generations
  <2>1. CASE store' = store
    BY <2>1
  <2>2. CASE Purge
    <3>1. Len(Tail(purges)) # Len(purges)
      BY <2>2 DEF Purge
    <3> QED
      BY <2>2, <3>1 DEF Purge
  <2>3. ASSUME NEW c \in Callers, Checkpoint(c) PROVE Kept
    <3>1. /\ thread[c] \in Generations /\ store' = [store EXCEPT ![thread[c]] = held[c]]
          /\ stage[c] \in Runs /\ held[c] # {}
      BY <2>3 DEF Checkpoint, Runs
    <3>2. thread[c] \notin raced => store[thread[c]] \subseteq held[c]
      BY <3>1 DEF CopiesUpToDate
    <3> QED
      BY <3>1, <3>2
  <2>4. \/ UNCHANGED sessionVars \/ store' = store \/ Purge
        \/ \E c \in Callers : Checkpoint(c)
    BY DEF SessionNext, New, MessageExpired, MessageCurrent, BeginReset, Begin,
       BargeIn, Resume, Load, End, Idle, Restart
  <2> HIDE DEF Kept
  <2> QED
    BY <2>1, <2>2, <2>3, <2>4 DEF Kept
<1> QED
  BY <1>1, TypeCorrect, CopiesInvariant, PTL DEF SessionSpec, MessagesKept

=============================================================================
