-------------------------- MODULE DelegationProofs --------------------------
(***************************************************************************)
(* Theorems about Delegation, for every set of calls and every bound.      *)
(***************************************************************************)
EXTENDS Delegation, SequenceTheorems, TLAPS

-----------------------------------------------------------------------------
(* Type correctness *)

\* Cancelling a delegation ends it or leaves it to be waited for, and never
\* revives one that is over.
LEMMA AfterCancelFacts ==
    ASSUME NEW s \in {"none"} \cup Suspended \cup Ended
    PROVE  /\ AfterCancel(s) \in {"none"} \cup Suspended \cup Ended
           /\ AfterCancel(s) = "item" => FALSE
           /\ AfterCancel(s) \in Suspended => s \in Suspended
           /\ AfterCancel(s) \in Suspended => s \in {"waiting", "running", "cut", "unwinding"}
           /\ s \notin Suspended => AfterCancel(s) = s
           /\ s = "none" <=> AfterCancel(s) = "none"
  BY DEF AfterCancel, Suspended, Ended

\* What is in a sequence and what is appended to it is all there is.
LEMMA AppendRange ==
    ASSUME NEW S, NEW seq \in Seq(S), NEW e \in S
    PROVE  /\ Append(seq, e) \in Seq(S)
           /\ Range(Append(seq, e)) = Range(seq) \cup {e}
<1> DEFINE longer == Append(seq, e)
<1>1. /\ longer \in Seq(S)
      /\ Len(longer) = Len(seq) + 1
      /\ longer[Len(seq) + 1] = e
      /\ \A i \in 1..Len(seq) : longer[i] = seq[i]
  BY AppendProperties
<1>2. DOMAIN longer = 1..(Len(seq) + 1) /\ DOMAIN seq = 1..Len(seq) /\ Len(seq) \in Nat
  BY <1>1, LenProperties
<1>3. DOMAIN longer = DOMAIN seq \cup {Len(seq) + 1}
  BY <1>2
<1> HIDE DEF longer
<1>4. Range(longer) = Range(seq) \cup {e}
  BY <1>1, <1>2, <1>3 DEF Range
<1> QED
  BY <1>1, <1>4 DEF longer

\* A turn more in the buffer, and maybe the oldest one less.
LEMMA RememberFacts ==
    ASSUME buffer \in Seq(Nat), NEW turn \in Nat
    PROVE  /\ Remember(turn) \in Seq(Nat)
           /\ Range(Remember(turn)) \subseteq Range(buffer) \cup {turn}
<1> DEFINE longer == Append(buffer, turn)
<1>1. longer \in Seq(Nat) /\ longer # <<>>
  BY AppendProperties
<1>2. Range(longer) \subseteq Range(buffer) \cup {turn}
  BY AppendRange
<1>3. Tail(longer) \in Seq(Nat)
  BY <1>1, HeadTailProperties
<1>4. Range(Tail(longer)) \subseteq Range(longer)
  <2>1. \A i \in DOMAIN Tail(longer) : i + 1 \in DOMAIN longer /\ Tail(longer)[i] = longer[i + 1]
    BY <1>1, HeadTailProperties, LenProperties
  <2> QED
    BY <2>1 DEF Range
<1> QED
  BY <1>1, <1>2, <1>3, <1>4 DEF Remember

\* The reader is suspended inside handle_call on account of a call.
Handles == reader \in {"refuse", "cancel", "filler"} => handling \in Calls

LEMMA TypeInvariant == Spec => [](TypeOK /\ Handles)
<1>1. Init => TypeOK /\ Handles
  <2>1. ASSUME Init PROVE items \in Seq(Calls) /\ buffer \in Seq(Nat)
    BY <2>1, EmptySeq DEF Init
  <2> QED
    BY <2>1, DelegationAssumption DEF Init, TypeOK, Handles, Suspended, Ended
<1>2. TypeOK /\ Handles /\ [Next]_vars => (TypeOK /\ Handles)'
  <2> SUFFICES ASSUME TypeOK, Handles, [Next]_vars PROVE TypeOK' /\ Handles'
    OBVIOUS
  <2> USE DelegationAssumption
  <2> USE DEF TypeOK, Handles, bridgeVars, readerVars, brainVars, turnVars, outVars
  <2>0. CASE UNCHANGED vars
    BY <2>0 DEF vars
  <2>1. CASE ReadEvent
    <3>1. heard + 1 \in Nat /\ Remember(heard + 1) \in Seq(Nat)
      BY RememberFacts
    <3> QED
      BY <2>1, <3>1 DEF ReadEvent
  <2>2. ASSUME NEW c \in Calls, ReadEmptyCall(c) PROVE TypeOK' /\ Handles'
    <3>1. Append(items, c) \in Seq(Calls)
      BY AppendProperties
    <3> QED
      BY <2>2, <3>1 DEF ReadEmptyCall
  <2>3. ASSUME NEW c \in Calls, ReadCall(c) PROVE TypeOK' /\ Handles'
    <3>0. Range(buffer) \in SUBSET Nat /\ <<>> \in Seq(Nat)
      BY RangeOfSeq, EmptySeq
    <3>1. CASE Live(active)
      <4>1. AfterCancel(brain[active]) \in {"none"} \cup Suspended \cup Ended
        BY <3>1, AfterCancelFacts DEF Live
      <4> QED
        BY <2>3, <3>1, <4>1 DEF ReadCall, Live
    <3>2. CASE ~Live(active)
      <4>1. Accept(c) /\ UNCHANGED <<awaited, brain>>
        BY <2>3, <3>2 DEF ReadCall
      <4>2. /\ rev' \in [Calls -> Nat] /\ revision' \in Nat
            /\ taken' \in [Calls -> SUBSET Nat]
            /\ buffer' \in Seq(Nat)
            /\ reader' \in {"filler", "over"}
        BY <3>0, <4>1 DEF Accept
      <4> QED
        BY <2>3, <4>1, <4>2 DEF ReadCall
    <3> QED
      BY <3>1, <3>2
  <2>4. CASE AskRefused
    BY <2>4 DEF AskRefused
  <2>5. CASE EndCancel
    <3>0. Range(buffer) \in SUBSET Nat /\ <<>> \in Seq(Nat)
      BY RangeOfSeq, EmptySeq
    <3> QED
      BY <2>5, <3>0, SMTT(30) DEF EndCancel, Accept
  <2>6. CASE Delegate
    BY <2>6, SMTT(30) DEF Delegate, Suspended
  <2>7. CASE ReaderEnds
    BY <2>7, SMTT(30) DEF ReaderEnds
  <2>8. ASSUME NEW c \in Calls, Launch(c) PROVE TypeOK' /\ Handles'
    <3>1. TypeOK'
      BY <2>8, ZenonT(60) DEF Launch, Suspended
    <3>2. Handles'
      BY <2>8, SMTT(30) DEF Launch, Suspended
    <3> QED
      BY <3>1, <3>2
  <2>9. ASSUME NEW c \in Calls, StartRun(c) PROVE TypeOK' /\ Handles'
    <3>1. TypeOK'
      BY <2>9, SMTT(30) DEF StartRun, Suspended
    <3>2. Handles'
      BY <2>9, SMTT(30) DEF StartRun, Suspended
    <3> QED
      BY <3>1, <3>2
  <2>10. ASSUME NEW c \in Calls, RunEnds(c) PROVE TypeOK' /\ Handles'
    <3>1. Append(items, c) \in Seq(Calls)
      BY AppendProperties
    <3>2. TypeOK'
      BY <2>10, <3>1, ZenonT(60) DEF RunEnds, Released, Suspended, Ended
    <3>3. Handles'
      BY <2>10, SMTT(30) DEF RunEnds, Released, Suspended, Ended
    <3> QED
      BY <3>2, <3>3
  <2>11. ASSUME NEW c \in Calls, RunFails(c) PROVE TypeOK' /\ Handles'
    BY <2>11, SMTT(30) DEF RunFails, Released, Ended
  <2>12. ASSUME NEW c \in Calls, AskSpoken(c) PROVE TypeOK' /\ Handles'
    BY <2>12, SMTT(30) DEF AskSpoken, Ended
  <2>13. ASSUME NEW c \in Calls, Unwind(c) PROVE TypeOK' /\ Handles'
    BY <2>13, SMTT(30) DEF Unwind, Released, Ended
  <2>14. CASE OtherArrives
    BY <2>14, SMTT(30) DEF OtherArrives, Suspended
  <2>15. CASE OtherEnds
    BY <2>15, SMTT(30) DEF OtherEnds
  <2>16. CASE ClientHangsUp
    BY <2>16, ZenonT(60) DEF ClientHangsUp
  <2>17. CASE BackendLost
    BY <2>17, ZenonT(60) DEF BackendLost
  <2>18. CASE StopReader
    <3>1. awaited \in Calls => AfterCancel(brain[awaited]) \in {"none"} \cup Suspended \cup Ended
      BY AfterCancelFacts
    <3> QED
      BY <2>18, <3>1, SMTT(30) DEF StopReader
  <2>19. CASE BothOver
    BY <2>19, SMTT(30) DEF BothOver
  <2>20. CASE Close
    BY <2>20, ZenonT(60) DEF Close
  <2> QED
    BY <2>0, <2>1, <2>2, <2>3, <2>4, <2>5, <2>6, <2>7, <2>8, <2>9, <2>10, <2>11,
       <2>12, <2>13, <2>14, <2>15, <2>16, <2>17, <2>18, <2>19, <2>20
       DEF Next, Reader, Brain, Bridge
<1> QED
  BY <1>1, <1>2, PTL DEF Spec

\* Every reachable state of a connection has the declared types: outputs and
\* requests to speak are about calls.
THEOREM TypeCorrect == Spec => []TypeOK
  BY TypeInvariant, PTL

-----------------------------------------------------------------------------
(* Who may send what *)

\* Revisions name the calls that were taken, in order.
Revisions ==
    /\ \A c \in Calls : rev[c] <= revision
    /\ \A c, d \in Calls : rev[c] = rev[d] /\ rev[c] # 0 => c = d
    /\ revision # 0 => \E c \in Calls : rev[c] = revision

\* A call that was not handled left no trace; one that is being handled has no
\* delegation yet.
Unseen ==
    \A c \in Calls \ handled : rev[c] = 0 /\ brain[c] = "none" /\ c \notin Range(items)

InHand ==
    /\ reader \in {"refuse", "cancel", "filler"} => handling \in handled /\ brain[handling] = "none"
    /\ reader = "cancel" => rev[handling] = 0
    /\ reader = "filler" => rev[handling] = revision /\ rev[handling] # 0
    /\ reader \in {"cancel", "filler"} => active = NoCall /\ handling \notin Range(items)

\* At most one delegation is not over: the newest call's, and the supervisor
\* holds it in context.active or waits for it.
OneLive ==
    \A c \in Calls : brain[c] \in Suspended =>
        /\ rev[c] = revision /\ rev[c] # 0
        /\ c = active \/ (reader = "cancel" /\ c = awaited)

\* A delegation that has not sent its output has none in the conversation.
Unsent ==
    \A c \in Calls : brain[c] \in Suspended \ {"item"} => c \notin Range(items)

\* The reader is over before the connection is closed, and starts nothing more.
Shutting ==
    /\ main \in {"draining", "closed"} => reader = "over"
    /\ main = "closed" => active = NoCall

Order == Revisions /\ Unseen /\ InHand /\ OneLive /\ Unsent /\ Shutting

LEMMA OrderInit == Init => Order
<1> SUFFICES ASSUME Init PROVE Order
  OBVIOUS
<1>1. Range(items) = {}
  BY EmptySeq DEF Init, Range
<1> QED
  BY <1>1 DEF Init, Order, Revisions, Unseen, InHand, OneLive, Unsent, Shutting, Suspended

\* A call that is taken when no delegation is live becomes the newest.
LEMMA AcceptOrder ==
    ASSUME TypeOK, Order, NEW c \in Calls, Accept(c),
           rev[c] = 0, c \in handled', brain'[c] = "none", handling' = c,
           c \notin Range(items), active' = NoCall,
           handled \subseteq handled',
           \A d \in Calls : brain[d] \notin Suspended,
           UNCHANGED <<main, brain, items>>,
           main \notin {"draining", "closed"}
    PROVE  Order'
<1> USE DEF TypeOK, Order
<1>1. Revisions'
  BY DEF Accept, Revisions
<1>2. Unseen'
  BY DEF Accept, Unseen
<1>3. InHand'
  BY DEF Accept, InHand
<1>4. OneLive' /\ Unsent'
  BY DEF OneLive, Unsent
<1>5. Shutting'
  BY DEF Shutting
<1> QED
  BY <1>1, <1>2, <1>3, <1>4, <1>5

\* Cancelling a delegation makes nothing live that was not.
LEMMA CancelOrder ==
    ASSUME TypeOK, NEW d \in Calls, brain' = [brain EXCEPT ![d] = AfterCancel(@)]
    PROVE  \A c \in Calls :
              /\ brain'[c] = "none" <=> brain[c] = "none"
              /\ brain'[c] \in Suspended => brain[c] \in Suspended
              /\ brain'[c] \in Suspended \ {"item"} => brain[c] \in Suspended \ {"item"}
<1> SUFFICES ASSUME NEW c \in Calls
             PROVE  /\ brain'[c] = "none" <=> brain[c] = "none"
                    /\ brain'[c] \in Suspended => brain[c] \in Suspended
                    /\ brain'[c] \in Suspended \ {"item"} => brain[c] \in Suspended \ {"item"}
  OBVIOUS
<1>1. brain'[c] = IF c = d THEN AfterCancel(brain[c]) ELSE brain[c]
  BY DEF TypeOK
<1>2. CASE c # d
  BY <1>1, <1>2
<1>3. CASE c = d
  BY <1>1, <1>3 DEF TypeOK, AfterCancel, Suspended, Ended
<1> QED
  BY <1>2, <1>3

LEMMA OrderStep == TypeOK /\ Handles /\ Order /\ [Next]_vars => Order'
<1> SUFFICES ASSUME TypeOK, Handles, Order, [Next]_vars PROVE Order'
  OBVIOUS
<1> USE DelegationAssumption
<1> USE DEF TypeOK, Handles, Order, Revisions, Unseen, InHand, OneLive, Unsent, Shutting,
            bridgeVars, readerVars, brainVars, turnVars, outVars
<1>0. CASE UNCHANGED vars
  BY <1>0 DEF vars
<1>1. CASE ReadEvent
  BY <1>1 DEF ReadEvent
<1>2. ASSUME NEW c \in Calls, ReadEmptyCall(c) PROVE Order'
  <2>1. Range(items') = Range(items) \cup {c}
    BY <1>2, AppendRange DEF ReadEmptyCall
  <2>2. c \notin handled
    BY <1>2 DEF ReadEmptyCall, Fresh
  <2> QED
    BY <1>2, <2>1, <2>2 DEF ReadEmptyCall, Suspended
<1>3. ASSUME NEW c \in Calls, ReadCall(c) PROVE Order'
  <2>1. /\ c \notin handled /\ handled' = handled \cup {c} /\ handling' = c
        /\ active' = NoCall /\ reader = "events"
        /\ UNCHANGED <<main, items>>
    BY <1>3 DEF ReadCall, Fresh
  <2>2. CASE Live(active)
    <3>1. /\ active \in Calls /\ awaited' = active /\ reader' = "cancel"
          /\ brain' = [brain EXCEPT ![active] = AfterCancel(@)]
          /\ UNCHANGED <<revision, rev>>
      BY <1>3, <2>2 DEF ReadCall, Live
    <3> QED
      BY <2>1, <3>1, CancelOrder
  <2>3. CASE ~Live(active)
    <3>1. Accept(c) /\ UNCHANGED brain
      BY <1>3, <2>3 DEF ReadCall
    <3>2. \A d \in Calls : brain[d] \notin Suspended
      BY <2>1, <2>3 DEF Live
    <3> QED
      BY <2>1, <3>1, <3>2, AcceptOrder
  <2> QED
    BY <2>2, <2>3
<1>4. CASE AskRefused
  BY <1>4 DEF AskRefused
<1>5. CASE EndCancel
  <2>1. /\ handling \in Calls /\ Accept(handling) /\ reader = "cancel" /\ ~Live(awaited)
        /\ UNCHANGED <<main, handled, handling, active, brain, items>>
    BY <1>5 DEF EndCancel
  <2>2. \A d \in Calls : brain[d] \notin Suspended
    BY <2>1 DEF Live
  <2> QED
    BY <2>1, <2>2, AcceptOrder
<1>6. CASE Delegate
  BY <1>6 DEF Delegate, Suspended
<1>7. CASE ReaderEnds
  BY <1>7 DEF ReaderEnds
<1>8. ASSUME NEW c \in Calls, Launch(c) PROVE Order'
  BY <1>8, SMTT(30) DEF Launch, Suspended
<1>9. ASSUME NEW c \in Calls, StartRun(c) PROVE Order'
  BY <1>9, SMTT(30) DEF StartRun, Suspended
<1>10. ASSUME NEW c \in Calls, RunEnds(c) PROVE Order'
  <2>1. Range(Append(items, c)) = Range(items) \cup {c}
    BY AppendRange
  <2>2. c \in handled
    BY <1>10, SMTT(30) DEF RunEnds
  <2> QED
    <3>1. CASE items' = items /\ brain' \in {[brain EXCEPT ![c] = "cancelled"], [brain EXCEPT ![c] = "failed"]}
      BY <1>10, <3>1, ZenonT(60) DEF RunEnds, Suspended
    <3>2. CASE items' = Append(items, c) /\ brain' = [brain EXCEPT ![c] = "item"]
      BY <1>10, <2>1, <3>2, SMTT(30) DEF RunEnds, Suspended
    <3> QED
      BY <1>10, <3>1, <3>2, SMTT(30) DEF RunEnds
<1>11. ASSUME NEW c \in Calls, RunFails(c) PROVE Order'
  BY <1>11, SMTT(30) DEF RunFails, Suspended
<1>12. ASSUME NEW c \in Calls, AskSpoken(c) PROVE Order'
  BY <1>12, SMTT(30) DEF AskSpoken, Suspended
<1>13. ASSUME NEW c \in Calls, Unwind(c) PROVE Order'
  BY <1>13, SMTT(30) DEF Unwind, Suspended
<1>14. CASE OtherArrives
  BY <1>14, ZenonT(60) DEF OtherArrives, Suspended
<1>15. CASE OtherEnds
  BY <1>15 DEF OtherEnds
<1>16. CASE ClientHangsUp
  BY <1>16 DEF ClientHangsUp
<1>17. CASE BackendLost
  BY <1>17 DEF BackendLost
<1>18. CASE StopReader
  <2>1. CASE reader = "cancel" /\ awaited \in Calls
    BY <1>18, <2>1, CancelOrder DEF StopReader
  <2>2. CASE reader = "cancel" /\ awaited \notin Calls
    BY <1>18, <2>2 DEF StopReader
  <2>3. CASE reader # "cancel"
    BY <1>18, <2>3 DEF StopReader
  <2> QED
    BY <2>1, <2>2, <2>3
<1>19. CASE BothOver
  BY <1>19 DEF BothOver
<1>20. CASE Close
  BY <1>20 DEF Close, Live
<1> QED
  BY <1>0, <1>1, <1>2, <1>3, <1>4, <1>5, <1>6, <1>7, <1>8, <1>9, <1>10, <1>11,
     <1>12, <1>13, <1>14, <1>15, <1>16, <1>17, <1>18, <1>19, <1>20
     DEF Next, Reader, Brain, Bridge

LEMMA OrderInvariant == Spec => [](TypeOK /\ Handles /\ Order)
<1>1. Init => Order
  BY OrderInit
<1>2. TypeOK /\ Handles /\ Order /\ [Next]_vars => Order'
  BY OrderStep
<1> QED
  BY <1>1, <1>2, TypeInvariant, PTL DEF Spec
-----------------------------------------------------------------------------
(* The promise of LatestWins *)

\* The newest call is the one that has the current revision.
LEMMA NewestFacts ==
    ASSUME Order, NEW c \in Calls, rev[c] = revision, rev[c] # 0
    PROVE  Newest = c
<1>1. \A d \in Calls : rev[d] = revision => d = c
  BY DEF Order, Revisions
<1> QED
  BY <1>1 DEF Newest

\* Taking a call whose predecessors are no longer live is the abstract Take.
LEMMA AcceptTakes ==
    ASSUME TypeOK, Order, Order', NEW c \in Calls, Accept(c),
           rev[c] = 0, c \notin Range(items), UNCHANGED items
    PROVE  Latest!Take(c)
<1>1. rev'[c] = revision' /\ rev'[c] # 0
  BY DEF Accept, TypeOK
<1>2. Newest' = c
  <2>1. \A d \in Calls : rev'[d] = revision' => d = c
    BY <1>1 DEF Order, Revisions
  <2> QED
    BY <1>1, <2>1 DEF Newest
<1>3. {d \in Calls : rev'[d] > 0} = {d \in Calls : rev[d] > 0} \cup {c}
  BY DEF Accept, TypeOK
<1> QED
  BY <1>2, <1>3 DEF Latest!Take

LEMMA LatestStep ==
    TypeOK /\ Handles /\ Order /\ Order' /\ [Next]_vars => [Latest!Next]_(Latest!latestVars)
<1> SUFFICES ASSUME TypeOK, Handles, Order, Order', [Next]_vars
             PROVE  [Latest!Next]_(Latest!latestVars)
  OBVIOUS
<1> USE DelegationAssumption
<1> USE DEF bridgeVars, readerVars, brainVars, turnVars, outVars
<1>0. UNCHANGED <<rev, revision, items>> => [Latest!Next]_(Latest!latestVars)
  BY DEF Latest!latestVars, Newest
<1>1. ASSUME NEW c \in Calls, ReadEmptyCall(c) PROVE [Latest!Next]_(Latest!latestVars)
  <2>1. Range(items') = Range(items) \cup {c} /\ items' = Append(items, c)
    BY <1>1, AppendRange DEF ReadEmptyCall, TypeOK
  <2>2. rev[c] = 0 /\ c \notin Range(items)
    BY <1>1 DEF ReadEmptyCall, Fresh, Order, Unseen
  <2>3. UNCHANGED <<rev, revision>>
    BY <1>1 DEF ReadEmptyCall
  <2>4. Latest!Refuse(c)
    BY <2>1, <2>2, <2>3 DEF Latest!Refuse, Newest
  <2> QED
    BY <2>4 DEF Latest!Next
<1>2. ASSUME NEW c \in Calls, ReadCall(c) PROVE [Latest!Next]_(Latest!latestVars)
  <2>1. CASE Live(active)
    BY <1>0, <1>2, <2>1 DEF ReadCall
  <2>2. CASE ~Live(active)
    <3>1. Accept(c) /\ UNCHANGED items /\ rev[c] = 0 /\ c \notin Range(items)
      BY <1>2, <2>2 DEF ReadCall, Fresh, Order, Unseen
    <3> QED
      BY <3>1, AcceptTakes DEF Latest!Next
  <2> QED
    BY <2>1, <2>2
<1>3. CASE EndCancel
  <2>1. /\ handling \in Calls /\ Accept(handling) /\ UNCHANGED items
        /\ rev[handling] = 0 /\ handling \notin Range(items)
    BY <1>3 DEF EndCancel, Handles, Order, InHand
  <2> QED
    BY <2>1, AcceptTakes DEF Latest!Next
<1>4. ASSUME NEW c \in Calls, RunEnds(c) PROVE [Latest!Next]_(Latest!latestVars)
  <2>1. CASE UNCHANGED items
    BY <1>0, <1>4, <2>1 DEF RunEnds
  <2>2. CASE items' # items
    <3>1. items' = Append(items, c) /\ UNCHANGED <<rev, revision>> /\ c \notin Range(items)
      BY <1>4, <2>2 DEF RunEnds, Order, Unsent, Suspended
    <3>2. rev[c] = revision /\ rev[c] # 0
      BY <1>4 DEF RunEnds, Order, OneLive, Suspended
    <3>3. Newest = c /\ Newest' = Newest
      BY <3>1, <3>2, NewestFacts DEF Newest
    <3>4. Range(items') = Range(items) \cup {c}
      BY <3>1, AppendRange DEF TypeOK
    <3>5. {d \in Calls : rev'[d] > 0} \cup Range(items') = {d \in Calls : rev[d] > 0} \cup Range(items)
      BY <3>1, <3>2, <3>4 DEF TypeOK
    <3>6. Latest!Answer
      BY <3>1, <3>2, <3>3, <3>5 DEF Latest!Answer, Latest!Range, Range
    <3> QED
      BY <3>6 DEF Latest!Next
  <2> QED
    BY <2>1, <2>2
<1>5. ASSUME UNCHANGED vars \/ ReadEvent \/ AskRefused \/ Delegate \/ ReaderEnds
             \/ OtherArrives \/ OtherEnds \/ ClientHangsUp \/ BackendLost \/ Bridge
      PROVE  [Latest!Next]_(Latest!latestVars)
  BY <1>0, <1>5 DEF vars, ReadEvent, AskRefused, Delegate, ReaderEnds, OtherArrives,
     OtherEnds, ClientHangsUp, BackendLost, Bridge, StopReader, BothOver, Close
<1>6. ASSUME NEW c \in Calls,
             Launch(c) \/ StartRun(c) \/ RunFails(c) \/ AskSpoken(c) \/ Unwind(c)
      PROVE  [Latest!Next]_(Latest!latestVars)
  BY <1>0, <1>6 DEF Launch, StartRun, RunFails, AskSpoken, Unwind
<1> QED
  BY <1>1, <1>2, <1>3, <1>4, <1>5, <1>6 DEF Next, Reader, Brain

\* For any number of calls, whatever order their events, cancellations, refusals
\* and other transports' messages come in, a connection answers each call at
\* most once and only while it is the newest that was taken: DelegationSupervisor
\* implements LatestWins.
THEOREM LatestRefined == Spec => OnlyLatestAnswered
<1>1. Init => Latest!Init
  <2> SUFFICES ASSUME Init PROVE Latest!Init
    OBVIOUS
  <2>1. Range(items) = {}
    BY EmptySeq DEF Init, Range
  <2> QED
    BY <2>1 DEF Init, Latest!Init, Newest
<1>2. TypeOK /\ Handles /\ Order /\ Order' /\ [Next]_vars => [Latest!Next]_(Latest!latestVars)
  BY LatestStep
<1> QED
  BY <1>1, <1>2, OrderInvariant, PTL DEF Spec, OnlyLatestAnswered, Latest!Spec

-----------------------------------------------------------------------------
(* Safety *)

\* Whatever ends a connection, run() returns with both loops over and no
\* delegation left that could still send to the voice model.
THEOREM NothingOutlives == Spec => []NothingOutlivesBridge
<1>1. TypeOK /\ Order => NothingOutlivesBridge
  BY DelegationAssumption DEF TypeOK, Order, Shutting, OneLive, NothingOutlivesBridge
<1> QED
  BY <1>1, OrderInvariant, PTL

\* Turns are numbers of turns that were spoken.
TurnsKnown ==
    /\ Range(buffer) \subseteq 1..heard
    /\ \A c \in Calls : taken[c] \subseteq 1..heard

\* A turn that was spoken is in the buffer of the connection or in the messages
\* of one delegation, never in both and never in two.
THEOREM TurnsOnce == Spec => []TurnsHandedOnce
<1> DEFINE Inv == TurnsKnown /\ TurnsHandedOnce
<1>1. Init => Inv
  <2> SUFFICES ASSUME Init PROVE Inv
    OBVIOUS
  <2>1. Range(buffer) = {}
    BY EmptySeq DEF Init, Range
  <2> QED
    BY <2>1 DEF Init, TurnsKnown, TurnsHandedOnce
<1>2. TypeOK /\ Handles /\ Inv /\ [Next]_vars => Inv'
  <2> SUFFICES ASSUME TypeOK, Handles, Inv, [Next]_vars PROVE Inv'
    OBVIOUS
  <2> USE DEF turnVars, brainVars, TurnsKnown, TurnsHandedOnce
  <2>1. CASE UNCHANGED <<heard, buffer, taken>>
    BY <2>1
  <2>2. CASE ReadEvent
    <3>1. /\ heard' = heard + 1 /\ taken' = taken
          /\ Range(buffer') \subseteq Range(buffer) \cup {heard + 1}
      BY <2>2, RememberFacts DEF ReadEvent, TypeOK
    <3>2. heard \in Nat /\ heard + 1 \notin 1..heard /\ 1..heard \subseteq 1..(heard + 1)
          /\ heard + 1 \in 1..(heard + 1)
      BY DEF TypeOK
    <3> QED
      BY <3>1, <3>2
  <2>3. ASSUME NEW c \in Calls, Accept(c), UNCHANGED heard PROVE Inv'
    <3>1. Range(buffer') = {} /\ taken' = [taken EXCEPT ![c] = Range(buffer)]
      BY <2>3, EmptySeq DEF Accept, Range
    <3> QED
      BY <2>3, <3>1 DEF TypeOK
  <2>4. ASSUME NEW c \in Calls, ReadCall(c) PROVE Inv'
    BY <2>1, <2>3, <2>4 DEF ReadCall
  <2>5. CASE EndCancel
    BY <2>3, <2>5 DEF EndCancel, Handles
  <2>6. ASSUME NEW c \in Calls, ReadEmptyCall(c) \/ Brain(c) PROVE Inv'
    BY <2>1, <2>6 DEF ReadEmptyCall, Brain, Launch, StartRun, RunEnds, RunFails, AskSpoken, Unwind
  <2>7. ASSUME UNCHANGED vars \/ AskRefused \/ Delegate \/ ReaderEnds \/ OtherArrives \/ OtherEnds
               \/ ClientHangsUp \/ BackendLost \/ Bridge
        PROVE  Inv'
    BY <2>1, <2>7 DEF vars, AskRefused, Delegate, ReaderEnds, OtherArrives, OtherEnds,
       ClientHangsUp, BackendLost, Bridge, StopReader, BothOver, Close
  <2> QED
    BY <2>2, <2>4, <2>5, <2>6, <2>7 DEF Next, Reader
<1>3. Inv => TurnsHandedOnce
  OBVIOUS
<1> QED
  BY <1>1, <1>2, <1>3, TypeInvariant, PTL DEF Spec

\* The form of NoSilentOutput that steps preserve: it names the state of the
\* reader that is still to send the request.
Spoken ==
    \A c \in Range(items) \ asked :
        \/ brain[c] = "item"
        \/ reader = "refuse" /\ handling = c
        \/ Superseded(c)
        \/ ~(client /\ backend)

LEMMA SpokenStep == TypeOK /\ TypeOK' /\ Handles /\ Order /\ Spoken /\ [Next]_vars => Spoken'
<1> SUFFICES ASSUME TypeOK, TypeOK', Handles, Order, Spoken, [Next]_vars,
                    NEW c \in Range(items') \ asked'
             PROVE  \/ brain'[c] = "item"
                    \/ reader' = "refuse" /\ handling' = c
                    \/ Superseded(c)'
                    \/ ~(client' /\ backend')
  BY DEF Spoken
<1> DEFINE Goal == \/ brain'[c] = "item"
                   \/ reader' = "refuse" /\ handling' = c
                   \/ Superseded(c)'
                   \/ ~(client' /\ backend')
<1>0. c \in Calls
  BY RangeOfSeq DEF TypeOK
<1> USE DelegationAssumption
<1> USE DEF TypeOK, bridgeVars, readerVars, brainVars, turnVars, outVars, Superseded
<1>1. ASSUME UNCHANGED <<reader, handling, rev, brain, items>>, asked \subseteq asked',
             client' => client, backend' => backend
      PROVE  Goal
  BY <1>1 DEF Spoken
<1>2. CASE ReadEvent
  BY <1>2 DEF ReadEvent, Spoken
<1>3. ASSUME NEW d \in Calls, ReadEmptyCall(d) PROVE Goal
  <2>1. Range(items') = Range(items) \cup {d}
    BY <1>3, AppendRange DEF ReadEmptyCall
  <2> QED
    BY <1>3, <2>1 DEF ReadEmptyCall, Spoken
<1>4. ASSUME NEW d \in Calls, Accept(d), rev[d] = 0, d \notin Range(items),
             UNCHANGED <<brain, items, asked, bridgeVars>>,
             reader # "refuse"
      PROVE  Goal
  <2>1. c # d /\ rev'[c] = rev[c] /\ rev[c] <= revision
    BY <1>0, <1>4 DEF Accept, Order, Revisions
  <2>2. rev'[d] = revision + 1
    BY <1>4 DEF Accept
  <2>3. rev'[d] > rev'[c]
    BY <1>0, <2>1, <2>2
  <2>4. brain[c] # "none" \/ ~(client /\ backend)
    BY <1>4 DEF Spoken
  <2> QED
    BY <1>4, <2>3, <2>4
<1>5. ASSUME NEW d \in Calls, ReadCall(d) PROVE Goal
  <2>1. CASE Live(active)
    <3>1. active \in Calls /\ brain' = [brain EXCEPT ![active] = AfterCancel(@)] /\ reader = "events"
          /\ reader' = "cancel" /\ UNCHANGED <<items, asked, rev, bridgeVars>>
      BY <1>5, <2>1 DEF ReadCall, Live
    <3>2. brain'[c] = "none" <=> brain[c] = "none"
      BY <1>0, <3>1, CancelOrder
    <3> QED
      BY <3>1, <3>2 DEF Spoken
  <2>2. CASE ~Live(active)
    <3>1. rev[d] = 0 /\ d \notin Range(items)
      BY <1>5 DEF ReadCall, Fresh, Order, Unseen
    <3> QED
      BY <1>4, <1>5, <2>2, <3>1 DEF ReadCall
  <2> QED
    BY <2>1, <2>2
<1>6. CASE AskRefused
  BY <1>6 DEF AskRefused, Spoken
<1>7. CASE EndCancel
  BY <1>4, <1>7 DEF EndCancel, Handles, Order, InHand
<1>8. CASE Delegate
  <2>1. handling # c
    BY <1>8 DEF Delegate, Order, InHand
  <2> QED
    BY <1>0, <1>8, <2>1 DEF Delegate, Spoken
<1>9. CASE ReaderEnds
  BY <1>9 DEF ReaderEnds, Spoken
<1>10. ASSUME NEW d \in Calls, Launch(d) \/ StartRun(d) \/ RunFails(d) \/ Unwind(d) PROVE Goal
  <2>1. /\ brain[d] \in {"created", "waiting", "running", "unwinding"}
        /\ \E s \in {"waiting", "running", "failed", "cancelled"} : brain' = [brain EXCEPT ![d] = s]
        /\ UNCHANGED <<reader, handling, rev, items, asked, bridgeVars>>
    BY <1>10 DEF Launch, StartRun, RunFails, Unwind
  <2> QED
    BY <1>0, <2>1 DEF Spoken
<1>11. ASSUME NEW d \in Calls, RunEnds(d) PROVE Goal
  <2>1. Range(Append(items, d)) = Range(items) \cup {d}
    BY AppendRange
  <2>2. /\ brain[d] \in {"running", "cut"}
        /\ \/ items' = items /\ \E s \in {"failed", "cancelled"} : brain' = [brain EXCEPT ![d] = s]
           \/ items' = Append(items, d) /\ brain' = [brain EXCEPT ![d] = "item"]
        /\ UNCHANGED <<reader, handling, rev, asked, bridgeVars>>
    BY <1>11 DEF RunEnds
  <2> QED
    BY <1>0, <2>1, <2>2 DEF Spoken
<1>12. ASSUME NEW d \in Calls, AskSpoken(d) PROVE Goal
  BY <1>0, <1>12 DEF AskSpoken, Spoken
<1>13. CASE OtherArrives
  BY <1>0, <1>13 DEF OtherArrives, Spoken
<1>14. CASE StopReader
  BY <1>14 DEF StopReader
<1>15. CASE Close
  BY <1>15 DEF Close
<1>16. ASSUME UNCHANGED vars \/ OtherEnds \/ ClientHangsUp \/ BackendLost \/ BothOver PROVE Goal
  BY <1>1, <1>16 DEF vars, OtherEnds, ClientHangsUp, BackendLost, BothOver
<1> QED
  BY <1>2, <1>3, <1>5, <1>6, <1>7, <1>8, <1>9, <1>10, <1>11, <1>12, <1>13, <1>14, <1>15, <1>16
     DEF Next, Reader, Brain, Bridge

\* While both ends are connected, an output in the conversation that the voice
\* model was not asked to speak is about to be asked for, or a newer call will.
THEOREM NoOutputSilent == Spec => []NoSilentOutput
<1>1. Init => Spoken
  <2> SUFFICES ASSUME Init PROVE Spoken
    OBVIOUS
  <2>1. Range(items) = {}
    BY EmptySeq DEF Init, Range
  <2> QED
    BY <2>1 DEF Spoken
<1>2. TypeOK /\ TypeOK' /\ Handles /\ Order /\ Spoken /\ [Next]_vars => Spoken'
  BY SpokenStep
<1>3. Spoken => NoSilentOutput
  BY DEF Spoken, NoSilentOutput
<1> QED
  BY <1>1, <1>2, <1>3, OrderInvariant, PTL DEF Spec
=============================================================================
