------------------------------ MODULE RunGuard ------------------------------
(***************************************************************************)
(* The barge-in guard of AgentService (core/service.py): run() and         *)
(* resume() are async generators that cancel the run in flight for their   *)
(* session, drive the graph in a task of their own and relay its events    *)
(* through a queue that a None sentinel ends; shutdown() cancels whatever  *)
(* is registered.                                                          *)
(*                                                                         *)
(* A request r is one call of run() or resume(): its generator (`pc'), the *)
(* task it creates (`task') and the queue between them.  One action is the *)
(* code between two suspension points of the event loop, where nothing     *)
(* else can run.  The queue is first in first out, so its content is the   *)
(* number of events waiting and whether the sentinel is behind them.       *)
(***************************************************************************)
EXTENDS Naturals, FiniteSets

CONSTANTS
    Requests,    \* calls of run() and resume()
    Sessions,    \* session ids
    SessionOf,   \* the session each request is for
    NoRequest,   \* "no task": None in self._active.get(...)
    MaxEvents    \* bound: events waiting in a queue that a run may add to

ASSUME SessionOfAssumption == SessionOf \in [Requests -> Sessions]
ASSUME NoRequestAssumption == NoRequest \notin Requests
ASSUME MaxEventsAssumption == MaxEvents \in Nat

VARIABLES
    pc,        \* where the generator of a request is suspended
    task,      \* the state of the asyncio task that drives its graph
    victim,    \* the task _cancel_active awaits
    queued,    \* events put by the task and not yet yielded
    sentinel,  \* the None of produce()'s finally is in the queue
    finished,  \* the run put its DoneEvent or its approval requests
    verdict,   \* how the stream ended for whoever iterates it
    active,    \* self._active
    service,   \* "up", "draining" (shutdown's loop), "closing" or "closed"
    graph,     \* self._graph is set
    drain,     \* shutdown's list(self._active.values())
    drained,   \* the part of it that its loop has reached
    drainOn    \* the task shutdown awaits

requestVars == <<pc, victim, verdict>>
taskVars == <<task, queued, sentinel, finished>>
drainVars == <<service, drain, drained, drainOn>>
stopVars == <<service, graph, drain, drained, drainOn>>
vars == <<pc, task, victim, queued, sentinel, finished, verdict, active,
          service, graph, drain, drained, drainOn>>

-----------------------------------------------------------------------------
(* Tasks *)

\* A task created and not run yet is "new"; cancelled in that state it is
\* "stillborn": asyncio throws into a coroutine that has not entered its try.
Live == {"new", "running", "cancelling", "stillborn"}
Uncancelled == {"new", "running"}
Over == {"done", "cancelled", "failed"}
TaskStates == {"none"} \cup Live \cup Over

IsLive(r) == task[r] \in Live
IsOver(r) == task[r] \in Over

\* task.cancel(), as it changes the task's state.
Cancelled(t) == CASE t = "new" -> "stillborn"
                  [] t = "running" -> "cancelling"
                  [] OTHER -> t

Init ==
    /\ pc = [r \in Requests |-> "idle"]
    /\ task = [r \in Requests |-> "none"]
    /\ victim = [r \in Requests |-> NoRequest]
    /\ queued = [r \in Requests |-> 0]
    /\ sentinel = [r \in Requests |-> FALSE]
    /\ finished = [r \in Requests |-> FALSE]
    /\ verdict = [r \in Requests |-> "none"]
    /\ active = [s \in Sessions |-> NoRequest]
    /\ service = "up"
    /\ graph = TRUE
    /\ drain = {}
    /\ drained = {}
    /\ drainOn = NoRequest

-----------------------------------------------------------------------------
(* The generator: _guard_stream and _cancel_active *)

\* What follows _cancel_active without a suspension: the queue and the task
\* are created and the task takes the session's entry, whoever holds it.
Register(r) ==
    /\ pc' = [pc EXCEPT ![r] = "relaying"]
    /\ task' = [task EXCEPT ![r] = "new"]
    /\ active' = [active EXCEPT ![SessionOf[r]] = r]
    /\ UNCHANGED <<queued, sentinel, finished, verdict, drainVars>>

\* The first iteration of the generator when no run is in flight: either no
\* task is registered or _cancel_task returns at once.  _require_graph sets the
\* service up again when shutdown() has taken its graph away: nothing here asks
\* whether it is shutting down.
StartFree(r) ==
    LET a == active[SessionOf[r]] IN
    /\ pc[r] = "idle"
    /\ a # NoRequest => IsOver(a)
    /\ Register(r)
    /\ graph' = TRUE
    /\ UNCHANGED victim

\* Mutant: the registered run of whichever session is cancelled.
StartBargeInAnywhere(r) ==
    \E a \in Requests :
        /\ pc[r] = "idle"
        /\ \E s \in Sessions : active[s] = a
        /\ ~IsOver(a)
        /\ pc' = [pc EXCEPT ![r] = "barging"]
        /\ victim' = [victim EXCEPT ![r] = a]
        /\ task' = [task EXCEPT ![a] = Cancelled(@)]
        /\ graph' = TRUE
        /\ UNCHANGED <<queued, sentinel, finished, verdict, active, drainVars>>

\* The first iteration when a run is in flight: cancel it and wait for it.
StartBargeIn(r) ==
    LET a == active[SessionOf[r]] IN
    /\ pc[r] = "idle"
    /\ a # NoRequest
    /\ ~IsOver(a)
    /\ pc' = [pc EXCEPT ![r] = "barging"]
    /\ victim' = [victim EXCEPT ![r] = a]
    /\ task' = [task EXCEPT ![a] = Cancelled(@)]
    /\ graph' = TRUE
    /\ UNCHANGED <<queued, sentinel, finished, verdict, active, drainVars>>

\* Mutant: the victim is cancelled and not awaited.
BargeInAtOnce(r) ==
    /\ pc[r] = "barging"
    /\ victim' = [victim EXCEPT ![r] = NoRequest]
    /\ Register(r)
    /\ UNCHANGED graph

\* Mutant: waits for the stream of the victim instead of its task.
BargeInAfterStream(r) ==
    /\ pc[r] = "barging"
    /\ pc[victim[r]] = "ended"
    /\ victim' = [victim EXCEPT ![r] = NoRequest]
    /\ Register(r)
    /\ UNCHANGED graph

\* The awaited task is over.  The code drops the entry if it is still the
\* victim's, and then writes its own over whatever is there.
BargeIn(r) ==
    /\ pc[r] = "barging"
    /\ IsOver(victim[r])
    /\ victim' = [victim EXCEPT ![r] = NoRequest]
    /\ Register(r)
    /\ UNCHANGED graph

\* Mutant: takes from the queue without waiting for an item.
RelayNoWait(r) ==
    /\ pc[r] = "relaying"
    /\ queued' = [queued EXCEPT ![r] = @ - 1]
    /\ UNCHANGED <<requestVars, task, sentinel, finished, active, stopVars>>

Relay(r) ==
    /\ pc[r] = "relaying"
    /\ queued[r] > 0
    /\ queued' = [queued EXCEPT ![r] = @ - 1]
    /\ UNCHANGED <<requestVars, task, sentinel, finished, active, stopVars>>

\* Mutant: the entry is never dropped.
UnregisterNever(r) == UNCHANGED active

\* Mutant: the entry of the session is dropped, whoever holds it.
UnregisterAny(r) == active' = [active EXCEPT ![SessionOf[r]] = NoRequest]

\* The entry goes only if it is still the request's own.
Unregister(r) ==
    active' = [s \in Sessions |-> IF active[s] = r THEN NoRequest ELSE active[s]]

\* The sentinel of a task that was not cancelled: the stream ends, or raises.
RelayEnd(r) ==
    /\ pc[r] = "relaying"
    /\ queued[r] = 0
    /\ sentinel[r]
    /\ task[r] # "cancelled"
    /\ verdict' = [verdict EXCEPT ![r] =
                     IF task[r] = "failed" THEN "raised" ELSE "completed"]
    /\ pc' = [pc EXCEPT ![r] = "ended"]
    /\ sentinel' = [sentinel EXCEPT ![r] = FALSE]
    /\ Unregister(r)
    /\ UNCHANGED <<task, victim, queued, finished, stopVars>>

\* The sentinel of a cancelled task: a CancelledEvent is yielded, and the
\* generator is suspended there until it is iterated once more.
RelayCancelled(r) ==
    /\ pc[r] = "relaying"
    /\ queued[r] = 0
    /\ sentinel[r]
    /\ task[r] = "cancelled"
    /\ verdict' = [verdict EXCEPT ![r] = "cancelled"]
    /\ pc' = [pc EXCEPT ![r] = "closing"]
    /\ sentinel' = [sentinel EXCEPT ![r] = FALSE]
    /\ UNCHANGED <<task, victim, queued, finished, active, stopVars>>

\* Whoever iterates the stream is cancelled at the queue, or closes it at a
\* yield: the finally clause cancels the request's own task.
Abandon(r) ==
    /\ pc[r] = "relaying"
    /\ verdict' = [verdict EXCEPT ![r] = "abandoned"]
    /\ pc' = [pc EXCEPT ![r] = "closing"]
    /\ task' = [task EXCEPT ![r] = Cancelled(@)]
    /\ UNCHANGED <<victim, queued, sentinel, finished, active, stopVars>>

\* Mutant: the finally clause cancels the task and does not await it.
CloseAtOnce(r) ==
    /\ pc[r] = "closing"
    /\ pc' = [pc EXCEPT ![r] = "ended"]
    /\ Unregister(r)
    /\ UNCHANGED <<victim, verdict, taskVars, stopVars>>

\* The finally clause, once its _cancel_task returns.
Close(r) ==
    /\ pc[r] = "closing"
    /\ IsOver(r)
    /\ pc' = [pc EXCEPT ![r] = "ended"]
    /\ Unregister(r)
    /\ UNCHANGED <<victim, verdict, taskVars, stopVars>>

-----------------------------------------------------------------------------
(* The task: produce and _stream_graph *)

\* First step of the task.  Without a graph, taken away since its generator
\* asked for it, _stream_graph raises.
Launch(r) ==
    /\ task[r] = "new"
    /\ \/ /\ graph
          /\ task' = [task EXCEPT ![r] = "running"]
          /\ UNCHANGED sentinel
       \/ /\ ~graph
          /\ task' = [task EXCEPT ![r] = "failed"]
          /\ sentinel' = [sentinel EXCEPT ![r] = TRUE]
    /\ UNCHANGED <<requestVars, queued, finished, active, stopVars>>

Emit(r) ==
    /\ task[r] = "running"
    /\ queued[r] < MaxEvents
    /\ queued' = [queued EXCEPT ![r] = @ + 1]
    /\ UNCHANGED <<requestVars, task, sentinel, finished, active, stopVars>>

\* Mutant: publishing the last event suspends before the task ends.
FinishInTwoSteps(r) ==
    /\ task[r] = "running"
    /\ task' = [task EXCEPT ![r] = IF finished[r] THEN "done" ELSE "running"]
    /\ queued' = [queued EXCEPT ![r] = IF finished[r] THEN @ ELSE @ + 1]
    /\ sentinel' = [sentinel EXCEPT ![r] = finished[r]]
    /\ finished' = [finished EXCEPT ![r] = TRUE]
    /\ UNCHANGED <<requestVars, active, stopVars>>

\* The tail after aget_state: publishing does not suspend, so the last events,
\* the sentinel and the end of the task are one step.
Finish(r) ==
    /\ task[r] = "running"
    /\ task' = [task EXCEPT ![r] = "done"]
    /\ queued' = [queued EXCEPT ![r] = @ + 1]
    /\ finished' = [finished EXCEPT ![r] = TRUE]
    /\ sentinel' = [sentinel EXCEPT ![r] = TRUE]
    /\ UNCHANGED <<requestVars, active, stopVars>>

\* The graph or the checkpointer raises, in a run or in its cancellation.
Fail(r) ==
    /\ task[r] \in {"running", "cancelling"}
    /\ task' = [task EXCEPT ![r] = "failed"]
    /\ sentinel' = [sentinel EXCEPT ![r] = TRUE]
    /\ UNCHANGED <<requestVars, queued, finished, active, stopVars>>

\* Mutant: produce() has no finally clause.
EndCancelledSilently(r) ==
    /\ task[r] = "cancelling"
    /\ task' = [task EXCEPT ![r] = "cancelled"]
    /\ UNCHANGED <<requestVars, queued, sentinel, finished, active, stopVars>>

\* The CancelledError leaves produce() through its finally clause.
EndCancelled(r) ==
    /\ task[r] = "cancelling"
    /\ task' = [task EXCEPT ![r] = "cancelled"]
    /\ sentinel' = [sentinel EXCEPT ![r] = TRUE]
    /\ UNCHANGED <<requestVars, queued, finished, active, stopVars>>

\* It is thrown into a coroutine that never started: no finally clause runs.
EndStillborn(r) ==
    /\ task[r] = "stillborn"
    /\ task' = [task EXCEPT ![r] = "cancelled"]
    /\ UNCHANGED <<requestVars, queued, sentinel, finished, active, stopVars>>

-----------------------------------------------------------------------------
(* shutdown() *)

StopBegin ==
    /\ service = "up"
    /\ service' = "draining"
    /\ drain' = {active[s] : s \in Sessions} \ {NoRequest}
    /\ UNCHANGED <<requestVars, taskVars, active, graph, drained, drainOn>>

\* Mutant: shutdown cancels a task and does not await it.
StopNextAtOnce(r) ==
    /\ service = "draining"
    /\ drainOn = NoRequest
    /\ r \in drain \ drained
    /\ drained' = drained \cup {r}
    /\ task' = [task EXCEPT ![r] = Cancelled(@)]
    /\ UNCHANGED <<requestVars, queued, sentinel, finished, active, service,
                    graph, drain, drainOn>>

\* Mutant: shutdown awaits a task and does not cancel it.
StopNextPatient(r) ==
    /\ service = "draining"
    /\ drainOn = NoRequest
    /\ r \in drain \ drained
    /\ drained' = drained \cup {r}
    /\ drainOn' = IF IsOver(r) THEN NoRequest ELSE r
    /\ UNCHANGED <<requestVars, taskVars, active, service, graph, drain>>

\* _cancel_task on the next task of the list; the dict's order is not kept.
StopNext(r) ==
    /\ service = "draining"
    /\ drainOn = NoRequest
    /\ r \in drain \ drained
    /\ drained' = drained \cup {r}
    /\ drainOn' = IF IsOver(r) THEN NoRequest ELSE r
    /\ task' = [task EXCEPT ![r] = Cancelled(@)]
    /\ UNCHANGED <<requestVars, queued, sentinel, finished, active, service,
                    graph, drain>>

StopResume ==
    /\ drainOn # NoRequest
    /\ IsOver(drainOn)
    /\ drainOn' = NoRequest
    /\ UNCHANGED <<requestVars, taskVars, active, service, graph, drain, drained>>

\* self._active.clear(), whatever has registered since the list was taken; the
\* database and the MCP servers are closed next, the graph still there.
StopEnd ==
    /\ service = "draining"
    /\ drained = drain
    /\ drainOn = NoRequest
    /\ service' = "closing"
    /\ active' = [s \in Sessions |-> NoRequest]
    /\ UNCHANGED <<requestVars, taskVars, graph, drain, drained, drainOn>>

\* The end of shutdown(): the graph goes.
StopDone ==
    /\ service = "closing"
    /\ service' = "closed"
    /\ graph' = FALSE
    /\ UNCHANGED <<requestVars, taskVars, active, drain, drained, drainOn>>

-----------------------------------------------------------------------------
Start(r) == StartFree(r) \/ StartBargeIn(r)
Consume(r) == Relay(r) \/ RelayEnd(r) \/ RelayCancelled(r)
EndRun(r) == Finish(r) \/ Fail(r)
Unwind(r) == EndCancelled(r) \/ EndStillborn(r)
StopStep ==
    (\E r \in Requests : StopNext(r)) \/ StopResume \/ StopEnd \/ StopDone
Stop == StopBegin \/ StopStep

Next ==
    \/ \E r \in Requests :
          \/ Start(r) \/ BargeIn(r) \/ Consume(r) \/ Abandon(r) \/ Close(r)
          \/ Launch(r) \/ Emit(r) \/ EndRun(r) \/ Unwind(r)
    \/ Stop

Spec == Init /\ [][Next]_vars

(***************************************************************************)
(* The regime in which the docstring of _guard_stream holds.  No request   *)
(* of a session starts while another one waits for a run to be cancelled;  *)
(* and from the moment shutdown() has begun, none starts before those that *)
(* came before it in the session are over.  __main__.py keeps the second   *)
(* part: it stops the scheduler, the servers and the bot before it calls   *)
(* shutdown().  Without it a run registered while shutdown() drains loses  *)
(* its entry to the clear(), and the next request runs beside it.          *)
(***************************************************************************)
StartsAlone ==
    \A r \in Requests :
        pc[r] = "idle" /\ pc'[r] # "idle" =>
            \A q \in Requests :
                SessionOf[q] = SessionOf[r] =>
                    /\ pc[q] # "barging"
                    /\ service # "up" => pc[q] \in {"idle", "ended"}

SerialNext == Next /\ StartsAlone
SerialSpec == Init /\ [][SerialNext]_vars

(***************************************************************************)
(* Fairness.  The event loop runs every callback that is ready: a waiting  *)
(* generator whose future is set, a task that was created or cancelled.    *)
(* Transports iterate their stream to its end.  That a run ends by itself  *)
(* (the model and the tools answer) is assumed in LiveSpec only.           *)
(***************************************************************************)
LoopFairness ==
    /\ \A r \in Requests :
          /\ WF_vars(BargeIn(r) \/ Consume(r) \/ Close(r))
          /\ WF_vars(Launch(r) \/ Unwind(r))
    /\ WF_vars(StopStep)

FairSpec == Spec /\ LoopFairness
LiveSpec == FairSpec /\ \A r \in Requests : WF_vars(EndRun(r))

-----------------------------------------------------------------------------
(* Type invariant *)

TypeOK ==
    /\ pc \in [Requests -> {"idle", "barging", "relaying", "closing", "ended"}]
    /\ task \in [Requests -> TaskStates]
    /\ victim \in [Requests -> Requests \cup {NoRequest}]
    /\ queued \in [Requests -> Nat]
    /\ sentinel \in [Requests -> BOOLEAN]
    /\ finished \in [Requests -> BOOLEAN]
    /\ verdict \in [Requests ->
                      {"none", "completed", "raised", "cancelled", "abandoned"}]
    /\ active \in [Sessions -> Requests \cup {NoRequest}]
    /\ service \in {"up", "draining", "closing", "closed"}
    /\ graph \in BOOLEAN
    /\ drain \subseteq Requests
    /\ drained \subseteq Requests
    /\ drainOn \in Requests \cup {NoRequest}

-----------------------------------------------------------------------------
(* Safety *)

\* An entry of self._active is a request of that session whose generator has
\* not left its finally clause: the table neither leaks entries nor lets a
\* request drop the entry of the one that superseded it.
RegistryOwned ==
    \A s \in Sessions :
        active[s] # NoRequest =>
            /\ SessionOf[active[s]] = s
            /\ pc[active[s]] \in {"relaying", "closing"}

\* When a stream has ended, by completion, error, barge-in, shutdown or its
\* reader going away, its graph task is not left running in the background.
NoOrphanTask ==
    \A r \in Requests : pc[r] = "ended" => ~IsLive(r)

\* What the reader was told is what happened: a stream that completed handed
\* over the run's last event, and one that ended with a CancelledEvent never
\* handed over a DoneEvent (test_new_run_cancels_the_in_flight_one).
VerdictTruthful ==
    \A r \in Requests :
        /\ verdict[r] = "completed" => task[r] = "done" /\ finished[r]
        /\ verdict[r] = "cancelled" => task[r] = "cancelled" /\ ~finished[r]
        /\ verdict[r] \in {"completed", "raised", "cancelled"} => queued[r] = 0

\* The service.py:333 docstring: two graph executions never race on the same
\* thread.  It fails when two requests wait for the same victim, and when one
\* starts beside a run that registered while shutdown() drained (Spec); it holds
\* when requests of a session start one at a time (SerialSpec).
OneRunPerSession ==
    \A r, q \in Requests :
        SessionOf[r] = SessionOf[q] /\ IsLive(r) /\ IsLive(q) => r = q

\* Every run that was registered when shutdown() took its list is over when
\* the database closes, however its own reader, a barge-in or an error
\* interfered (test_shutdown_cancels_active_runs).
ShutdownDrained ==
    service \in {"closing", "closed"} => \A r \in drain : ~IsLive(r)

-----------------------------------------------------------------------------
(* Actions *)

\* A run is cancelled by a request of its own session that barges in, by its
\* own reader or by shutdown, never on account of another session
\* (test_runs_in_other_sessions_are_not_cancelled).
CancelHasCause ==
    \A r \in Requests :
        task[r] \in Uncancelled /\ task'[r] \in Live \ Uncancelled =>
            \/ \E q \in Requests : SessionOf[q] = SessionOf[r]
                                     /\ pc[q] = "idle" /\ pc'[q] = "barging"
            \/ pc[r] = "relaying" /\ pc'[r] = "closing"
            \/ drainOn' = r

CancelCause == [][CancelHasCause]_vars

\* The regime implements SessionSlot: each request gets the session's slot once,
\* and gives it up before another one takes it.
Slot == INSTANCE SessionSlot
        WITH running <- {r \in Requests : IsLive(r)},
             served <- {r \in Requests : task[r] # "none"}

TakesTurns == Slot!Spec

-----------------------------------------------------------------------------
(* Liveness *)

\* A new message is never stuck behind the run it supersedes, even if that
\* run would not have ended by itself.
BargeInProceeds ==
    \A r \in Requests : pc[r] = "barging" ~> pc[r] = "relaying"

\* shutdown() ends, whatever runs and barge-ins there are meanwhile.
ShutdownEnds == service = "draining" ~> service = "closed"

\* The stream of a run that was cancelled after its first step ends.
CancelledRunCloses ==
    \A r \in Requests : task[r] = "cancelling" ~> pc[r] = "ended"

\* The service.py:337 docstring: a cancelled run ends with a CancelledEvent.
\* It fails for a task that was cancelled before its first step.
CancelledStreamEnds ==
    \A r \in Requests : task[r] = "cancelled" ~> pc[r] = "ended"

=============================================================================
