----------------------------- MODULE VoiceCalls -----------------------------
(***************************************************************************)
(* Outbound phone calls: OutboundCaller.call (transports/voice/            *)
(* outbound.py), AmiClient.originate (ami.py), which asks Asterisk to dial *)
(* over a connection of its own, and AudioSocketServer._handle (server.py),*)
(* to which Asterisk connects when the callee answers.  The greeting of a  *)
(* call is registered before Asterisk is asked, and taken by the           *)
(* connection that names the call.                                         *)
(*                                                                         *)
(* Asterisk is external: it may be unreachable, refuse, be silent, close,  *)
(* dial and have its answer lost, and let the callee answer at any time,   *)
(* before its own response included.                                       *)
(***************************************************************************)
EXTENDS Naturals

CONSTANTS
    Calls,       \* ids of outbound calls
    Incoming     \* the calls somebody else makes to the server

VARIABLES
    caller,      \* where originate() is
    greetings,   \* AudioSocketServer._pending_greetings: the ids
    dialled,     \* Asterisk: calls it was asked to originate and accepted
    leg,         \* the connection of a call to the server
    opening      \* the greeting its connection was given

voiceVars == <<caller, greetings, dialled, leg, opening>>

Waiting == {"open", "banner", "login", "events", "response"}

VoiceInit ==
    /\ caller = [c \in Calls |-> "idle"]
    /\ greetings = {}
    /\ dialled = {}
    /\ leg = [c \in Calls \cup Incoming |-> "none"]
    /\ opening = [c \in Calls \cup Incoming |-> "none"]

Goes(c, from, to) == caller[c] = from /\ caller' = [caller EXCEPT ![c] = to]

-----------------------------------------------------------------------------
(* The caller.                                                             *)

\* register_outbound, then originate.  A call without a target never gets here.
Registers(c) ==
    /\ Goes(c, "idle", "open")
    /\ greetings' = greetings \cup {c}
    /\ UNCHANGED <<dialled, leg, opening>>

\* The connection is open; the banner is waited for, and not missed.
Steps(c) ==
    /\ \/ Goes(c, "open", "banner")
       \/ Goes(c, "banner", "login")
       \/ Goes(c, "login", "events")
    /\ UNCHANGED <<greetings, dialled, leg, opening>>

\* Whatever answers the Events action, Originate is sent; Asterisk dials or not.
Originates(c) ==
    /\ Goes(c, "events", "response")
    /\ \/ dialled' = dialled \cup {c}
       \/ UNCHANGED dialled
    /\ UNCHANGED <<greetings, leg, opening>>

\* Mutant: the greeting is cancelled however the request ends.
SucceedsForgetting(c) ==
    /\ c \in dialled
    /\ Goes(c, "response", "placed")
    /\ greetings' = greetings \ {c}
    /\ UNCHANGED <<dialled, leg, opening>>

\* Response: Success
Succeeds(c) ==
    /\ c \in dialled
    /\ Goes(c, "response", "placed")
    /\ UNCHANGED <<greetings, dialled, leg, opening>>

\* Mutant: only what Asterisk answers is caught, not a connection that fails.
FailsUncaught(c) ==
    /\ caller[c] \in Waiting
    /\ caller' = [caller EXCEPT ![c] = "failed"]
    /\ greetings' = IF caller[c] = "open" THEN greetings ELSE greetings \ {c}
    /\ UNCHANGED <<dialled, leg, opening>>

\* No host, no secret, a connection that fails or is closed, a timeout, a
\* refusal: cancel_outbound.  Asterisk may have dialled.
Fails(c) ==
    /\ caller[c] \in Waiting
    /\ caller' = [caller EXCEPT ![c] = "failed"]
    /\ greetings' = greetings \ {c}
    /\ UNCHANGED <<dialled, leg, opening>>

\* The run that calls is cancelled: CancelledError is no Exception.
IsCancelled(c) ==
    /\ caller[c] \in Waiting
    /\ caller' = [caller EXCEPT ![c] = "cancelled"]
    /\ UNCHANGED <<greetings, dialled, leg, opening>>

-----------------------------------------------------------------------------
(* The server.                                                             *)

\* The callee answers, or somebody calls: _handle reads the id and pops the
\* greeting, the configured one if there is none.
PicksUp(c) ==
    /\ c \in dialled \cup Incoming
    /\ leg[c] = "none"
    /\ leg' = [leg EXCEPT ![c] = "bridged"]
    /\ opening' = [opening EXCEPT ![c] = IF c \in greetings THEN "own" ELSE "default"]
    /\ greetings' = greetings \ {c}
    /\ UNCHANGED <<caller, dialled>>

\* The callee hangs up, the bridge fails; or the connection ended before its id,
\* and the call is over for Asterisk too.
HangsUp(c) ==
    /\ \/ leg[c] = "bridged"
       \/ leg[c] = "none" /\ c \in dialled \cup Incoming
    /\ leg' = [leg EXCEPT ![c] = "over"]
    /\ UNCHANGED <<caller, greetings, dialled, opening>>

-----------------------------------------------------------------------------
VoiceNext ==
    \/ \E c \in Calls :
        \/ Registers(c) \/ Steps(c) \/ Originates(c)
        \/ Succeeds(c) \/ Fails(c) \/ IsCancelled(c)
    \/ \E c \in Calls \cup Incoming : PicksUp(c) \/ HangsUp(c)

VoiceSpec == VoiceInit /\ [][VoiceNext]_voiceVars

-----------------------------------------------------------------------------
TypeOK ==
    /\ caller \in [Calls -> Waiting \cup {"idle", "placed", "failed", "cancelled"}]
    /\ greetings \subseteq Calls
    /\ dialled \subseteq Calls
    /\ leg \in [Calls \cup Incoming -> {"none", "bridged", "over"}]
    /\ opening \in [Calls \cup Incoming -> {"none", "own", "default"}]

\* "the previously registered greeting makes the brain speak first": the callee of
\* a call that was reported as placed hears its greeting, also when he answers
\* before the report; the configured one is heard only in a call that failed for
\* the caller, or that nobody here made.
OwnGreeting ==
    \A c \in Calls :
        opening[c] = "default" => caller[c] = "failed"

\* A greeting is left registered only for a call nobody has answered, and not for
\* one that failed.
NoGreetingLeft ==
    \A c \in greetings :
        /\ caller[c] \in Waiting \cup {"placed", "cancelled"}
        /\ leg[c] # "bridged"
=============================================================================
