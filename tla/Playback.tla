------------------------------ MODULE Playback ------------------------------
(***************************************************************************)
(* What the phone hears: AudioSocketConnection (transports/voice/          *)
(* audiosocket.py) takes the audio of the voice model's responses, cuts it *)
(* into frames and writes one every 20 ms.  When the caller starts to      *)
(* speak, what is buffered is dropped and the rest of the response is      *)
(* ignored until the next one is created.                                  *)
(*                                                                         *)
(* Audio is counted in units, FrameUnits of them to a frame; a unit is the *)
(* number of the response it belongs to.  The backend is external: its     *)
(* responses come one after the other.                                     *)
(***************************************************************************)
EXTENDS Naturals, SequencesExt

CONSTANTS
    FrameUnits,     \* FRAME_BYTES
    Deltas,         \* units an audio delta may carry
    MaxResponses,   \* bound: responses of the backend
    MaxPending,     \* bound: units buffered when a delta comes
    MaxSpeech       \* bound: times the caller starts to speak

VARIABLES
    response,       \* backend: the latest response it created
    speech,         \* backend: times it heard the caller start to speak
    interrupted, sendBuffer, outgoing, closed,
    pump,           \* "off", "ready" or "paced" (sleeping after a frame)
    spoken,         \* the response that was the latest when the caller last spoke
    heard           \* the last frame that was written

phoneVars == <<response, speech, interrupted, sendBuffer, outgoing, closed, pump, spoken, heard>>

PhoneInit ==
    /\ response = 0 /\ speech = 0
    /\ interrupted = FALSE
    /\ sendBuffer = <<>> /\ outgoing = <<>>
    /\ closed = FALSE
    /\ pump = "ready"
    /\ spoken = 0 /\ heard = <<>>

-----------------------------------------------------------------------------
(* send(): events of the backend.                                          *)

\* Mutant: the frames are dropped and the audio that fills none yet is not.
SpeechStartsHalfCleared ==
    /\ speech < MaxSpeech
    /\ speech' = speech + 1
    /\ interrupted' = TRUE
    /\ outgoing' = <<>>
    /\ spoken' = response
    /\ UNCHANGED <<response, sendBuffer, closed, pump, heard>>

\* speech_started, and _clear_pending_audio
SpeechStarts ==
    /\ speech < MaxSpeech
    /\ speech' = speech + 1
    /\ interrupted' = TRUE
    /\ sendBuffer' = <<>> /\ outgoing' = <<>>
    /\ spoken' = response
    /\ UNCHANGED <<response, closed, pump, heard>>

ResponseCreated ==
    /\ response < MaxResponses
    /\ response' = response + 1
    /\ interrupted' = FALSE
    /\ UNCHANGED <<speech, sendBuffer, outgoing, closed, pump, spoken, heard>>

Frames(audio) ==
    [k \in 1..Len(audio) \div FrameUnits |->
        SubSeq(audio, (k - 1) * FrameUnits + 1, k * FrameUnits)]

\* _queue_audio: whole frames go to the pump, the rest waits for more audio.  What
\* is left of a response the caller spoke over is ignored.
Delta ==
    /\ response > 0 /\ ~interrupted
    /\ Len(sendBuffer) + Len(outgoing) * FrameUnits <= MaxPending
    /\ \E units \in Deltas :
        LET audio == sendBuffer \o [k \in 1..units |-> response]
        IN  /\ outgoing' = outgoing \o Frames(audio)
            /\ sendBuffer' = SubSeq(audio, Len(audio) - (Len(audio) % FrameUnits) + 1, Len(audio))
    /\ UNCHANGED <<response, speech, interrupted, closed, pump, spoken, heard>>

-----------------------------------------------------------------------------
(* _pump_audio and _write; the frame is taken and written in one go.  A    *)
(* connection that is lost closes the adapter.                             *)

Plays ==
    /\ pump = "ready" /\ outgoing # <<>>
    /\ pump' = "paced"
    /\ outgoing' = Tail(outgoing)
    /\ IF closed THEN UNCHANGED <<closed, heard>>
       ELSE heard' = Head(outgoing) /\ closed' \in BOOLEAN
    /\ UNCHANGED <<response, speech, interrupted, sendBuffer, spoken>>

Paced ==
    /\ pump = "paced"
    /\ pump' = "ready"
    /\ UNCHANGED <<response, speech, interrupted, sendBuffer, outgoing, closed, spoken, heard>>

\* close(): the pump is cancelled.
Closes ==
    /\ pump # "off"
    /\ pump' = "off"
    /\ closed' = TRUE
    /\ UNCHANGED <<response, speech, interrupted, sendBuffer, outgoing, spoken, heard>>

-----------------------------------------------------------------------------
PhoneNext ==
    \/ SpeechStarts \/ ResponseCreated \/ Delta
    \/ Plays \/ Paced \/ Closes

PhoneSpec == PhoneInit /\ [][PhoneNext]_phoneVars

-----------------------------------------------------------------------------
\* "Drop buffered playback so barge-in stops the model immediately": once the
\* caller has started to speak, no frame is written that holds audio of a
\* response that was created before.
BargeInSilences ==
    [][pump = "ready" /\ pump' = "paced" /\ ~closed
           => \A k \in DOMAIN heard' : heard'[k] > spoken]_phoneVars
=============================================================================
