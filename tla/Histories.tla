----------------------------- MODULE Histories ------------------------------
(***************************************************************************)
(* What is done to a message history before the model reads it:            *)
(* repair_tool_call_pairs (core/messages.py), which makes every assistant  *)
(* message with tool calls be followed by one tool message per call, and   *)
(* compact (core/compaction.py), which repairs, then replaces the oldest   *)
(* messages by a summary when the context is over its token limit.         *)
(*                                                                         *)
(* The two loops are a state machine, one action per branch.  A message is *)
(* its kind and the call ids it carries; its text is left out, except that *)
(* a synthetic result is told from a recorded one.  Token counts are       *)
(* abstracted to "over the limit or not".                                  *)
(***************************************************************************)
EXTENDS Integers, Sequences, SequencesExt

CONSTANTS
    Ids,        \* tool call ids
    MaxHistory, \* bound: messages in a history
    MaxCalls,   \* bound: calls of one assistant message
    Keeps       \* the values of compaction_keep_messages to consider

ASSUME MaxHistoryAssumption == MaxHistory \in Nat
ASSUME MaxCallsAssumption == MaxCalls \in Nat \ {0}
ASSUME KeepsAssumption == Keeps \subseteq Int

VARIABLES
    input,    \* the history given to repair_tool_call_pairs
    repaired, \* the history being built
    pending,  \* ids of the last calls not answered yet
    keep,     \* compaction_keep_messages
    over,     \* count_tokens_approximately(messages) > token_limit > 0
    split,    \* where compact cuts
    phase,    \* "repair", "split" or "done"
    read,     \* messages of the input already handled
    output    \* <<>> for None, else the history compact returns

given == <<input, keep, over>>
vars == <<given, repaired, pending, split, phase, read, output>>

-----------------------------------------------------------------------------
\* Messages

CallMessage(ids) == [kind |-> "calls", ids |-> ids, real |-> TRUE]
ToolMessage(id, real) == [kind |-> "tool", ids |-> <<id>>, real |-> real]
Other == [kind |-> "other", ids |-> <<>>, real |-> TRUE]
Summary == [kind |-> "summary", ids |-> <<>>, real |-> TRUE]

Message ==
    {CallMessage(ids) : ids \in BoundedSeq(Ids, MaxCalls) \ {<<>>}}
    \cup {ToolMessage(id, TRUE) : id \in Ids}
    \cup {Other}

Synthetic(id) == ToolMessage(id, FALSE)
IsTool(message) == message.kind = "tool"

-----------------------------------------------------------------------------
\* repair_tool_call_pairs

Init ==
    /\ input \in BoundedSeq(Message, MaxHistory)
    /\ keep \in Keeps
    /\ over \in BOOLEAN
    /\ repaired = <<>>
    /\ pending = <<>>
    /\ split = 0
    /\ phase = "repair"
    /\ read = 0
    /\ output = <<>>

\* flush(): a synthetic result for every call that is still pending.
Flushed == repaired \o [k \in DOMAIN pending |-> Synthetic(pending[k])]

Reading ==
    /\ phase = "repair"
    /\ read < Len(input)
    /\ read' = read + 1
    /\ UNCHANGED <<given, split, phase, output>>

Current == input[read + 1]

ReadCalls ==
    /\ Reading
    /\ Current.kind = "calls"
    /\ repaired' = Append(Flushed, Current)
    /\ pending' = Current.ids

\* Mutant: the calls of one message are closed by the first result.
ReadResultFlushes ==
    /\ Reading
    /\ IsTool(Current)
    /\ Contains(pending, Current.ids[1])
    /\ LET others == RemoveFirst(pending, Current.ids[1])
       IN repaired' = Append(repaired, Current) \o [k \in DOMAIN others |-> Synthetic(others[k])]
    /\ pending' = <<>>

ReadResult ==
    /\ Reading
    /\ IsTool(Current)
    /\ Contains(pending, Current.ids[1])
    /\ pending' = RemoveFirst(pending, Current.ids[1])
    /\ repaired' = Append(repaired, Current)

ReadOrphan ==
    /\ Reading
    /\ IsTool(Current)
    /\ ~Contains(pending, Current.ids[1])
    /\ UNCHANGED <<repaired, pending>>

\* Mutant: a human message does not close the calls before it.
ReadOtherUnflushed ==
    /\ Reading
    /\ Current.kind = "other"
    /\ repaired' = Append(repaired, Current)
    /\ UNCHANGED pending

ReadOther ==
    /\ Reading
    /\ Current.kind = "other"
    /\ repaired' = Append(Flushed, Current)
    /\ pending' = <<>>

\* The last flush(); compact goes on with the repaired history.
EndRepair ==
    /\ phase = "repair"
    /\ read = Len(input)
    /\ repaired' = Flushed
    /\ pending' = <<>>
    /\ split' = Len(repaired') - (IF keep > 0 THEN keep ELSE 0)
    /\ phase' = IF over THEN "split" ELSE "done"
    /\ UNCHANGED <<given, read, output>>

-----------------------------------------------------------------------------
\* compact

\* The cut would fall on a tool message.
OnResult == 0 < split /\ split < Len(repaired) /\ IsTool(repaired[split + 1])

MoveBack ==
    /\ phase = "split"
    /\ OnResult
    /\ split' = split - 1
    /\ UNCHANGED <<given, repaired, pending, phase, read, output>>

Recent == SubSeq(repaired, split + 1, Len(repaired))

\* Nothing old to summarise, or [RemoveAll, summary, *recent].
Cut ==
    /\ phase = "split"
    /\ ~OnResult
    /\ output' = IF split <= 0 THEN <<>> ELSE <<Summary>> \o Recent
    /\ phase' = "done"
    /\ UNCHANGED <<given, repaired, pending, split, read>>

Next ==
    \/ ReadCalls
    \/ ReadResult
    \/ ReadOrphan
    \/ ReadOther
    \/ EndRepair
    \/ MoveBack
    \/ Cut

Spec == Init /\ [][Next]_vars

-----------------------------------------------------------------------------
\* Reference definitions, by position rather than by a scan

\* The positions of the tool messages that directly follow position i.
Answers(h, i) == {j \in i + 1..Len(h) : \A k \in i + 1..j : IsTool(h[k])}

Occurrences(s, id) == Cardinality({k \in DOMAIN s : s[k] = id})
AnswersTo(h, i, id) == {j \in Answers(h, i) : h[j].ids[1] = id}

(* One tool message per call, right after the message that calls, and no   *)
(* other tool message: what an OpenAI-compatible backend accepts.          *)
Balanced(h) ==
    /\ \A i \in DOMAIN h : h[i].kind = "calls" =>
        \A id \in Ids : Cardinality(AnswersTo(h, i, id)) = Occurrences(h[i].ids, id)
    /\ \A j \in DOMAIN h : IsTool(h[j]) =>
        \E i \in 1..j - 1 : h[i].kind = "calls" /\ j \in Answers(h, i)

\* The n-th smallest of a set of numbers.
Nth(S, n) == CHOOSE i \in S : Cardinality({k \in S : k <= i}) = n

\* What was said: the messages that are no tool messages, in their order.
Said(h) == {i \in DOMAIN h : ~IsTool(h[i])}
Spoken(h) == [n \in 1..Cardinality(Said(h)) |-> h[Nth(Said(h), n)]]

\* The recorded results for id that follow position i.
Recorded(h, i, id) == {j \in AnswersTo(h, i, id) : h[j].real}

-----------------------------------------------------------------------------
\* Properties

(* messages.py:14-20: whatever a cancelled run, the iteration limit or an  *)
(* abandoned approval left in the checkpoint, the repaired history is one  *)
(* the backend accepts.                                                    *)
RepairedIsBalanced == phase # "repair" => Balanced(repaired)

(* repair_tool_call_pairs loses no message but tool messages, and keeps    *)
(* their order.                                                            *)
ConversationKept == phase # "repair" => Spoken(repaired) = Spoken(input)

(* A recorded result that follows its call is never replaced by "was not   *)
(* executed": of each message, as many results as its calls can take.      *)
ResultsKept ==
    phase # "repair" =>
        \A n \in 1..Cardinality(Said(input)) : \A id \in Ids :
            LET i == Nth(Said(input), n)
                before == Cardinality(Recorded(input, i, id))
                asked == Occurrences(input[i].ids, id)
            IN Cardinality(Recorded(repaired, Nth(Said(repaired), n), id))
                = IF before < asked THEN before ELSE asked

(* A history that is valid already is given to the model as it is.         *)
ValidIsUnchanged == phase # "repair" /\ Balanced(input) => repaired = input

(* compaction.py:28-30: the compacted history is balanced too (the split   *)
(* never separates a call from its results) ...                            *)
CompactedIsBalanced == Balanced(output)

(* ... and ends with at least the last keep messages, verbatim.            *)
RecentKept ==
    output # <<>> /\ keep > 0 =>
        /\ Len(output) > keep
        /\ \A k \in 0..keep - 1 : output[Len(output) - k] = repaired[Len(repaired) - k]

\* The repaired and the compacted history are ones the backend accepts.
AlwaysBalanced == RepairedIsBalanced /\ CompactedIsBalanced

\* The repair loses nothing that was said and no recorded result, and leaves a
\* valid history alone; the compaction keeps the latest messages.
NothingLost == ConversationKept /\ ResultsKept /\ ValidIsUnchanged /\ RecentKept

=============================================================================
