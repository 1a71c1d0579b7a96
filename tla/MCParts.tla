------------------------------ MODULE MCParts -------------------------------
(***************************************************************************)
(* The parts that stand alone, for TLC: the sessions, the repair and       *)
(* compaction of histories, the searches of a run, the chunks of a         *)
(* Telegram message, outbound calls and playback.  They share no state     *)
(* with each other: a behaviour is one of one part, which the initial      *)
(* state picks.  The others stay at an initial state of theirs, with       *)
(* nothing to do.                                                          *)
(***************************************************************************)
EXTENDS Histories, Sessions, Search, TelegramSplit, VoiceCalls, Playback, TLC

CONSTANTS a, b

VARIABLE part

partsVars == <<part, sessionVars, vars, searchVars, splitVars, voiceVars, phoneVars>>

-----------------------------------------------------------------------------
\* An empty history, calls without a query, and an empty message, which is sent
\* as it is.
NoHistories == input = <<>> /\ keep = 1 /\ over = FALSE
NoSearches == queries = [c \in Searches |-> <<>>]
NoSplit ==
    /\ message = <<>> /\ chunks = <<message>> /\ finished = TRUE
    /\ todo = <<>> /\ current = <<>> /\ length = 0 /\ openTags = <<>>

Parts == {"sessions", "histories", "searches", "split", "voice", "phone"}

PartsInit ==
    /\ part \in Parts
    /\ SessionInit
    /\ (part = "histories" \/ NoHistories) /\ Init
    /\ (part = "searches" \/ NoSearches) /\ SearchInit
    /\ IF part = "split" THEN SplitInit ELSE NoSplit
    /\ VoiceInit
    /\ PhoneInit

PartsNext ==
    \/ /\ part = "sessions" /\ SessionNext
       /\ UNCHANGED <<part, vars, searchVars, splitVars, voiceVars, phoneVars>>
    \/ /\ part = "histories" /\ Next
       /\ UNCHANGED <<part, sessionVars, searchVars, splitVars, voiceVars, phoneVars>>
    \/ /\ part = "searches" /\ SearchNext
       /\ UNCHANGED <<part, sessionVars, vars, splitVars, voiceVars, phoneVars>>
    \/ /\ part = "split" /\ SplitNext
       /\ UNCHANGED <<part, sessionVars, vars, searchVars, voiceVars, phoneVars>>
    \/ /\ part = "voice" /\ VoiceNext
       /\ UNCHANGED <<part, sessionVars, vars, searchVars, splitVars, phoneVars>>
    \/ /\ part = "phone" /\ PhoneNext
       /\ UNCHANGED <<part, sessionVars, vars, searchVars, splitVars, voiceVars>>

PartsSpec == PartsInit /\ [][PartsNext]_partsVars

-----------------------------------------------------------------------------
(* The instances.                                                          *)

CONSTANTS m1, m2, m3, s1, s2, s3, c1, c2, c3, w1, w2, w3, word, u1

TwoIds == {a, b}
SomeKeeps == {-1, 1, 2}

ThreeCallers == {m1, m2, m3}
ThreeSearches == {s1, s2, s3}
\* w1 and w2 are similar, word is a query of one word.
SomeBatches == {<<>>, <<w1, w2>>, <<w2, word>>, <<w3, w1, word>>}
SomeSimilar == {<<w1, w1>>, <<w2, w2>>, <<w1, w2>>, <<w2, w1>>, <<w3, w3>>}
OneUrl == {u1}

C == Char
P == Part
S == Space
N == Newline
Texts == {<<>>, <<C, P, P, S, N>>, <<N, N, C>>, <<C, C, N, C, P, C, P, P, C>>}
\* The tag a of length 7 and its closing tag leave no room for text, the one of 6
\* leaves room for one character.
B == Open("b", 1)
I == Open("i", 2)
PairsOfTags == {<<B, I>>, <<I, B>>, <<B, B>>, <<I, Open("a", 3)>>, <<Open("a", 3), I>>,
                <<Open("a", 6), B>>, <<B, Open("a", 7)>>}
Element(tag, content) == <<tag>> \o content \o <<Close(tag.name)>>

\* Two elements with text before, in, between and after them: nested, in sequence, and
\* crossing.
TwoElements ==
    UNION {LET o == tags[1]
               p == tags[2]
           IN {t[1] \o Element(o, t[2] \o Element(p, t[3])) \o t[4],
               t[1] \o Element(o, t[2]) \o t[3] \o Element(p, t[4]),
               t[1] \o <<o>> \o t[2] \o Element(p, t[3] \o <<Close(o.name)>> \o t[4])} :
           t \in Texts \X Texts \X Texts \X Texts, tags \in PairsOfTags}
=============================================================================
