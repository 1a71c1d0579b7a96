--------------------------- MODULE TelegramSplit ----------------------------
(***************************************************************************)
(* split_telegram_html (transports/telegram/formatting.py): an HTML        *)
(* message over the limit is split into chunks, and the tags open at a     *)
(* boundary are closed and reopened.                                       *)
(*                                                                         *)
(* A message is a sequence of tags and characters; a tag has its length, a *)
(* character length one.  A text token is a longest run of characters.  An *)
(* entity such as "&amp;" is several characters, Parts after the first.    *)
(* The tags need not be nested: from **a *b** c* the formatter makes       *)
(* <b>a <i>b</b> c</i>.                                                    *)
(***************************************************************************)
EXTENDS Integers, SequencesExt

CONSTANTS
    Names,        \* of tags
    Messages,     \* the messages to split
    Limit,        \* TELEGRAM_MESSAGE_LIMIT
    ClosingSize,  \* length of a closing tag
    MaxChunks     \* bound: the chunks a loop without room for text writes

VARIABLES
    message,
    todo,         \* what is left of it
    current,
    length,       \* of current
    openTags,
    chunks,
    finished

splitVars == <<message, todo, current, length, openTags, chunks, finished>>

Open(name, size) == [is |-> "open", name |-> name, size |-> size]
Close(name) == [is |-> "close", name |-> name, size |-> ClosingSize]
Char == [is |-> "char", name |-> "", size |-> 1]
Part == [is |-> "part", name |-> "", size |-> 1]
Space == [is |-> "space", name |-> "", size |-> 1]
Newline == [is |-> "newline", name |-> "", size |-> 1]

Opens == [is : {"open"}, name : Names, size : Nat]
Pieces == Opens \cup {Close(name) : name \in Names} \cup {Char, Part, Space, Newline}

IsText(x) == x.is \notin {"open", "close"}
IsWhite(x) == x.is \in {"space", "newline"}
Size(s) ==
    LET upTo[n \in 0..Len(s)] == IF n = 0 THEN 0 ELSE upTo[n - 1] + s[n].size
    IN upTo[Len(s)]

\* _closing
Closing(tags) == [i \in DOMAIN tags |-> Close(tags[Len(tags) + 1 - i].name)]

\* What is open after a closing tag: the last one of its name is taken off.
Without(tags, name) ==
    LET same == {i \in DOMAIN tags : tags[i].name = name}
    IN IF same = {} THEN tags ELSE RemoveAt(tags, Max(same))

-----------------------------------------------------------------------------
(* What a message shows: its characters, each with the tags around it, and *)
(* the tags that are still open.  It is valid, and Telegram parses it, as  *)
(* long as every closing tag closes the tag opened last.                   *)

Blank == [open |-> <<>>, text |-> <<>>, valid |-> TRUE]

ClosesLast(doc, x) == doc.open # <<>> /\ Last(doc.open).name = x.name

Read(doc, x) ==
    [open  |-> CASE x.is = "open" -> Append(doc.open, x)
                 [] x.is = "close" -> Without(doc.open, x.name)
                 [] OTHER -> doc.open,
     text  |-> IF IsText(x) /\ ~IsWhite(x) THEN Append(doc.text, doc.open) ELSE doc.text,
     valid |-> doc.valid /\ (x.is = "close" => ClosesLast(doc, x))]

\* The document after s, read where doc ends.
After(doc, s) ==
    LET upTo[n \in 0..Len(s)] == IF n = 0 THEN doc ELSE Read(upTo[n - 1], s[n])
    IN upTo[Len(s)]

Parsed(s) == After(Blank, s)

Valid(s) == Parsed(s).valid /\ Parsed(s).open = <<>>

ASSUME SplitAssumption ==
    /\ Limit \in Nat /\ ClosingSize \in Nat /\ MaxChunks \in Nat
    /\ \A m \in Messages : m \in Seq(Pieces)

-----------------------------------------------------------------------------
SplitInit ==
    /\ message \in Messages
    /\ finished = (Size(message) <= Limit)
    /\ chunks = IF finished THEN <<message>> ELSE <<>>
    /\ todo = IF finished THEN <<>> ELSE message
    /\ current = <<>> /\ openTags = <<>> /\ length = 0

Splitting == ~finished /\ todo # <<>>

-----------------------------------------------------------------------------
ReadsTag ==
    /\ Splitting /\ ~IsText(Head(todo))
    /\ openTags' = IF Head(todo).is = "open" THEN Append(openTags, Head(todo))
                   ELSE Without(openTags, Head(todo).name)
    /\ current' = Append(current, Head(todo))
    /\ length' = length + Head(todo).size
    /\ todo' = Tail(todo)
    /\ UNCHANGED <<message, chunks, finished>>

-----------------------------------------------------------------------------
\* The text ahead, and the room for it.
Rest ==
    LET ends == {n \in 0..Len(todo) : n = Len(todo) \/ ~IsText(todo[n + 1])}
    IN SubSeq(todo, 1, Min(ends))

\* Mutant: no room is kept for the closing tags.
AvailableForText == Limit - length

Available == Limit - length - Size(Closing(openTags))

\* Mutant: the length of the flushed chunk goes on counting.
FlushesCounting(text) ==
    /\ chunks' = Append(chunks, current \o text \o Closing(openTags))
    /\ current' = openTags /\ UNCHANGED length

\* Mutant: the next chunk does not open the tags again.
FlushesPlain(text) ==
    /\ chunks' = Append(chunks, current \o text \o Closing(openTags))
    /\ current' = <<>> /\ length' = 0

Flushes(text) ==
    /\ chunks' = Append(chunks, current \o text \o Closing(openTags))
    /\ current' = openTags /\ length' = Size(openTags)

ReadingText == Splitting /\ IsText(Head(todo))

NoRoom ==
    /\ ReadingText /\ Available <= 0
    /\ Len(chunks) < MaxChunks
    /\ Flushes(<<>>)
    /\ UNCHANGED <<message, todo, openTags, finished>>

TakesAll ==
    /\ ReadingText /\ Len(Rest) <= Available
    /\ current' = current \o Rest /\ length' = length + Len(Rest)
    /\ todo' = SubSeq(todo, Len(Rest) + 1, Len(todo))
    /\ UNCHANGED <<message, openTags, chunks, finished>>

\* The last newline that is not the first character and leaves a chunk within
\* the room, or all the room.
CutAt ==
    LET newlines == {n \in 1..Available : todo[n + 1] = Newline}
    IN IF newlines = {} THEN Available ELSE Max(newlines)

\* lstrip("\n")
Stripped(s) ==
    LET text == {n \in DOMAIN s : s[n] # Newline}
    IN IF text = {} THEN <<>> ELSE SubSeq(s, Min(text), Len(s))

Cuts ==
    /\ ReadingText /\ Available > 0 /\ Len(Rest) > Available
    /\ Flushes(SubSeq(Rest, 1, CutAt))
    /\ todo' = Stripped(SubSeq(Rest, CutAt + 1, Len(Rest)))
                \o SubSeq(todo, Len(Rest) + 1, Len(todo))
    /\ UNCHANGED <<message, openTags, finished>>

\* The last chunk, unless there is nothing but white space in it.
Ends ==
    /\ ~finished /\ todo = <<>>
    /\ finished' = TRUE
    /\ chunks' = IF \A i \in DOMAIN current : IsWhite(current[i]) THEN chunks
                 ELSE Append(chunks, current \o Closing(openTags))
    /\ current' = <<>> /\ length' = 0
    /\ UNCHANGED <<message, todo, openTags>>

SplitNext == ReadsTag \/ NoRoom \/ TakesAll \/ Cuts \/ Ends

SplitSpec == SplitInit /\ [][SplitNext]_splitVars

-----------------------------------------------------------------------------
\* The text that chunks show together.
Shown(messages) == FlattenSeq([i \in DOMAIN messages |-> Parsed(messages[i]).text])

\* "any tag left open at a boundary is closed and reopened in the next chunk, so
\* every chunk stays parseable": the chunks show every character of a message once,
\* in order, with the tags around it, and each chunk of a valid message is valid.
FormattingKept ==
    finished =>
        /\ Shown(chunks) = Parsed(message).text
        /\ Valid(message) => \A i \in DOMAIN chunks : Valid(chunks[i])

\* The n-th piece of s makes it longer than its closing tags allowed for.
Adds(s, n) ==
    \/ s[n].is = "open"
    \/ /\ s[n].is = "close"
       /\ \A i \in DOMAIN Parsed(SubSeq(s, 1, n - 1)).open :
             Parsed(SubSeq(s, 1, n - 1)).open[i].name # s[n].name

EndsWithTag(s) ==
    \E n \in DOMAIN s : Adds(s, n) /\ \A k \in n..Len(s) : ~IsText(s[k])

\* A chunk, its tags and entities included, is within the limit unless it ends with
\* a tag that opens, or closes nothing, after its last character: text alone never
\* takes a chunk over the limit, whatever is open around it.
ChunksFit ==
    finished => \A i \in DOMAIN chunks :
        Size(chunks[i]) <= Limit \/ EndsWithTag(chunks[i])

\* The tags that are open leave no room for text in any chunk.
Crowded == Size(openTags) + Size(Closing(openTags)) >= Limit

\* The loop comes to an end as long as it finds no text between tags that fill a
\* chunk: every step takes something off the message, is the last one, or makes the
\* room that the next one needs.  Between such tags it writes chunks without text
\* for ever.
SplitAdvances ==
    [][IF ReadingText /\ Crowded THEN todo' = todo /\ ~finished'
       ELSE Len(todo') < Len(todo) \/ finished' \/ (Available <= 0 /\ Available' > 0)]_splitVars
=============================================================================
