------------------------------- MODULE Framing -------------------------------
(***************************************************************************)
(* StreamMessageProducer.cpp: how LSPStreamMessageProducer cuts the bytes  *)
(* of a stream into messages, whatever chunks read_some() returns, and how *)
(* DelimitedStreamMessageProducer cuts lines.                              *)
(*                                                                         *)
(* A byte, or a piece of text whose inner bytes the code never compares,   *)
(* is a string: "CR", "LF", "b" for a byte of a body, "L3" for the header  *)
(* "Content-Length: 3", "Lx" for one whose value is not a number, "type"   *)
(* for any other header.  A peer writes blocks [head, body, sent]; one     *)
(* that is not a message has no body and sent = FALSE.  stop() and a       *)
(* failing stream are in MessageRouting; here the stream delivers what the *)
(* peer wrote and ends.                                                    *)
(***************************************************************************)
EXTENDS Integers, Sequences, SequencesExt

CONSTANTS
    Alphabet,    \* the bytes and pieces blocks are made of
    Wires,       \* sequences of blocks a peer may write
    Lengths,     \* the headers that give a length |-> that length
    Limits,      \* [max, drop]: maxFrameSize and what the overload handler answers
    Scripts      \* test scripts: sequences of messages, each with its lines

VARIABLES
    blocks,      \* what the peer has written
    cut,         \* the stream ends after this many bytes
    limit,       \* one of Limits
    at,          \* bytes taken from the stream
    buffer,
    listening,   \* listen() has not returned
    delivered    \* bodies handed to the callback

framingVars == <<blocks, cut, limit, at, buffer, listening, delivered>>

\* The first i sequences joined, for every i.
JoinedUpTo(parts) ==
    LET upTo[i \in 0..Len(parts)] == IF i = 0 THEN <<>> ELSE upTo[i - 1] \o parts[i]
    IN upTo
Join(parts) == JoinedUpTo(parts)[Len(parts)]

\* The bytes of the first i blocks, for every i.
BytesUpTo(bs) == JoinedUpTo([i \in 1..Len(bs) |-> bs[i].head \o bs[i].body])
Bytes(bs) == BytesUpTo(bs)[Len(bs)]
wire == Bytes(blocks)

\* parseContentLength: -1 when the text is no number between 0 and INT_MAX.
parseContentLength(header) == IF header \in DOMAIN Lengths THEN Lengths[header] ELSE -1

Occurrences(s, delimiter) ==
    {i \in 1..(Len(s) - Len(delimiter) + 1) :
        SubSeq(s, i, i + Len(delimiter) - 1) = delimiter}

\* Where a delimiter starts in s, 0 if nowhere.
Find(s, delimiter) ==
    LET found == Occurrences(s, delimiter)
    IN IF found = {} THEN 0 ELSE CHOOSE i \in found : \A j \in found : i <= j

CrLfCrLf == <<"CR", "LF", "CR", "LF">>
LfLf == <<"LF", "LF">>

\* findHeaderEnd: the first of the two delimiters.
findHeaderEnd(s) ==
    LET crlf == Find(s, CrLfCrLf)
        lf == Find(s, LfLf)
    IN IF crlf # 0 /\ (lf = 0 \/ crlf < lf) THEN [start |-> crlf, size |-> 4]
       ELSE [start |-> lf, size |-> 2]

\* parseHeaderBlock and parseHeader: the last valid length of the block counts.
parseHeaderBlock(block) ==
    LET lengths == {i \in DOMAIN block : parseContentLength(block[i]) >= 0}
    IN IF lengths = {} THEN -1
       ELSE parseContentLength(block[CHOOSE i \in lengths : \A j \in lengths : j <= i])

\* A head ends where the first delimiter does, and tells the size of the body.
WellFormed(block) ==
    LET end == findHeaderEnd(block.head)
        length == parseHeaderBlock(SubSeq(block.head, 1, end.start - 1))
    IN /\ end.start # 0 /\ end.start + end.size = Len(block.head) + 1
       /\ IF block.sent THEN length = Len(block.body)
          ELSE length = -1 /\ block.body = <<>>

FramingStarts(written, end, bound) ==
    /\ blocks = written /\ cut = end /\ limit = bound
    /\ at = 0 /\ buffer = <<>> /\ listening = TRUE /\ delivered = <<>>

FramingInit ==
    \E written \in Wires, bound \in Limits :
        \E end \in 0..Len(Bytes(written)) : FramingStarts(written, end, bound)

\* readMore: read_some() returns some of the bytes there are.
readMore ==
    /\ listening /\ findHeaderEnd(buffer).start = 0
    /\ \E k \in 1..(cut - at) :
          /\ buffer' = buffer \o SubSeq(wire, at + 1, at + k)
          /\ at' = at + k
    /\ UNCHANGED <<blocks, cut, limit, listening, delivered>>

\* The end of the input while a header is awaited.
InputEnds ==
    /\ listening /\ findHeaderEnd(buffer).start = 0 /\ at = cut
    /\ listening' = FALSE
    /\ UNCHANGED <<blocks, cut, limit, at, buffer, delivered>>

\* Fault: the size of the body is taken from the stream although a part of it
\* is in the buffer already.
BodyMissingTwice(rest, length) == length

\* The bytes of the body that are not in the buffer yet.
BodyMissing(rest, length) == IF length > Len(rest) THEN length - Len(rest) ELSE 0

\* One round of listen() with a complete header in the buffer: skip a block
\* without a length, stop or discard on an oversized frame, read the body.
TakeFrame ==
    /\ listening /\ findHeaderEnd(buffer).start # 0
    /\ LET end == findHeaderEnd(buffer)
           length == parseHeaderBlock(SubSeq(buffer, 1, end.start - 1))
           rest == SubSeq(buffer, end.start + end.size, Len(buffer))
           oversized == limit.max # 0 /\ length > limit.max
           missing == BodyMissing(rest, length)
           ends == length >= 0 /\ ((oversized /\ ~limit.drop) \/ at + missing > cut)
           body == rest \o SubSeq(wire, at + 1, at + missing)
       IN /\ listening' = ~ends
          /\ IF length < 0 \/ ends
             THEN buffer' = rest /\ UNCHANGED <<at, delivered>>
             ELSE /\ buffer' = SubSeq(body, length + 1, Len(body))
                  /\ at' = at + missing
                  /\ delivered' = IF oversized THEN delivered
                                  ELSE Append(delivered, SubSeq(body, 1, length))
    /\ UNCHANGED <<blocks, cut, limit>>

FramingNext == readMore \/ InputEnds \/ TakeFrame

FramingSpec == FramingInit /\ [][FramingNext]_framingVars

-----------------------------------------------------------------------------
(* The delimited producer.  Here "//" and "// -----" are the beginning of a
   comment and the delimiter, "SP" white space, anything else text. *)

\* trimWhitespace; a CR is never put on a line.
trimWhitespace(line) ==
    LET text == {i \in 1..Len(line) : line[i] # "SP"}
    IN IF text = {} THEN <<>> ELSE SubSeq(line, Min(text), Max(text))

IsDelimiter(line) == line = <<"// -----">>
IsComment(line) == line # <<>> /\ line[1] \in {"//", "// -----"}

\* The producer, with a line and a message it has begun.
Holding(line, json, out) == [line |-> line, json |-> json, out |-> out, ended |-> FALSE]

\* What a complete line does: deliver, be ignored, or extend the message, which
\* ends the producer or loses what it holds when it grows beyond the limit.
TakeLine(acc, line, max, drop) ==
    LET json == acc.json \o line IN
    IF IsDelimiter(line) THEN Holding(acc.line, <<>>, Append(acc.out, acc.json))
    ELSE IF IsComment(line) THEN acc
    ELSE IF max = 0 \/ Len(json) <= max THEN Holding(acc.line, json, acc.out)
    ELSE [acc EXCEPT !.json = <<>>, !.ended = ~drop]

\* readLine: bytes up to a line feed; a CR, and a line feed on an empty line,
\* are skipped.
TakeByte(acc, byte, max, drop) ==
    IF acc.ended \/ byte = "CR" \/ (byte = "LF" /\ acc.line = <<>>) THEN acc
    ELSE IF byte = "LF"
    THEN [TakeLine(acc, trimWhitespace(acc.line), max, drop) EXCEPT !.line = <<>>]
    ELSE [acc EXCEPT !.line = Append(@, byte)]

\* What the producer holds after i bytes, for every i.
TakeBytes(acc, bytes, max, drop) ==
    LET after[i \in 0..Len(bytes)] ==
          IF i = 0 THEN acc ELSE TakeByte(after[i - 1], bytes[i], max, drop)
    IN after

\* DelimitedStreamMessageProducer::listen: what follows the last delimiter is
\* not delivered.
getMessages(bytes, max, drop) ==
    TakeBytes(Holding(<<>>, <<>>, <<>>), bytes, max, drop)[Len(bytes)].out

\* A line of a script: text, with white space on both sides.
Blanks == {"SP", "CR"}
ScriptLines == [left : Seq(Blanks), text : Seq(Alphabet), right : Seq(Blanks)]
LineBytes(line) == ((line.left \o line.text) \o line.right) \o <<"LF">>
Layout(message) == Join([i \in 1..Len(message.lines) |-> LineBytes(message.lines[i])])

TextOf(line) == IF IsComment(line.text) THEN <<>> ELSE line.text
Trimmed(text) ==
    /\ \A i \in 1..Len(text) : text[i] \notin {"CR", "LF"}
    /\ text # <<>> => text[1] # "SP" /\ text[Len(text)] # "SP"

\* The text of the lines that are no comments is the message, and the last line
\* is the delimiter.
WellLaid(message) ==
    /\ message.lines \in Seq(ScriptLines) /\ message.lines # <<>>
    /\ \A i \in 1..Len(message.lines) :
          /\ Trimmed(message.lines[i].text)
          /\ IsDelimiter(message.lines[i].text) <=> i = Len(message.lines)
    /\ message.content = Join([i \in 1..Len(message.lines) |-> TextOf(message.lines[i])])

-----------------------------------------------------------------------------
(* Assumption on the constants. *)

ASSUME FramingAssumption ==
    /\ {"CR", "LF", "SP"} \subseteq Alphabet
    /\ \A written \in Wires :
          /\ written \in Seq([head : Seq(Alphabet), body : Seq(Alphabet), sent : BOOLEAN])
          /\ \A i \in 1..Len(written) : WellFormed(written[i])
    /\ \A header \in DOMAIN Lengths : Lengths[header] \in Nat
    /\ Limits \subseteq [max : Nat, drop : BOOLEAN]
    /\ \A script \in Scripts :
          script \in Seq([content : Seq(Alphabet), lines : Seq(ScriptLines)])
            /\ \A i \in 1..Len(script) : WellLaid(script[i])

-----------------------------------------------------------------------------
(* Properties *)

Ends(bs, i) == Len(BytesUpTo(bs)[i])
Oversized(block, bound) == bound.max # 0 /\ Len(block.body) > bound.max
Whole(bs, end, bound, i) ==
    /\ bs[i].sent /\ Ends(bs, i) <= end /\ ~Oversized(bs[i], bound)
    /\ bound.drop \/ \A j \in 1..i : ~Oversized(bs[j], bound)

\* The bodies of the whole ones among the first i blocks, for every i.
Bodies(bs, end, bound) ==
    LET upTo[i \in 0..Len(bs)] ==
          IF i = 0 THEN <<>>
          ELSE IF Whole(bs, end, bound, i) THEN Append(upTo[i - 1], bs[i].body) ELSE upTo[i - 1]
    IN upTo
WrittenWhole == Bodies(blocks, cut, limit)[Len(blocks)]

\* A script of complete messages, laid out with line ends of either kind,
\* indentation, blank lines and comments, comes back as these messages.
ScriptsAsWritten ==
    \A script \in Scripts :
        getMessages(Join([i \in 1..Len(script) |-> Layout(script[i])]), 0, FALSE)
            = [i \in 1..Len(script) |-> script[i].content]

\* However the stream cuts the bytes into chunks, wherever it ends, and whether
\* bodies hold what looks like a header: LSPStreamMessageProducer::listen hands
\* on exactly the bodies that were written whole and fit, in order.  And
\* DelimitedStreamMessageProducer::listen gives back the messages of a script.
FramesAsWritten ==
    /\ IsPrefix(delivered, WrittenWhole)
    /\ ~listening => delivered = WrittenWhole
    /\ ScriptsAsWritten
=============================================================================
