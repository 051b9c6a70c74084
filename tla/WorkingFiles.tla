----------------------------- MODULE WorkingFiles -----------------------------
(***************************************************************************)
(* working_files.cpp: the server's copies of the documents that are open   *)
(* in the editor, and the conversions between positions and byte offsets   *)
(* (working_files.cpp, utils.cpp, offset_encoding.cpp) that keep them in   *)
(* step.                                                                   *)
(*                                                                         *)
(* The editor sees characters, "a", "n" (a line feed), "e" (two bytes of   *)
(* UTF-8) and "g" (four bytes, two UTF-16 units); the server stores bytes: *)
(* "a", "n", "lead2", "lead4", "cont".  A file is a name with a directory; *)
(* how a URI becomes a path is in Uris.                                    *)
(***************************************************************************)
EXTENDS Integers, Sequences, SequencesExt

CONSTANTS
    Files,         \* names of documents
    DirName,       \* their directories
    OpenTexts,     \* texts a document is opened with
    NewTexts,      \* texts an edit puts in
    MaxText,       \* characters of a document
    MaxEdits       \* edits of one opened document, in one notification or several

Characters == {"a", "n", "e", "g"}

ASSUME DocumentAssumption ==
    /\ OpenTexts \subseteq Seq(Characters)
    /\ NewTexts \subseteq Seq(Characters)
    /\ MaxText \in Nat /\ MaxEdits \in Nat

VARIABLES
    editor,        \* document |-> text, version, edits made, and whether the server
                   \* was told the version
    files,         \* WorkingFilesData::files
    disk           \* what OnSave has written last: nothing, the editor's text of
                   \* that moment, or something else

docVars == <<editor, files, disk>>

-----------------------------------------------------------------------------
(* Bytes and UTF-16 units.  A loop is the function from the number of its
   rounds to the values of its variables; no loop here takes more rounds
   than there are bytes, and a round after its end changes nothing. *)

EncodeChar(c) ==
    CASE c = "e" -> <<"lead2", "cont">>
      [] c = "g" -> <<"lead4", "cont", "cont", "cont">>
      [] OTHER -> <<c>>

\* The bytes of the first i characters, for every i.
Encoded(text) ==
    LET upTo[i \in 0..Len(text)] ==
          IF i = 0 THEN <<>> ELSE upTo[i - 1] \o EncodeChar(text[i])
    IN upTo
Encode(text) == Encoded(text)[Len(text)]

\* Fault: the character is counted in code points.
OneUnit(lead) == 1

Units(lead) == IF lead = "lead4" THEN 2 ELSE 1

\* The starts of the lines among the first i bytes, for every i.
LineStarts(content) ==
    LET upTo[i \in 0..Len(content)] ==
          IF i = 0 THEN <<0>>
          ELSE IF content[i] = "n" THEN Append(upTo[i - 1], i) ELSE upTo[i - 1]
    IN upTo
BuildLineOffsets(content) == LineStarts(content)[Len(content)]

\* The inner loop: from offset i over the continuation bytes.
SkipContinuation(content, i) ==
    CHOOSE j \in i..Len(content) :
        /\ \A k \in (i + 1)..j : content[k] = "cont"
        /\ j < Len(content) => content[j + 1] # "cont"

\* One round of the second loop of GetOffsetForPosition, at an offset with
\* some UTF-16 units left.  A lead byte takes its continuation bytes with it,
\* and a position within a surrogate pair snaps past it.
Round(content, s) ==
    IF s.left = 0 \/ s.at >= Len(content) THEN s
    ELSE LET lead == content[s.at + 1]
         IN [at |-> IF lead \in {"a", "n"} THEN s.at + 1
                    ELSE SkipContinuation(content, s.at + 1),
             left |-> IF s.left < Units(lead) THEN 0 ELSE s.left - Units(lead)]

Rounds(content, i, character) ==
    LET after[k \in 0..Len(content)] ==
          IF k = 0 THEN [at |-> i, left |-> character] ELSE Round(content, after[k - 1])
    IN after
Advance(content, i, character) == Rounds(content, i, character)[Len(content)].at

\* The first loop of GetOffsetForPosition.
LineRound(content, s) ==
    IF s.line = 0 THEN s
    ELSE [at |-> s.at + 1, line |-> IF content[s.at + 1] = "n" THEN s.line - 1 ELSE s.line]

LineRounds(content, line) ==
    LET after[k \in 0..Len(content)] ==
          IF k = 0 THEN [at |-> 0, line |-> line] ELSE LineRound(content, after[k - 1])
    IN after
SkipLines(content, line) == LineRounds(content, line)[Len(content)].at

GetOffsetForPosition(position, content) ==
    Advance(content, SkipLines(content, position.line), position.character)

\* WorkingFile::GetOffsetForPosition, from the line table.
CachedOffsetForPosition(file, position) ==
    LET start == IF position.line < Len(file.lineOffsets)
                 THEN file.lineOffsets[position.line + 1] ELSE Len(file.content)
    IN Advance(file.content, start, position.character)

\* A position on its way over a byte; continuation bytes do not count.
Pass(p, byte) ==
    IF byte = "n" THEN [line |-> p.line + 1, character |-> 0]
    ELSE IF byte = "cont" THEN p
    ELSE [line |-> p.line, character |-> p.character + Units(byte)]

Positions(content) ==
    LET after[i \in 0..Len(content)] ==
          IF i = 0 THEN [line |-> 0, character |-> 0] ELSE Pass(after[i - 1], content[i])
    IN after
GetPositionForOffset(offset, content) == Positions(content)[offset]

\* The same with OffsetEncoding::Utf8, for the line and the offset it starts at.
PassUtf8(p, i, byte) ==
    IF byte = "n" THEN [line |-> p.line + 1, start |-> i] ELSE p

Utf8Lines(content) ==
    LET after[i \in 0..Len(content)] ==
          IF i = 0 THEN [line |-> 0, start |-> 0] ELSE PassUtf8(after[i - 1], i, content[i])
    IN after
Utf8PositionForOffset(offset, content) ==
    LET p == Utf8Lines(content)[offset]
    IN [line |-> p.line, character |-> offset - p.start]
Utf8OffsetForPosition(position, content) ==
    SkipLines(content, position.line) + position.character

-----------------------------------------------------------------------------
(* The editor.  A change replaces everything, or the characters from..to - 1. *)

\* The cursor after the first i characters, for every i.
Cursor(text) ==
    LET after[i \in 0..Len(text)] ==
          IF i = 0 THEN [line |-> 0, character |-> 0]
          ELSE LET before == after[i - 1] IN
               IF text[i] = "n" THEN [line |-> before.line + 1, character |-> 0]
               ELSE [line |-> before.line,
                     character |-> before.character + (IF text[i] = "g" THEN 2 ELSE 1)]
    IN after

Edited(text, diff) ==
    IF diff.whole THEN diff.text
    ELSE SubSeq(text, 1, diff.from) \o diff.text \o SubSeq(text, diff.to + 1, Len(text))

\* All diffs; which of them a text can have.
Diffs ==
    {d \in [whole : BOOLEAN, from : 0..MaxText, to : 0..MaxText, text : NewTexts] :
        d.from <= d.to /\ (d.whole => d.to = 0)}
Fits(diff, text) == diff.to <= Len(text)

\* The content change event an editor sends for a diff of this text; the range
\* is not looked at when everything is replaced.
Event(text, diff) ==
    [whole |-> diff.whole, text |-> Encode(diff.text),
     start |-> Cursor(text)[diff.from], end |-> Cursor(text)[diff.to]]

-----------------------------------------------------------------------------
(* The server *)

WorkingFile(content) ==
    [content |-> content, lineOffsets |-> BuildLineOffsets(content),
     version |-> 0, counter |-> 0]

With(f, file) == [g \in DOMAIN files \cup {f} |-> IF g = f THEN file ELSE files[g]]
Without(names) == [g \in DOMAIN files \ names |-> files[g]]

\* Fault: the line table is built once, for the last event.
ReplacedKeepingLines(file, event) ==
    IF event.whole THEN WorkingFile(event.text)
    ELSE LET start == CachedOffsetForPosition(file, event.start)
             end == CachedOffsetForPosition(file, event.end)
         IN [file EXCEPT !.content = SubSeq(@, 1, start) \o event.text
                                       \o SubSeq(@, end + 1, Len(@))]

\* One content change event, and RebuildLineOffsets.
Replaced(file, event) ==
    LET start == CachedOffsetForPosition(file, event.start)
        end == CachedOffsetForPosition(file, event.end)
        content == IF event.whole THEN event.text
                   ELSE SubSeq(file.content, 1, start) \o event.text
                          \o SubSeq(file.content, end + 1, Len(file.content))
    IN [file EXCEPT !.content = content, !.lineOffsets = BuildLineOffsets(content)]

DocInit ==
    /\ editor = [f \in {} |-> 0]
    /\ files = [f \in {} |-> 0]
    /\ disk = [f \in Files |-> "nothing"]

\* didOpen.  A file that is open already, because the peer sends didOpen again
\* without a didClose, takes the new text and version; the version of a new one
\* stays 0.
OnOpen(f, text, version) ==
    /\ editor' = [g \in DOMAIN editor \cup {f} |->
                    IF g = f
                    THEN [text |-> text, version |-> version,
                          edits |-> IF f \in DOMAIN editor THEN editor[f].edits ELSE 0,
                          told |-> f \in DOMAIN files]
                    ELSE editor[g]]
    /\ files' = IF f \in DOMAIN files
                THEN With(f, [WorkingFile(Encode(text)) EXCEPT
                                !.version = version, !.counter = files[f].counter])
                ELSE With(f, WorkingFile(Encode(text)))
    /\ UNCHANGED disk

\* One event: the editor's text and the server's file of it.
Changed(before, diff) ==
    [text |-> Edited(before.text, diff),
     file |-> Replaced(before.file, Event(before.text, diff))]

\* Both after the first k events of a notification, for every k.
Changes(text, file, diffs) ==
    LET after[k \in 0..Len(diffs)] ==
          IF k = 0 THEN [text |-> text, file |-> file] ELSE Changed(after[k - 1], diffs[k])
    IN after

\* didChange with the diffs in order, each relative to the text the ones before
\* have left.  A file that is not open is left alone.
OnChange(f, diffs, told) ==
    /\ f \in DOMAIN editor
    /\ LET known == f \in DOMAIN files
           file == IF known THEN files[f] ELSE WorkingFile(Encode(editor[f].text))
           after == Changes(editor[f].text, file, diffs)
           done == after[Len(diffs)]
           version == editor[f].version + 1
           edits == editor[f].edits + Len(diffs)
       IN /\ edits <= MaxEdits
          /\ \A k \in DOMAIN diffs : Fits(diffs[k], after[k - 1].text)
          /\ Len(done.text) <= MaxText
          /\ editor' = [editor EXCEPT ![f] = [text |-> done.text, version |-> version, edits |-> edits,
                                              told |-> told /\ known]]
          /\ files' = IF ~known THEN files
                      ELSE [files EXCEPT ![f] = [done.file EXCEPT
                                !.version = IF told THEN version ELSE @,
                                !.counter = @ + 1]]
    /\ UNCHANGED disk

\* didClose.
OnClose(f) ==
    /\ f \in DOMAIN editor
    /\ editor' = [g \in DOMAIN editor \ {f} |-> editor[g]]
    /\ files' = Without({f})
    /\ UNCHANGED disk

\* didSave: the server's copy is written to the file.
OnSave(f) ==
    /\ f \in DOMAIN editor
    /\ disk' = IF f \notin DOMAIN files THEN disk
               ELSE [disk EXCEPT ![f] = IF files[f].content = Encode(editor[f].text)
                                        THEN "text" ELSE "other"]
    /\ UNCHANGED <<editor, files>>

\* A workspace folder is removed.
CloseFilesInDirectory(dirs) ==
    /\ files' = Without({f \in DOMAIN files : DirName[f] \in dirs})
    /\ UNCHANGED <<editor, disk>>

Clear ==
    /\ files' = Without(DOMAIN files)
    /\ UNCHANGED <<editor, disk>>

DocNext ==
    \/ \E f \in Files, text \in OpenTexts : OnOpen(f, text, 1)
    \/ \E f \in DOMAIN editor, told \in BOOLEAN, n \in 1..MaxEdits :
          \E diffs \in [1..n -> Diffs] : OnChange(f, diffs, told)
    \/ \E f \in DOMAIN editor : OnClose(f) \/ OnSave(f)
    \/ \E f \in DOMAIN files : CloseFilesInDirectory({DirName[f]})
    \/ Clear

DocSpec == DocInit /\ [][DocNext]_docVars

-----------------------------------------------------------------------------
(* Properties *)

\* Whatever edits the editor makes, one or several in a notification, over
\* characters of any width: the server's copy of an open document is the
\* editor's text, its version the one the last change carried, and what is
\* saved the text the editor asked to save.
DocumentMirrors ==
    /\ \A f \in Files : disk[f] # "other"
    /\ \A f \in DOMAIN editor \cap DOMAIN files :
          /\ files[f].content = Encode(editor[f].text)
          /\ editor[f].told => files[f].version = editor[f].version

\* A position and the offset of its character convert into each other, by the
\* line table and without it, in UTF-16 and in UTF-8 units; and the two ways to
\* an offset agree on every position, those behind the end of a line or of the
\* text included.
PositionsConvert ==
    \A f \in DOMAIN files :
        LET content == files[f].content IN
        /\ \A offset \in 0..Len(content) :
              LET utf16 == GetPositionForOffset(offset, content)
                  utf8 == Utf8PositionForOffset(offset, content)
              IN /\ Utf8OffsetForPosition(utf8, content) = offset
                 /\ (offset = Len(content) \/ content[offset + 1] # "cont") =>
                       GetOffsetForPosition(utf16, content) = offset
        /\ \A line \in 0..(MaxText + 1), character \in 0..(2 * MaxText + 1) :
              LET position == [line |-> line, character |-> character]
              IN CachedOffsetForPosition(files[f], position)
                     = GetOffsetForPosition(position, content)
=============================================================================
