------------------------------- MODULE Editor -------------------------------
(***************************************************************************)
(* The text editor (src/app/editor/editor.c): the text and its cursor, the *)
(* keys, the mouse, and the file behind it.  A text is a sequence of       *)
(* letters and newlines, a position is the number of characters before it. *)
(***************************************************************************)
EXTENDS Integers, Sequences, FiniteSets, FiniteSetsExt, SequencesExt

CONSTANTS
  MAX_LONG_STRLEN,  \* size of the text's buffer
  Letters,          \* printable characters
  FirstFiles,       \* bound: contents of the file the editor opens
  PageLines,        \* 10
  MaxKeys           \* bound: keys, clicks and buttons

NL == "newline"
Chars == Letters \cup {NL}

ASSUME EditorAssumption ==
  /\ MAX_LONG_STRLEN \in Nat \ {0} /\ PageLines \in Nat
  /\ FirstFiles \subseteq Seq(Chars)

VARIABLES
  text, current_pos, isModified,
  file,      \* the file's contents
  filename,  \* whether the text has the file's name
  warned,    \* the last save told that it was short
  key,       \* ghost: the last key, with the position and text it found
  keys

editorVars == <<text, current_pos, isModified, file, filename, warned, key, keys>>

\* The first and the position after the last character of the line of pos.
lineStart(pos) == Max({0} \cup {i \in 1 .. pos : text[i] = NL})
lineEnd(pos) == Min({Len(text)} \cup {i \in pos .. Len(text) - 1 : text[i + 1] = NL})

Least(a, b) == IF a < b THEN a ELSE b

up(pos) ==
  LET s == lineStart(pos)
      p == lineStart(s - 1)
  IN  IF s = 0 THEN 0 ELSE p + Least(pos - s, s - 1 - p)

down(pos) ==
  LET e == lineEnd(pos)
      n == lineEnd(e + 1) - (e + 1)
  IN  IF e = Len(text) THEN Len(text) ELSE e + 1 + Least(pos - lineStart(pos), n)

\* A page is PageLines times the key for a line.
pgup(pos) ==
  LET after[n \in 0 .. PageLines] == IF n = 0 THEN pos ELSE up(after[n - 1])
  IN  after[PageLines]

pgdn(pos) ==
  LET after[n \in 0 .. PageLines] == IF n = 0 THEN pos ELSE down(after[n - 1])
  IN  after[PageLines]

Moved(k) ==
  CASE k = "left" -> IF current_pos > 0 THEN current_pos - 1 ELSE current_pos
    [] k = "right" -> IF current_pos < Len(text) THEN current_pos + 1 ELSE current_pos
    [] k = "up" -> up(current_pos)
    [] k = "down" -> down(current_pos)
    [] k = "home" -> lineStart(current_pos)
    [] k = "end" -> lineEnd(current_pos)
    [] k = "pgup" -> pgup(current_pos)
    [] k = "pgdn" -> pgdn(current_pos)

Motions == {"left", "right", "up", "down", "home", "end", "pgup", "pgdn"}

KeyUsed == keys < MaxKeys /\ keys' = keys + 1
Records(k) == key' = [key |-> k, pos |-> current_pos, text |-> text]

\* A printable character, unless the buffer is full.
insert(c) ==
  /\ KeyUsed /\ Records("char")
  /\ IF Len(text) < MAX_LONG_STRLEN - 1
     THEN /\ text' = InsertAt(text, current_pos + 1, c)
          /\ current_pos' = current_pos + 1
          /\ isModified' = TRUE
     ELSE UNCHANGED <<text, current_pos, isModified>>
  /\ UNCHANGED <<file, filename, warned>>

backspace_key ==
  /\ KeyUsed /\ Records("backspace")
  /\ current_pos > 0
  /\ text' = RemoveAt(text, current_pos)
  /\ current_pos' = current_pos - 1
  /\ isModified' = TRUE
  /\ UNCHANGED <<file, filename, warned>>

delete_key ==
  /\ KeyUsed /\ Records("delete")
  /\ current_pos < Len(text)
  /\ text' = RemoveAt(text, current_pos + 1)
  /\ isModified' = TRUE
  /\ UNCHANGED <<current_pos, file, filename, warned>>

move(k) ==
  /\ KeyUsed /\ Records(k)
  /\ current_pos' = Moved(k)
  /\ UNCHANGED <<text, isModified, file, filename, warned>>

\* Of the positions of a text in reading order, the first in the clicked
\* line at or after the clicked column, or that line's end.
Column(pos) == pos - lineStart(pos)
LineNo(pos) == Cardinality({i \in 1 .. pos : text[i] = NL})

editorInputHandler(x, y) ==
  /\ KeyUsed /\ Records("click")
  /\ LET stops == {p \in 0 .. Len(text) - 1 :
                     LineNo(p) = y /\ (Column(p) >= x \/ text[p + 1] = NL)}
     IN  current_pos' = Min(stops \cup {Len(text)})
  /\ UNCHANGED <<text, isModified, file, filename, warned>>

\* write() at the start of a file that is not truncated.
Written(t) == t \o SubSeq(file, Len(t) + 1, Len(file))

\* Save.  A text without a name goes to another file; after a short write
\* there is a warning, and the text counts as saved.
saveHandler ==
  /\ KeyUsed /\ Records("save")
  /\ \E n \in 0 .. Len(text) :
       /\ file' = IF filename THEN Written(SubSeq(text, 1, n)) ELSE file
       /\ warned' = (n < Len(text))
  /\ isModified' = FALSE
  /\ UNCHANGED <<text, current_pos, filename>>

\* Mutant: the text counts as saved all the same.
save_failsCleared ==
  /\ KeyUsed /\ Records("save")
  /\ isModified' = FALSE
  /\ UNCHANGED <<text, current_pos, file, filename, warned>>

\* Save, when the file cannot be opened.
save_fails ==
  /\ KeyUsed /\ Records("save")
  /\ UNCHANGED <<text, current_pos, isModified, file, filename, warned>>

newHandler ==
  /\ KeyUsed /\ Records("new")
  /\ text' = <<>>
  /\ current_pos' = 0
  /\ filename' = FALSE
  /\ isModified' = FALSE
  /\ warned' = FALSE
  /\ UNCHANGED file

\* loadFile() reads what fits, or fails; the cursor starts at the end.
EditorInit ==
  /\ file \in FirstFiles
  /\ text \in {SubSeq(file, 1, Least(Len(file), MAX_LONG_STRLEN - 1)), <<>>}
  /\ current_pos = Len(text)
  /\ isModified = FALSE
  /\ filename = TRUE
  /\ warned = FALSE
  /\ key = [key |-> "none", pos |-> 0, text |-> <<>>]
  /\ keys = 0

EditorNext ==
  \/ \E c \in Chars : insert(c)
  \/ backspace_key \/ delete_key
  \/ \E k \in Motions : move(k)
  \/ \E x \in 0 .. 1, y \in 0 .. 2 : editorInputHandler(x, y)
  \/ saveHandler \/ save_fails \/ newHandler

-----------------------------------------------------------------------------
(* Properties *)

\* The up and down keys go to the neighbouring line, to the same column or
\* to that line's end if it is shorter, and a page is that many lines: the
\* cursor never slips over a newline, also at empty lines and at both ends.
VerticalMoves ==
  LET from == LineNo(key.pos)
      last == LineNo(Len(text))
      to == CASE key.key = "up" -> from - 1
              [] key.key = "down" -> from + 1
              [] key.key = "pgup" -> from - PageLines
              [] key.key = "pgdn" -> from + PageLines
      width == lineEnd(current_pos) - lineStart(current_pos)
  IN
  key.key \in {"up", "down", "pgup", "pgdn"} =>
    IF to < 0 THEN current_pos = 0
    ELSE IF to > last THEN current_pos = Len(text)
    ELSE /\ LineNo(current_pos) = to
         /\ key.key \in {"up", "down"} =>
              Column(current_pos) = Least(Column(key.pos), width)

\* A text that counts as saved is what its file begins with, unless the save
\* said that it was short: nothing typed since the last save is forgotten,
\* and no failing save passes for one.
SavedIsOnDisk == filename /\ ~isModified /\ ~warned => IsPrefix(text, file)

\* What the user believes of the text: where a key takes the cursor, and what
\* is safe on the disk.
EditorKeepsFaith == VerticalMoves /\ SavedIsOnDisk

\* The inductive invariant.
EditorInv ==
  /\ text \in Seq(Chars) /\ file \in Seq(Chars)
  /\ current_pos \in 0 .. Len(text) /\ Len(text) < MAX_LONG_STRLEN
  /\ {isModified, filename, warned} \subseteq BOOLEAN
  /\ EditorKeepsFaith
=============================================================================
