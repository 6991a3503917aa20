----------------------------- MODULE InputField -----------------------------
(***************************************************************************)
(* The input field of the widget library (src/user/user_handler.c): a text *)
(* that is wrapped at the width of its widget, its cursor, and the keys    *)
(* and clicks that move it.  The digits 4, 6, 8 and 2 are characters and   *)
(* arrows at once.                                                         *)
(***************************************************************************)
EXTENDS Integers, Sequences, FiniteSetsExt, SequencesExt

CONSTANTS
  charPerLine,  \* width of the widget in characters
  FieldChars,   \* characters typed, of which "4", "6", "8", "2" also move
  MaxInput,     \* bound: length of the text (the code has none)
  MaxFieldKeys  \* bound: keys and clicks

ASSUME FieldAssumption == charPerLine \in Nat

LineBreak == "nl"

VARIABLES field, fieldKeys
fieldVars == <<field, fieldKeys>>

\* The column and row of each offset of a text.
WrapAt(at, c) ==
  IF c # LineBreak /\ at[1] + 1 <= charPerLine THEN <<at[1] + 1, at[2]>>
  ELSE <<0, at[2] + 1>>

PlacesOf(str) ==
  LET at[n \in 0 .. Len(str)] == IF n = 0 THEN <<0, 0>> ELSE WrapAt(at[n - 1], str[n])
  IN  at

getMouseXFromOffset(str, offset) == PlacesOf(str)[offset][1]
getMouseYFromOffset(str, offset) == PlacesOf(str)[offset][2]

\* Mutant: the offset of the character after the one at the mouse.
getInputOffsetFromMousePositionNext(str, x, y) ==
  LET at == PlacesOf(str)
      row == {p \in 0 .. Len(str) - 1 : at[p][2] = y}
      hit == {p \in row : at[p][1] = x}
  IN  IF y < 0 THEN 0
      ELSE IF hit # {} THEN Min(hit) + 1
      ELSE IF row # {} /\ Max(row) > 0 THEN Max(row) ELSE Len(str)

\* The offset at a place, else the last one in its row, else the end.
getInputOffsetFromMousePosition(str, x, y) ==
  LET at == PlacesOf(str)
      row == {p \in 0 .. Len(str) - 1 : at[p][2] = y}
      hit == {p \in row : at[p][1] = x}
  IN  IF y < 0 THEN 0
      ELSE IF hit # {} THEN Min(hit)
      ELSE IF row # {} /\ Max(row) > 0 THEN Max(row) ELSE Len(str)

-----------------------------------------------------------------------------
(* inputFieldKeyHandler(): its tests follow one another, on one key. *)

Inserted(f, k) ==
  IF k \notin FieldChars THEN f
  ELSE [text |-> InsertAt(f.text, f.pos + 1, k), pos |-> f.pos + 1]

Sideways(f, k, charCount) ==
  CASE k \in {"left", "4"} /\ f.pos > 0 -> [f EXCEPT !.pos = @ - 1]
    [] k \in {"right", "6"} /\ f.pos < charCount -> [f EXCEPT !.pos = @ + 1]
    [] OTHER -> f

Vertically(f, k) ==
  LET x == getMouseXFromOffset(f.text, f.pos)
      y == getMouseYFromOffset(f.text, f.pos)
      to(cx, cy) == [f EXCEPT !.pos = getInputOffsetFromMousePosition(f.text, cx, cy)]
  IN  CASE k \in {"up", "8"} -> to(x, y - 1)
        [] k \in {"down", "2"} -> to(x, y + 1)
        [] k = "home" -> to(0, y)
        [] k = "end" -> to(charPerLine, y)
        [] OTHER -> f

Deleted(f, k) ==
  IF k = "backspace" /\ f.pos > 0
  THEN [text |-> RemoveAt(f.text, f.pos), pos |-> f.pos - 1] ELSE f

FieldMotions == {"left", "right", "up", "down", "home", "end", "backspace"}

inputFieldKeyHandler(k) ==
  /\ fieldKeys < MaxFieldKeys
  /\ k \in FieldChars => Len(field.text) < MaxInput
  /\ field' = Deleted(Vertically(Sideways(Inserted(field, k), k, Len(field.text)), k), k)
  /\ fieldKeys' = fieldKeys + 1

inputMouseLeftClickHandler(x, y) ==
  /\ fieldKeys < MaxFieldKeys
  /\ field' = [field EXCEPT !.pos = getInputOffsetFromMousePosition(field.text, x, y)]
  /\ fieldKeys' = fieldKeys + 1

FieldInit == field = [text |-> <<>>, pos |-> 0] /\ fieldKeys = 0

FieldNext ==
  \/ \E k \in FieldChars \cup FieldMotions : inputFieldKeyHandler(k)
  \/ \E x \in 0 .. charPerLine, y \in 0 .. 2 : inputMouseLeftClickHandler(x, y)

FieldSpec == FieldInit /\ [][FieldNext]_fieldVars

-----------------------------------------------------------------------------
(* Properties *)

\* The cursor stays within the text, so that the key handler never writes
\* outside it, and the three functions that walk the text (user_handler.c)
\* agree: the offset found at the column and row of a character is that
\* character's own, also after a line that was wrapped.  This is not where
\* the character is drawn: drawString() (user_gui.c:132) wraps one column
\* earlier, and drawing is not in the model.
CursorInText ==
  /\ field.pos \in 0 .. Len(field.text)
  /\ \A p \in 0 .. Len(field.text) - 1 :
       getInputOffsetFromMousePosition(field.text, getMouseXFromOffset(field.text, p),
                                       getMouseYFromOffset(field.text, p)) = p

(* The inductive invariant behind it *)

FieldInv ==
  /\ field \in [text : Seq(FieldChars), pos : Nat]
  /\ field.pos \in 0 .. Len(field.text)
=============================================================================
