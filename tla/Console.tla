------------------------------ MODULE Console ------------------------------
(***************************************************************************)
(* The console: line editing in consoleintr(), readers in consoleread(),   *)
(* the text screen behind consputc() (src/kernel/console.c).  Characters   *)
(* come from the serial port (uartintr()); the keyboard's handler does not *)
(* call consoleintr() (src/kernel/kbd.c:61).                               *)
(*                                                                         *)
(* cons.lock is held over each step; consoleread() gives it up only to     *)
(* sleep.  A read of n bytes of which the last ones have not come yet      *)
(* keeps what it has.                                                      *)
(***************************************************************************)
EXTENDS Integers, Sequences

CONSTANTS
  Readers,    \* processes that read the console
  Typed,      \* characters that may arrive
  INPUT_BUF,
  UintSize,   \* 2^32 in the code; a multiple of INPUT_BUF
  CrtCols, CrtRows, \* 80 and 25
  MaxTyped,   \* bound: characters that arrive
  MaxWant     \* bound: bytes asked for in one read

ASSUME ConsoleAssumption ==
  /\ INPUT_BUF \in Nat \ {0} /\ UintSize \in Nat /\ UintSize > INPUT_BUF
  /\ UintSize % INPUT_BUF = 0
  /\ CrtCols \in Nat \ {0} /\ CrtRows \in Nat /\ CrtRows > 1
  /\ MaxTyped \in Nat /\ MaxWant \in Nat

VARIABLES
  input,    \* [buf, r, w, e]
  crt,      \* cursor position on the text screen
  reader,   \* [Readers -> [pc, n, target]]
  typing,   \* characters that have arrived
  line,     \* history: characters of the line being edited
  lines     \* history: committed characters nobody has read yet

consoleVars == <<input, crt, reader, typing, line, lines>>

Newline == "nl"
EOT == "^D"
KillLine == "^U"
Backspace == "^H"

Inc(i) == (i + 1) % UintSize
Dec(i) == (i + UintSize - 1) % UintSize
InputUsed == (input.e - input.r) % UintSize

\* cgaputc(): a newline goes to the start of the next row, a backspace one
\* position back; the screen scrolls when the cursor reaches its last row.
Scrolled(pos) == IF pos \div CrtCols >= CrtRows - 1 THEN pos - CrtCols ELSE pos

cgaputc(pos, c) ==
  CASE c = Newline -> Scrolled(pos + CrtCols - (pos % CrtCols))
    [] c = Backspace -> IF pos > 0 THEN pos - 1 ELSE pos
    [] OTHER -> Scrolled(pos + 1)

\* The echo of k characters taken back (Ctrl-U).
Erased(pos, k) == IF pos > k THEN pos - k ELSE 0

WakeReaders ==
  [p \in Readers |-> IF reader[p].pc = "asleep" THEN [reader[p] EXCEPT !.pc = "reading"]
                     ELSE reader[p]]

-----------------------------------------------------------------------------

\* Ctrl-U takes back the characters of the line that is being edited.
KilledTo ==
  LET stops == {i \in 0 .. (input.e - input.w) % UintSize :
                  i = (input.e - input.w) % UintSize
                  \/ input.buf[((input.e - i - 1) % UintSize) % INPUT_BUF] = Newline}
  IN  CHOOSE i \in stops : \A j \in stops : i <= j

kill_line ==
  /\ input' = [input EXCEPT !.e = (@ - KilledTo) % UintSize]
  /\ crt' = Erased(crt, KilledTo)
  /\ line' = <<>>
  /\ UNCHANGED <<reader, lines>>

\* Mutant: a backspace may take back what has been committed.
backspaceCommitted ==
  /\ IF input.e # input.r
     THEN /\ input' = [input EXCEPT !.e = Dec(@)]
          /\ crt' = cgaputc(crt, Backspace)
          /\ line' = SubSeq(line, 1, Len(line) - 1)
     ELSE UNCHANGED <<input, crt, line>>
  /\ UNCHANGED <<reader, lines>>

backspace ==
  /\ IF input.e # input.w
     THEN /\ input' = [input EXCEPT !.e = Dec(@)]
          /\ crt' = cgaputc(crt, Backspace)
          /\ line' = SubSeq(line, 1, Len(line) - 1)
     ELSE UNCHANGED <<input, crt, line>>
  /\ UNCHANGED <<reader, lines>>

\* A character that is kept; the line is committed at its end, at Ctrl-D
\* and when the buffer is full.
store_char(c) ==
  IF InputUsed < INPUT_BUF
  THEN LET e == Inc(input.e)
           done == c \in {Newline, EOT} \/ e = (input.r + INPUT_BUF) % UintSize
       IN  /\ input' = [input EXCEPT !.buf[input.e % INPUT_BUF] = c, !.e = e,
                                     !.w = IF done THEN e ELSE @]
           /\ crt' = cgaputc(crt, c)
           /\ reader' = IF done THEN WakeReaders ELSE reader
           /\ line' = IF c \in {Newline, EOT} \/ Len(lines) + Len(line) + 1 = INPUT_BUF
                      THEN <<>> ELSE Append(line, c)
           /\ lines' = IF c \in {Newline, EOT} \/ Len(lines) + Len(line) + 1 = INPUT_BUF
                       THEN lines \o Append(line, c) ELSE lines
  ELSE UNCHANGED <<input, crt, reader, line, lines>>

consoleintr(c) ==
  /\ typing < MaxTyped
  /\ typing' = typing + 1
  /\ CASE c = KillLine -> kill_line
       [] c = Backspace -> backspace
       [] OTHER -> store_char(c)

-----------------------------------------------------------------------------

\* A process calls consoleread() for n bytes.
read_console(p, n) ==
  /\ reader[p].pc = "out"
  /\ reader' = [reader EXCEPT ![p] = [pc |-> "reading", n |-> n, target |-> n]]
  /\ UNCHANGED <<input, crt, typing, line, lines>>

\* One round of the loop of consoleread() with something to read: a Ctrl-D
\* behind other bytes is kept for the next call.
take_char(p) ==
  LET c == input.buf[input.r % INPUT_BUF]
      n == reader[p].n
      last == c = Newline \/ n = 1
  IN
  /\ input.r # input.w
  /\ IF c = EOT
     THEN /\ reader' = [reader EXCEPT ![p].pc = "out"]
          /\ input' = IF n < reader[p].target THEN input
                      ELSE [input EXCEPT !.r = Inc(@)]
          /\ lines' = IF n < reader[p].target THEN lines ELSE Tail(lines)
     ELSE /\ reader' = [reader EXCEPT ![p] =
                          IF last THEN [@ EXCEPT !.pc = "out", !.n = n - 1]
                          ELSE [@ EXCEPT !.n = n - 1]]
          /\ input' = [input EXCEPT !.r = Inc(@)]
          /\ lines' = Tail(lines)
  /\ UNCHANGED <<crt, typing, line>>

\* Nothing to read: sleep, or give up if killed.
await_char(p) ==
  /\ input.r = input.w
  /\ \/ reader' = [reader EXCEPT ![p].pc = "asleep"]
     \/ reader' = [reader EXCEPT ![p].pc = "out"]
  /\ UNCHANGED <<input, crt, typing, line, lines>>

consoleread(p) == reader[p].pc = "reading" /\ (take_char(p) \/ await_char(p))

consolewrite(c) ==
  /\ crt' = cgaputc(crt, c)
  /\ UNCHANGED <<input, reader, typing, line, lines>>

ConsoleInit ==
  /\ input = [buf |-> [i \in 0 .. INPUT_BUF - 1 |-> "nul"], r |-> 0, w |-> 0, e |-> 0]
  /\ crt = 0
  /\ reader = [p \in Readers |-> [pc |-> "out", n |-> 0, target |-> 0]]
  /\ typing = 0
  /\ line = <<>> /\ lines = <<>>

ConsoleNext ==
  \/ \E c \in Typed : consoleintr(c)
  \/ \E p \in Readers : consoleread(p) \/ \E n \in 1 .. MaxWant : read_console(p, n)
  \/ \E c \in {Newline, "a"} : consolewrite(c)

ConsoleSpec == ConsoleInit /\ [][ConsoleNext]_consoleVars

-----------------------------------------------------------------------------
(* Properties *)

InputRing(from, to) ==
  [i \in 1 .. (to - from) % UintSize |->
     input.buf[((from + i - 1) % UintSize) % INPUT_BUF]]

\* Editing and reading agree although the indices wrap and the buffer fills:
\* what lies between r and w is what was committed and not read yet, in
\* order, what lies between w and e is the line as edited so far, no erased
\* or uncommitted character is ever readable, and nobody sleeps in
\* consoleread() while there is something to read.
ConsoleLines ==
  /\ InputRing(input.r, input.w) = lines
  /\ InputRing(input.w, input.e) = line
  /\ \A p \in Readers : reader[p].pc = "asleep" => lines = <<>>

ConsoleShape ==
  /\ input \in [buf : [0 .. INPUT_BUF - 1 -> Typed \cup {"nul"}], r : 0 .. UintSize - 1,
                w : 0 .. UintSize - 1, e : 0 .. UintSize - 1]
  /\ reader \in [Readers -> [pc : {"out", "reading", "asleep"}, n : 0 .. MaxWant, target : 0 .. MaxWant]]
  /\ line \in Seq(Typed \ {Newline, EOT}) /\ lines \in Seq(Typed)

\* r, w and e follow one another around the ring; a full ring has been
\* committed, so that a reader can always make room.
IndicesOrdered ==
  /\ InputUsed = ((input.w - input.r) % UintSize) + ((input.e - input.w) % UintSize)
  /\ InputUsed <= INPUT_BUF
  /\ InputUsed = INPUT_BUF => input.w = input.e

\* A call of consoleread() goes on as long as it wants bytes, and no longer.
CallsWantBytes == \A p \in Readers : reader[p].pc # "out" => reader[p].n \in 1 .. reader[p].target

\* The cursor rests above the last row: cgaputc() finds no pos to panic about
\* and the memory it clears when it scrolls has a size.
CursorOnScreen == crt \in 0 .. CrtCols * (CrtRows - 1) - 1

\* The inductive invariant: indices, editing and reading agree.
ConsoleInv ==
  /\ ConsoleShape
  /\ IndicesOrdered
  /\ CallsWantBytes
  /\ CursorOnScreen
  /\ ConsoleLines
=============================================================================
