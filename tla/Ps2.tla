-------------------------------- MODULE Ps2 --------------------------------
(***************************************************************************)
(* Keyboard and mouse (src/kernel/kbd.c, mouse.c).  The two devices share  *)
(* one data port, which holds one byte; loading it raises the interrupt of *)
(* the device the byte is from.  Both interrupts go to CPU 0, so the       *)
(* handlers do not overlap, but neither asks the controller whose byte it  *)
(* reads: mouseintr() takes what is in the port for as long as there is    *)
(* something, and kbdintr() whatever is there when it runs.                *)
(***************************************************************************)
EXTENDS Integers, Sequences

CONSTANTS
  Scenes,              \* [packets, keys, max]: the packets <<flags, x, y>> of
                       \* the mouse, the scan codes of the keys, and how many
                       \* packets and key events a behaviour has
  ClickTicks, DblTicks,\* 30 and 60
  MaxTick              \* bound: time

\* The codes of keys that are pressed, and the packets: the first byte of
\* each has bit 3 set.  The code's time for "never" is 1000 ticks before 0.
KeyCodes == {<<d>> : d \in 1 .. 88} \cup {<<224, d>> : d \in 1 .. 88}
Bit(data, k) == (data \div k) % 2

ASSUME Ps2Assumption ==
  /\ \A s \in Scenes :
       /\ s.keys \subseteq KeyCodes
       /\ \A pk \in s.packets : pk \in [1 .. 3 -> 0 .. 255] /\ Bit(pk[1], 8) = 1
  /\ DblTicks \in 0 .. 1000

VARIABLES
  scene,     \* the scene of this behaviour
  port,      \* the byte in the data port, or NoByte
  raised,       \* interrupts raised and not handled
  serving,   \* mouseintr() is in its loop
  sending,   \* [dev -> bytes on their way from the device]
  sent,      \* packets and key events sent
  held,      \* keys that are down
  ptick,     \* ticks
  kshift,    \* shift of kbdgetc(): a set of flags
  mouse,     \* count, recovery, packet and the times of mouse.c
  events,    \* history: mouse messages passed to handleMessage()
  aligned,   \* history: bytes of the packet being taken, -1 when a byte went astray
  astray     \* history: a byte went to the other handler

ps2Vars == <<scene, port, raised, serving, sending, sent, held, ptick, kshift, mouse,
             events, aligned, astray>>

NoByte == [src |-> "none", data |-> 0]
Byte(src, data) == [src |-> src, data |-> data]
Never == -1000

-----------------------------------------------------------------------------
(* The devices *)

\* The code of a key that is released: its last byte has the top bit set.
BreakCode(k) == [k EXCEPT ![Len(k)] = @ + 128]

press_key(k) ==
  /\ sent < scene.max /\ sending.kbd = <<>>
  /\ k \notin held
  /\ sending' = [sending EXCEPT !.kbd = k]
  /\ held' = held \cup {k}
  /\ sent' = sent + 1
  /\ UNCHANGED <<scene, port, raised, serving, ptick, kshift, mouse, events, aligned, astray>>

release_key(k) ==
  /\ sending.kbd = <<>>
  /\ k \in held
  /\ sending' = [sending EXCEPT !.kbd = BreakCode(k)]
  /\ held' = held \ {k}
  /\ UNCHANGED <<scene, port, raised, serving, sent, ptick, kshift, mouse, events, aligned, astray>>

move_mouse(pk) ==
  /\ sent < scene.max /\ sending.mouse = <<>>
  /\ sending' = [sending EXCEPT !.mouse = pk]
  /\ sent' = sent + 1
  /\ UNCHANGED <<scene, port, raised, serving, held, ptick, kshift, mouse, events, aligned, astray>>

load_port(dev) ==
  /\ port = NoByte
  /\ sending[dev] # <<>>
  /\ port' = Byte(dev, Head(sending[dev]))
  /\ sending' = [sending EXCEPT ![dev] = Tail(@)]
  /\ raised' = raised \cup {dev}
  /\ UNCHANGED <<scene, serving, sent, held, ptick, kshift, mouse, events, aligned, astray>>

\* A packet has the time of its last byte, so time need not pass inside one.
clock_tick ==
  /\ ptick < MaxTick
  /\ sending.mouse = <<>> /\ port = NoByte
  /\ ptick' = ptick + 1
  /\ UNCHANGED <<scene, port, raised, serving, sending, sent, held, kshift, mouse, events,
                 aligned, astray>>

-----------------------------------------------------------------------------
(* kbd.c *)

shiftcode(d) ==
  CASE d \in {29, 157} -> {"CTL"}
    [] d \in {42, 54}  -> {"SHIFT"}
    [] d \in {56, 184} -> {"ALT"}
    [] OTHER -> {}

togglecode(d) == IF d = 58 THEN {"CAPSLOCK"} ELSE {}

Toggled(flags, t) == (flags \ t) \cup (t \ flags)

\* Mutant: the escape of an extended key is forgotten before the code of a
\* key that is released is looked up.
kbdgetcEscLost(data) ==
  LET esc == "E0ESC" \in kshift
      up  == data - 128
      dn  == IF esc THEN data + 128 ELSE data
      now == (kshift \ {"E0ESC"}) \cup shiftcode(dn)
  IN  CASE data = 224 -> kshift \cup {"E0ESC"}
        [] data # 224 /\ data >= 128 /\ ~esc -> kshift \ shiftcode(up)
        [] data # 224 /\ data >= 128 /\ esc -> kshift \ {"E0ESC"}
        [] OTHER -> Toggled(now, togglecode(dn))

\* The flags after one byte.
kbdgetc(data) ==
  LET esc == "E0ESC" \in kshift
      up  == IF esc THEN data ELSE data - 128
      dn  == IF esc THEN data + 128 ELSE data
      now == (kshift \ {"E0ESC"}) \cup shiftcode(dn)
  IN  CASE data = 224 -> kshift \cup {"E0ESC"}
        [] data # 224 /\ data >= 128 -> kshift \ (shiftcode(up) \cup {"E0ESC"})
        [] OTHER -> Toggled(now, togglecode(dn))

kbdintr ==
  /\ "kbd" \in raised /\ ~serving
  /\ raised' = raised \ {"kbd"}
  /\ port' = NoByte
  /\ kshift' = IF port = NoByte THEN kshift ELSE kbdgetc(port.data)
  /\ astray' = (astray \/ port.src = "mouse")
  /\ aligned' = IF port.src = "mouse" THEN -1 ELSE aligned
  /\ UNCHANGED <<scene, serving, sending, sent, held, ptick, mouse, events>>

-----------------------------------------------------------------------------
(* mouse.c *)

Event(type) == [type |-> type, tick |-> ptick]

\* genMouseMessage() of the packet that is complete: the new state and the
\* messages.  After a late release it passes on a message whose type was
\* never set.
genMouseMessage(m) ==
  LET btns == m.flags % 8
      lost == Bit(m.flags, 64) = 1 \/ Bit(m.flags, 128) = 1
      moved == ~lost /\ (m.x # 0 \/ m.y # 0 \/ Bit(m.flags, 16) = 1 \/ Bit(m.flags, 32) = 1)
      click == IF m.lastbtn % 2 = 1 THEN "LEFT_CLICK" ELSE "RIGHT_CLICK"
      dbl == ptick - m.lastclick < DblTicks
      n == [m EXCEPT !.lastbtn = btns]
  IN
  CASE lost -> <<m, <<>>>>
    [] moved -> <<[n EXCEPT !.lastdown = Never, !.lastclick = Never],
                  IF btns # m.lastbtn THEN <<Event("UP"), Event("MOVE")>>
                  ELSE <<Event("MOVE")>> >>
    [] ~lost /\ ~moved /\ btns # 0 -> <<[n EXCEPT !.lastdown = ptick], <<Event("DOWN")>> >>
    [] ~lost /\ ~moved /\ btns = 0 /\ ptick - m.lastdown < ClickTicks ->
         <<[n EXCEPT !.lastclick = IF dbl THEN Never ELSE ptick],
           <<Event(IF dbl THEN "DBCLICK" ELSE click)>> >>
    [] OTHER -> <<n, <<Event("UP"), Event("unset")>> >>

\* recovery counts the bytes 12, 0, 0 of the packet that resynchronizes.
NextRecovery(m, data) ==
  CASE m.recovery \in {0, 1} /\ data = 0 -> m.recovery + 1
    [] data = 12 -> 0
    [] OTHER -> -1

\* The switch on count: a byte without bit 3 starts no packet.
Counted(m, data) ==
  CASE m.count = 0 -> IF Bit(data, 8) = 1 THEN [m EXCEPT !.count = 1, !.flags = data]
                      ELSE m
    [] m.count = 1 -> [m EXCEPT !.count = 2, !.x = data]
    [] m.count = 2 -> [m EXCEPT !.count = 3, !.y = data]
    [] OTHER -> [m EXCEPT !.count = 0]

\* Mutant: the count is not reset when a packet is dropped for recovery.
TakeByteKeepCount(data) ==
  LET r == NextRecovery(mouse, data)
      m == [Counted(mouse, data) EXCEPT !.recovery = r]
  IN  CASE r = 2 -> <<[m EXCEPT !.recovery = -1], <<>>>>
        [] r # 2 /\ m.count = 3 -> genMouseMessage([m EXCEPT !.count = 0])
        [] OTHER -> <<m, <<>>>>

\* One round of the loop of mouseintr().
TakeByte(data) ==
  LET r == NextRecovery(mouse, data)
      m == [Counted(mouse, data) EXCEPT !.recovery = r]
  IN  CASE r = 2 -> <<[m EXCEPT !.count = 0, !.recovery = -1], <<>>>>
        [] r # 2 /\ m.count = 3 -> genMouseMessage([m EXCEPT !.count = 0])
        [] OTHER -> <<m, <<>>>>

\* How many bytes of its packet the mouse has given away: a packet 12, 0, 0
\* that arrives whole ends the time after a byte went astray.
Aligned(data) ==
  CASE aligned >= 0 -> (aligned + 1) % 3
    [] aligned = -1 /\ data = 12 /\ Len(sending.mouse) = 2 -> -2
    [] aligned = -2 /\ data = 0 -> -3
    [] aligned = -3 /\ data = 0 -> 0
    [] OTHER -> -1

mouseintr ==
  /\ "mouse" \in raised /\ ~serving
  /\ serving' = TRUE
  /\ raised' = raised \ {"mouse"}
  /\ UNCHANGED <<scene, port, sending, sent, held, ptick, kshift, mouse, events, aligned, astray>>

mouse_byte ==
  /\ serving /\ port # NoByte
  /\ port' = NoByte
  /\ mouse' = TakeByte(port.data)[1]
  /\ events' = events \o TakeByte(port.data)[2]
  /\ astray' = (astray \/ port.src = "kbd")
  /\ aligned' = IF port.src = "kbd" THEN -1 ELSE Aligned(port.data)
  /\ UNCHANGED <<scene, raised, serving, sending, sent, held, ptick, kshift>>

mouse_done ==
  /\ serving /\ port = NoByte
  /\ serving' = FALSE
  /\ UNCHANGED <<scene, port, raised, sending, sent, held, ptick, kshift, mouse, events,
                 aligned, astray>>

Ps2Init ==
  /\ scene \in Scenes
  /\ port = NoByte /\ raised = {} /\ serving = FALSE
  /\ sending = [kbd |-> <<>>, mouse |-> <<>>]
  /\ sent = 0 /\ held = {} /\ ptick = 0
  /\ kshift = {}
  /\ mouse = [count |-> 0, recovery |-> 0, flags |-> 0, x |-> 0, y |-> 0,
              lastbtn |-> 0, lastdown |-> Never, lastclick |-> Never]
  /\ events = <<>> /\ aligned = 0 /\ astray = FALSE

Ps2Next ==
  \/ \E k \in scene.keys : press_key(k) \/ release_key(k)
  \/ \E pk \in scene.packets : move_mouse(pk)
  \/ \E dev \in {"kbd", "mouse"} : load_port(dev)
  \/ clock_tick
  \/ kbdintr
  \/ mouseintr \/ mouse_byte \/ mouse_done

Ps2Spec == Ps2Init /\ [][Ps2Next]_ps2Vars

-----------------------------------------------------------------------------
(* Properties *)

\* mouseintr() is at the same byte of a packet as the mouse, from the start
\* until a byte goes to the wrong handler, and again once the packet
\* 12, 0, 0 has come whole, at whatever place it finds the counters.
MouseInSync == aligned >= 0 => mouse.count = aligned

\* A double click is reported for a second click on the same spot: the last
\* movement, click or double click before it is a click, and less than
\* DblTicks old; no click is part of two double clicks.
DoubleClicks ==
  \A i \in DOMAIN events :
    events[i].type = "DBCLICK" =>
      \E j \in 1 .. i - 1 :
        /\ events[j].type \in {"LEFT_CLICK", "RIGHT_CLICK"}
        /\ events[i].tick - events[j].tick < DblTicks
        /\ \A k \in j + 1 .. i - 1 : events[k].type \in {"DOWN", "UP", "unset"}

\* The mouse messages that reach the window manager mean what was done with
\* the mouse: every byte is taken for what it is, every double click is one.
MouseMessages == MouseInSync /\ DoubleClicks

\* No modifier sticks: with all keys up and their bytes read by kbdintr(),
\* extended keys included, only the locks are left in shift.
NoStuckModifier ==
  /\ held = {} /\ ~astray
  /\ sending.kbd = <<>> /\ port.src # "kbd"
  => kshift \subseteq {"CAPSLOCK"}

(* The inductive invariants behind them *)

Clicks == {"LEFT_CLICK", "RIGHT_CLICK"}
Quiet == {"DOWN", "UP", "unset"}
EventSet == [type : Clicks \cup Quiet \cup {"MOVE", "DBCLICK"}, tick : Nat]

Ps2Shape ==
  /\ scene \in Scenes /\ held \subseteq scene.keys /\ ptick \in Nat
  /\ port = NoByte \/ port \in [src : {"kbd", "mouse"}, data : 0 .. 255]
  /\ sending \in [kbd : Seq(0 .. 255), mouse : Seq(0 .. 255)]
  /\ Len(sending.kbd) <= 2 /\ Len(sending.mouse) <= 3
  /\ mouse \in [count : 0 .. 2, recovery : -1 .. 1, flags : Int, x : Int, y : Int,
                lastbtn : Int, lastdown : Int, lastclick : Int]
  /\ events \in Seq(EventSet)

\* kbdgetc() as a function of the flags, and the flags once the bytes that
\* are on their way are read.
Got(flags, data) ==
  LET esc == "E0ESC" \in flags
      up  == IF esc THEN data ELSE data - 128
      dn  == IF esc THEN data + 128 ELSE data
      now == (flags \ {"E0ESC"}) \cup shiftcode(dn)
  IN  CASE data = 224 -> flags \cup {"E0ESC"}
        [] data # 224 /\ data >= 128 -> flags \ (shiftcode(up) \cup {"E0ESC"})
        [] OTHER -> Toggled(now, togglecode(dn))

GotAll(flags, s) ==
  CASE Len(s) = 0 -> flags
    [] Len(s) = 1 -> Got(flags, s[1])
    [] OTHER -> Got(Got(flags, s[1]), s[2])

ShiftToCome ==
  GotAll(IF port.src = "kbd" THEN Got(kshift, port.data) ELSE kshift, sending.kbd)

\* The modifier that a key stands for.
ModifierOf(k) == shiftcode(IF Len(k) = 1 THEN k[1] ELSE k[2] + 128)

\* When the keyboard has been heard out, the flags are those of keys held.
ShiftOfHeld ==
  ~astray => ShiftToCome \subseteq {"CAPSLOCK"} \cup UNION {ModifierOf(k) : k \in held}

\* The place in its packet of the next byte of the mouse that is handled.
NextPlace == (IF port.src = "mouse" THEN 5 - Len(sending.mouse) ELSE 6 - Len(sending.mouse)) % 3

\* The first byte of a packet is known by its bit 3.
FirstBytes ==
  /\ Len(sending.mouse) = 3 => Bit(sending.mouse[1], 8) = 1
  /\ port.src = "mouse" /\ Len(sending.mouse) = 2 => Bit(port.data, 8) = 1

\* mouse.c and the mouse are at the same place, or at the same place of the
\* packet that brings them together.
InStep ==
  /\ aligned \in -3 .. 2
  /\ aligned >= 0 => NextPlace = aligned /\ mouse.count = aligned
  /\ aligned = 1 => mouse.recovery # 1
  /\ aligned = -2 => NextPlace = 1 /\ mouse.recovery = 0
  /\ aligned = -3 => NextPlace = 2 /\ mouse.recovery = 1

\* lastclicktick is the time of a click that nothing but buttons followed.
LastClick ==
  mouse.lastclick # Never =>
    \E j \in DOMAIN events :
      /\ events[j].type \in Clicks /\ events[j].tick = mouse.lastclick
      /\ \A k \in j + 1 .. Len(events) : events[k].type \in Quiet

Ps2Inv == Ps2Shape /\ ShiftOfHeld /\ FirstBytes /\ InStep /\ LastClick /\ DoubleClicks
=============================================================================
