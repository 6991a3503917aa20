------------------------------ MODULE Desktop -------------------------------
(***************************************************************************)
(* The desktop program (src/user/desktop.c): its icons, and what the mouse *)
(* messages of the window manager make of them: a selection box, a drag of *)
(* all selected icons behind the pressed one, a program started.           *)
(*                                                                         *)
(* The window manager sends moves only between a press on the desktop and  *)
(* the release, and drops a message when the buffer is full.               *)
(***************************************************************************)
EXTENDS Integers, FiniteSets, FiniteSetsExt

CONSTANTS
  Apps,         \* icons 1..n, drawn in this order
  FirstAt,      \* [Apps -> <<x, y>>]
  ScreenWidth, ScreenHeight, DockHeight,
  IconSize, AppHeight,
  DragThreshold, SelectThreshold,
  StartAt,      \* the points of the start button
  PointerAt,    \* bound: where the pointer goes
  MaxEvents,    \* bound: mouse messages
  MaxLost       \* bound: messages dropped

Coordinates == Int \X Int
\* Where an icon is wholly on the screen and above the dock.
OnScreen == (0 .. ScreenWidth - IconSize) \X (0 .. ScreenHeight - DockHeight - AppHeight)

ASSUME DesktopAssumption ==
  /\ Cardinality(Apps) \in Nat /\ Apps = 1 .. Cardinality(Apps)
  /\ {ScreenWidth, ScreenHeight, DockHeight, DragThreshold, SelectThreshold} \subseteq Int
  /\ IconSize \in 0 .. ScreenWidth /\ AppHeight \in 0 .. ScreenHeight - DockHeight
  /\ FirstAt \in [Apps -> OnScreen]
  /\ \A p \in PointerAt : p \in Coordinates

VARIABLES
  apps,     \* [Apps -> [at, isSelected, dragOffset]]
  desk,     \* drag and selection
  pointer,  \* external: where it is, whether pressed, whether moved since
  forked,   \* programs started, for which nobody waits
  grabbed,  \* ghost: where the icons were at the last press on one
  messages, lost

desktopVars == <<apps, desk, pointer, forked, grabbed, messages, lost>>

Into(v, hi) == IF v < 0 THEN 0 ELSE IF v > hi THEN hi ELSE v
Clamp(at) == <<Into(at[1], ScreenWidth - IconSize),
               Into(at[2], ScreenHeight - DockHeight - AppHeight)>>
Plus(a, b) == <<a[1] + b[1], a[2] + b[2]>>
Minus(a, b) == <<a[1] - b[1], a[2] - b[2]>>

clearAllSelections == [i \in Apps |-> [apps[i] EXCEPT !.isSelected = FALSE]]
OnlySelected(a) == [i \in Apps |-> [apps[i] EXCEPT !.isSelected = (i = a)]]

isAppInSelectionBox(i, a, b) ==
  \A k \in {1, 2} :
    LET size == IF k = 1 THEN IconSize ELSE AppHeight IN
    /\ apps[i].at[k] + size >= Min({a[k], b[k]})
    /\ apps[i].at[k] <= Max({a[k], b[k]})

updateSelection(a, b) ==
  [i \in Apps |-> [apps[i] EXCEPT !.isSelected = isAppInSelectionBox(i, a, b)]]

\* The icon at a point: the last one drawn; 0 if there is none.
findAppAtPosition(p) ==
  Max({0} \cup {i \in Apps : /\ p[1] >= apps[i].at[1] /\ p[1] < apps[i].at[1] + IconSize
                             /\ p[2] >= apps[i].at[2] /\ p[2] < apps[i].at[2] + AppHeight})

setupMultiDragOffsets(as, leader) ==
  [i \in Apps |-> IF as[i].isSelected
                  THEN [as[i] EXCEPT !.dragOffset = Minus(as[i].at, as[leader].at)]
                  ELSE as[i]]

\* Mutant: what the edge of the screen cuts off is lost for the rest of the
\* drag.
updateMultiDragPositionsStick(to) ==
  [i \in Apps |->
     IF apps[i].isSelected
     THEN [apps[i] EXCEPT !.at = Clamp(Plus(to, apps[i].dragOffset)),
                          !.dragOffset = Minus(Clamp(Plus(to, apps[i].dragOffset)), to)]
     ELSE apps[i]]

updateMultiDragPositions(to) ==
  [i \in Apps |-> IF apps[i].isSelected
                  THEN [apps[i] EXCEPT !.at = Clamp(Plus(to, apps[i].dragOffset))]
                  ELSE apps[i]]

-----------------------------------------------------------------------------
(* customUpdateWindow(), by message *)

\* The message reaches the desktop, or finds the buffer full.
Message == messages < MaxEvents /\ messages' = messages + 1
Received == Message /\ UNCHANGED lost
Dropped ==
  /\ Message /\ lost < MaxLost /\ lost' = lost + 1
  /\ UNCHANGED <<apps, desk, forked, grabbed>>

Pressed == pointer' = [pointer EXCEPT !.pressed = TRUE, !.moved = FALSE]
Released == pointer' = [pointer EXCEPT !.pressed = FALSE]

mouse_down ==
  LET i == findAppAtPosition(pointer.at)
      chosen == IF apps[i].isSelected THEN apps ELSE OnlySelected(i)
  IN
  /\ Pressed /\ Received
  /\ UNCHANGED forked
  /\ IF i # 0
     THEN /\ apps' = setupMultiDragOffsets(chosen, i)
          /\ desk' = [desk EXCEPT !.draggingApp = i, !.isDragging = FALSE,
                                  !.dragStart = pointer.at, !.appOriginal = apps[i].at,
                                  !.isSelecting = FALSE]
          /\ grabbed' = [j \in Apps |-> apps[j].at]
     ELSE /\ apps' = clearAllSelections
          /\ desk' = [desk EXCEPT !.draggingApp = 0, !.isDragging = FALSE,
                                  !.isSelecting = TRUE, !.selectionStart = pointer.at,
                                  !.selectionCurrent = pointer.at, !.lastUpdate = pointer.at]
          /\ UNCHANGED grabbed

Far(delta) == delta[1] * delta[1] + delta[2] * delta[2] > DragThreshold * DragThreshold
Apart(a, b) == \E k \in {1, 2} : a[k] - b[k] >= SelectThreshold \/ b[k] - a[k] >= SelectThreshold

mouse_move(p) ==
  LET delta == Minus(p, desk.dragStart)
      drags == desk.isDragging \/ Far(delta)
  IN
  /\ pointer.pressed
  /\ pointer' = [pointer EXCEPT !.at = p, !.moved = TRUE]
  /\ Received
  /\ UNCHANGED <<forked, grabbed>>
  /\ \/ /\ desk.draggingApp # 0 /\ ~desk.isSelecting
        /\ desk' = [desk EXCEPT !.isDragging = drags]
        /\ apps' = IF drags THEN updateMultiDragPositions(Clamp(Plus(desk.appOriginal, delta)))
                   ELSE apps
     \/ /\ desk.isSelecting
        /\ desk' = [desk EXCEPT !.selectionCurrent = p,
                                !.lastUpdate = IF Apart(p, @) THEN p ELSE @]
        /\ apps' = IF Apart(p, desk.lastUpdate) THEN updateSelection(desk.selectionStart, p)
                   ELSE apps
     \/ /\ desk.draggingApp = 0 /\ ~desk.isSelecting
        /\ UNCHANGED <<apps, desk>>

mouse_up ==
  /\ pointer.pressed
  /\ Released /\ Received
  /\ desk' = [desk EXCEPT !.draggingApp = 0, !.isDragging = FALSE, !.isSelecting = FALSE]
  /\ apps' = IF desk.isSelecting
             THEN updateSelection(desk.selectionStart, desk.selectionCurrent) ELSE apps
  /\ UNCHANGED <<forked, grabbed>>

\* A click does not end what the press began: draggingApp and isSelecting
\* stay as they are.  On the start button it starts the menu.
left_click ==
  LET i == findAppAtPosition(pointer.at) IN
  /\ pointer.pressed /\ ~pointer.moved
  /\ Released /\ Received
  /\ apps' = IF i = 0 THEN clearAllSelections ELSE OnlySelected(i)
  /\ forked' = IF i = 0 /\ pointer.at \in StartAt THEN forked + 1 ELSE forked
  /\ UNCHANGED <<desk, grabbed>>

double_click ==
  /\ pointer.pressed /\ ~pointer.moved
  /\ Released /\ Received
  /\ forked' = IF findAppAtPosition(pointer.at) # 0 THEN forked + 1 ELSE forked
  /\ desk' = [desk EXCEPT !.draggingApp = 0, !.isDragging = FALSE, !.isSelecting = FALSE]
  /\ UNCHANGED <<apps, grabbed>>

\* The pointer moves unpressed; messages that find the buffer full.
move_unpressed(p) ==
  /\ ~pointer.pressed
  /\ pointer' = [pointer EXCEPT !.at = p]
  /\ UNCHANGED <<apps, desk, forked, grabbed, messages, lost>>

lose_down == Pressed /\ Dropped
lose_move(p) ==
  pointer.pressed /\ pointer' = [pointer EXCEPT !.at = p, !.moved = TRUE] /\ Dropped
lose_release == pointer.pressed /\ Released /\ Dropped

DesktopInit ==
  /\ apps = [i \in Apps |-> [at |-> FirstAt[i], isSelected |-> FALSE, dragOffset |-> <<0, 0>>]]
  /\ desk = [draggingApp |-> 0, isDragging |-> FALSE, dragStart |-> <<0, 0>>,
             appOriginal |-> <<0, 0>>, isSelecting |-> FALSE, selectionStart |-> <<0, 0>>,
             selectionCurrent |-> <<0, 0>>, lastUpdate |-> <<0, 0>>]
  /\ pointer = [at |-> <<0, 0>>, pressed |-> FALSE, moved |-> FALSE]
  /\ forked = 0
  /\ grabbed = FirstAt
  /\ messages = 0
  /\ lost = 0

DesktopNext ==
  \/ mouse_down \/ mouse_up \/ left_click \/ double_click
  \/ \E p \in PointerAt : mouse_move(p) \/ move_unpressed(p) \/ lose_move(p)
  \/ lose_down \/ lose_release

DesktopSpec == DesktopInit /\ [][DesktopNext]_desktopVars

-----------------------------------------------------------------------------
(* Properties *)

\* A drag moves the selected icons as one: each is where it was at the press,
\* moved as far as the pressed icon was, or at the edge of the screen.  They
\* are not pushed together by an edge that they touched on the way, nor torn
\* apart by a message that was lost.  One exception: a drag whose icon is
\* not selected any more.  A click changes the selection but keeps draggingApp
\* (desktop.c:535-559), so that once two presses were lost a move drags what
\* is selected by then, with the offsets of earlier presses.
DragKeepsGroup ==
  LET leader == desk.draggingApp
      way == Minus(apps[leader].at, grabbed[leader])
  IN  desk.isDragging /\ apps[leader].isSelected =>
        \A i \in Apps : apps[i].isSelected =>
          apps[i].at = Clamp(Plus(grabbed[i], way))

(* The inductive invariant behind it *)

DesktopShape ==
  /\ apps \in [Apps -> [at : OnScreen, isSelected : BOOLEAN, dragOffset : Coordinates]]
  /\ desk \in [draggingApp : Apps \cup {0}, isDragging : BOOLEAN, dragStart : Coordinates,
               appOriginal : Coordinates, isSelecting : BOOLEAN, selectionStart : Coordinates,
               selectionCurrent : Coordinates, lastUpdate : Coordinates]
  /\ pointer \in [at : Coordinates, pressed : BOOLEAN, moved : BOOLEAN]
  /\ grabbed \in [Apps -> Coordinates]

\* An icon is dragged only from the press on it, and not inside a box.
OneGesture ==
  /\ desk.isDragging => desk.draggingApp # 0
  /\ desk.draggingApp # 0 => ~desk.isSelecting

\* The offsets that were taken at the press, for as long as they are used.
OffsetsHold ==
  LET leader == desk.draggingApp IN
  leader # 0 =>
    /\ apps[leader].dragOffset = <<0, 0>>
    /\ apps[leader].isSelected =>
         \A i \in Apps : apps[i].isSelected =>
           apps[i].dragOffset = Minus(grabbed[i], grabbed[leader])

DesktopInv == DesktopShape /\ OneGesture /\ OffsetsHold /\ DragKeepsGroup
=============================================================================
