------------------------------ MODULE Widgets -------------------------------
(***************************************************************************)
(* The widgets of a window (src/user/user_window.c): a table of slots, of  *)
(* which those in use form a doubly linked list in drawing order.  A       *)
(* window is a value; the programs that own one keep it in their state.    *)
(*                                                                         *)
(* Positions are abstracted to places: a widget covers one named place of  *)
(* the window, or several (see Covers).                                    *)
(***************************************************************************)
EXTENDS Integers, FiniteSets, FiniteSetsExt

CONSTANT MAX_WIDGET_SIZE

Slots == 0 .. MAX_WIDGET_SIZE - 1
NoWidget == -1

FreeSlot(i) == [prev |-> i, next |-> i, type |-> "TEXT", handler |-> "none",
                scrollable |-> FALSE, place |-> <<"none">>, context |-> FALSE]

createWindow ==
  [widgetlisthead |-> NoWidget, widgetlisttail |-> NoWidget, keyfocus |-> NoWidget,
   widgets |-> [i \in Slots |-> FreeSlot(i)]]

IsFree(win, i) == win.widgets[i].prev = i /\ win.widgets[i].next = i

findNextAvailable(win) ==
  LET free == {i \in Slots : IsFree(win, i)}
  IN  IF free = {} THEN NoWidget ELSE Min(free)

addToWidgetListTail(win, idx) ==
  [win EXCEPT
     !.widgets = [i \in Slots |->
        CASE i = idx -> [@[i] EXCEPT !.prev = win.widgetlisttail, !.next = NoWidget]
          [] i = win.widgetlisttail /\ i # idx -> [@[i] EXCEPT !.next = idx]
          [] OTHER -> @[i]],
     !.widgetlisttail = idx]

addWidget(win, idx) ==
  addToWidgetListTail(IF win.widgetlisthead = NoWidget
                      THEN [win EXCEPT !.widgetlisthead = idx] ELSE win, idx)

\* addColorFillWidget(), addButtonWidget(), addTextWidget() and
\* addInputFieldWidget(), which takes the keys.  With no slot left they
\* return -1 and change nothing.
AddAt(win, id, type, handler, scrollable, place) ==
  LET added == addWidget(win, id)
      set == [added EXCEPT !.widgets[id].type = type, !.widgets[id].handler = handler,
                           !.widgets[id].scrollable = scrollable,
                           !.widgets[id].place = place, !.widgets[id].context = TRUE]
  IN  IF id = NoWidget THEN win
      ELSE IF type = "INPUTFIELD" THEN [set EXCEPT !.keyfocus = id] ELSE set

Add(win, type, handler, scrollable, place) ==
  AddAt(win, findNextAvailable(win), type, handler, scrollable, place)

\* Mutant: the widget after the removed one keeps its link back.
removeFromWidgetListKeepPrev(win, idx) ==
  LET w == win.widgets[idx] IN
  [win EXCEPT
     !.widgetlisttail = IF @ = idx THEN w.prev ELSE @,
     !.widgets = [i \in Slots |->
        CASE i = idx -> [@[i] EXCEPT !.prev = idx, !.next = idx]
          [] i = w.prev /\ i # idx -> [@[i] EXCEPT !.next = w.next]
          [] OTHER -> @[i]]]

\* When the head goes, widgetlisthead becomes the successor of the tail.
removeFromWidgetList(win, idx) ==
  LET w == win.widgets[idx] IN
  [win EXCEPT
     !.widgetlisthead = IF @ = idx THEN win.widgets[win.widgetlisttail].next ELSE @,
     !.widgetlisttail = IF @ = idx THEN win.widgets[win.widgetlisttail].prev ELSE @,
     !.widgets = [i \in Slots |->
        CASE i = idx -> [@[i] EXCEPT !.prev = idx, !.next = idx]
          [] OTHER -> [@[i] EXCEPT !.next = IF i = w.prev THEN w.next ELSE @,
                                   !.prev = IF i = w.next THEN w.prev ELSE @]]]

freeWidget(win, idx) ==
  [win EXCEPT !.widgets[idx].context = @ /\ win.widgets[idx].type = "SHAPE"]

removeWidget(win, idx) ==
  IF IsFree(win, idx) THEN win ELSE removeFromWidgetList(freeWidget(win, idx), idx)

-----------------------------------------------------------------------------
(* updateWindow() *)

Covers(place, at) ==
  \/ place = <<"window">>
  \/ place = at
  \/ place = <<"panel">> /\ at \in {<<"ok">>, <<"cancel">>, <<"input">>}

\* The widget on top at a place: from the tail of the list towards the head.
Hit(win, at) ==
  LET hit[p \in Slots \cup {NoWidget}] ==
        IF p = NoWidget \/ Covers(win.widgets[p].place, at) THEN p
        ELSE hit[win.widgets[p].prev]
  IN  hit[win.widgetlisttail]

-----------------------------------------------------------------------------
\* The slots in list order, as repaintWindow() and closeWindow() walk them.
Listed(win) ==
  LET from[p \in Slots \cup {NoWidget}, n \in 0 .. MAX_WIDGET_SIZE] ==
        IF p = NoWidget \/ n = 0 THEN {} ELSE {p} \cup from[win.widgets[p].next, n - 1]
  IN  from[win.widgetlisthead, MAX_WIDGET_SIZE]

\* Both directions of the list visit the same slots, and the slots they do
\* not visit are free: nothing that is on the screen is out of reach of a
\* click, no slot is lost, and no walk runs into a removed widget.
WellLinked(win) ==
  LET L == Listed(win) IN
  /\ \A i \in Slots : (i \in L) = ~IsFree(win, i)
  /\ \A i \in L : /\ win.widgets[i].next # NoWidget =>
                       win.widgets[win.widgets[i].next].prev = i
                  /\ win.widgets[i].prev # NoWidget =>
                       win.widgets[win.widgets[i].prev].next = i
                  /\ (win.widgets[i].next = NoWidget) = (i = win.widgetlisttail)
                  /\ (win.widgets[i].prev = NoWidget) = (i = win.widgetlisthead)
                  /\ win.widgets[i].context
=============================================================================
