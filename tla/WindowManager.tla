--------------------------- MODULE WindowManager ---------------------------
(***************************************************************************)
(* The window manager in the kernel, kernel/window_manager.c, together     *)
(* with the event loops of its clients in user/user_window.c,              *)
(* user/desktop.c and user/startWindow.c.                                  *)
(*                                                                         *)
(* The windows are a doubly linked list in an array, bottom window first;  *)
(* a slot that links to itself is free.  Every operation runs under        *)
(* wmlock, so each is one step.  Geometry is reduced to what decides       *)
(* control: which windows lie under the mouse, which part of the window    *)
(* that ends up on top it points at, and where in the dock it is.          *)
(***************************************************************************)
EXTENDS Integers, Sequences, FiniteSets

CONSTANTS Apps,         \* processes that run a program with a window
          Desktop,      \* the process that runs desktop.c
          Menus,        \* processes that run startWindow.c
          NoProc,       \* no process: the null pointer
          MaxWindows,   \* MAX_WINDOW_CNT
          MsgBufSize,   \* MSG_BUF_SIZE
          DesktopQuits, \* how the desktop may be told to close: "press" in the
                        \* topmost pixel row, "turnoff" by GUI_turnoffScreen()
          AppsDie       \* TRUE if a program may end without closing its window

ASSUME WindowAssumption ==
  /\ Desktop \notin Apps /\ Menus \cap (Apps \cup {Desktop}) = {}
  /\ NoProc \notin Apps \cup Menus \cup {Desktop}
  /\ MaxWindows \in Nat \ {0} /\ MsgBufSize \in Nat \ {0}
  /\ DesktopQuits \subseteq {"press", "turnoff"} /\ AppsDie \in BOOLEAN

Clients == Apps \cup {Desktop}
Procs == Clients \cup Menus
Ids == 0..(MaxWindows - 1)
Nil == -1

VARIABLES
  list,       \* windowlist[].next and .prev, windowlisthead, windowlisttail
  desktopId,
  proc,       \* windowlist[].proc
  minimized,  \* windowlist[].wnd.minimized
  queue,      \* windowlist[].wnd.msg_buf, oldest message first
  popup,      \* popupwindow: caller, proc and message queue
  onTitle, onContent, onPopup,   \* clickedOnTitle, ...Content, ...Popup
  status,     \* each process: free slot, running with or without a window, zombie
  handler,    \* window->handler of each client
  todo,       \* what a process is about to do with the message it took
  halt,       \* why the kernel stopped, "no" if it did not
  headClosed  \* history: closeWindow() was called on the head of the list

wins == <<list, desktopId, proc, minimized>>
mouse == <<onTitle, onContent, onPopup>>
procs == <<status, handler, todo>>
vars == <<wins, queue, popup, mouse, procs, halt, headClosed>>

Init ==
  /\ list = [next |-> [w \in Ids |-> w], prev |-> [w \in Ids |-> w], head |-> Nil, tail |-> Nil]
  /\ desktopId = Nil
  /\ proc = [w \in Ids |-> NoProc]
  /\ minimized = [w \in Ids |-> FALSE]
  /\ queue = [w \in Ids |-> <<>>]
  /\ popup = [caller |-> Nil, proc |-> NoProc, queue |-> <<>>]
  /\ onTitle = FALSE /\ onContent = FALSE /\ onPopup = FALSE
  /\ status = [p \in Procs |-> "free"]
  /\ handler = [p \in Clients |-> Nil]
  /\ todo = [p \in Procs |-> "loop"]
  /\ halt = "no"
  /\ headClosed = FALSE

-----------------------------------------------------------------------------
(* The list *)

IsFree(l, w) == l.prev[w] = w /\ l.next[w] = w

\* Mutant of addToWindowList.
addToWindowListFront(l, w) ==
  LET linked == [l EXCEPT !.prev[w] = Nil, !.next[w] = l.head, !.head = w]
      hooked == IF l.head \in {Nil, w} THEN linked ELSE [linked EXCEPT !.prev[l.head] = w]
  IN  IF l.tail = Nil THEN [hooked EXCEPT !.tail = w, !.next[w] = Nil] ELSE hooked

addToWindowList(l, w) ==
  LET linked == [l EXCEPT !.prev[w] = l.tail, !.next[w] = Nil]
      hooked == IF l.tail = Nil THEN linked ELSE [linked EXCEPT !.next[l.tail] = w]
  IN  [hooked EXCEPT !.tail = w]

\* Neither removal nor the caller moves windowlisthead.
removeFromWindowList(l, w) ==
  LET p == l.prev[w]
      n == l.next[w]
      tailed == IF l.tail = w THEN [l EXCEPT !.tail = p] ELSE l
      before == IF p = Nil THEN tailed ELSE [tailed EXCEPT !.next[p] = n]
  IN  IF n = Nil THEN before ELSE [before EXCEPT !.prev[n] = p]

\* focusWindow() writes outside the array: it unlinks w from a neighbour it
\* does not have.
FocusIsWild(l, w) ==
  /\ w # Nil /\ w # l.tail
  /\ l.next[w] = Nil \/ (w # l.head /\ l.prev[w] = Nil)

\* Mutant of focusWindow.
focusWindowKeepPrev(l, w) ==
  IF w = Nil \/ w = l.tail \/ FocusIsWild(l, w) THEN l
  ELSE LET p == l.prev[w]
           n == l.next[w]
           out == IF w = l.head THEN [l EXCEPT !.head = n]
                  ELSE LET cut == [l EXCEPT !.next[p] = n] IN [cut EXCEPT !.prev[n] = p]
       IN  addToWindowList(out, w)

focusWindow(l, w) ==
  IF w = Nil \/ w = l.tail \/ FocusIsWild(l, w) THEN l
  ELSE LET p == l.prev[w]
           n == l.next[w]
           out == IF w = l.head
                  THEN [l EXCEPT !.prev[n] = Nil, !.head = n]
                  ELSE LET cut == [l EXCEPT !.next[p] = n] IN [cut EXCEPT !.prev[n] = p]
       IN  addToWindowList(out, w)

\* The windows a loop over .next from the head, or over .prev from the tail,
\* has reached after n rounds.  The loop ends if it reaches Nil, and a loop
\* that has not after MaxWindows rounds never does.
Walk(start, link) ==
  LET at[n \in 0..MaxWindows] ==
        IF n = 0 THEN start ELSE LET w == at[n-1] IN IF w = Nil THEN Nil ELSE link[w]
  IN  at
NextFrom(l) == Walk(l.head, l.next)
PrevFrom(l) == Walk(l.tail, l.prev)
Ends(walk) == walk[MaxWindows] = Nil
Visited(walk) == {walk[n] : n \in DOMAIN walk} \ {Nil}

-----------------------------------------------------------------------------
(* Message queues *)

\* Mutant of Put.
PutOverwrites(q, m) == IF Len(q) >= MsgBufSize THEN [q EXCEPT ![Len(q)] = m] ELSE Append(q, m)

Put(q, m) == IF Len(q) >= MsgBufSize THEN q ELSE Append(q, m)

dispatchMessage(q, w, m) == [q EXCEPT ![w] = Put(@, m)]

Running == halt = "no"

\* What updateWindow() does with a message: messages for widgets stay inside
\* the program.  The desktop's own loop knows only WM_WINDOW_CLOSE.
updateWindow(p, m) == IF m = "input" \/ (p = Desktop /\ m # "close") THEN "loop" ELSE m
updatePopupWindow(m) == IF m = "close" THEN "close" ELSE "loop"

\* getMessage() for the owner of the window.
getMessage(p) ==
  /\ Running /\ status[p] = "open" /\ todo[p] = "loop"
  /\ proc[handler[p]] = p /\ queue[handler[p]] # <<>>
  /\ todo' = [todo EXCEPT ![p] = updateWindow(p, Head(queue[handler[p]]))]
  /\ queue' = [queue EXCEPT ![handler[p]] = Tail(@)]
  /\ UNCHANGED <<wins, popup, mouse, status, handler, halt, headClosed>>

\* GUI_getPopupMessage(): any process may take from the one popup queue.
getPopupMessage(p) ==
  /\ Running /\ status[p] = "open" /\ todo[p] = "loop"
  /\ popup.caller # Nil /\ popup.queue # <<>>
  /\ todo' = [todo EXCEPT ![p] = updatePopupWindow(Head(popup.queue))]
  /\ popup' = [popup EXCEPT !.queue = Tail(@)]
  /\ UNCHANGED <<wins, queue, mouse, status, handler, halt, headClosed>>

-----------------------------------------------------------------------------
(* System calls *)

\* A program starts and opens its window; one that gets none runs on without.
\* init starts the desktop, the desktop and the menu start the others.
createWindow(p) ==
  /\ Running /\ status[p] = "free" /\ (p = Desktop \/ desktopId # Nil)
  /\ LET free == {w \in Ids : IsFree(list, w)} IN
     IF free = {} THEN /\ status' = [status EXCEPT ![p] = "nowin"]
                       /\ UNCHANGED <<wins, queue, handler>>
     ELSE LET w == CHOOSE i \in free : \A j \in free : i <= j
              headed == IF list.head = Nil THEN [list EXCEPT !.head = w] ELSE list
          IN  /\ list' = addToWindowList(headed, w)
              /\ desktopId' = IF desktopId = Nil THEN w ELSE desktopId
              /\ proc' = [proc EXCEPT ![w] = p]
              /\ minimized' = [minimized EXCEPT ![w] = FALSE]
              /\ queue' = [queue EXCEPT ![w] = <<>>]
              /\ handler' = [handler EXCEPT ![p] = w]
              /\ status' = [status EXCEPT ![p] = "open"]
  /\ UNCHANGED <<popup, mouse, todo, halt, headClosed>>

Exits(p) == status' = [status EXCEPT ![p] = "zombie"] /\ todo' = [todo EXCEPT ![p] = "loop"]

\* closeWindow(), after which the program exits.
closeWindow(p) ==
  /\ Running /\ todo[p] = "close"
  /\ LET w == handler[p]
         freed == [removeFromWindowList(list, w) EXCEPT !.prev[w] = w, !.next[w] = w]
     IN  /\ list' = IF w = freed.tail THEN focusWindow(freed, freed.prev[w]) ELSE freed
         /\ queue' = [queue EXCEPT ![w] = <<>>]
         /\ headClosed' = (headClosed \/ w = list.head)
  /\ handler' = [handler EXCEPT ![p] = Nil]
  /\ Exits(p)
  /\ UNCHANGED <<desktopId, proc, minimized, popup, mouse, halt>>

minimizeWindow(p) ==
  /\ Running /\ todo[p] = "min"
  /\ LET w == handler[p]
         f == IF w = list.tail THEN list.prev[w] ELSE Nil
     IN  /\ minimized' = [minimized EXCEPT ![w] = TRUE]
         /\ list' = focusWindow(list, f)
         /\ halt' = IF FocusIsWild(list, f) THEN "wild" ELSE halt
  /\ todo' = [todo EXCEPT ![p] = "loop"]
  /\ UNCHANGED <<desktopId, proc, queue, popup, mouse, status, handler, headClosed>>

maximizeWindow(p) ==
  /\ Running /\ todo[p] = "max"
  /\ minimized' = [minimized EXCEPT ![handler[p]] = FALSE]
  /\ list' = focusWindow(list, handler[p])
  /\ halt' = IF FocusIsWild(list, handler[p]) THEN "wild" ELSE halt
  /\ todo' = [todo EXCEPT ![p] = "loop"]
  /\ UNCHANGED <<desktopId, proc, queue, popup, mouse, status, handler, headClosed>>

\* The start menu opens the popup for window 0, where it takes the desktop
\* to be (startWindow.c:266), or runs on without.
createPopupWindow(p) ==
  /\ Running /\ status[p] = "free" /\ desktopId # Nil
  /\ popup' = IF popup.caller # Nil THEN popup
              ELSE [caller |-> 0, proc |-> p, queue |-> <<>>]
  /\ status' = [status EXCEPT ![p] = "open"]
  /\ UNCHANGED <<wins, queue, mouse, handler, todo, halt, headClosed>>

\* closePopupWindow(), whoever has it open, after which the menu exits.
closePopupWindow(p) ==
  /\ Running /\ todo[p] = "close"
  /\ popup' = [popup EXCEPT !.caller = Nil, !.queue = <<>>]
  /\ Exits(p)
  /\ UNCHANGED <<wins, queue, mouse, handler, halt, headClosed>>

\* turnoffScreen(): tell every window to close.
turnoffScreen ==
  /\ Running /\ "turnoff" \in DesktopQuits /\ list.head # Nil
  /\ LET walk == NextFrom(list) IN
       /\ queue' = [w \in Ids |-> IF w \in Visited(walk) THEN Put(queue[w], "close") ELSE queue[w]]
       /\ halt' = IF Ends(walk) THEN halt ELSE "hung"
  /\ UNCHANGED <<wins, popup, mouse, procs, headClosed>>

\* updateScreen(), in the desktop's loop: it must be the process of the
\* desktop window; drawDesktopDock() counts the windows on its way along the
\* list; then the page tables of the owner of each visible window are switched
\* to, which panics if wait() has reaped it.
updateScreen ==
  /\ Running /\ status[Desktop] \in {"open", "nowin"} /\ todo[Desktop] = "loop"
  /\ LET walk == NextFrom(list)
         drawn == {w \in Visited(walk) : w # desktopId /\ ~minimized[w]}
         owners == {proc[w] : w \in drawn} \cup (IF popup.caller = Nil THEN {} ELSE {popup.proc})
     IN  halt' = IF desktopId = Nil THEN "wild"
                 ELSE IF proc[desktopId] # Desktop THEN "not desktop"
                 ELSE IF ~Ends(walk) THEN "hung"
                 ELSE IF \E p \in owners : status[p] = "free" THEN "no kstack" ELSE "no"
  /\ UNCHANGED <<wins, queue, popup, mouse, procs, headClosed>>

\* A fault or a kill() ends a program without a word to the window manager.
die(p) ==
  /\ Running /\ AppsDie /\ p \in Apps /\ status[p] \in {"open", "nowin"}
  /\ handler' = [q \in Clients |-> IF q = p THEN Nil ELSE handler[q]]
  /\ Exits(p)
  /\ UNCHANGED <<wins, queue, popup, mouse, halt, headClosed>>

\* wait() in the parent, or in init when the menu that started the program has
\* exited, frees the stack and the page tables.  The desktop never waits for
\* what it started: such a program stays a zombie, which is no step at all.
reap(p) ==
  /\ Running /\ status[p] = "zombie"
  /\ status' = [status EXCEPT ![p] = "free"]
  /\ UNCHANGED <<wins, queue, popup, mouse, handler, todo, halt, headClosed>>

-----------------------------------------------------------------------------
(* wmHandleMessage(): mouse and keyboard *)

\* A message for the focused window; without one windowlist[-1] is written.
ToTail(l, m) ==
  IF l.tail = Nil THEN halt' = "wild" /\ UNCHANGED queue
  ELSE queue' = dispatchMessage(queue, l.tail, m) /\ UNCHANGED halt

\* M_MOUSE_MOVE: drags the focused window, or is passed to it.
mouse_move ==
  /\ Running
  /\ IF onContent /\ ~onTitle THEN ToTail(list, "input")
     ELSE halt' = (IF onTitle /\ list.tail = Nil THEN "wild" ELSE halt) /\ UNCHANGED queue
  /\ UNCHANGED <<wins, popup, mouse, procs, headClosed>>

\* M_MOUSE_DOWN on the popup.
down_popup ==
  /\ Running /\ popup.caller # Nil
  /\ onPopup' = TRUE
  /\ UNCHANGED <<wins, queue, popup, onTitle, onContent, procs, halt, headClosed>>

\* The windows that can be the first under the mouse, from the top; the
\* desktop and minimized windows are passed over.
Pressable == {w \in Visited(PrevFrom(list)) : w # desktopId /\ ~minimized[w]}

\* The part of the window on top that is under the mouse: a title bar ends
\* where the content starts, and both contain that line.  The desktop fills
\* the screen, so that only its topmost row lies in a title bar.
CanPress(w, hit, bar, content) ==
  /\ hit => bar # "none" \/ content
  /\ w # Nil /\ proc[w] = Desktop => content /\ (bar # "none" => "press" \in DesktopQuits)

\* M_MOUSE_DOWN elsewhere: tell the popup to close, raise the window under
\* the mouse (top, if there is one) or else the desktop, and tell it.
down(top, bar, content) ==
  /\ Running /\ top \in Pressable \cup {Nil}
  /\ LET target == IF top = Nil THEN desktopId ELSE top
         raised == focusWindow(list, target)
         w == raised.tail
         q == IF bar \in {"close", "min"} THEN dispatchMessage(queue, w, bar) ELSE queue
     IN  /\ CanPress(w, top # Nil, bar, content)
         /\ popup' = [popup EXCEPT !.queue = Put(@, "close")]
         /\ list' = raised
         /\ halt' = IF top = Nil /\ ~Ends(PrevFrom(list)) THEN "hung"
                    ELSE IF w = Nil \/ FocusIsWild(list, target) THEN "wild" ELSE "no"
         /\ onTitle' = (onTitle \/ bar = "drag")
         /\ onContent' = (onContent \/ content)
         /\ queue' = IF w = Nil THEN queue
                     ELSE IF content THEN dispatchMessage(q, w, "input") ELSE q
  /\ UNCHANGED <<desktopId, proc, minimized, onPopup, procs, headClosed>>

\* M_MOUSE_UP, or a click that follows no press.
mouse_up ==
  /\ Running
  /\ IF onContent THEN ToTail(list, "input") ELSE UNCHANGED <<queue, halt>>
  /\ onPopup' = FALSE /\ onContent' = FALSE /\ onTitle' = FALSE
  /\ UNCHANGED <<wins, popup, procs, headClosed>>

\* A click that started on the popup, and the M_MOUSE_UP case it falls into.
click_popup ==
  /\ Running /\ onPopup
  /\ popup' = [popup EXCEPT !.queue = Put(@, "input")]
  /\ IF onContent THEN ToTail(list, "input") ELSE UNCHANGED <<queue, halt>>
  /\ onPopup' = FALSE /\ onContent' = FALSE /\ onTitle' = FALSE
  /\ UNCHANGED <<wins, procs, headClosed>>

\* A click in the content of the focused window; clickedOnTitle stays.
click_content ==
  /\ Running /\ ~onPopup /\ onContent
  /\ ToTail(list, "input")
  /\ onContent' = FALSE
  /\ UNCHANGED <<wins, popup, onTitle, onPopup, procs, headClosed>>

\* handleDesktopDockClick(), and the M_MOUSE_UP case: a click on the bar of
\* window w, on the show-desktop area, on the start button or beside them.
OnDock == Running /\ ~onPopup /\ onContent /\ list.tail # Nil /\ list.tail = desktopId
DockDone ==
  /\ onContent' = FALSE /\ onTitle' = FALSE
  /\ UNCHANGED <<desktopId, proc, minimized, popup, onPopup, procs, headClosed>>

dock_window(w) ==
  /\ OnDock /\ w \in Visited(NextFrom(list)) \ {desktopId}
  /\ IF ~Ends(NextFrom(list)) THEN halt' = "hung" /\ UNCHANGED <<list, queue>>
     ELSE IF minimized[w] THEN queue' = dispatchMessage(queue, w, "max") /\ UNCHANGED <<list, halt>>
     ELSE /\ list' = focusWindow(list, w)
          /\ halt' = IF FocusIsWild(list, w) THEN "wild" ELSE halt
          /\ UNCHANGED queue
  /\ DockDone

dock_showDesktop ==
  /\ OnDock
  /\ queue' = [w \in Ids |-> IF w \in Visited(NextFrom(list)) \ {desktopId} /\ ~minimized[w]
                             THEN Put(queue[w], "min") ELSE queue[w]]
  /\ halt' = IF Ends(NextFrom(list)) THEN halt ELSE "hung"
  /\ UNCHANGED list
  /\ DockDone

dock_start ==
  /\ OnDock
  /\ queue' = IF popup.caller = desktopId THEN queue ELSE dispatchMessage(queue, desktopId, "input")
  /\ halt' = IF Ends(NextFrom(list)) THEN halt ELSE "hung"
  /\ UNCHANGED list
  /\ DockDone

dock_beside ==
  /\ OnDock
  /\ halt' = IF Ends(NextFrom(list)) THEN halt ELSE "hung"
  /\ UNCHANGED <<list, queue>>
  /\ DockDone

\* M_KEY_DOWN and M_KEY_UP.
key ==
  /\ Running
  /\ ToTail(list, "input")
  /\ UNCHANGED <<wins, popup, mouse, procs, headClosed>>

-----------------------------------------------------------------------------
Halted == ~Running /\ UNCHANGED vars

ClientStep(p) ==
  \/ getMessage(p) \/ createWindow(p) \/ closeWindow(p) \/ minimizeWindow(p) \/ maximizeWindow(p)

MenuStep(p) == getPopupMessage(p) \/ createPopupWindow(p) \/ closePopupWindow(p)

Event ==
  \/ mouse_move \/ down_popup \/ mouse_up \/ click_popup \/ click_content \/ key
  \/ dock_showDesktop \/ dock_start \/ dock_beside
  \/ \E w \in Ids : dock_window(w)
  \/ \E top \in Ids \cup {Nil}, bar \in {"none", "close", "min", "drag"}, content \in BOOLEAN :
       down(top, bar, content)

Next ==
  \/ \E p \in Clients : ClientStep(p)
  \/ \E p \in Menus : MenuStep(p)
  \/ \E p \in Procs : die(p) \/ reap(p)
  \/ turnoffScreen \/ updateScreen \/ Event \/ Halted

Spec == Init /\ [][Next]_vars

\* Every program calls updateWindow() in a loop.
Fairness == \A p \in Clients : WF_vars(getMessage(p)) /\ WF_vars(closeWindow(p))
                              /\ WF_vars(minimizeWindow(p)) /\ WF_vars(maximizeWindow(p))
FairSpec == Spec /\ Fairness

-----------------------------------------------------------------------------
(* Properties *)

\* The stacking order of a list, bottom first, as the drawing loop sees it.
Stacked(l) == LET walk == NextFrom(l)
                  n == Cardinality({k \in DOMAIN walk : walk[k] # Nil})
              IN  [i \in 1..n |-> walk[i - 1]]
ZOrder == Stacked(list)

\* The windows that are in use.
InUse == {w \in Ids : ~IsFree(list, w)}

\* Unless the window at the head was ever closed, the two link fields of the
\* list describe the same order and hold exactly the windows in use: what
\* is drawn last is what is hit first, and every loop over them ends.
ListWellFormed ==
  ~headClosed =>
    /\ Ends(NextFrom(list)) /\ Ends(PrevFrom(list))
    /\ Visited(NextFrom(list)) = InUse
    /\ LET n == Len(ZOrder) IN \A i \in 1..n : PrevFrom(list)[n - i] = ZOrder[i]

(* The inductive invariant behind it *)

Lists == [next : [Ids -> Ids \cup {Nil}], prev : [Ids -> Ids \cup {Nil}],
          head : Ids \cup {Nil}, tail : Ids \cup {Nil}]

WindowShape ==
  /\ list \in Lists
  /\ desktopId \in Ids \cup {Nil}
  /\ queue \in [Ids -> Seq({"input", "close", "min", "max"})]
  /\ popup.queue \in Seq({"input", "close"})
  /\ status \in [Procs -> {"free", "open", "nowin", "zombie"}]
  /\ handler \in [Clients -> Ids \cup {Nil}]
  /\ todo \in [Procs -> {"loop", "close", "min", "max"}]
  /\ headClosed \in BOOLEAN

\* Bottom first, the list links the windows s[1], ..., s[n].
Order(l, n, s) ==
  /\ \A i, j \in 1..n : s[i] = s[j] => i = j
  /\ l.head = IF n = 0 THEN Nil ELSE s[1]
  /\ l.tail = IF n = 0 THEN Nil ELSE s[n]
  /\ \A i \in 1..n : /\ l.next[s[i]] = IF i = n THEN Nil ELSE s[i+1]
                     /\ l.prev[s[i]] = IF i = 1 THEN Nil ELSE s[i-1]

\* They are the windows in use.
Ordered(l) ==
  \E n \in 0..MaxWindows : \E s \in [1..n -> Ids] :
    /\ Order(l, n, s)
    /\ \A w \in Ids : IsFree(l, w) \/ \E i \in 1..n : s[i] = w

\* A program that has a window open knows one that is in use, and is the
\* only one that takes messages from it.
HandlersHold ==
  \A p \in Clients : status[p] = "open" =>
    /\ ~IsFree(list, handler[p])
    /\ \A q \in Clients \ {p} : status[q] = "open" => handler[q] # handler[p]

WindowInv ==
  /\ WindowShape
  /\ \A p \in Procs : todo[p] # "loop" => status[p] = "open"
  /\ \A p \in Clients : status[p] = "open" => handler[p] # Nil
  /\ ~headClosed => /\ Ordered(list)
                    /\ HandlersHold
                    /\ desktopId # Nil => list.head # Nil

\* x is y, or a window that is drawn before it.
Below(s, x, y) == \E i, j \in DOMAIN s : i <= j /\ s[i] = x /\ s[j] = y

\* But for w, the two orders hold the same windows in the same order.
SameBut(s, t, w) == \A x, y \in Ids \ {w} : Below(s, x, y) <=> Below(t, x, y)

\* The stacking order changes in one place at most: one window is raised to
\* the top, taken out or put on top, and the others stay in their order.
OneMoves ==
  \E s \in {ZOrder}, t \in {ZOrder'} :
    \/ t = s
    \/ \E w \in Ids : /\ w \in Visited(NextFrom(list')) => list'.tail = w
                      /\ SameBut(t, s, w)

\* No step of a program, a menu or the mouse moves more than one window,
\* until the window at the head is closed.
StackingSteps == [][headClosed' \/ OneMoves]_vars

\* The assertion of switchuvm(): a process it switches to has a kernel stack.
OwnersHaveStacks == halt # "no kstack"

\* A program whose window was told to close does exit.
CloseHeeded ==
  \A p \in Clients :
    (status[p] = "open" /\ \E i \in 1..Len(queue[handler[p]]) : queue[handler[p]][i] = "close")
      ~> (status[p] # "open" \/ ~Running)
=============================================================================
