----------------------------- MODULE UserProofs -----------------------------
(***************************************************************************)
(* Proofs about the programs: the desktop, for any icons on any screen;    *)
(* the input field, for any text and width; the user library's allocator,  *)
(* for any heap and any sizes of blocks; the editor, for any text, any     *)
(* letters, any page and any buffer; and the explorer's renames, for any   *)
(* names and files of any length.                                          *)
(***************************************************************************)
EXTENDS Desktop, InputField, Umalloc, Editor, Explorer, TLAPS, WellFoundedInduction, FiniteSetTheorems, SequenceTheorems

-----------------------------------------------------------------------------
(* The least number *)

LEMMA LeastOf ==
  ASSUME NEW S, S \subseteq Nat, S # {}
  PROVE  \E n \in S : \A m \in S : n <= m
<1>1. PICK n \in S : \A m \in S : ~(<<m, n>> \in OpToRel(<, Nat))
  BY NatLessThanWellFounded, WFMin
<1>2. ASSUME NEW m \in S, m < n PROVE FALSE
  <2>1. <<m, n>> \in Nat \X Nat /\ <<m, n>>[1] < <<m, n>>[2]
    BY <1>2
  <2>2. <<m, n>> \in OpToRel(<, Nat)
    BY <2>1 DEF OpToRel
  <2> QED BY <1>1, <2>2
<1>3. \A m \in S : n <= m
  BY <1>2
<1> QED BY <1>3

\* The least of the numbers up to n that have it is 0, or follows one that has not.
LEMMA FirstFailure ==
  ASSUME NEW n \in Nat, NEW S, S \subseteq 0 .. n, S # {}, 0 \notin S
  PROVE  \E i \in S : i \in 1 .. n /\ i - 1 \in 0 .. n /\ i - 1 \notin S
<1>1. S \subseteq Nat
  OBVIOUS
<1>2. PICK i \in S : \A j \in S : i <= j
  BY <1>1, LeastOf
<1>3. i \in 1 .. n /\ i - 1 \in 0 .. n
  <2>1. i \in 0 .. n /\ i # 0
    OBVIOUS
  <2> QED BY <2>1
<1>4. ~ i <= i - 1
  BY <1>3
<1> QED BY <1>2, <1>3, <1>4

-----------------------------------------------------------------------------
(* The desktop: icons that are dragged as one *)

\* A set of numbers up to a bound has a greatest element, and a least one.
LEMMA MaxOf ==
  ASSUME NEW n \in Nat, NEW S, S \subseteq 0 .. n, S # {}
  PROVE  Max(S) \in S /\ \A x \in S : Max(S) >= x
<1> DEFINE T == {n - x : x \in S}
<1>0. \A x \in S : x \in 0 .. n /\ n - x \in Nat
  BY Zenon, SMT
<1>1. T \subseteq Nat /\ T # {}
  BY <1>0
<1>2. PICK t \in T : \A u \in T : t <= u
  BY <1>1, LeastOf
<1>3. PICK x \in S : t = n - x
  OBVIOUS
<1>4. \A y \in S : n - y \in T
  OBVIOUS
<1> HIDE DEF T
<1>5. \A y \in S : x >= y
  <2> TAKE y \in S
  <2>1. n - x <= n - y
    BY <1>2, <1>3, <1>4
  <2> QED BY <1>0, <2>1
<1> QED BY <1>5 DEF Max

LEMMA MinOf ==
  ASSUME NEW S, S \subseteq Nat, S # {}
  PROVE  Min(S) \in S /\ \A x \in S : Min(S) <= x
BY LeastOf DEF Min

LEMMA Sizes ==
  /\ Cardinality(Apps) \in Nat /\ Apps = 1 .. Cardinality(Apps)
  /\ ScreenWidth - IconSize \in Nat /\ ScreenHeight - DockHeight - AppHeight \in Nat
  /\ FirstAt \in [Apps -> OnScreen]
  /\ 0 \notin Apps
  /\ \A p \in PointerAt : p \in Coordinates
BY DesktopAssumption

LEMMA FoundApp ==
  ASSUME NEW p
  PROVE  findAppAtPosition(p) \in Apps \cup {0}
<1> DEFINE S == {0} \cup {i \in Apps : /\ p[1] >= apps[i].at[1] /\ p[1] < apps[i].at[1] + IconSize
                                       /\ p[2] >= apps[i].at[2] /\ p[2] < apps[i].at[2] + AppHeight}
<1>1. S \in SUBSET (0 .. Cardinality(Apps)) /\ S # {}
  BY Sizes
<1>2. findAppAtPosition(p) = Max(S)
  BY DEF findAppAtPosition
<1>3. S \subseteq Apps \cup {0}
  OBVIOUS
<1> HIDE DEF S
<1> QED BY <1>1, <1>2, <1>3, Sizes, MaxOf

LEMMA CoordinatesAre ==
  /\ \A x, y \in Int : <<x, y>> \in Coordinates
  /\ \A a \in Coordinates : a = <<a[1], a[2]>> /\ a[1] \in Int /\ a[2] \in Int
  /\ OnScreen \subseteq Coordinates
BY Sizes DEF Coordinates, OnScreen

LEMMA InRange ==
  ASSUME NEW hi \in Nat, NEW v \in Int
  PROVE  Into(v, hi) \in 0 .. hi /\ (v \in 0 .. hi => Into(v, hi) = v)
BY DEF Into

LEMMA Clamps ==
  ASSUME NEW a \in Coordinates
  PROVE  /\ Clamp(a) \in OnScreen
         /\ a \in OnScreen => Clamp(a) = a
<1> DEFINE w == ScreenWidth - IconSize
           h == ScreenHeight - DockHeight - AppHeight
<1>1. w \in Nat /\ h \in Nat
  BY Sizes
<1>2. OnScreen = (0 .. w) \X (0 .. h) /\ Clamp(a) = <<Into(a[1], w), Into(a[2], h)>>
  BY DEF OnScreen, Clamp
<1> HIDE DEF w, h
<1>3. a[1] \in Int /\ a[2] \in Int /\ a = <<a[1], a[2]>>
  BY CoordinatesAre
<1>4. Clamp(a) \in OnScreen
  BY <1>1, <1>2, <1>3, InRange
<1>5. ASSUME a \in OnScreen PROVE Clamp(a) = a
  <2>1. a[1] \in 0 .. w /\ a[2] \in 0 .. h
    BY <1>2, <1>5
  <2>2. Into(a[1], w) = a[1] /\ Into(a[2], h) = a[2]
    BY <1>1, <1>3, <2>1, InRange
  <2> QED BY <1>2, <1>3, <2>2
<1> QED BY <1>4, <1>5

LEMMA Arithmetic ==
  ASSUME NEW a \in Coordinates, NEW b \in Coordinates, NEW c \in Coordinates
  PROVE  /\ Plus(a, b) \in Coordinates /\ Minus(a, b) \in Coordinates
         /\ Plus(a, <<0, 0>>) = a /\ Minus(a, a) = <<0, 0>>
         /\ Plus(a, Minus(b, c)) = Plus(b, Minus(a, c))
         /\ Plus(b, Minus(a, b)) = a
<1>1. /\ a[1] \in Int /\ a[2] \in Int /\ b[1] \in Int /\ b[2] \in Int
      /\ c[1] \in Int /\ c[2] \in Int /\ a = <<a[1], a[2]>>
  BY CoordinatesAre
<1>2. Plus(a, b) \in Coordinates /\ Minus(a, b) \in Coordinates
  <2>1. /\ a[1] + b[1] \in Int /\ a[2] + b[2] \in Int
        /\ a[1] - b[1] \in Int /\ a[2] - b[2] \in Int
    BY <1>1
  <2> QED BY <2>1, CoordinatesAre DEF Plus, Minus
<1>3. Plus(a, <<0, 0>>) = a /\ Minus(a, a) = <<0, 0>> /\ Plus(b, Minus(a, b)) = a
  BY <1>1 DEF Plus, Minus
<1>4. Plus(a, Minus(b, c)) = Plus(b, Minus(a, c))
  BY <1>1 DEF Plus, Minus
<1> QED BY <1>2, <1>3, <1>4

AppSet == [at : OnScreen, isSelected : BOOLEAN, dragOffset : Coordinates]

LEMMA AppsWith ==
  ASSUME NEW a \in AppSet, NEW at \in OnScreen, NEW sel \in BOOLEAN, NEW off \in Coordinates
  PROVE  /\ [a EXCEPT !.at = at] \in AppSet
         /\ [a EXCEPT !.isSelected = sel] \in AppSet
         /\ [a EXCEPT !.dragOffset = off] \in AppSet
         /\ [a EXCEPT !.at = at].at = at
         /\ [a EXCEPT !.at = at].isSelected = a.isSelected
         /\ [a EXCEPT !.at = at].dragOffset = a.dragOffset
         /\ [a EXCEPT !.isSelected = sel].at = a.at
         /\ [a EXCEPT !.isSelected = sel].isSelected = sel
         /\ [a EXCEPT !.isSelected = sel].dragOffset = a.dragOffset
         /\ [a EXCEPT !.dragOffset = off].at = a.at
         /\ [a EXCEPT !.dragOffset = off].isSelected = a.isSelected
         /\ [a EXCEPT !.dragOffset = off].dragOffset = off
<1>1. /\ [a EXCEPT !.at = at] \in AppSet
      /\ [a EXCEPT !.isSelected = sel] \in AppSet
      /\ [a EXCEPT !.dragOffset = off] \in AppSet
  BY DEF AppSet
<1>2. /\ [a EXCEPT !.at = at].at = at
      /\ [a EXCEPT !.at = at].isSelected = a.isSelected
      /\ [a EXCEPT !.at = at].dragOffset = a.dragOffset
  BY DEF AppSet
<1>3. /\ [a EXCEPT !.isSelected = sel].at = a.at
      /\ [a EXCEPT !.isSelected = sel].isSelected = sel
      /\ [a EXCEPT !.isSelected = sel].dragOffset = a.dragOffset
  BY DEF AppSet
<1>4. /\ [a EXCEPT !.dragOffset = off].at = a.at
      /\ [a EXCEPT !.dragOffset = off].isSelected = a.isSelected
      /\ [a EXCEPT !.dragOffset = off].dragOffset = off
  BY DEF AppSet
<1> QED BY <1>1, <1>2, <1>3, <1>4

\* Only the selection changes: which icons are selected, nothing else.
Reselected(icons) ==
  /\ icons \in [Apps -> AppSet]
  /\ \A i \in Apps : icons[i].at = apps[i].at /\ icons[i].dragOffset = apps[i].dragOffset

LEMMA Reselects ==
  ASSUME DesktopShape
  PROVE  /\ Reselected(clearAllSelections)
         /\ \A i \in Apps : ~clearAllSelections[i].isSelected
         /\ \A a : Reselected(OnlySelected(a))
         /\ \A a : \A i \in Apps : OnlySelected(a)[i].isSelected <=> i = a
         /\ \A a, b : Reselected(updateSelection(a, b))
<1>1. apps \in [Apps -> AppSet]
  BY DEF DesktopShape, AppSet
<1>2. \A i \in Apps : \A sel \in BOOLEAN :
        /\ [apps[i] EXCEPT !.isSelected = sel] \in AppSet
        /\ [apps[i] EXCEPT !.isSelected = sel].at = apps[i].at
        /\ [apps[i] EXCEPT !.isSelected = sel].isSelected = sel
        /\ [apps[i] EXCEPT !.isSelected = sel].dragOffset = apps[i].dragOffset
  <2> SUFFICES ASSUME NEW i \in Apps, NEW sel \in BOOLEAN
               PROVE  /\ [apps[i] EXCEPT !.isSelected = sel] \in AppSet
                      /\ [apps[i] EXCEPT !.isSelected = sel].at = apps[i].at
                      /\ [apps[i] EXCEPT !.isSelected = sel].isSelected = sel
                      /\ [apps[i] EXCEPT !.isSelected = sel].dragOffset = apps[i].dragOffset
    OBVIOUS
  <2>1. apps[i] \in AppSet
    BY <1>1
  <2> QED BY <2>1 DEF AppSet
<1>3. Reselected(clearAllSelections) /\ \A i \in Apps : ~clearAllSelections[i].isSelected
  BY <1>2 DEF Reselected, clearAllSelections
<1>4. \A a : /\ Reselected(OnlySelected(a))
             /\ \A i \in Apps : OnlySelected(a)[i].isSelected <=> i = a
  <2> TAKE a
  <2>1. \A i \in Apps : (i = a) \in BOOLEAN
    OBVIOUS
  <2> QED BY <1>2, <2>1 DEF Reselected, OnlySelected
<1>5. \A a, b : Reselected(updateSelection(a, b))
  <2> TAKE a, b
  <2>1. \A i \in Apps : isAppInSelectionBox(i, a, b) \in BOOLEAN
    BY DEF isAppInSelectionBox
  <2> QED BY <1>2, <2>1 DEF Reselected, updateSelection
<1> QED BY <1>3, <1>4, <1>5

-----------------------------------------------------------------------------
(* The steps *)

DeskSet == [draggingApp : Apps \cup {0}, isDragging : BOOLEAN, dragStart : Coordinates,
            appOriginal : Coordinates, isSelecting : BOOLEAN, selectionStart : Coordinates,
            selectionCurrent : Coordinates, lastUpdate : Coordinates]

\* The invariant by the state it is about.
LEMMA ShapeIs ==
  DesktopShape <=> /\ apps \in [Apps -> AppSet] /\ desk \in DeskSet
                   /\ pointer \in [at : Coordinates, pressed : BOOLEAN, moved : BOOLEAN]
                   /\ grabbed \in [Apps -> Coordinates]
BY DEF DesktopShape, AppSet, DeskSet

LEMMA PointerStays ==
  ASSUME DesktopShape, NEW p \in Coordinates, NEW q \in BOOLEAN, NEW m \in BOOLEAN
  PROVE  /\ [pointer EXCEPT !.pressed = q] \in [at : Coordinates, pressed : BOOLEAN, moved : BOOLEAN]
         /\ [pointer EXCEPT !.pressed = q, !.moved = m] \in [at : Coordinates, pressed : BOOLEAN, moved : BOOLEAN]
         /\ [pointer EXCEPT !.at = p] \in [at : Coordinates, pressed : BOOLEAN, moved : BOOLEAN]
         /\ [pointer EXCEPT !.at = p, !.moved = m] \in [at : Coordinates, pressed : BOOLEAN, moved : BOOLEAN]
         /\ pointer.at \in Coordinates
<1> DEFINE P == [at : Coordinates, pressed : BOOLEAN, moved : BOOLEAN]
<1>1. pointer \in P
  BY DEF DesktopShape
<1>2. \A r \in P : \A u \in Coordinates : \A v, w \in BOOLEAN :
        [r EXCEPT !.pressed = v] \in P /\ [r EXCEPT !.moved = w] \in P /\ [r EXCEPT !.at = u] \in P
  OBVIOUS
<1>3. [[pointer EXCEPT !.pressed = q] EXCEPT !.moved = m] \in P
  BY <1>1, <1>2
<1>4. [[pointer EXCEPT !.at = p] EXCEPT !.moved = m] \in P
  BY <1>1, <1>2
<1>5. pointer.at \in Coordinates
  BY <1>1
<1> QED BY <1>1, <1>2, <1>3, <1>4, <1>5

\* The icons are where a drag of the leader has taken them.
TogetherAs(icons, gr, leader) ==
  icons[leader].isSelected =>
    \A i \in Apps : icons[i].isSelected =>
      icons[i].at = Clamp(Plus(gr[i], Minus(icons[leader].at, gr[leader])))

OffsetsAs(icons, gr, leader) ==
  /\ icons[leader].dragOffset = <<0, 0>>
  /\ icons[leader].isSelected =>
       \A i \in Apps : icons[i].isSelected => icons[i].dragOffset = Minus(gr[i], gr[leader])

LEMMA InvIs ==
  DesktopInv <=> /\ DesktopShape /\ OneGesture
                 /\ desk.draggingApp # 0 => OffsetsAs(apps, grabbed, desk.draggingApp)
                 /\ desk.isDragging => TogetherAs(apps, grabbed, desk.draggingApp)
BY DEF DesktopInv, OffsetsHold, DragKeepsGroup, OffsetsAs, TogetherAs

\* An icon alone, or none, is where it is taken.
LEMMA AloneTogether ==
  ASSUME DesktopShape, NEW icons, Reselected(icons), NEW leader \in Apps, NEW a,
         \A i \in Apps : icons[i].isSelected <=> i = a,
         apps[leader].dragOffset = <<0, 0>>
  PROVE  OffsetsAs(icons, grabbed, leader) /\ TogetherAs(icons, grabbed, leader)
<1>1. grabbed \in [Apps -> Coordinates] /\ apps[leader] \in AppSet
  BY DEF DesktopShape, AppSet
<1>2. apps[leader].at \in OnScreen /\ apps[leader].at \in Coordinates /\ grabbed[leader] \in Coordinates
  BY <1>1, CoordinatesAre DEF AppSet
<1>3. /\ Minus(grabbed[leader], grabbed[leader]) = <<0, 0>>
      /\ Plus(grabbed[leader], Minus(apps[leader].at, grabbed[leader])) = apps[leader].at
  BY <1>2, Arithmetic
<1>4. Clamp(apps[leader].at) = apps[leader].at
  BY <1>2, Clamps
<1>5. icons[leader].at = apps[leader].at /\ icons[leader].dragOffset = <<0, 0>>
  BY DEF Reselected
<1>6. icons[leader].isSelected => \A i \in Apps : icons[i].isSelected => i = leader
  OBVIOUS
<1>7. OffsetsAs(icons, grabbed, leader)
  BY <1>3, <1>5, <1>6 DEF OffsetsAs
<1>8. TogetherAs(icons, grabbed, leader)
  BY <1>3, <1>4, <1>5, <1>6 DEF TogetherAs
<1> QED BY <1>7, <1>8

\* updateMultiDragPositions(): every icon by its offset, the leader by none.
LEMMA MovesTogether ==
  ASSUME DesktopShape, NEW leader \in Apps, OffsetsAs(apps, grabbed, leader),
         NEW to \in OnScreen
  PROVE  LET icons == updateMultiDragPositions(to)
         IN  /\ icons \in [Apps -> AppSet]
             /\ OffsetsAs(icons, grabbed, leader) /\ TogetherAs(icons, grabbed, leader)
<1> DEFINE icons == updateMultiDragPositions(to)
           moved(i) == Clamp(Plus(to, apps[i].dragOffset))
<1>1. \A i \in Apps : /\ apps[i] \in AppSet /\ apps[i].dragOffset \in Coordinates
                      /\ grabbed[i] \in Coordinates /\ apps[i].at \in OnScreen
  BY DEF DesktopShape, AppSet
<1>2. to \in Coordinates
  BY CoordinatesAre
<1>3. \A i \in Apps : moved(i) \in OnScreen
  BY <1>1, <1>2, Arithmetic, Clamps
<1>4. \A i \in Apps : icons[i] = IF apps[i].isSelected THEN [apps[i] EXCEPT !.at = moved(i)]
                              ELSE apps[i]
  BY DEF updateMultiDragPositions
<1>5. DOMAIN icons = Apps /\ icons = [i \in Apps |-> icons[i]]
  BY DEF updateMultiDragPositions
<1> HIDE DEF icons, moved
<1>6. \A i \in Apps :
        /\ icons[i] \in AppSet /\ icons[i].isSelected = apps[i].isSelected
        /\ icons[i].dragOffset = apps[i].dragOffset
        /\ apps[i].isSelected => icons[i].at = moved(i)
  <2> TAKE i \in Apps
  <2>1. apps[i] \in AppSet /\ moved(i) \in OnScreen
    BY <1>1, <1>3
  <2>2. /\ [apps[i] EXCEPT !.at = moved(i)] \in AppSet
        /\ [apps[i] EXCEPT !.at = moved(i)].at = moved(i)
        /\ [apps[i] EXCEPT !.at = moved(i)].isSelected = apps[i].isSelected
        /\ [apps[i] EXCEPT !.at = moved(i)].dragOffset = apps[i].dragOffset
    BY <2>1 DEF AppSet
  <2> QED BY <1>4, <2>1, <2>2
<1>7. icons \in [Apps -> AppSet]
  BY <1>5, <1>6
<1>8. OffsetsAs(icons, grabbed, leader)
  BY <1>6 DEF OffsetsAs
<1>9. TogetherAs(icons, grabbed, leader)
  <2> SUFFICES ASSUME icons[leader].isSelected, NEW i \in Apps, icons[i].isSelected
               PROVE  icons[i].at = Clamp(Plus(grabbed[i], Minus(icons[leader].at, grabbed[leader])))
    BY DEF TogetherAs
  <2>1. apps[leader].isSelected /\ apps[i].isSelected
    BY <1>6
  <2>2. icons[leader].at = to
    <3>1. Plus(to, <<0, 0>>) = to
      BY <1>2, Arithmetic
    <3>2. Clamp(to) = to
      BY <1>2, Clamps
    <3> QED BY <1>6, <2>1, <3>1, <3>2 DEF moved, OffsetsAs
  <2>3. icons[i].at = Clamp(Plus(to, Minus(grabbed[i], grabbed[leader])))
    BY <1>6, <2>1 DEF moved, OffsetsAs
  <2>4. Plus(to, Minus(grabbed[i], grabbed[leader])) = Plus(grabbed[i], Minus(to, grabbed[leader]))
    <3>1. \A b, c \in Coordinates : Plus(to, Minus(b, c)) = Plus(b, Minus(to, c))
      BY <1>2, Arithmetic
    <3> QED BY <1>1, <3>1
  <2> QED BY <2>2, <2>3, <2>4
<1> QED BY <1>7, <1>8, <1>9 DEF icons

\* setupMultiDragOffsets() of the icons at the press.
LEMMA SetsOffsets ==
  ASSUME DesktopShape, NEW icons, Reselected(icons), NEW leader \in Apps
  PROVE  LET s == setupMultiDragOffsets(icons, leader)
             gr == [j \in Apps |-> apps[j].at]
         IN  /\ s \in [Apps -> AppSet] /\ gr \in [Apps -> Coordinates]
             /\ icons[leader].isSelected => OffsetsAs(s, gr, leader)
<1> DEFINE s == setupMultiDragOffsets(icons, leader)
           gr == [j \in Apps |-> apps[j].at]
           off(i) == Minus(icons[i].at, icons[leader].at)
<1>1. \A i \in Apps : icons[i] \in AppSet /\ icons[i].at \in Coordinates /\ icons[i].at = apps[i].at
  BY CoordinatesAre DEF Reselected, AppSet
<1>2. \A i \in Apps : off(i) \in Coordinates /\ off(leader) = <<0, 0>>
  BY <1>1, Arithmetic
<1>3. \A i \in Apps : s[i] = IF icons[i].isSelected THEN [icons[i] EXCEPT !.dragOffset = off(i)]
                             ELSE icons[i]
  BY DEF setupMultiDragOffsets
<1>4. s = [i \in Apps |-> s[i]]
  BY DEF setupMultiDragOffsets
<1>5. \A i \in Apps : gr[i] = icons[i].at
  BY <1>1
<1>6. gr \in [Apps -> Coordinates]
  BY <1>1
<1> HIDE DEF s, gr
<1>7. \A i \in Apps :
        /\ s[i] \in AppSet /\ s[i].isSelected = icons[i].isSelected
        /\ icons[i].isSelected => s[i].dragOffset = off(i)
  <2> TAKE i \in Apps
  <2> HIDE DEF off
  <2>1. icons[i] \in AppSet /\ off(i) \in Coordinates
    BY <1>1, <1>2
  <2>2. /\ [icons[i] EXCEPT !.dragOffset = off(i)] \in AppSet
        /\ [icons[i] EXCEPT !.dragOffset = off(i)].dragOffset = off(i)
        /\ [icons[i] EXCEPT !.dragOffset = off(i)].isSelected = icons[i].isSelected
    BY <2>1 DEF AppSet
  <2> QED BY <1>3, <2>1, <2>2
<1>8. s \in [Apps -> AppSet]
  BY <1>4, <1>7
<1>9. icons[leader].isSelected => OffsetsAs(s, gr, leader)
  BY <1>2, <1>5, <1>7 DEF OffsetsAs
<1> QED BY <1>6, <1>8, <1>9 DEF s, gr

LEMMA DesktopStarts == DesktopInit => DesktopInv
<1> SUFFICES ASSUME DesktopInit PROVE DesktopInv
  OBVIOUS
<1> USE DEF DesktopInit
<1>1. <<0, 0>> \in Coordinates
  BY DEF Coordinates
<1>2. apps \in [Apps -> AppSet]
  <2>1. \A i \in Apps : FirstAt[i] \in OnScreen
    BY Sizes
  <2> QED BY <1>1, <2>1 DEF AppSet
<1>3. desk \in DeskSet
  BY <1>1 DEF DeskSet
<1>4. grabbed \in [Apps -> Coordinates]
  BY Sizes, CoordinatesAre
<1>5. DesktopShape
  BY <1>1, <1>2, <1>3, <1>4, ShapeIs
<1>6. desk.draggingApp = 0 /\ ~desk.isDragging
  OBVIOUS
<1> QED BY <1>5, <1>6, InvIs DEF OneGesture

\* A message that is lost, or a pointer that moves, leaves the icons alone.
LEMMA DesktopStill ==
  ASSUME DesktopInv, UNCHANGED <<apps, desk, grabbed>>,
         pointer' \in [at : Coordinates, pressed : BOOLEAN, moved : BOOLEAN]
  PROVE  DesktopInv'
<1>1. DesktopShape'
  BY DEF DesktopInv, DesktopShape
<1>2. OneGesture' /\ OffsetsHold' /\ DragKeepsGroup'
  BY DEF DesktopInv, OneGesture, OffsetsHold, DragKeepsGroup
<1> QED BY <1>1, <1>2 DEF DesktopInv

LEMMA DeskWith ==
  \A d \in DeskSet : \A c \in Coordinates : \A j \in Apps \cup {0} : \A w \in BOOLEAN :
    /\ [d EXCEPT !.draggingApp = j] \in DeskSet
    /\ [d EXCEPT !.isDragging = w] \in DeskSet
    /\ [d EXCEPT !.isSelecting = w] \in DeskSet
    /\ [d EXCEPT !.dragStart = c] \in DeskSet
    /\ [d EXCEPT !.appOriginal = c] \in DeskSet
    /\ [d EXCEPT !.selectionStart = c] \in DeskSet
    /\ [d EXCEPT !.selectionCurrent = c] \in DeskSet
    /\ [d EXCEPT !.lastUpdate = c] \in DeskSet
BY DEF DeskSet

\* A gesture that is over, and icons that are where they were.
LEMMA EndsGesture ==
  ASSUME DesktopInv, apps' \in [Apps -> AppSet], desk' \in DeskSet,
         desk'.draggingApp = 0, ~desk'.isDragging,
         pointer' \in [at : Coordinates, pressed : BOOLEAN, moved : BOOLEAN],
         grabbed' = grabbed
  PROVE  DesktopInv'
<1>1. DesktopShape'
  BY DEF DesktopInv, DesktopShape, AppSet, DeskSet
<1>2. OneGesture' /\ OffsetsHold' /\ DragKeepsGroup'
  BY DEF OneGesture, OffsetsHold, DragKeepsGroup
<1> QED BY <1>1, <1>2 DEF DesktopInv

\* A gesture that goes on, with its icons together.
LEMMA GestureGoesOn ==
  ASSUME DesktopInv, apps' \in [Apps -> AppSet], desk' \in DeskSet,
         desk'.draggingApp # 0 => ~desk'.isSelecting,
         desk'.isDragging => desk'.draggingApp # 0,
         desk'.draggingApp # 0 => OffsetsAs(apps', grabbed', desk'.draggingApp),
         desk'.isDragging => TogetherAs(apps', grabbed', desk'.draggingApp),
         pointer' \in [at : Coordinates, pressed : BOOLEAN, moved : BOOLEAN],
         grabbed' \in [Apps -> Coordinates]
  PROVE  DesktopInv'
<1>1. DesktopShape'
  BY DEF DesktopShape, AppSet, DeskSet
<1>2. OneGesture'
  BY DEF OneGesture
<1>3. OffsetsHold'
  BY DEF OffsetsHold, OffsetsAs
<1>4. DragKeepsGroup'
  BY DEF DragKeepsGroup, TogetherAs
<1> QED BY <1>1, <1>2, <1>3, <1>4 DEF DesktopInv

LEMMA MouseDownStep ==
  ASSUME DesktopInv, mouse_down
  PROVE  DesktopInv'
<1> USE DEF mouse_down
<1> DEFINE i == findAppAtPosition(pointer.at)
           chosen == IF apps[i].isSelected THEN apps ELSE OnlySelected(i)
<1>1. DesktopShape /\ i \in Apps \cup {0}
  BY FoundApp DEF DesktopInv
<1>2. /\ apps \in [Apps -> AppSet] /\ desk \in DeskSet
      /\ pointer.at \in Coordinates
      /\ pointer' \in [at : Coordinates, pressed : BOOLEAN, moved : BOOLEAN]
  BY <1>1, ShapeIs, PointerStays DEF Pressed
<1>3. CASE i = 0
  <2>1. apps' = clearAllSelections /\ grabbed' = grabbed
    BY <1>3
  <2>2. apps' \in [Apps -> AppSet]
    BY <1>1, <2>1, Reselects DEF Reselected
  <2>3. desk' = [desk EXCEPT !.draggingApp = 0, !.isDragging = FALSE, !.isSelecting = TRUE,
                             !.selectionStart = pointer.at, !.selectionCurrent = pointer.at,
                             !.lastUpdate = pointer.at]
    BY <1>3
  <2>4. desk' \in DeskSet /\ desk'.draggingApp = 0 /\ ~desk'.isDragging
    <3>1. desk' \in DeskSet
      <4>1. [[[[[[desk EXCEPT !.draggingApp = 0] EXCEPT !.isDragging = FALSE]
                EXCEPT !.isSelecting = TRUE] EXCEPT !.selectionStart = pointer.at]
                EXCEPT !.selectionCurrent = pointer.at] EXCEPT !.lastUpdate = pointer.at]
              \in DeskSet
        BY <1>2, DeskWith
      <4> QED BY <4>1, <2>3
    <3> QED BY <3>1, <2>3, <1>2 DEF DeskSet
  <2> QED BY <1>2, <2>1, <2>2, <2>4, EndsGesture
<1>4. CASE i # 0
  <2>1. /\ apps' = setupMultiDragOffsets(chosen, i)
        /\ grabbed' = [j \in Apps |-> apps[j].at]
        /\ desk' = [desk EXCEPT !.draggingApp = i, !.isDragging = FALSE,
                                !.dragStart = pointer.at, !.appOriginal = apps[i].at,
                                !.isSelecting = FALSE]
    BY <1>4
  <2>2. i \in Apps /\ apps[i].at \in Coordinates
    BY <1>1, <1>2, <1>4, CoordinatesAre DEF AppSet
  <2>3. Reselected(chosen) /\ chosen[i].isSelected
    <3>1. Reselected(apps)
      BY <1>2 DEF Reselected
    <3>2. Reselected(OnlySelected(i)) /\ OnlySelected(i)[i].isSelected
      <4> HIDE DEF i
      <4> QED BY <1>1, <2>2, Reselects
    <3> QED BY <3>1, <3>2
  <2> HIDE DEF i, chosen, mouse_down
  <2>4. /\ apps' \in [Apps -> AppSet] /\ grabbed' \in [Apps -> Coordinates]
        /\ OffsetsAs(apps', grabbed', i)
    BY <1>1, <2>1, <2>2, <2>3, SetsOffsets
  <2>5. /\ desk' \in DeskSet /\ desk'.draggingApp = i
        /\ ~desk'.isDragging /\ ~desk'.isSelecting
    <3>1. [[[[[desk EXCEPT !.draggingApp = i] EXCEPT !.isDragging = FALSE]
              EXCEPT !.dragStart = pointer.at] EXCEPT !.appOriginal = apps[i].at]
              EXCEPT !.isSelecting = FALSE] \in DeskSet
      BY <1>2, <2>2, DeskWith
    <3>2. desk' \in DeskSet
      BY <2>1, <3>1
    <3> QED BY <1>2, <2>1, <3>2 DEF DeskSet
  <2> QED BY <1>2, <2>4, <2>5, GestureGoesOn
<1> QED BY <1>3, <1>4

LEMMA MouseMoveStep ==
  ASSUME DesktopInv, NEW p \in PointerAt, mouse_move(p)
  PROVE  DesktopInv'
<1> USE DEF mouse_move
<1> DEFINE delta == Minus(p, desk.dragStart)
           drags == desk.isDragging \/ Far(delta)
           leader == desk.draggingApp
           to == Clamp(Plus(desk.appOriginal, delta))
<1>1. DesktopShape /\ p \in Coordinates
  BY Sizes DEF DesktopInv
<1>2. /\ apps \in [Apps -> AppSet] /\ desk \in DeskSet /\ grabbed \in [Apps -> Coordinates]
      /\ pointer' \in [at : Coordinates, pressed : BOOLEAN, moved : BOOLEAN]
  BY <1>1, ShapeIs, PointerStays
<1>3. /\ leader # 0 => OffsetsAs(apps, grabbed, leader) /\ ~desk.isSelecting
      /\ desk.isDragging => leader # 0 /\ TogetherAs(apps, grabbed, leader)
  BY InvIs DEF OneGesture
<1>4. grabbed' = grabbed
  OBVIOUS
<1>5. CASE /\ leader # 0 /\ ~desk.isSelecting
           /\ desk' = [desk EXCEPT !.isDragging = drags]
           /\ apps' = IF drags THEN updateMultiDragPositions(to) ELSE apps
  <2>1. drags \in BOOLEAN
    BY <1>2 DEF DeskSet, Far
  <2>2. leader \in Apps
    BY <1>2, <1>5 DEF DeskSet
  <2>3. to \in OnScreen
    <3>1. desk.dragStart \in Coordinates /\ desk.appOriginal \in Coordinates
      BY <1>2 DEF DeskSet
    <3>2. delta \in Coordinates
      BY <1>1, <3>1, Arithmetic
    <3> HIDE DEF delta
    <3>3. Plus(desk.appOriginal, delta) \in Coordinates
      BY <3>1, <3>2, Arithmetic
    <3> QED BY <3>3, Clamps
  <2> HIDE DEF drags, leader, to, mouse_move
  <2>4. /\ desk' \in DeskSet /\ desk'.draggingApp = desk.draggingApp
        /\ desk'.isDragging = drags /\ desk'.isSelecting = desk.isSelecting
    <3>1. desk' = [desk EXCEPT !.isDragging = drags]
      BY <1>5
    <3> QED BY <3>1, <1>2, <2>1 DEF DeskSet
  <2>5. /\ apps' \in [Apps -> AppSet] /\ OffsetsAs(apps', grabbed, leader)
        /\ drags => TogetherAs(apps', grabbed, leader)
    <3>1. CASE drags
      BY <3>1, <1>1, <1>3, <1>5, <2>2, <2>3, MovesTogether
    <3>2. CASE ~drags
      BY <3>2, <1>2, <1>3, <1>5
    <3> QED BY <3>1, <3>2
  <2>6. desk'.draggingApp = leader /\ leader # 0 /\ ~desk'.isSelecting
    BY <1>5, <2>4 DEF leader
  <2> QED BY <1>2, <1>4, <2>4, <2>5, <2>6, GestureGoesOn
<1>6. CASE /\ desk.isSelecting
           /\ desk' = [desk EXCEPT !.selectionCurrent = p,
                                   !.lastUpdate = IF Apart(p, @) THEN p ELSE @]
           /\ apps' = IF Apart(p, desk.lastUpdate) THEN updateSelection(desk.selectionStart, p)
                      ELSE apps
  <2>1. leader = 0 /\ ~desk.isDragging
    BY <1>3, <1>6
  <2>2. apps' \in [Apps -> AppSet]
    BY <1>1, <1>2, <1>6, Reselects DEF Reselected
  <2>3. desk' \in DeskSet /\ desk'.draggingApp = 0 /\ ~desk'.isDragging
    <3> DEFINE b == IF Apart(p, desk.lastUpdate) THEN p ELSE desk.lastUpdate
    <3>1. b \in Coordinates
      BY <1>1, <1>2 DEF DeskSet
    <3>2. desk' = [desk EXCEPT !.selectionCurrent = p, !.lastUpdate = b]
      BY <1>6
    <3> HIDE DEF b
    <3>3. [[desk EXCEPT !.selectionCurrent = p] EXCEPT !.lastUpdate = b] \in DeskSet
      BY <1>1, <1>2, <3>1, DeskWith
    <3>4. desk' \in DeskSet
      BY <3>2, <3>3
    <3> QED BY <1>2, <2>1, <3>2, <3>4 DEF DeskSet
  <2> QED BY <1>2, <1>4, <2>2, <2>3, EndsGesture
<1>7. CASE /\ leader = 0 /\ ~desk.isSelecting
           /\ UNCHANGED <<apps, desk>>
  BY <1>2, <1>4, <1>7, DesktopStill
<1> QED BY <1>5, <1>6, <1>7

LEMMA ClickStep ==
  ASSUME DesktopInv, left_click
  PROVE  DesktopInv'
<1> USE DEF left_click
<1> DEFINE i == findAppAtPosition(pointer.at)
           leader == desk.draggingApp
<1>1. DesktopShape
  BY DEF DesktopInv
<1>2. /\ apps \in [Apps -> AppSet] /\ desk \in DeskSet /\ grabbed \in [Apps -> Coordinates]
      /\ pointer' \in [at : Coordinates, pressed : BOOLEAN, moved : BOOLEAN]
  BY <1>1, ShapeIs, PointerStays DEF Released
<1>3. /\ leader # 0 => apps[leader].dragOffset = <<0, 0>> /\ ~desk.isSelecting
      /\ desk.isDragging => leader # 0
  BY InvIs DEF OneGesture, OffsetsAs
<1>4. desk' = desk /\ grabbed' = grabbed
  OBVIOUS
<1>5. Reselected(apps') /\ \A j \in Apps : apps'[j].isSelected <=> j = i
  <2>1. CASE i = 0
    <3>1. apps' = clearAllSelections /\ \A j \in Apps : j # 0
      BY <2>1, Sizes
    <3> QED BY <1>1, <2>1, <3>1, Reselects
  <2>2. CASE i # 0
    <3>1. apps' = OnlySelected(i)
      BY <2>2
    <3> HIDE DEF i
    <3> QED BY <1>1, <3>1, Reselects
  <2> QED BY <2>1, <2>2
<1> HIDE DEF i
<1>6. leader # 0 => OffsetsAs(apps', grabbed, leader) /\ TogetherAs(apps', grabbed, leader)
  <2> SUFFICES ASSUME leader # 0
               PROVE  OffsetsAs(apps', grabbed, leader) /\ TogetherAs(apps', grabbed, leader)
    OBVIOUS
  <2>1. leader \in Apps
    BY <1>2 DEF DeskSet
  <2> HIDE DEF leader
  <2> QED BY <1>1, <1>3, <1>5, <2>1, AloneTogether
<1>7. apps' \in [Apps -> AppSet]
  BY <1>5 DEF Reselected
<1> QED BY <1>2, <1>3, <1>4, <1>6, <1>7, GestureGoesOn

\* mouse_up and double_click.
LEMMA EndStep ==
  ASSUME DesktopInv, mouse_up \/ double_click
  PROVE  DesktopInv'
<1>1. DesktopShape
  BY DEF DesktopInv
<1>2. /\ apps \in [Apps -> AppSet] /\ desk \in DeskSet /\ grabbed' = grabbed
      /\ pointer' \in [at : Coordinates, pressed : BOOLEAN, moved : BOOLEAN]
  BY <1>1, ShapeIs, PointerStays DEF Released, mouse_up, double_click
<1>3. apps' \in [Apps -> AppSet]
  BY <1>1, <1>2, Reselects DEF Reselected, mouse_up, double_click
<1>4. desk' = [desk EXCEPT !.draggingApp = 0, !.isDragging = FALSE, !.isSelecting = FALSE]
  BY DEF mouse_up, double_click
<1>5. desk' \in DeskSet /\ desk'.draggingApp = 0 /\ ~desk'.isDragging
  <2>2. [[[desk EXCEPT !.draggingApp = 0] EXCEPT !.isDragging = FALSE] EXCEPT !.isSelecting = FALSE] \in DeskSet
    BY <1>2, CoordinatesAre, DeskWith
  <2>3. desk' \in DeskSet
    BY <1>4, <2>2
  <2> QED BY <1>2, <1>4, <2>3 DEF DeskSet
<1> QED BY <1>2, <1>3, <1>5, EndsGesture

LEMMA DesktopStep == DesktopInv /\ [DesktopNext]_desktopVars => DesktopInv'
<1> SUFFICES ASSUME DesktopInv, [DesktopNext]_desktopVars PROVE DesktopInv'
  OBVIOUS
<1>1. DesktopShape /\ pointer \in [at : Coordinates, pressed : BOOLEAN, moved : BOOLEAN]
  BY ShapeIs DEF DesktopInv
<1>2. CASE mouse_down
  BY <1>2, MouseDownStep
<1>3. CASE mouse_up \/ double_click
  BY <1>3, EndStep
<1>4. CASE left_click
  BY <1>4, ClickStep
<1>5. ASSUME NEW p \in PointerAt, mouse_move(p) PROVE DesktopInv'
  BY <1>5, MouseMoveStep
<1>6. ASSUME NEW p \in PointerAt, move_unpressed(p) \/ lose_move(p) PROVE DesktopInv'
  <2>1. p \in Coordinates
    BY Sizes
  <2>2. pointer' \in [at : Coordinates, pressed : BOOLEAN, moved : BOOLEAN]
    BY <1>1, <1>6, <2>1, PointerStays DEF move_unpressed, lose_move
  <2> QED BY <1>6, <2>2, DesktopStill DEF move_unpressed, lose_move, Dropped
<1>7. CASE lose_down \/ lose_release
  <2>1. pointer' \in [at : Coordinates, pressed : BOOLEAN, moved : BOOLEAN]
    BY <1>1, <1>7, PointerStays DEF lose_down, lose_release, Pressed, Released
  <2> QED BY <1>7, <2>1, DesktopStill DEF lose_down, lose_release, Dropped
<1>8. CASE UNCHANGED desktopVars
  BY <1>1, <1>8, DesktopStill DEF desktopVars
<1> QED BY <1>2, <1>3, <1>4, <1>5, <1>6, <1>7, <1>8 DEF DesktopNext

\* desktop.c moves the selected icons by the offsets of the last press, and
\* never by those of an earlier one, whatever messages are lost.
THEOREM DesktopInvariant == DesktopSpec => []DesktopInv
<1> QED BY DesktopStarts, DesktopStep, PTL DEF DesktopSpec

\* A drag moves the selected icons as one, the edge of the screen included.
THEOREM DragMovesGroup == DesktopSpec => []DragKeepsGroup
<1>1. DesktopInv => DragKeepsGroup
  BY DEF DesktopInv
<1> QED BY <1>1, DesktopInvariant, PTL

-----------------------------------------------------------------------------
(* The input field: the places of its characters *)

\* at holds the places of the first n characters of a text, and the next one.
LaidOut(at, str, n) ==
  /\ at \in [0 .. n -> Nat \X Nat]
  /\ at[0] = <<0, 0>>
  /\ \A i \in 1 .. n : at[i] = WrapAt(at[i - 1], str[i])

LEMMA WrapIs ==
  ASSUME NEW a \in Nat \X Nat, NEW c
  PROVE  /\ WrapAt(a, c) \in Nat \X Nat
         /\ \/ WrapAt(a, c)[2] = a[2] /\ WrapAt(a, c)[1] = a[1] + 1
            \/ WrapAt(a, c)[2] = a[2] + 1
<1>1. a[1] \in Nat /\ a[2] \in Nat
  OBVIOUS
<1>2. WrapAt(a, c) = <<a[1] + 1, a[2]>> \/ WrapAt(a, c) = <<0, a[2] + 1>>
  BY DEF WrapAt
<1> QED BY <1>1, <1>2

LEMMA PlacedExists ==
  ASSUME NEW str, NEW n \in Nat
  PROVE  \E at : LaidOut(at, str, n)
<1> DEFINE S == {m \in 0 .. n : ~ \E at : LaidOut(at, str, m)}
<1> SUFFICES ASSUME S # {} PROVE FALSE
  OBVIOUS
<1>1. LaidOut([i \in 0 .. 0 |-> <<0, 0>>], str, 0)
  BY DEF LaidOut
<1>2. 0 \notin S
  BY <1>1
<1>3. S \subseteq 0 .. n
  OBVIOUS
<1>4. PICK m \in S : m \in 1 .. n /\ m - 1 \in 0 .. n /\ m - 1 \notin S
  <2> HIDE DEF S
  <2> QED BY <1>2, <1>3, FirstFailure
<1>5. PICK at : LaidOut(at, str, m - 1)
  BY <1>4
<1> DEFINE new == [i \in 0 .. m |-> IF i = m THEN WrapAt(at[m - 1], str[m]) ELSE at[i]]
<1>6. /\ m \in Nat \ {0} /\ m - 1 \in 0 .. m - 1 /\ 0 \in 0 .. m - 1
      /\ \A i \in 0 .. m : i # m => i \in 0 .. m - 1
      /\ \A i \in 1 .. m : /\ i \in 0 .. m /\ i - 1 \in 0 .. m - 1 /\ i - 1 # m
                           /\ i # m => i \in 1 .. m - 1
  BY <1>4
<1>7. at[m - 1] \in Nat \X Nat
  BY <1>5, <1>6 DEF LaidOut
<1>8. new \in [0 .. m -> Nat \X Nat]
  <2>1. \A i \in 0 .. m : i # m => at[i] \in Nat \X Nat
    BY <1>5, <1>6 DEF LaidOut
  <2>2. WrapAt(at[m - 1], str[m]) \in Nat \X Nat
    BY <1>7, WrapIs
  <2> QED BY <2>1, <2>2
<1>9. new[0] = <<0, 0>>
  BY <1>5, <1>6 DEF LaidOut
<1>10. \A i \in 1 .. m : new[i] = WrapAt(new[i - 1], str[i])
  <2> TAKE i \in 1 .. m
  <2>1. new[i - 1] = at[i - 1]
    BY <1>6
  <2>2. CASE i = m
    BY <1>6, <2>1, <2>2
  <2>3. CASE i # m
    <3>1. new[i] = at[i] /\ i \in 1 .. m - 1
      BY <1>6, <2>3
    <3> HIDE DEF new
    <3> QED BY <1>5, <2>1, <3>1 DEF LaidOut
  <2> QED BY <2>2, <2>3
<1>11. LaidOut(new, str, m)
  <2> HIDE DEF new
  <2> QED BY <1>8, <1>9, <1>10 DEF LaidOut
<1> QED BY <1>4, <1>11

\* PlacesOf(), the walk of getMouseXFromOffset() and its like, is such a walk.
LEMMA PlacesAre ==
  ASSUME NEW str, Len(str) \in Nat
  PROVE  LaidOut(PlacesOf(str), str, Len(str))
<1> DEFINE n == Len(str)
           Loop(g) == g = [k \in 0 .. n |-> IF k = 0 THEN <<0, 0>> ELSE WrapAt(g[k - 1], str[k])]
           at == PlacesOf(str)
<1>1. PICK f : LaidOut(f, str, n)
  BY PlacedExists
<1>2. Loop(f)
  <2> DEFINE h == [k \in 0 .. n |-> IF k = 0 THEN <<0, 0>> ELSE WrapAt(f[k - 1], str[k])]
  <2>1. ASSUME NEW k \in 0 .. n PROVE h[k] = f[k]
    <3>1. CASE k = 0
      BY <3>1, <1>1 DEF LaidOut
    <3>2. CASE k # 0
      <4>1. k \in 1 .. n
        BY <3>2
      <4> QED BY <1>1, <3>2, <4>1 DEF LaidOut
    <3> QED BY <3>1, <3>2
  <2>2. h = [k \in 0 .. n |-> h[k]] /\ f = [k \in 0 .. n |-> f[k]]
    BY <1>1 DEF LaidOut
  <2> HIDE DEF h
  <2>3. h = f
    BY <2>1, <2>2
  <2> QED BY <2>3 DEF h
<1>3. at = CHOOSE g : Loop(g)
  BY DEF PlacesOf
<1>4. \E g : Loop(g)
  BY <1>2
<1> HIDE DEF Loop, at
<1>5. Loop(at)
  BY <1>3, <1>4
<1> USE DEF Loop
<1>6. at = [k \in 0 .. n |-> at[k]] /\ at[0] = <<0, 0>>
  BY <1>5
<1>7. \A i \in 1 .. n : at[i] = WrapAt(at[i - 1], str[i])
  <2> TAKE i \in 1 .. n
  <2>1. i \in 0 .. n /\ i # 0
    OBVIOUS
  <2> QED BY <1>5, <2>1
<1>8. \A i \in 0 .. n : at[i] \in Nat \X Nat
  <2> DEFINE S == {i \in 0 .. n : at[i] \notin Nat \X Nat}
  <2> SUFFICES ASSUME S # {} PROVE FALSE
    OBVIOUS
  <2>5. <<0, 0>> \in Nat \X Nat
    OBVIOUS
  <2>1. S \subseteq 0 .. n /\ 0 \notin S
    BY <1>6, <2>5
  <2>2. PICK i \in S : i \in 1 .. n /\ i - 1 \in 0 .. n /\ i - 1 \notin S
    <3> HIDE DEF S, n
    <3>1. n \in Nat
      BY DEF n
    <3> QED BY <2>1, <3>1, FirstFailure
  <2>3. at[i - 1] \in Nat \X Nat
    BY <2>2
  <2>4. at[i] \in Nat \X Nat
    BY <1>7, <2>2, <2>3, WrapIs
  <2> QED BY <2>4
<1>9. at \in [0 .. n -> Nat \X Nat]
  BY <1>6, <1>8
<1> HIDE DEF Loop
<1>10. LaidOut(at, str, n)
  BY <1>6, <1>7, <1>9 DEF LaidOut
<1> QED BY <1>10 DEF at

\* a is before b in reading order.
Precedes(a, b) == a[2] < b[2] \/ (a[2] = b[2] /\ a[1] < b[1])

\* No two offsets have the same place.
LEMMA PlacesDiffer ==
  ASSUME NEW str, NEW n \in Nat, NEW at, LaidOut(at, str, n),
         NEW i \in 0 .. n, NEW j \in 0 .. n, at[i] = at[j]
  PROVE  i = j
<1>1. \A p, q \in 0 .. n : p < q => Precedes(at[p], at[q])
  <2> SUFFICES ASSUME NEW p \in 0 .. n,
                      ~ \A q \in 0 .. n : p < q => Precedes(at[p], at[q])
               PROVE  FALSE
    OBVIOUS
  <2> DEFINE S == {q \in 0 .. n : p < q /\ ~ Precedes(at[p], at[q])}
  <2>1. S \subseteq 0 .. n /\ 0 \notin S /\ S # {}
    OBVIOUS
  <2>2. PICK q \in S : q \in 1 .. n /\ q - 1 \in 0 .. n /\ q - 1 \notin S
    <3> HIDE DEF S
    <3> QED BY <2>1, FirstFailure
  <2>3. q - 1 = p \/ Precedes(at[p], at[q - 1])
    BY <2>2
  <2>4. at[p] \in Nat \X Nat /\ at[q - 1] \in Nat \X Nat /\ at[q] = WrapAt(at[q - 1], str[q])
    BY <2>2 DEF LaidOut
  <2>5. \/ at[q][2] = at[q - 1][2] /\ at[q][1] = at[q - 1][1] + 1
        \/ at[q][2] = at[q - 1][2] + 1
    BY <2>4, WrapIs
  <2>6. /\ at[p][1] \in Nat /\ at[p][2] \in Nat
        /\ at[q - 1][1] \in Nat /\ at[q - 1][2] \in Nat
    BY <2>4
  <2>7. Precedes(at[p], at[q])
    BY <2>3, <2>5, <2>6 DEF Precedes
  <2> QED BY <2>2, <2>7
<1>2. at[i][1] \in Nat /\ at[i][2] \in Nat
  BY DEF LaidOut
<1>3. ~ Precedes(at[i], at[i])
  BY <1>2 DEF Precedes
<1>4. ~ i < j /\ ~ j < i
  BY <1>1, <1>3
<1> QED BY <1>4

\* Where a click or an arrow may put the cursor.
LEMMA OffsetInText ==
  ASSUME NEW str, Len(str) \in Nat, NEW x, NEW y \in Int
  PROVE  getInputOffsetFromMousePosition(str, x, y) \in 0 .. Len(str)
<1> DEFINE n == Len(str)
           at == PlacesOf(str)
           row == {p \in 0 .. n - 1 : at[p][2] = y}
           hit == {p \in row : at[p][1] = x}
<1>1. getInputOffsetFromMousePosition(str, x, y)
        = IF y < 0 THEN 0
          ELSE IF hit # {} THEN Min(hit)
          ELSE IF row # {} /\ Max(row) > 0 THEN Max(row) ELSE n
  BY DEF getInputOffsetFromMousePosition
<1>2. n \in Nat
  OBVIOUS
<1> HIDE DEF n, at
<1>3. row \subseteq 0 .. n /\ hit \subseteq Nat /\ hit \subseteq 0 .. n
  BY <1>2
<1> HIDE DEF row, hit
<1>4. hit # {} => Min(hit) \in 0 .. n
  BY <1>3, MinOf
<1>5. row # {} => Max(row) \in 0 .. n
  BY <1>2, <1>3, MaxOf
<1>6. 0 \in 0 .. n /\ n \in 0 .. n
  BY <1>2
<1>7. getInputOffsetFromMousePosition(str, x, y) \in 0 .. n
  BY <1>1, <1>4, <1>5, <1>6
<1> QED BY <1>7 DEF n

\* A click on the place of a character finds that character.
LEMMA ClickFinds ==
  ASSUME NEW str, Len(str) \in Nat, NEW p \in 0 .. Len(str) - 1
  PROVE  getInputOffsetFromMousePosition(str, getMouseXFromOffset(str, p),
                                         getMouseYFromOffset(str, p)) = p
<1> DEFINE n == Len(str)
           at == PlacesOf(str)
           x == at[p][1]
           y == at[p][2]
           row == {q \in 0 .. n - 1 : at[q][2] = y}
           hit == {q \in row : at[q][1] = x}
<1>1. LaidOut(at, str, n) /\ n \in Nat
  BY PlacesAre
<1>2. getInputOffsetFromMousePosition(str, x, y)
        = IF y < 0 THEN 0
          ELSE IF hit # {} THEN Min(hit)
          ELSE IF row # {} /\ Max(row) > 0 THEN Max(row) ELSE n
  BY DEF getInputOffsetFromMousePosition
<1>3. getMouseXFromOffset(str, p) = x /\ getMouseYFromOffset(str, p) = y
  BY DEF getMouseXFromOffset, getMouseYFromOffset
<1>4. p \in 0 .. n - 1
  OBVIOUS
<1> HIDE DEF n, at
<1>5. \A q \in 0 .. n : at[q] \in Nat \X Nat
  BY <1>1 DEF LaidOut
<1>6. \A q \in 0 .. n - 1 : q \in 0 .. n /\ q \in Nat
  BY <1>1
<1>7. y \in Nat
  BY <1>4, <1>5, <1>6
<1>8. hit = {p}
  <2>1. p \in hit
    BY <1>4
  <2>2. ASSUME NEW q \in hit PROVE q = p
    <3>1. q \in 0 .. n /\ p \in 0 .. n /\ at[q][1] = at[p][1] /\ at[q][2] = at[p][2]
      BY <1>4, <1>6
    <3>2. at[q] = at[p]
      BY <1>5, <3>1
    <3> QED BY <1>1, <3>1, <3>2, PlacesDiffer
  <2> QED BY <2>1, <2>2
<1>9. Min({p}) = p
  <2>1. p \in Nat
    BY <1>4, <1>6
  <2>2. {p} \subseteq Nat /\ {p} # {}
    BY <2>1
  <2>3. Min({p}) \in {p}
    BY <2>2, MinOf
  <2> QED BY <2>3
<1> HIDE DEF hit, row, x, y
<1>10. getInputOffsetFromMousePosition(str, x, y) = p
  BY <1>2, <1>7, <1>8, <1>9
<1> QED BY <1>3, <1>10

-----------------------------------------------------------------------------
(* The steps *)

FieldSet == [text : Seq(FieldChars), pos : Nat]
InText(f) == f \in FieldSet /\ f.pos \in 0 .. Len(f.text)

LEMMA InsertIs ==
  ASSUME NEW C, NEW s \in Seq(C), NEW k \in C, NEW p \in 0 .. Len(s)
  PROVE  InsertAt(s, p + 1, k) \in Seq(C) /\ Len(InsertAt(s, p + 1, k)) = Len(s) + 1
<1> DEFINE a == SubSeq(s, 1, (p + 1) - 1)
           b == SubSeq(s, p + 1, Len(s))
<1>1. p \in Nat /\ Len(s) \in Nat /\ p <= Len(s) /\ (p + 1) - 1 = p
  OBVIOUS
<1>2. a \in Seq(C) /\ Len(a) = p
  BY <1>1
<1>3. b \in Seq(C) /\ Len(b) = Len(s) - p
  <2>1. CASE p = Len(s)
    BY <1>1, <2>1
  <2>2. CASE p < Len(s)
    BY <1>1, <2>2
  <2> QED BY <1>1, <2>1, <2>2
<1>4. InsertAt(s, p + 1, k) = a \o <<k>> \o b
  BY DEF InsertAt
<1>5. <<k>> \in Seq(C) /\ Len(<<k>>) = 1
  OBVIOUS
<1> HIDE DEF a, b
<1>6. a \o <<k>> \in Seq(C) /\ Len(a \o <<k>>) = p + 1
  BY <1>2, <1>5
<1>7. (a \o <<k>>) \o b \in Seq(C) /\ Len((a \o <<k>>) \o b) = (p + 1) + (Len(s) - p)
  BY <1>3, <1>6
<1>8. (p + 1) + (Len(s) - p) = Len(s) + 1
  BY <1>1
<1> QED BY <1>4, <1>7, <1>8

LEMMA RemoveIs ==
  ASSUME NEW C, NEW s \in Seq(C), NEW p \in 1 .. Len(s)
  PROVE  RemoveAt(s, p) \in Seq(C) /\ Len(RemoveAt(s, p)) = Len(s) - 1
<1> DEFINE a == SubSeq(s, 1, p - 1)
           b == SubSeq(s, p + 1, Len(s))
<1>1. p \in Nat \ {0} /\ Len(s) \in Nat /\ p <= Len(s)
  OBVIOUS
<1>2. a \in Seq(C) /\ Len(a) = p - 1
  BY <1>1
<1>3. b \in Seq(C) /\ Len(b) = Len(s) - p
  <2>1. CASE p = Len(s)
    BY <1>1, <2>1
  <2>2. CASE p < Len(s)
    BY <1>1, <2>2
  <2> QED BY <1>1, <2>1, <2>2
<1>4. RemoveAt(s, p) = a \o b
  BY DEF RemoveAt
<1> HIDE DEF a, b
<1>5. a \o b \in Seq(C) /\ Len(a \o b) = (p - 1) + (Len(s) - p)
  BY <1>2, <1>3
<1>6. (p - 1) + (Len(s) - p) = Len(s) - 1
  BY <1>1
<1> QED BY <1>4, <1>5, <1>6

LEMMA PosWith ==
  ASSUME NEW f \in FieldSet, NEW q \in 0 .. Len(f.text)
  PROVE  InText([f EXCEPT !.pos = q]) /\ [f EXCEPT !.pos = q].text = f.text
<1>1. f.text \in Seq(FieldChars) /\ q \in Nat
  BY DEF FieldSet
<1>2. [f EXCEPT !.pos = q] \in FieldSet
  BY <1>1 DEF FieldSet
<1>3. [f EXCEPT !.pos = q].text = f.text /\ [f EXCEPT !.pos = q].pos = q
  BY DEF FieldSet
<1> QED BY <1>2, <1>3 DEF InText

LEMMA TextLength ==
  ASSUME NEW f, InText(f)
  PROVE  f \in FieldSet /\ f.text \in Seq(FieldChars) /\ Len(f.text) \in Nat /\ f.pos \in 0 .. Len(f.text)
<1>1. f \in FieldSet /\ f.text \in Seq(FieldChars) /\ f.pos \in 0 .. Len(f.text)
  BY DEF InText, FieldSet
<1> QED BY <1>1

LEMMA KeyInserts ==
  ASSUME NEW f, InText(f), NEW k
  PROVE  InText(Inserted(f, k)) /\ Len(f.text) <= Len(Inserted(f, k).text)
<1> DEFINE n == Len(f.text)
<1>1. f.text \in Seq(FieldChars) /\ n \in Nat /\ f.pos \in 0 .. n
  BY TextLength
<1>2. CASE k \notin FieldChars
  <2>1. Inserted(f, k) = f
    BY <1>2 DEF Inserted
  <2> QED BY <1>1, <2>1
<1>3. CASE k \in FieldChars
  <2> DEFINE t == InsertAt(f.text, f.pos + 1, k)
  <2>1. t \in Seq(FieldChars) /\ Len(t) = n + 1
    BY <1>1, <1>3, InsertIs
  <2>2. Inserted(f, k) = [text |-> t, pos |-> f.pos + 1]
    BY <1>3 DEF Inserted
  <2> HIDE DEF t, n
  <2>3. f.pos + 1 \in Nat /\ f.pos + 1 \in 0 .. n + 1 /\ n <= n + 1
    BY <1>1
  <2>4. InText(Inserted(f, k))
    BY <2>1, <2>2, <2>3 DEF InText, FieldSet
  <2>5. Len(Inserted(f, k).text) = n + 1
    BY <2>1, <2>2
  <2> QED BY <2>3, <2>4, <2>5 DEF n
<1> QED BY <1>2, <1>3

LEMMA KeyGoesSideways ==
  ASSUME NEW f, InText(f), NEW k, NEW c \in Nat, c <= Len(f.text)
  PROVE  InText(Sideways(f, k, c))
<1> DEFINE n == Len(f.text)
<1>1. f \in FieldSet /\ n \in Nat /\ f.pos \in 0 .. n
  BY TextLength
<1> HIDE DEF n
<1>2. CASE k \in {"left", "4"} /\ f.pos > 0
  <2>1. Sideways(f, k, c) = [f EXCEPT !.pos = f.pos - 1]
    BY <1>1, <1>2 DEF Sideways
  <2>2. f.pos - 1 \in 0 .. n
    BY <1>1, <1>2
  <2> QED BY <1>1, <2>1, <2>2, PosWith DEF n
<1>3. CASE k \in {"right", "6"} /\ f.pos < c
  <2>1. Sideways(f, k, c) = [f EXCEPT !.pos = f.pos + 1]
    BY <1>1, <1>3 DEF Sideways
  <2>2. c <= n
    BY DEF n
  <2>3. f.pos + 1 \in 0 .. n
    BY <1>1, <1>3, <2>2
  <2> QED BY <1>1, <2>1, <2>3, PosWith DEF n
<1>4. CASE ~(k \in {"left", "4"} /\ f.pos > 0) /\ ~(k \in {"right", "6"} /\ f.pos < c)
  <2>1. Sideways(f, k, c) = f
    BY <1>4 DEF Sideways
  <2> QED BY <2>1
<1> QED BY <1>2, <1>3, <1>4

LEMMA KeyGoesVertically ==
  ASSUME NEW f, InText(f), NEW k
  PROVE  InText(Vertically(f, k))
<1> DEFINE n == Len(f.text)
           x == getMouseXFromOffset(f.text, f.pos)
           y == getMouseYFromOffset(f.text, f.pos)
           to(cx, cy) == [f EXCEPT !.pos = getInputOffsetFromMousePosition(f.text, cx, cy)]
<1>1. f \in FieldSet /\ n \in Nat /\ f.pos \in 0 .. n
  BY TextLength
<1>2. y \in Int
  <2>1. LaidOut(PlacesOf(f.text), f.text, n)
    BY <1>1, PlacesAre
  <2> QED BY <1>1, <2>1 DEF LaidOut, getMouseYFromOffset
<1>3. y - 1 \in Int /\ y + 1 \in Int
  BY <1>2
<1>4. \A cx : \A cy \in Int : InText(to(cx, cy))
  <2> TAKE cx
  <2> TAKE cy \in Int
  <2>1. getInputOffsetFromMousePosition(f.text, cx, cy) \in 0 .. n
    BY <1>1, OffsetInText
  <2> QED BY <1>1, <2>1, PosWith
<1>5. \/ Vertically(f, k) = to(x, y - 1)
      \/ Vertically(f, k) = to(x, y + 1)
      \/ Vertically(f, k) = to(0, y)
      \/ Vertically(f, k) = to(charPerLine, y)
      \/ Vertically(f, k) = f
  BY DEF Vertically
<1> HIDE DEF to, x, y, n
<1> QED BY <1>2, <1>3, <1>4, <1>5

LEMMA KeyDeletes ==
  ASSUME NEW f, InText(f), NEW k
  PROVE  InText(Deleted(f, k))
<1> DEFINE n == Len(f.text)
<1>1. f.text \in Seq(FieldChars) /\ n \in Nat /\ f.pos \in 0 .. n
  BY TextLength
<1>2. CASE k = "backspace" /\ f.pos > 0
  <2> DEFINE t == RemoveAt(f.text, f.pos)
  <2>0. f.pos \in 1 .. n
    <3> HIDE DEF n
    <3> QED BY <1>1, <1>2
  <2>1. t \in Seq(FieldChars) /\ Len(t) = n - 1
    BY <1>1, <2>0, RemoveIs
  <2>2. Deleted(f, k) = [text |-> t, pos |-> f.pos - 1]
    BY <1>2 DEF Deleted
  <2> HIDE DEF t, n
  <2>3. f.pos - 1 \in Nat /\ f.pos - 1 \in 0 .. n - 1
    BY <1>1, <1>2
  <2> QED BY <2>1, <2>2, <2>3 DEF InText, FieldSet
<1>3. CASE ~(k = "backspace" /\ f.pos > 0)
  BY <1>3 DEF Deleted
<1> QED BY <1>2, <1>3

LEMMA FieldStep == FieldInv /\ [FieldNext]_fieldVars => FieldInv'
<1> SUFFICES ASSUME InText(field), [FieldNext]_fieldVars PROVE InText(field')
  BY DEF FieldInv, InText, FieldSet
<1>1. ASSUME NEW k, inputFieldKeyHandler(k) PROVE InText(field')
  <2> DEFINE c == Len(field.text)
             f1 == Inserted(field, k)
             f2 == Sideways(f1, k, c)
             f3 == Vertically(f2, k)
  <2>1. c \in Nat /\ InText(f1) /\ c <= Len(f1.text)
    BY TextLength, KeyInserts
  <2>2. field' = Deleted(f3, k)
    BY <1>1 DEF inputFieldKeyHandler
  <2>3. InText(f2)
    <3> HIDE DEF c, f1
    <3> QED BY <2>1, KeyGoesSideways
  <2>4. InText(f3)
    <3> HIDE DEF f2
    <3> QED BY <2>3, KeyGoesVertically
  <2> HIDE DEF f3
  <2> QED BY <2>2, <2>4, KeyDeletes
<1>2. ASSUME NEW x \in 0 .. charPerLine, NEW y \in 0 .. 2, inputMouseLeftClickHandler(x, y)
      PROVE  InText(field')
  <2>1. field \in FieldSet /\ Len(field.text) \in Nat
    BY TextLength
  <2>2. getInputOffsetFromMousePosition(field.text, x, y) \in 0 .. Len(field.text)
    BY <2>1, OffsetInText
  <2> QED BY <1>2, <2>1, <2>2, PosWith DEF inputMouseLeftClickHandler
<1>3. CASE UNCHANGED fieldVars
  BY <1>3 DEF fieldVars
<1> QED BY <1>1, <1>2, <1>3 DEF FieldNext

\* The cursor stays in the text.
THEOREM FieldInvariant == FieldSpec => []FieldInv
<1>1. FieldInit => FieldInv
  BY DEF FieldInit, FieldInv
<1> QED BY <1>1, FieldStep, PTL DEF FieldSpec

\* The three functions that walk the text agree on every text: the offset found
\* at the place of a character is its own, and the cursor never leaves the text.
THEOREM CursorStaysInText == FieldSpec => []CursorInText
<1>1. FieldInv => CursorInText
  <2> SUFFICES ASSUME FieldInv PROVE CursorInText
    OBVIOUS
  <2>1. Len(field.text) \in Nat
    BY DEF FieldInv
  <2> QED BY <2>1, ClickFinds DEF FieldInv, CursorInText
<1> QED BY <1>1, FieldInvariant, PTL

-----------------------------------------------------------------------------
(* The user library's allocator *)

LEMMA GreatestOf ==
  ASSUME NEW n \in Nat, NEW S, S \subseteq 0 .. n, S # {}
  PROVE  \E x \in S : \A y \in S : y <= x
<1> DEFINE x == Max(S)
<1>1. x \in S /\ \A y \in S : x >= y
  BY MaxOf
<1> HIDE DEF x
<1>2. \A y \in S : y <= x
  BY <1>1
<1> QED BY <1>1, <1>2

\* The first k + 1 blocks of a walk along the list from a block on.
Walked(at, h, from, k) ==
  /\ at = [i \in 0 .. k |-> at[i]] /\ at[0] = from
  /\ \A i \in 1 .. k : at[i] = h[at[i - 1]].ptr

LEMMA WalkedExists ==
  ASSUME NEW h, NEW from, NEW n \in Nat
  PROVE  \E at : Walked(at, h, from, n)
<1> DEFINE S == {m \in 0 .. n : ~ \E at : Walked(at, h, from, m)}
<1> SUFFICES ASSUME S # {} PROVE FALSE
  OBVIOUS
<1>1. Walked([i \in 0 .. 0 |-> from], h, from, 0)
  BY DEF Walked
<1>2. 0 \notin S
  BY <1>1
<1>3. S \subseteq 0 .. n
  OBVIOUS
<1>4. PICK m \in S : m \in 1 .. n /\ m - 1 \in 0 .. n /\ m - 1 \notin S
  <2> HIDE DEF S
  <2> QED BY <1>2, <1>3, FirstFailure
<1>5. PICK at : Walked(at, h, from, m - 1)
  BY <1>4
<1> DEFINE new == [i \in 0 .. m |-> IF i = m THEN h[at[m - 1]].ptr ELSE at[i]]
<1>6. /\ m \in Nat \ {0} /\ m - 1 \in 0 .. m - 1 /\ 0 \in 0 .. m - 1 /\ 0 \in 0 .. m /\ 0 # m
      /\ \A i \in 0 .. m : i # m => i \in 0 .. m - 1
      /\ \A i \in 1 .. m : /\ i \in 0 .. m /\ i - 1 \in 0 .. m /\ i - 1 # m
                           /\ i # m => i \in 1 .. m - 1
  BY <1>4
<1>7. new[0] = from
  BY <1>5, <1>6 DEF Walked
<1>8. \A i \in 1 .. m : new[i] = h[new[i - 1]].ptr
  <2> TAKE i \in 1 .. m
  <2>1. new[i - 1] = at[i - 1]
    BY <1>6
  <2>2. CASE i = m
    BY <1>6, <2>1, <2>2
  <2>3. CASE i # m
    <3>1. new[i] = at[i] /\ i \in 1 .. m - 1
      BY <1>6, <2>3
    <3> HIDE DEF new
    <3> QED BY <1>5, <2>1, <3>1 DEF Walked
  <2> QED BY <2>2, <2>3
<1>9. new = [i \in 0 .. m |-> new[i]]
  OBVIOUS
<1>10. Walked(new, h, from, m)
  <2> HIDE DEF new
  <2> QED BY <1>7, <1>8, <1>9 DEF Walked
<1> QED BY <1>4, <1>10

\* Nth() is such a walk.
LEMMA NthWalks ==
  ASSUME NEW h, NEW from, HeapEnd \in Nat
  PROVE  Walked(Nth(h, from), h, from, HeapEnd + 1)
<1> DEFINE n == HeapEnd + 1
           Loop(g) == g = [i \in 0 .. n |-> IF i = 0 THEN from ELSE h[g[i - 1]].ptr]
           at == Nth(h, from)
<1>1. n \in Nat /\ 0 \in 0 .. n
  OBVIOUS
<1>2. PICK f : Walked(f, h, from, n)
  <2> HIDE DEF n
  <2> QED BY <1>1, WalkedExists
<1>3. Loop(f)
  <2> DEFINE g == [i \in 0 .. n |-> IF i = 0 THEN from ELSE h[f[i - 1]].ptr]
  <2>1. ASSUME NEW i \in 0 .. n PROVE g[i] = f[i]
    <3>1. CASE i = 0
      BY <3>1, <1>2 DEF Walked
    <3>2. CASE i # 0
      <4>1. i \in 1 .. n
        BY <3>2
      <4> HIDE DEF n
      <4> QED BY <1>2, <3>2, <4>1 DEF Walked
    <3> QED BY <3>1, <3>2
  <2>2. g = [i \in 0 .. n |-> g[i]] /\ f = [i \in 0 .. n |-> f[i]]
    BY <1>2 DEF Walked
  <2> HIDE DEF g, n
  <2>3. g = f
    BY <2>1, <2>2
  <2> QED BY <2>3 DEF g
<1>4. at = CHOOSE g : Loop(g)
  BY DEF Nth
<1>5. \E g : Loop(g)
  BY <1>3
<1> HIDE DEF Loop, at
<1>6. Loop(at)
  BY <1>4, <1>5
<1> HIDE DEF n
<1> USE DEF Loop
<1>7. at = [i \in 0 .. n |-> at[i]] /\ at[0] = from
  BY <1>1, <1>6
<1>8. \A i \in 1 .. n : at[i] = h[at[i - 1]].ptr
  <2> TAKE i \in 1 .. n
  <2>1. i \in 0 .. n /\ i # 0
    BY <1>1
  <2> QED BY <1>6, <2>1
<1> QED BY <1>7, <1>8 DEF Walked, n, at

\* No two blocks of the list have the same next one.
LEMMA LinkedOnce ==
  ASSUME HeapEnd \in Nat, NEW h, NEW F, Linked(h, F), NEW a \in F, NEW b \in F, h[a].ptr = h[b].ptr
  PROVE  a = b
<1>1. a \in Nat /\ b \in Nat /\ h[a].ptr \in Nat /\ Follows(F, a, h[a].ptr) /\ Follows(F, b, h[a].ptr)
  <2>1. \A c \in F : c \in Nat /\ h[c].ptr \in F /\ Follows(F, c, h[c].ptr)
    BY DEF Linked
  <2> QED BY <2>1
<1> DEFINE x == h[a].ptr
<1> HIDE DEF x
<1>2. ASSUME NEW c \in F, NEW d \in F, x \in Nat, Follows(F, c, x), Follows(F, d, x), c \in Nat, d \in Nat, c < d
      PROVE  FALSE
  BY <1>2 DEF Follows
<1>3. ~ a < b /\ ~ b < a
  BY <1>1, <1>2 DEF x
<1> QED BY <1>1, <1>3

\* A set of blocks of the list that has the next one of each has them all.
LEMMA ClosedIsAll ==
  ASSUME HeapEnd \in Nat, NEW h, NEW F, Linked(h, F), NEW V, V \subseteq F, V # {},
         \A a \in V : h[a].ptr \in V
  PROVE  V = F
<1>1. V \subseteq 0 .. HeapEnd /\ F \subseteq 0 .. HeapEnd
  BY DEF Linked
<1>2. \A a \in F : Follows(F, a, h[a].ptr)
  BY DEF Linked
<1>3. 0 \in V
  <2>1. PICK m \in V : \A y \in V : y <= m
    BY <1>1, GreatestOf
  <2>2. ~ h[m].ptr > m
    <3>1. h[m].ptr \in V
      BY <2>1
    <3> DEFINE q == h[m].ptr
    <3> HIDE DEF q
    <3> SUFFICES ASSUME q \in V PROVE ~ q > m
      BY <3>1 DEF q
    <3> QED BY <1>1, <2>1
  <2>3. h[m].ptr = 0
    BY <1>2, <2>1, <2>2 DEF Follows
  <2> QED BY <2>1, <2>3
<1>4. SUFFICES ASSUME F \ V # {} PROVE FALSE
  OBVIOUS
<1>5. PICK x \in F \ V : \A y \in F \ V : x <= y
  <2>1. F \ V \subseteq Nat
    BY <1>1
  <2> QED BY <1>4, <2>1, LeastOf
<1> DEFINE B == {y \in V : y < x}
<1>6. x \in Nat /\ x # 0 /\ 0 \in B
  BY <1>1, <1>3, <1>5
<1>7. PICK y \in B : \A z \in B : z <= y
  <2>1. B \subseteq 0 .. HeapEnd /\ B # {}
    BY <1>1, <1>6
  <2> HIDE DEF B
  <2> QED BY <2>1, GreatestOf
<1> DEFINE q == h[y].ptr
<1>8. y \in V /\ y \in F /\ y < x /\ y \in Nat /\ q \in V /\ q \in Nat /\ Follows(F, y, q)
  <2>1. y \in V /\ y \in F /\ y < x
    BY <1>7
  <2>2. q \in V
    BY <2>1
  <2> HIDE DEF q
  <2>3. y \in Nat /\ q \in Nat
    BY <1>1, <2>1, <2>2
  <2> QED BY <1>2, <2>1, <2>2, <2>3 DEF q
<1> HIDE DEF q
<1>9. q > y /\ q <= x
  BY <1>5, <1>6, <1>8 DEF Follows
<1>10. q # x /\ q \notin B
  BY <1>5, <1>7, <1>8, <1>9
<1> QED BY <1>1, <1>6, <1>8, <1>9, <1>10

OnList(at, h, F, from) ==
  /\ \A i \in 0 .. HeapEnd + 1 : at[i] \in F
  /\ DOMAIN at = 0 .. HeapEnd + 1 /\ at[0] = from
  /\ \A i \in 1 .. HeapEnd + 1 : at[i] = h[at[i - 1]].ptr

\* A walk stays on the list and comes round: it meets all of the list before
\* it meets its start again.
LEMMA WalkOnList ==
  ASSUME HeapEnd \in Nat, NEW h, NEW F, Linked(h, F), NEW from \in F
  PROVE  OnList(Nth(h, from), h, F, from)
<1> DEFINE n == HeapEnd + 1
           at == Nth(h, from)
<1>1. Walked(at, h, from, n) /\ n \in Nat
  BY NthWalks
<1> HIDE DEF n, at
<1>2. DOMAIN at = 0 .. n /\ at[0] = from
  BY <1>1 DEF Walked
<1>3. \A i \in 1 .. n : at[i] = h[at[i - 1]].ptr
  BY <1>1 DEF Walked
<1>4. \A i \in 0 .. n : at[i] \in F
  <2> DEFINE S == {i \in 0 .. n : at[i] \notin F}
  <2>1. S \subseteq 0 .. n /\ 0 \notin S
    BY <1>2
  <2>2. ASSUME NEW i \in S, i \in 1 .. n, i - 1 \in 0 .. n, i - 1 \notin S PROVE FALSE
    BY <1>3, <2>2 DEF Linked
  <2>3. S = {}
    <3> HIDE DEF S
    <3> QED BY <1>1, <2>1, <2>2, FirstFailure
  <2> QED BY <2>3
<1> QED BY <1>2, <1>3, <1>4 DEF n, at, OnList

LEMMA WalkReturns ==
  ASSUME HeapEnd \in Nat, NEW h, NEW F, Linked(h, F), NEW from \in F
  PROVE  \E i \in 1 .. HeapEnd + 1 : Nth(h, from)[i] = from
<1> DEFINE n == HeapEnd + 1
           at == Nth(h, from)
<1> SUFFICES ASSUME \A i \in 1 .. n : at[i] # from PROVE FALSE
  OBVIOUS
<1>1. /\ \A i \in 0 .. n : at[i] \in F
      /\ DOMAIN at = 0 .. n /\ at[0] = from /\ n \in Nat
      /\ \A i \in 1 .. n : at[i] = h[at[i - 1]].ptr
  <2>1. OnList(at, h, F, from)
    BY WalkOnList
  <2>2. n \in Nat
    OBVIOUS
  <2> HIDE DEF at
  <2> QED BY <2>1, <2>2 DEF OnList
<1>2. at = [i \in 0 .. n |-> at[i]]
  BY NthWalks DEF Walked
<1>3. F \subseteq 0 .. HeapEnd
  BY DEF Linked
<1>4. at \in [0 .. n -> 0 .. HeapEnd]
  <2> HIDE DEF at, n
  <2> QED BY <1>1, <1>2, <1>3
<1>5. /\ IsFiniteSet(0 .. n) /\ Cardinality(0 .. n) = n + 1
      /\ IsFiniteSet(0 .. HeapEnd) /\ Cardinality(0 .. HeapEnd) = HeapEnd + 1
  BY FS_Interval
<1>14. Cardinality(0 .. HeapEnd) < Cardinality(0 .. n)
  BY <1>5
<1> HIDE DEF at, n
<1>6. PICK k, m \in 0 .. n : k # m /\ at[k] = at[m]
  BY <1>4, <1>5, <1>14, FS_PigeonHole, Zenon
<1> DEFINE S == {i \in 0 .. n : \A j \in 0 .. n : i < j => at[i] # at[j]}
           T == (0 .. n) \ S
<1>7. T # {} /\ T \subseteq 0 .. n
  <2>1. k \in T \/ m \in T
    BY <1>1, <1>6
  <2> QED BY <2>1
<1>8. 0 \notin T
  BY <1>1
<1>9. PICK i \in T : i \in 1 .. n /\ i - 1 \in 0 .. n /\ i - 1 \notin T
  <2> HIDE DEF T
  <2> QED BY <1>1, <1>7, <1>8, FirstFailure
<1>10. PICK j \in 0 .. n : i < j /\ at[i] = at[j]
  BY <1>9
<1>11. j \in 1 .. n /\ j - 1 \in 0 .. n /\ i - 1 < j - 1
  BY <1>1, <1>9, <1>10
<1>12. at[i - 1] \in F /\ at[j - 1] \in F /\ h[at[i - 1]].ptr = h[at[j - 1]].ptr
  BY <1>1, <1>9, <1>10, <1>11
<1>13. at[i - 1] = at[j - 1]
  BY <1>12, LinkedOnce
<1> QED BY <1>9, <1>11, <1>13

\* The number of steps after which a walk is back, as malloc() makes it.
Round(h, from) == Min({i \in 1 .. HeapEnd + 1 : Nth(h, from)[i] = from})

LEMMA RoundIsAll ==
  ASSUME HeapEnd \in Nat, NEW h, NEW F, Linked(h, F), NEW from \in F
  PROVE  /\ Round(h, from) \in 1 .. HeapEnd + 1
         /\ F = {Nth(h, from)[i] : i \in 1 .. Round(h, from)}
         /\ F = {Nth(h, from)[i] : i \in 0 .. HeapEnd + 1}
<1> DEFINE n == HeapEnd + 1
           at == Nth(h, from)
           S == {i \in 1 .. n : at[i] = from}
           m == Min(S)
           V == {at[i] : i \in 1 .. m}
<1>1. /\ \A i \in 0 .. n : at[i] \in F
      /\ DOMAIN at = 0 .. n /\ at[0] = from /\ n \in Nat
      /\ \A i \in 1 .. n : at[i] = h[at[i - 1]].ptr
  <2>1. OnList(at, h, F, from)
    BY WalkOnList
  <2>2. n \in Nat
    OBVIOUS
  <2> HIDE DEF at
  <2> QED BY <2>1, <2>2 DEF OnList
<1>2. S \subseteq Nat /\ S # {}
  BY WalkReturns
<1>3. m \in S
  <2> HIDE DEF S
  <2> QED BY <1>2, MinOf
<1> HIDE DEF at
<1>4. m \in 1 .. n /\ at[m] = from
  <2> HIDE DEF m
  <2> QED BY <1>3
<1> HIDE DEF m, n, S
<1>5. V \subseteq F /\ at[m] \in V
  BY <1>1, <1>4
<1>6. \A a \in V : h[a].ptr \in V
  <2> SUFFICES ASSUME NEW i \in 1 .. m PROVE h[at[i]].ptr \in V
    OBVIOUS
  <2>1. CASE i = m
    <3>1. h[at[m]].ptr = at[1] /\ 1 \in 1 .. m
      BY <1>1, <1>4
    <3> QED BY <2>1, <3>1
  <2>2. CASE i # m
    <3>1. i + 1 \in 1 .. m /\ i + 1 \in 1 .. n /\ (i + 1) - 1 = i
      BY <1>1, <1>4, <2>2
    <3> QED BY <1>1, <3>1
  <2> QED BY <2>1, <2>2
<1>7. V = F
  <2> HIDE DEF V
  <2> QED BY <1>5, <1>6, ClosedIsAll
<1>8. F = {at[i] : i \in 0 .. n}
  <2>1. \A i \in 1 .. m : i \in 0 .. n
    BY <1>1, <1>4
  <2> QED BY <1>1, <1>7, <2>1
<1> QED BY <1>4, <1>7, <1>8 DEF Round, m, S, n, at

Headers(h) == h \in [0 .. HeapEnd -> [ptr : 0 .. HeapEnd, size : Nat]]

\* free() finds the block of the list below the one it is given: no other
\* lies between them.
Below(h, F, p, x) == p \in F /\ p < x /\ \A b \in F : b <= p \/ b > x

LEMMA BeforeIs ==
  ASSUME HeapEnd \in Nat, NEW h, NEW F, Linked(h, F), NEW from \in F, NEW x \in 1 .. HeapEnd, x \notin F
  PROVE  Below(h, F, Before(h, from, x), x)
<1> DEFINE at == Nth(h, from)
           Fits2(p) == (x > p /\ x < h[p].ptr) \/ (p >= h[p].ptr /\ (x > p \/ x < h[p].ptr))
           S == {i \in DOMAIN at : Fits2(at[i])}
<1>1. /\ F \subseteq 0 .. HeapEnd /\ 0 \in F
      /\ \A a \in F : h[a].ptr \in F /\ Follows(F, a, h[a].ptr)
  BY DEF Linked
<1>2. /\ DOMAIN at = 0 .. HeapEnd + 1 /\ F = {at[i] : i \in 0 .. HeapEnd + 1}
  <2>1. OnList(at, h, F, from)
    BY WalkOnList
  <2>2. F = {at[i] : i \in 0 .. HeapEnd + 1}
    BY RoundIsAll
  <2> HIDE DEF at
  <2> QED BY <2>1, <2>2 DEF OnList
<1>3. ASSUME NEW p \in F, Fits2(p) PROVE Below(h, F, p, x)
  <2> DEFINE q == h[p].ptr
  <2>1. q \in Nat /\ p \in Nat /\ Follows(F, p, q) /\ x \in Nat /\ x # q /\ x # p
    <3>1. q \in F
      BY <1>1
    <3> HIDE DEF q
    <3>2. q \in Nat /\ p \in Nat /\ x \in Nat /\ x # q /\ x # p
      BY <1>1, <3>1
    <3> QED BY <1>1, <3>2 DEF q
  <2>2. (x > p /\ x < q) \/ (p >= q /\ (x > p \/ x < q))
    BY <1>3
  <2> HIDE DEF q
  <2>3. CASE x > p /\ x < q
    BY <1>1, <2>1, <2>3 DEF Below, Follows
  <2>4. CASE p >= q /\ (x > p \/ x < q)
    <3>1. q = 0 /\ \A b \in F : b <= p
      BY <2>1, <2>4 DEF Follows
    <3> QED BY <2>1, <2>4, <3>1 DEF Below
  <2> QED BY <2>2, <2>3, <2>4
<1>4. S # {}
  <2> DEFINE L == {b \in F : b < x}
  <2>1. L \subseteq 0 .. HeapEnd /\ 0 \in L
    <3>1. L \subseteq F /\ 0 < x
      OBVIOUS
    <3>2. 0 \in L
      BY <1>1, <3>1
    <3> HIDE DEF L
    <3> QED BY <1>1, <3>1, <3>2
  <2>2. PICK p \in L : \A b \in L : b <= p
    <3> HIDE DEF L
    <3> QED BY <2>1, GreatestOf
  <2> DEFINE q == h[p].ptr
  <2>3. p \in F /\ p \in Nat /\ q \in F /\ Follows(F, p, q) /\ p < x
    BY <1>1, <2>2
  <2> HIDE DEF q
  <2>4. q \in Nat /\ q # x
    BY <1>1, <2>3
  <2>5. q > p => q > x
    <3>1. q < x => q <= p
      BY <2>2, <2>3
    <3> QED BY <2>3, <2>4, <3>1
  <2>6. (x > p /\ x < q) \/ (p >= q /\ (x > p \/ x < q))
    BY <2>3, <2>4, <2>5
  <2>7. Fits2(p)
    BY <2>6 DEF q
  <2> HIDE DEF Fits2, at
  <2> QED BY <1>2, <2>3, <2>7
<1>5. Min(S) \in S
  <2>1. S \subseteq Nat
    <3> HIDE DEF at, Fits2
    <3> QED BY <1>2
  <2> HIDE DEF S
  <2> QED BY <1>4, <2>1, MinOf
<1>6. Before(h, from, x) = at[Min(S)]
  BY DEF Before
<1> HIDE DEF Fits2
<1>7. at[Min(S)] \in F /\ Fits2(at[Min(S)])
  <2> DEFINE m == Min(S)
  <2> HIDE DEF m
  <2> SUFFICES ASSUME m \in S PROVE at[m] \in F /\ Fits2(at[m])
    BY <1>5 DEF m
  <2> HIDE DEF at
  <2> QED BY <1>2
<1> HIDE DEF S, at
<1> QED BY <1>3, <1>6, <1>7

\* What is known of the heap while a block x of it goes to the list: nobody's
\* neighbour but the one below it and itself can be a free block.
Loose(h, F, L, end, S) ==
  /\ Headers(h) /\ Linked(h, F) /\ F \cap L = {}
  /\ Tiled(h, (F \ {0}) \cup L, end)
  /\ \A a \in F \ {0} : a \notin S => a + h[a].size \notin F

\* k is h with block x put after p; with the two blocks a and b made one.
Link(k, h, p, x) ==
  k = [h EXCEPT ![x] = [@ EXCEPT !.ptr = h[p].ptr], ![p] = [@ EXCEPT !.ptr = x]]
Join(k, h, a, b) ==
  k = [h EXCEPT ![a] = [ptr |-> h[b].ptr, size |-> h[a].size + h[b].size], ![b] = NoHeader]

\* The block x is in nobody's hands: what free() can rely on.
Taken(h, F, L, x, end) ==
  /\ Headers(h) /\ Linked(h, F) /\ F \cap L = {} /\ x \notin F /\ x \notin L
  /\ Tiled(h, ((F \ {0}) \cup L) \cup {x}, end)
  /\ \A a \in F \ {0} : a + h[a].size \notin F

LEMMA LinkBlock ==
  ASSUME HeapEnd \in Nat, NEW h, NEW F, NEW L, NEW x \in 1 .. HeapEnd, NEW end \in 1 .. HeapEnd + 1,
         Taken(h, F, L, x, end), NEW p, Below(h, F, p, x), NEW k, Link(k, h, p, x)
  PROVE  /\ Loose(k, F \cup {x}, L, end, {p, x})
         /\ k[p].ptr = x /\ k[x].ptr = h[p].ptr /\ p # x
         /\ \A a \in 0 .. HeapEnd : k[a].size = h[a].size
<1>0. /\ Headers(h) /\ Linked(h, F) /\ F \cap L = {} /\ x \notin F /\ x \notin L
      /\ Tiled(h, ((F \ {0}) \cup L) \cup {x}, end)
      /\ \A a \in F \ {0} : a + h[a].size \notin F
  BY DEF Taken
<1> DEFINE q == h[p].ptr
           G == F \cup {x}
<1>1. /\ F \subseteq 0 .. HeapEnd /\ 0 \in F /\ h[0].size = 0
      /\ \A a \in F : h[a].ptr \in F /\ Follows(F, a, h[a].ptr)
  BY <1>0 DEF Linked
<1>2. p \in F /\ p \in 0 .. HeapEnd /\ p # x /\ p < x /\ q \in F /\ q \in 0 .. HeapEnd /\ Follows(F, p, q)
  <2>1. p \in F /\ p < x
    BY DEF Below
  <2>2. q \in F /\ Follows(F, p, q)
    BY <1>1, <2>1
  <2>3. F \subseteq 0 .. HeapEnd
    BY <1>1
  <2> HIDE DEF q
  <2> QED BY <2>1, <2>2, <2>3
<1>3. \A b \in F : b <= p \/ b > x
  BY DEF Below
<1> HIDE DEF q
<1>4. /\ Headers(k) /\ k[p].ptr = x /\ k[x].ptr = q
      /\ \A a \in 0 .. HeapEnd : k[a].size = h[a].size
      /\ \A a \in 0 .. HeapEnd : a \notin {p, x} => k[a] = h[a]
  <2> DEFINE X == [ptr |-> q, size |-> h[x].size]
             P == [ptr |-> x, size |-> h[p].size]
  <2>1. \A a \in 0 .. HeapEnd : /\ h[a].ptr \in 0 .. HeapEnd /\ h[a].size \in Nat
                                 /\ h[a] = [ptr |-> h[a].ptr, size |-> h[a].size]
    <3>1. \A a \in 0 .. HeapEnd : h[a] \in [ptr : 0 .. HeapEnd, size : Nat]
      BY <1>0 DEF Headers
    <3> QED BY <3>1
  <2>2. [h[x] EXCEPT !.ptr = q] = X /\ [h[p] EXCEPT !.ptr = x] = P
    <3> DEFINE hx == h[x]
               hp == h[p]
    <3>1. hx = [ptr |-> hx.ptr, size |-> hx.size] /\ hp = [ptr |-> hp.ptr, size |-> hp.size]
      <4>1. x \in 0 .. HeapEnd /\ p \in 0 .. HeapEnd
        BY <1>2
      <4> QED BY <2>1, <4>1, Zenon
    <3> HIDE DEF hx, hp
    <3>2. [hx EXCEPT !.ptr = q] = [ptr |-> q, size |-> hx.size]
      BY <3>1
    <3>3. [hp EXCEPT !.ptr = x] = [ptr |-> x, size |-> hp.size]
      BY <3>1
    <3> QED BY <3>2, <3>3 DEF hx, hp
  <2> HIDE DEF X, P
  <2>3. h = [a \in 0 .. HeapEnd |-> h[a]]
    BY <1>0 DEF Headers
  <2>4. k = [[h EXCEPT ![x] = X] EXCEPT ![p] = P]
    <3>1. [h EXCEPT ![x] = X][p] = h[p]
      BY <1>2, <2>3
    <3> QED BY <2>2, <3>1 DEF q, Link
  <2>5. k = [a \in 0 .. HeapEnd |-> IF a = p THEN P ELSE IF a = x THEN X ELSE h[a]]
    BY <1>2, <2>3, <2>4
  <2>6. k[p] = P /\ k[x] = X /\ \A a \in 0 .. HeapEnd : a \notin {p, x} => k[a] = h[a]
    BY <1>2, <2>5
  <2>7. /\ P.ptr = x /\ P.size = h[p].size /\ X.ptr = q /\ X.size = h[x].size
        /\ P \in [ptr : 0 .. HeapEnd, size : Nat] /\ X \in [ptr : 0 .. HeapEnd, size : Nat]
    <3> DEFINE sx == h[x].size
               sp == h[p].size
    <3>1. sx \in Nat /\ sp \in Nat /\ x \in 0 .. HeapEnd
      <4>1. x \in 0 .. HeapEnd /\ p \in 0 .. HeapEnd
        BY <1>2
      <4> QED BY <2>1, <4>1, Zenon
    <3> HIDE DEF sx, sp
    <3>2. /\ P = [ptr |-> x, size |-> sp] /\ X = [ptr |-> q, size |-> sx]
      BY DEF P, X, sp, sx
    <3>3. /\ P.ptr = x /\ P.size = sp /\ X.ptr = q /\ X.size = sx
      BY <3>2
    <3>4. P \in [ptr : 0 .. HeapEnd, size : Nat] /\ X \in [ptr : 0 .. HeapEnd, size : Nat]
      BY <1>2, <3>1, <3>2
    <3> QED BY <3>3, <3>4 DEF sp, sx
  <2>8. \A a \in 0 .. HeapEnd : k[a] \in [ptr : 0 .. HeapEnd, size : Nat]
    <3>1. \A a \in 0 .. HeapEnd : h[a] \in [ptr : 0 .. HeapEnd, size : Nat]
      BY <1>0 DEF Headers
    <3> QED BY <2>6, <2>7, <3>1
  <2>9. \A a \in 0 .. HeapEnd : k[a].size = h[a].size
    BY <2>6, <2>7
  <2>10. Headers(k)
    <3>1. k = [a \in 0 .. HeapEnd |-> k[a]]
      BY <2>5
    <3> QED BY <2>8, <3>1 DEF Headers
  <2> QED BY <2>6, <2>7, <2>9, <2>10
<1>5. \A b \in F : b \in Int /\ b \in 0 .. HeapEnd /\ b # x
  BY <1>0, <1>1
<1>6. Follows(G, p, x)
  BY <1>2, <1>3, <1>5 DEF Follows
<1>7. Follows(G, x, q)
  <2>1. CASE q > p
    <3>1. q > x
      BY <1>2, <1>3, <1>5, <2>1
    <3> QED BY <1>2, <1>3, <1>5, <2>1, <3>1 DEF Follows
  <2>2. CASE ~ q > p
    <3>1. q = 0 /\ \A b \in F : b <= p
      BY <1>2, <2>2 DEF Follows
    <3> QED BY <1>2, <1>5, <3>1 DEF Follows
  <2> QED BY <2>1, <2>2
<1>8. ASSUME NEW a \in F, a # p PROVE Follows(G, a, h[a].ptr)
  <2> DEFINE y == h[a].ptr
  <2>1. y \in F /\ Follows(F, a, y)
    BY <1>1
  <2> HIDE DEF y
  <2>2. y \in Int /\ a \in Int /\ y # x /\ a # x /\ p \in F
    BY <1>2, <1>5, <2>1
  <2>3. CASE y > a
    <3>1. x <= a \/ x >= y
      <4>1. a < x /\ x < y => (a <= p /\ y > x)
        BY <1>3, <1>5, <2>1, <2>2
      <4>2. p <= a \/ p >= y
        BY <2>1, <2>3, <1>2 DEF Follows
      <4> QED BY <1>2, <1>5, <1>8, <2>2, <4>1, <4>2
    <3>2. \A b \in F : b <= a \/ b >= y
      BY <2>1, <2>3 DEF Follows
    <3> HIDE DEF Follows
    <3>3. \A b \in G : b <= a \/ b >= y
      BY <3>1, <3>2
    <3>4. Follows(G, a, y)
      BY <2>3, <3>3 DEF Follows
    <3> QED BY <3>4 DEF y
  <2>4. CASE ~ y > a
    <3>1. y = 0 /\ \A b \in F : b <= a
      BY <2>1, <2>4 DEF Follows
    <3>2. p < a
      BY <1>2, <1>5, <1>8, <3>1
    <3>3. x < a
      BY <1>2, <1>3, <1>5, <3>2
    <3>4. \A b \in G : b <= a
      <4> SUFFICES ASSUME NEW b \in G PROVE b <= a
        OBVIOUS
      <4>1. CASE b \in F
        BY <3>1, <4>1
      <4>2. CASE b = x
        BY <2>2, <3>3, <4>2
      <4> QED BY <4>1, <4>2
    <3>5. Follows(G, a, y)
      BY <2>4, <3>1, <3>4 DEF Follows
    <3> QED BY <3>5 DEF y
  <2> QED BY <2>3, <2>4
<1>9. Linked(k, G)
  <2>1. G \subseteq 0 .. HeapEnd /\ 0 \in G /\ k[0].size = 0
    <3>1. k[0].size = h[0].size
      <4>1. 0 \in 0 .. HeapEnd
        OBVIOUS
      <4>2. \A a \in 0 .. HeapEnd : k[a].size = h[a].size
        BY <1>4
      <4> QED BY <4>1, <4>2, Zenon
    <3>2. G \subseteq 0 .. HeapEnd
      <4>1. F \subseteq 0 .. HeapEnd /\ x \in 0 .. HeapEnd
        BY <1>1
      <4> QED BY <4>1, Zenon
    <3> QED BY <1>1, <3>1, <3>2
  <2>2. ASSUME NEW a \in G PROVE k[a].ptr \in G /\ Follows(G, a, k[a].ptr)
    <3>1. CASE a = p
      BY <1>4, <1>6, <3>1
    <3>2. CASE a = x
      BY <1>2, <1>4, <1>7, <3>2
    <3>3. CASE a # p /\ a # x
      <4>1. a \in F /\ k[a] = h[a]
        BY <1>4, <1>5, <3>3
      <4> QED BY <1>1, <1>8, <3>3, <4>1
    <3> QED BY <3>1, <3>2, <3>3
  <2> HIDE DEF G
  <2> QED BY <2>1, <2>2 DEF Linked
<1>10. Tiled(k, (G \ {0}) \cup L, end)
  <2>1. (G \ {0}) \cup L = ((F \ {0}) \cup L) \cup {x}
    BY <1>5
  <2> DEFINE B == ((F \ {0}) \cup L) \cup {x}
  <2>2. Tiled(h, B, end) /\ \A a \in B : k[a].size = h[a].size
    <3>1. Tiled(h, B, end)
      BY <1>0
    <3>2. \A a \in B : a \in 0 .. HeapEnd
      <4>1. \A a \in B : a \in 1 .. end - 1
        BY <3>1 DEF Tiled
      <4> HIDE DEF B
      <4> QED BY <4>1
    <3> QED BY <1>4, <3>1, <3>2
  <2> HIDE DEF B
  <2>3. Tiled(k, B, end)
    BY <2>2 DEF Tiled
  <2> QED BY <2>1, <2>3 DEF B
<1>11. ASSUME NEW a \in G \ {0}, a \notin {p, x} PROVE a + k[a].size \notin G
  <2>1. a \in F \ {0} /\ k[a].size = h[a].size /\ a \in 1 .. HeapEnd
    <3>1. a \in F /\ a # 0
      BY <1>11
    <3>2. a \in 0 .. HeapEnd /\ a \in 1 .. HeapEnd
      BY <1>5, <3>1
    <3>3. k[a].size = h[a].size
      <4>1. \A b \in 0 .. HeapEnd : k[b].size = h[b].size
        BY <1>4
      <4> QED BY <3>2, <4>1
    <3> QED BY <3>1, <3>2, <3>3
  <2>2. a + h[a].size \notin F
    BY <1>0, <2>1
  <2>3. a + h[a].size # x
    <3>1. h[a].size \in Nat
      BY <1>0, <2>1 DEF Headers
    <3>2. h[a].size >= 1 /\ (p # 0 => /\ h[p].size >= 1 /\ (a < p => a + h[a].size <= p))
      BY <1>0, <1>2, <2>1 DEF Tiled
    <3>3. a <= p \/ a > x
      BY <1>3, <2>1
    <3> QED BY <1>2, <1>11, <2>1, <3>1, <3>2, <3>3
  <2> QED BY <2>1, <2>2, <2>3
<1>12. G \cap L = {}
  BY <1>0
<1> QED BY <1>2, <1>4, <1>9, <1>10, <1>11, <1>12 DEF Loose, q

LEMMA LooseFacts ==
  ASSUME NEW h, NEW F, NEW L, NEW end \in 1 .. HeapEnd + 1, NEW S, Loose(h, F, L, end, S), HeapEnd \in Nat
  PROVE  /\ h = [a \in 0 .. HeapEnd |-> h[a]]
         /\ \A a \in 0 .. HeapEnd : /\ h[a].ptr \in 0 .. HeapEnd /\ h[a].size \in Nat
                                    /\ h[a] = [ptr |-> h[a].ptr, size |-> h[a].size]
         /\ F \subseteq 0 .. HeapEnd /\ 0 \in F /\ h[0].size = 0
         /\ \A a \in F : h[a].ptr \in F /\ Follows(F, a, h[a].ptr)
         /\ \A a \in F \ {0} : a \in 1 .. HeapEnd /\ h[a].size \in Nat /\ h[a].size >= 1
         /\ \A a, b \in (F \ {0}) \cup L : a < b => a + h[a].size <= b
<1>1. h \in [0 .. HeapEnd -> [ptr : 0 .. HeapEnd, size : Nat]]
  BY DEF Loose, Headers
<1>2. \A a \in 0 .. HeapEnd : /\ h[a].ptr \in 0 .. HeapEnd /\ h[a].size \in Nat
                              /\ h[a] = [ptr |-> h[a].ptr, size |-> h[a].size]
  <2> TAKE a \in 0 .. HeapEnd
  <2>1. h[a] \in [ptr : 0 .. HeapEnd, size : Nat]
    BY <1>1
  <2> QED BY <2>1
<1>3. /\ F \subseteq 0 .. HeapEnd /\ 0 \in F /\ h[0].size = 0
      /\ \A a \in F : h[a].ptr \in F /\ Follows(F, a, h[a].ptr)
  BY DEF Loose, Linked
<1>4. Tiled(h, (F \ {0}) \cup L, end)
  BY DEF Loose
<1>5. \A a \in F \ {0} : a \in 1 .. HeapEnd /\ h[a].size \in Nat /\ h[a].size >= 1
  <2> TAKE a \in F \ {0}
  <2>1. a \in 0 .. HeapEnd /\ a # 0 /\ a \in F
    BY <1>3
  <2>2. h[a].size >= 1
    BY <1>4 DEF Tiled
  <2>3. h[a].size \in Nat
    BY <1>2, <2>1
  <2> QED BY <2>1, <2>2, <2>3
<1>6. \A a, b \in (F \ {0}) \cup L : a < b => a + h[a].size <= b
  BY <1>4 DEF Tiled
<1>7. h = [a \in 0 .. HeapEnd |-> h[a]]
  BY <1>1
<1> QED BY <1>2, <1>3, <1>5, <1>6, <1>7

\* The list without the block b after a: a's next one is now b's.
Skips(h, F, a, b) ==
  /\ h[b].ptr \in F \ {b} /\ Follows(F \ {b}, a, h[b].ptr)
  /\ \A c \in F \ {b} : c # a => h[c].ptr \in F \ {b} /\ Follows(F \ {b}, c, h[c].ptr)

LEMMA SkipNext ==
  ASSUME HeapEnd \in Nat, NEW h, NEW F, Linked(h, F), NEW a \in F, NEW b, b = h[a].ptr, b # 0
  PROVE  Skips(h, F, a, b)
<1> DEFINE r == h[b].ptr
           G == F \ {b}
<1>1. F \subseteq 0 .. HeapEnd /\ \A c \in F : h[c].ptr \in F /\ Follows(F, c, h[c].ptr)
  BY DEF Linked
<1>2. /\ b \in F /\ r \in F /\ Follows(F, a, b) /\ Follows(F, b, r)
  BY <1>1
<1> HIDE DEF r
<1>3. a \in Nat /\ b \in Nat /\ r \in Nat /\ a < b
  <2>1. a \in Nat /\ b \in Nat /\ r \in Nat
    BY <1>1, <1>2
  <2> QED BY <1>2, <2>1 DEF Follows
<1>8. \A c \in F : c \in Int
  <2>1. F \subseteq 0 .. HeapEnd
    BY <1>1
  <2> QED BY <2>1
<1>9. r # b
  BY <1>2, <1>3 DEF Follows
<1>10. Follows(G, a, r)
  <2>1. CASE r > b
    <3>1. \A c \in G : c <= a \/ c >= r
      <4>1. \A c \in F : c <= b \/ c >= r
        BY <1>2, <2>1 DEF Follows
      <4>2. \A c \in F : c <= a \/ c >= b
        BY <1>2 DEF Follows
      <4> QED BY <1>2, <1>3, <1>8, <4>1, <4>2
    <3>2. r > a
      BY <1>2, <1>3, <2>1
    <3> HIDE DEF G
    <3> QED BY <3>1, <3>2 DEF Follows
  <2>2. CASE ~ r > b
    <3>1. r = 0 /\ \A c \in F : c <= b
      BY <1>2, <2>2 DEF Follows
    <3>2. \A c \in F : c <= a \/ c >= b
      BY <1>2 DEF Follows
    <3>3. \A c \in G : c <= a
      BY <1>2, <1>8, <3>1, <3>2
    <3> HIDE DEF G
    <3> QED BY <1>2, <3>1, <3>3 DEF Follows
  <2> QED BY <2>1, <2>2
<1>11. ASSUME NEW c \in G, c # a PROVE h[c].ptr \in G /\ Follows(G, c, h[c].ptr)
  <2>1. c \in F /\ h[c].ptr # b
    BY <1>11, LinkedOnce
  <2>2. h[c].ptr \in F /\ Follows(F, c, h[c].ptr)
    BY <1>1, <2>1
  <2> QED BY <2>1, <2>2 DEF Follows
<1> HIDE DEF G
<1>12. r \in G
  BY <1>2, <1>9 DEF G
<1> QED BY <1>10, <1>11, <1>12 DEF r, G, Skips

\* A free block whose next one does not begin at its end has no neighbour.
LEMMA NotJoined ==
  ASSUME HeapEnd \in Nat, NEW h, NEW F, NEW L, NEW end \in 1 .. HeapEnd + 1, NEW S, Loose(h, F, L, end, S),
         NEW a \in F, a # 0 => a + h[a].size # h[a].ptr
  PROVE  Loose(h, F, L, end, S \ {a})
<1>1. /\ F \subseteq 0 .. HeapEnd
      /\ \A b \in F : h[b].ptr \in F /\ Follows(F, b, h[b].ptr)
      /\ \A b \in F \ {0} : b \in 1 .. HeapEnd /\ h[b].size \in Nat /\ h[b].size >= 1
      /\ \A b, c \in (F \ {0}) \cup L : b < c => b + h[b].size <= c
  BY LooseFacts
<1>2. ASSUME a # 0, a + h[a].size \in F PROVE FALSE
  <2> DEFINE q == h[a].ptr
             e == a + h[a].size
  <2>1. q \in F /\ Follows(F, a, q) /\ e \in F /\ a \in 1 .. HeapEnd /\ e > a /\ e # q
    <3>1. h[a].size \in Nat /\ h[a].size >= 1 /\ a \in 1 .. HeapEnd
      BY <1>1, <1>2
    <3> QED BY <1>1, <1>2, <3>1
  <2>2. q > a => e <= q
    <3>1. q > a => q \in F \ {0}
      BY <2>1
    <3> QED BY <1>1, <1>2, <3>1
  <2> HIDE DEF q, e
  <2>3. q \in Nat /\ e \in Nat
    BY <1>1, <2>1
  <2> QED BY <2>1, <2>2, <2>3 DEF Follows
<1> QED BY <1>2 DEF Loose

\* The block b that begins where a ends is the next one in the list.
Neighbours(h, F, S, a, b) ==
  a \in F /\ a # 0 /\ b = h[a].ptr /\ a + h[a].size = b /\ b \notin S

Joined(m, h, F, L, end, S, a, b) ==
  /\ Loose(m, F \ {b}, L, end, S \ {a})
  /\ b # 0 /\ a # b /\ m[a].size = h[a].size + h[b].size /\ m[a].ptr = h[b].ptr
  /\ \A c \in 0 .. HeapEnd : c \notin {a, b} => m[c] = h[c]

\* Two neighbours become one block.
LEMMA JoinBlocks ==
  ASSUME HeapEnd \in Nat, NEW h, NEW F, NEW L, NEW end \in 1 .. HeapEnd + 1, NEW S, Loose(h, F, L, end, S),
         NEW a, NEW b, Neighbours(h, F, S, a, b),
         NEW m, Join(m, h, a, b)
  PROVE  Joined(m, h, F, L, end, S, a, b)
<1>0. a \in F /\ a # 0 /\ b = h[a].ptr /\ a + h[a].size = b /\ b \notin S
  BY DEF Neighbours
<1> DEFINE r == h[b].ptr
           s == h[a].size
           t == h[b].size
           A == [ptr |-> r, size |-> s + t]
           G == F \ {b}
<1>1. /\ h = [c \in 0 .. HeapEnd |-> h[c]]
      /\ \A c \in 0 .. HeapEnd : h[c].ptr \in 0 .. HeapEnd /\ h[c].size \in Nat
      /\ F \subseteq 0 .. HeapEnd /\ 0 \in F /\ h[0].size = 0
      /\ \A c \in F : h[c].ptr \in F /\ Follows(F, c, h[c].ptr)
      /\ \A c \in F \ {0} : c \in 1 .. HeapEnd /\ h[c].size \in Nat /\ h[c].size >= 1
  BY LooseFacts
<1>2. /\ a \in 1 .. HeapEnd /\ b \in F /\ b \in 0 .. HeapEnd /\ a < b /\ b # 0 /\ Follows(F, a, b)
      /\ s \in Nat /\ s >= 1 /\ b = a + s
  <2>1. a \in 1 .. HeapEnd /\ s \in Nat /\ s >= 1 /\ b \in F /\ Follows(F, a, b)
    BY <1>0, <1>1
  <2> HIDE DEF s
  <2>2. b = a + s
    BY <1>0 DEF s
  <2> QED BY <1>1, <2>1, <2>2
<1>3. r \in F /\ r \in 0 .. HeapEnd /\ Follows(F, b, r) /\ t \in Nat /\ t >= 1
  <2>1. r \in F /\ Follows(F, b, r) /\ t \in Nat /\ t >= 1
    BY <1>1, <1>2
  <2> HIDE DEF r
  <2> QED BY <1>1, <2>1
<1>4. m = [c \in 0 .. HeapEnd |-> IF c = b THEN NoHeader ELSE IF c = a THEN A ELSE h[c]]
  <2>1. m = [[h EXCEPT ![a] = A] EXCEPT ![b] = NoHeader]
    BY DEF Join
  <2> HIDE DEF A
  <2> QED BY <1>1, <1>2, <2>1
<1> HIDE DEF r, s, t
<1>5. A.ptr = r /\ A.size = s + t /\ A \in [ptr : 0 .. HeapEnd, size : Nat]
  BY <1>2, <1>3
<1> HIDE DEF A
<1>6. m[a] = A /\ m[b] = NoHeader /\ \A c \in 0 .. HeapEnd : c \notin {a, b} => m[c] = h[c]
  BY <1>2, <1>4
<1>7. Headers(m)
  <2>1. NoHeader \in [ptr : 0 .. HeapEnd, size : Nat]
    BY DEF NoHeader
  <2>2. \A c \in 0 .. HeapEnd : h[c] \in [ptr : 0 .. HeapEnd, size : Nat]
    BY DEF Loose, Headers
  <2> QED BY <1>4, <1>5, <2>1, <2>2 DEF Headers
<1>8. \A c \in F : c \in Int /\ (c = a \/ c = b \/ m[c] = h[c])
  <2> TAKE c \in F
  <2>1. c \in 0 .. HeapEnd
    BY <1>1
  <2>2. c \in Int
    BY <2>1
  <2> QED BY <1>6, <2>1, <2>2
<1>9. /\ r \in G /\ Follows(G, a, r)
      /\ \A c \in G : c # a => h[c].ptr \in G /\ Follows(G, c, h[c].ptr)
  <2>1. Linked(h, F)
    BY DEF Loose
  <2>2. Skips(h, F, a, b)
    BY <1>0, <1>2, <2>1, SkipNext
  <2> QED BY <2>2 DEF r, Skips
<1>12. Linked(m, G)
  <2>1. G \subseteq 0 .. HeapEnd /\ 0 \in G
    BY <1>1, <1>2
  <2>2. m[0].size = 0
    <3>1. 0 \in 0 .. HeapEnd /\ 0 \notin {a, b}
      BY <1>2
    <3> QED BY <1>1, <1>6, <3>1
  <2>3. ASSUME NEW c \in G PROVE m[c].ptr \in G /\ Follows(G, c, m[c].ptr)
    <3>1. CASE c = a
      BY <1>5, <1>6, <1>9, <3>1
    <3>2. CASE c # a
      BY <1>8, <1>9, <3>2
    <3> QED BY <3>1, <3>2
  <2> HIDE DEF G
  <2> QED BY <2>1, <2>2, <2>3 DEF Linked
<1> DEFINE B == (F \ {0}) \cup L
           C == (G \ {0}) \cup L
<1>13. Tiled(h, B, end) /\ F \cap L = {}
  BY DEF Loose
<1>14. /\ B \subseteq 1 .. end - 1 /\ B \subseteq 0 .. HeapEnd /\ C = B \ {b} /\ a \in C /\ b \in B
       /\ \A c \in B : h[c].size \in Nat /\ h[c].size >= 1 /\ c + h[c].size <= end
       /\ \A c, d \in B : c < d => c + h[c].size <= d
       /\ \A x \in 1 .. end - 1 : \E c \in B : c <= x /\ x < c + h[c].size
  <2>1. C = B \ {b} /\ a \in C /\ b \in B
    BY <1>0, <1>2, <1>13
  <2> HIDE DEF B, C
  <2>2. B \subseteq 1 .. end - 1
    BY <1>13 DEF Tiled
  <2>3. B \subseteq 0 .. HeapEnd
    BY <2>2
  <2> QED BY <1>1, <1>13, <2>1, <2>2, <2>3 DEF Tiled
<1> HIDE DEF B, C
<1>15. h[a].size = s /\ h[b].size = t /\ m[a].size = s + t /\ \A c \in C : c # a => m[c].size = h[c].size
  BY <1>5, <1>6, <1>14 DEF s, t
<1>16. Tiled(m, C, end)
  <2>1. \A c \in C : c \in 1 .. end - 1 /\ m[c].size >= 1 /\ c + m[c].size <= end
    <3> TAKE c \in C
    <3>1. c \in B /\ c \in 1 .. end - 1
      BY <1>14
    <3>2. CASE c # a
      BY <1>14, <1>15, <3>1, <3>2
    <3>3. CASE c = a
      <4>1. b + t <= end
        BY <1>14, <1>15
      <4>2. a + (s + t) = b + t /\ s + t >= 1
        BY <1>2, <1>3
      <4> QED BY <1>15, <3>1, <3>3, <4>1, <4>2
    <3> QED BY <3>2, <3>3
  <2>2. ASSUME NEW c \in C, NEW d \in C, c < d PROVE c + m[c].size <= d
    <3>1. c \in B /\ d \in B /\ c \in Nat /\ d \in Nat /\ d # b
      BY <1>14
    <3>2. CASE c # a
      BY <1>14, <1>15, <2>2, <3>1, <3>2
    <3>3. CASE c = a
      <4>1. a + s <= d
        BY <1>14, <1>15, <2>2, <3>1, <3>3
      <4>2. b < d
        BY <1>2, <3>1, <4>1
      <4>3. b + t <= d
        BY <1>14, <1>15, <3>1, <4>2
      <4> QED BY <1>2, <1>3, <1>15, <3>3, <4>3
    <3> QED BY <3>2, <3>3
  <2>3. ASSUME NEW x \in 1 .. end - 1 PROVE \E c \in C : c <= x /\ x < c + m[c].size
    <3>1. PICK c \in B : c <= x /\ x < c + h[c].size
      BY <1>14
    <3>2. CASE c \notin {a, b}
      BY <1>14, <1>15, <3>1, <3>2
    <3>3. CASE c \in {a, b}
      <4>1. a <= x /\ x < a + (s + t)
        BY <1>2, <1>3, <1>15, <3>1, <3>3
      <4> QED BY <1>14, <1>15, <4>1
    <3> QED BY <3>2, <3>3
  <2> QED BY <2>1, <2>2, <2>3 DEF Tiled
<1>17. ASSUME NEW c \in G \ {0}, c \notin S \ {a} PROVE c + m[c].size \notin G
  <2>1. CASE c = a
    <3>1. b + t \notin F
      BY <1>0, <1>2 DEF Loose, t
    <3>2. a + (s + t) = b + t
      BY <1>2, <1>3
    <3> QED BY <1>15, <2>1, <3>1, <3>2
  <2>2. CASE c # a
    <3>1. m[c] = h[c] /\ c \in F \ {0} /\ c \notin S
      BY <1>8, <1>17, <2>2
    <3> QED BY <3>1 DEF Loose
  <2> QED BY <2>1, <2>2
<1>18. Loose(m, G, L, end, S \ {a})
  <2>1. G \cap L = {}
    BY <1>13
  <2> HIDE DEF G
  <2> QED BY <1>7, <1>12, <1>16, <1>17, <2>1 DEF Loose, C
<1>19. a # b /\ b # 0
  BY <1>2
<1>20. m[a].size = h[a].size + h[b].size /\ m[a].ptr = h[b].ptr
  BY <1>5, <1>6 DEF r, s, t
<1> QED BY <1>6, <1>18, <1>19, <1>20 DEF Joined

\* free() makes a block a free one, alone or as part of a greater one.
LEMMA FreedHolds ==
  ASSUME HeapEnd \in Nat, NEW h, NEW F, NEW L, NEW x \in 1 .. HeapEnd, NEW end \in 1 .. HeapEnd + 1, NEW from \in F,
         Taken(h, F, L, x, end)
  PROVE  \E G : /\ Loose(Freed(h, from, x).heap, G, L, end, {})
                /\ Freed(h, from, x).freep \in G
                /\ \E y \in G : y # 0 /\ Freed(h, from, x).heap[y].size >= h[x].size
<1> DEFINE p == Before(h, from, x)
           q == h[p].ptr
           hu == IF x + h[x].size = q
                 THEN [h EXCEPT ![x] = [ptr |-> h[q].ptr, size |-> h[x].size + h[q].size], ![q] = NoHeader]
                 ELSE [h EXCEPT ![x].ptr = q]
           k == [h EXCEPT ![x] = [@ EXCEPT !.ptr = h[p].ptr], ![p] = [@ EXCEPT !.ptr = x]]
           last == IF p + h[p].size = x
                   THEN [hu EXCEPT ![p] = [ptr |-> hu[x].ptr, size |-> @.size + hu[x].size], ![x] = NoHeader]
                   ELSE [hu EXCEPT ![p].ptr = x]
<1>0. /\ Headers(h) /\ Linked(h, F) /\ x \notin F
      /\ Tiled(h, ((F \ {0}) \cup L) \cup {x}, end)
  BY DEF Taken
<1>1. Freed(h, from, x).heap = last /\ Freed(h, from, x).freep = p
  BY DEF Freed
<1>2. Below(h, F, p, x)
  BY <1>0, BeforeIs
<1> HIDE DEF p
<1>3. /\ Loose(k, F \cup {x}, L, end, {p, x})
      /\ k[p].ptr = x /\ k[x].ptr = h[p].ptr /\ p # x
      /\ \A a \in 0 .. HeapEnd : k[a].size = h[a].size
  <2>1. Link(k, h, p, x)
    BY DEF Link
  <2> HIDE DEF k
  <2> QED BY <1>2, <2>1, LinkBlock
<1>4. /\ p \in F /\ p \in 0 .. HeapEnd /\ p < x /\ x \in 0 .. HeapEnd /\ q \in F /\ q \in 0 .. HeapEnd
      /\ h = [a \in 0 .. HeapEnd |-> h[a]]
      /\ \A a \in 0 .. HeapEnd : /\ h[a].ptr \in 0 .. HeapEnd /\ h[a].size \in Nat
                                 /\ h[a] = [ptr |-> h[a].ptr, size |-> h[a].size]
      /\ \A b \in F : b <= p \/ b > x
      /\ F \subseteq 0 .. HeapEnd /\ 0 \in F /\ Follows(F, p, q)
  <2>1. F \subseteq 0 .. HeapEnd /\ 0 \in F /\ \A a \in F : h[a].ptr \in F /\ Follows(F, a, h[a].ptr)
    BY <1>0 DEF Linked
  <2>2. p \in F /\ p < x /\ \A b \in F : b <= p \/ b > x
    BY <1>2 DEF Below
  <2>3. q \in F /\ Follows(F, p, q)
    BY <2>1, <2>2
  <2> HIDE DEF q
  <2>4. h = [a \in 0 .. HeapEnd |-> h[a]]
    BY <1>0 DEF Headers
  <2>5. \A a \in 0 .. HeapEnd : /\ h[a].ptr \in 0 .. HeapEnd /\ h[a].size \in Nat
                                /\ h[a] = [ptr |-> h[a].ptr, size |-> h[a].size]
    <3> TAKE a \in 0 .. HeapEnd
    <3>1. h[a] \in [ptr : 0 .. HeapEnd, size : Nat]
      BY <1>0 DEF Headers
    <3> QED BY <3>1
  <2>6. p \in 0 .. HeapEnd /\ q \in 0 .. HeapEnd /\ x \in 0 .. HeapEnd
    BY <2>1, <2>2, <2>3
  <2> QED BY <2>1, <2>2, <2>3, <2>4, <2>5, <2>6
<1> DEFINE s == h[x].size
           ps == h[p].size
<1>5. /\ s \in Nat /\ ps \in Nat
      /\ k = [a \in 0 .. HeapEnd |-> IF a = p THEN [ptr |-> x, size |-> ps]
                                     ELSE IF a = x THEN [ptr |-> q, size |-> s] ELSE h[a]]
  <2>1. s \in Nat /\ ps \in Nat
    BY <1>4
  <2> DEFINE hx == h[x]
             hp == h[p]
             X == [hx EXCEPT !.ptr = q]
             P == [hp EXCEPT !.ptr = x]
  <2>2. hx = [ptr |-> hx.ptr, size |-> hx.size] /\ hp = [ptr |-> hp.ptr, size |-> hp.size]
    BY <1>4, Zenon
  <2>3. k = [[h EXCEPT ![x] = X] EXCEPT ![p] = P]
    <3>1. [h EXCEPT ![x] = X][p] = h[p]
      BY <1>3, <1>4
    <3> QED BY <3>1
  <2> HIDE DEF hx, hp, q
  <2>4. X = [ptr |-> q, size |-> hx.size] /\ P = [ptr |-> x, size |-> hp.size]
    BY <2>2
  <2> HIDE DEF X, P, k
  <2>5. k = [a \in 0 .. HeapEnd |-> IF a = p THEN P ELSE IF a = x THEN X ELSE h[a]]
    BY <1>4, <2>3
  <2> QED BY <2>1, <2>4, <2>5 DEF hx, hp
<1> HIDE DEF k, q, s, ps
\* After the block above: m is up with the link from below in place.
<1>6. \E m, G : /\ Loose(m, G, L, end, {p}) /\ p \in G /\ x \in G
                /\ m[p].ptr = x /\ m[p].size = ps /\ m[x].size >= s /\ m[x].size \in Nat
                /\ m = [hu EXCEPT ![p] = [ptr |-> x, size |-> ps]]
                /\ hu[p] = h[p] /\ hu = [a \in 0 .. HeapEnd |-> hu[a]] /\ hu[x] = m[x]
  <2>1. CASE x + s # q
    <3>1. Loose(k, F \cup {x}, L, end, {p, x} \ {x})
      <4>1. x \in F \cup {x} /\ (x # 0 => x + k[x].size # k[x].ptr)
        BY <1>3, <1>4, <2>1 DEF q, s
      <4> QED BY <1>3, <4>1, NotJoined
    <3>2. {p, x} \ {x} = {p}
      BY <1>3
    <3> DEFINE X == [ptr |-> q, size |-> s]
               P == [ptr |-> x, size |-> ps]
    <3>3. hu = [h EXCEPT ![x] = X]
      <4> DEFINE hx == h[x]
      <4>1. hu = [h EXCEPT ![x] = [hx EXCEPT !.ptr = q]]
        BY <2>1 DEF s
      <4>2. hx = [ptr |-> hx.ptr, size |-> hx.size]
        BY <1>4, Zenon
      <4> HIDE DEF hx
      <4>3. [hx EXCEPT !.ptr = q] = [ptr |-> q, size |-> hx.size]
        BY <4>2
      <4> QED BY <4>1, <4>3 DEF s, hx
    <3> HIDE DEF hu
    <3>4. P.ptr = x /\ P.size = ps /\ X.size = s
      OBVIOUS
    <3> HIDE DEF X, P
    <3>5. k = [a \in 0 .. HeapEnd |-> IF a = p THEN P ELSE IF a = x THEN X ELSE h[a]]
      BY <1>5 DEF X, P
    <3>6. /\ hu = [a \in 0 .. HeapEnd |-> IF a = x THEN X ELSE h[a]]
      BY <1>4, <3>3
    <3>7. hu = [a \in 0 .. HeapEnd |-> hu[a]] /\ hu[p] = h[p] /\ hu[x] = X
      BY <1>3, <1>4, <3>6
    <3>8. k = [hu EXCEPT ![p] = P]
      BY <1>3, <1>4, <3>5, <3>6
    <3>9. k[p] = P /\ k[x] = X
      BY <1>3, <1>4, <3>5
    <3>10. s >= s
      BY <1>5
    <3> WITNESS k, F \cup {x}
    <3> QED BY <1>4, <1>5, <3>1, <3>2, <3>4, <3>7, <3>8, <3>9, <3>10 DEF P
  <2>2. CASE x + s = q
    <3> DEFINE m == [k EXCEPT ![x] = [ptr |-> k[q].ptr, size |-> k[x].size + k[q].size], ![q] = NoHeader]
               G == F \cup {x}
    <3>1. q > x /\ q # p
      <4>1. s >= 1
        BY <1>0 DEF Tiled, s
      <4>2. x \in Nat /\ p \in Nat /\ p < x /\ s \in Nat
        BY <1>4, <1>5
      <4> QED BY <2>2, <4>1, <4>2
    <3>2. Neighbours(k, G, {p, x}, x, q)
      <4>1. k[x].ptr = q /\ k[x].size = s
        BY <1>3, <1>4 DEF q, s
      <4>2. x \in G /\ x # 0 /\ q \notin {p, x}
        <5>1. x # 0 /\ q # x
          <6>1. x \in Int /\ q \in Int /\ x # 0
            BY <1>4
          <6> QED BY <3>1, <6>1
        <5> QED BY <3>1, <5>1
      <4> HIDE DEF G
      <4> QED BY <2>2, <4>1, <4>2 DEF Neighbours
    <3>3. /\ Loose(m, G \ {q}, L, end, {p, x} \ {x})
          /\ q # 0 /\ x # q /\ m[x].size = k[x].size + k[q].size /\ m[x].ptr = k[q].ptr
          /\ \A c \in 0 .. HeapEnd : c \notin {x, q} => m[c] = k[c]
      <4>1. Join(m, k, x, q)
        BY DEF Join
      <4> HIDE DEF m, G
      <4>2. Loose(k, G, L, end, {p, x})
        BY <1>3 DEF G
      <4>3. Joined(m, k, G, L, end, {p, x}, x, q)
        BY <3>2, <4>1, <4>2, JoinBlocks
      <4> QED BY <4>3 DEF Joined
    <3>4. {p, x} \ {x} = {p}
      BY <1>3
    <3> DEFINE r == h[q].ptr
               t == h[q].size
               X == [ptr |-> r, size |-> s + t]
               P == [ptr |-> x, size |-> ps]
    <3>5. hu = [[h EXCEPT ![x] = X] EXCEPT ![q] = NoHeader]
      BY <2>2 DEF s
    <3>6. k[q] = h[q] /\ k[x].size = s /\ t \in Nat
      BY <1>3, <1>4, <1>5, <3>1
    <3>7. m = [[k EXCEPT ![x] = X] EXCEPT ![q] = NoHeader]
      BY <3>6
    <3>8. P.ptr = x /\ P.size = ps /\ X.size = s + t
      OBVIOUS
    <3>9. k = [a \in 0 .. HeapEnd |-> IF a = p THEN P ELSE IF a = x THEN [ptr |-> q, size |-> s] ELSE h[a]]
      BY <1>5
    <3> HIDE DEF hu, m, X, P, r, t
    <3>10. hu = [a \in 0 .. HeapEnd |-> IF a = q THEN NoHeader ELSE IF a = x THEN X ELSE h[a]]
      BY <1>4, <3>5
    <3>11. m = [a \in 0 .. HeapEnd |-> IF a = q THEN NoHeader ELSE IF a = x THEN X ELSE IF a = p THEN P ELSE h[a]]
      BY <1>4, <3>7, <3>9
    <3>12. hu = [a \in 0 .. HeapEnd |-> hu[a]] /\ hu[p] = h[p] /\ hu[x] = X
      BY <1>3, <1>4, <3>1, <3>10
    <3>13. m = [hu EXCEPT ![p] = P]
      BY <1>3, <1>4, <3>1, <3>10, <3>11
    <3>14. m[p] = P /\ m[x] = X
      BY <1>3, <1>4, <3>1, <3>11
    <3>15. s + t >= s /\ s + t \in Nat
      BY <1>5, <3>6
    <3>16. p \in G \ {q} /\ x \in G \ {q}
      BY <1>4, <3>1
    <3> HIDE DEF G
    <3> WITNESS m, G \ {q}
    <3> QED BY <3>3, <3>4, <3>8, <3>12, <3>13, <3>14, <3>15, <3>16 DEF P
  <2> QED BY <2>1, <2>2
<1> HIDE DEF hu
<1>7. PICK m, G : /\ Loose(m, G, L, end, {p}) /\ p \in G /\ x \in G
                  /\ m[p].ptr = x /\ m[p].size = ps /\ m[x].size >= s /\ m[x].size \in Nat
                  /\ m = [hu EXCEPT ![p] = [ptr |-> x, size |-> ps]]
                  /\ hu[p] = h[p] /\ hu = [a \in 0 .. HeapEnd |-> hu[a]] /\ hu[x] = m[x]
  BY <1>6
<1>8. CASE p + ps # x
  <2>1. Loose(m, G, L, end, {p} \ {p})
    <3>1. p # 0 => p + m[p].size # m[p].ptr
      BY <1>7, <1>8
    <3> QED BY <1>7, <3>1, NotJoined
  <2>2. last = m
    <3> DEFINE hp == h[p]
    <3>1. last = [hu EXCEPT ![p] = [hp EXCEPT !.ptr = x]]
      BY <1>7, <1>8 DEF ps
    <3>2. hp = [ptr |-> hp.ptr, size |-> hp.size]
      BY <1>4, Zenon
    <3> HIDE DEF hp
    <3>3. [hp EXCEPT !.ptr = x] = [ptr |-> x, size |-> hp.size]
      BY <3>2
    <3> QED BY <1>7, <3>1, <3>3 DEF ps, hp
  <2>3. {p} \ {p} = {}
    OBVIOUS
  <2> HIDE DEF last
  <2>4. x \in G /\ x # 0 /\ last[x].size >= h[x].size
    BY <1>7, <2>2 DEF s
  <2>5. Loose(last, G, L, end, {})
    BY <2>1, <2>2, <2>3
  <2> WITNESS G
  <2> QED BY <1>1, <1>7, <2>4, <2>5
<1>9. CASE p + ps = x
  <2> DEFINE n == [m EXCEPT ![p] = [ptr |-> m[x].ptr, size |-> m[p].size + m[x].size], ![x] = NoHeader]
  <2>1. p # 0
    <3>1. h[0].size = 0
      BY <1>0 DEF Linked
    <3> QED BY <1>4, <1>9, <3>1 DEF ps
  <2>2. /\ Loose(n, G \ {x}, L, end, {p} \ {p})
        /\ x # 0 /\ p # x /\ n[p].size = m[p].size + m[x].size
    <3>1. Neighbours(m, G, {p}, p, x)
      BY <1>3, <1>7, <1>9, <2>1 DEF Neighbours
    <3> DEFINE y == n
    <3>2. Join(y, m, p, x)
      BY DEF Join
    <3> HIDE DEF y
    <3>3. Joined(y, m, G, L, end, {p}, p, x)
      BY <1>7, <3>1, <3>2, JoinBlocks
    <3> QED BY <3>3 DEF Joined, y
  <2>3. last = n
    <3> DEFINE P == [ptr |-> x, size |-> ps]
               Q == [ptr |-> m[x].ptr, size |-> ps + m[x].size]
    <3>1. last = [[hu EXCEPT ![p] = Q] EXCEPT ![x] = NoHeader]
      BY <1>7, <1>9 DEF ps
    <3>2. n = [[m EXCEPT ![p] = Q] EXCEPT ![x] = NoHeader]
      BY <1>7
    <3> HIDE DEF last, n, Q
    <3>3. m = [hu EXCEPT ![p] = P]
      BY <1>7
    <3> HIDE DEF P
    <3>4. [[hu EXCEPT ![p] = P] EXCEPT ![p] = Q] = [hu EXCEPT ![p] = Q]
      BY <1>4, <1>7
    <3> QED BY <3>1, <3>2, <3>3, <3>4
  <2>4. p \in G \ {x} /\ {p} \ {p} = {} /\ n[p].size >= s
    <3>1. p \in G \ {x}
      BY <1>3, <1>7
    <3>2. m[p].size + m[x].size >= s
      BY <1>5, <1>7
    <3> HIDE DEF n
    <3> QED BY <2>2, <3>1, <3>2
  <2> HIDE DEF last, n
  <2>5. last[p].size >= h[x].size
    BY <2>3, <2>4 DEF s
  <2>6. Loose(last, G \ {x}, L, end, {})
    BY <2>2, <2>3, <2>4
  <2> WITNESS G \ {x}
  <2> QED BY <1>1, <2>1, <2>4, <2>5, <2>6
<1> QED BY <1>8, <1>9

\* malloc() hands out the end of a free block, or all of it.
LEMMA TakeSplits ==
  ASSUME HeapEnd \in Nat, NEW h, NEW F, NEW L, NEW end \in 1 .. HeapEnd + 1, Loose(h, F, L, end, {}),
         NEW p \in F, p # 0, NEW n \in Nat, n >= 1, h[p].size > n,
         NEW z, z = p + h[p].size - n,
         NEW m, m = [h EXCEPT ![p].size = h[p].size - n, ![z] = [ptr |-> 0, size |-> n]]
  PROVE  Loose(m, F, L \cup {z}, end, {})
<1> DEFINE s == h[p].size
           q == h[p].ptr
           P == [ptr |-> q, size |-> s - n]
           Z == [ptr |-> 0, size |-> n]
           hp == h[p]
           B == (F \ {0}) \cup L
           C == B \cup {z}
<1>1. /\ h = [c \in 0 .. HeapEnd |-> h[c]]
      /\ \A c \in 0 .. HeapEnd : /\ h[c].ptr \in 0 .. HeapEnd /\ h[c].size \in Nat
                                 /\ h[c] = [ptr |-> h[c].ptr, size |-> h[c].size]
      /\ F \subseteq 0 .. HeapEnd /\ 0 \in F /\ h[0].size = 0
      /\ \A c \in F : h[c].ptr \in F /\ Follows(F, c, h[c].ptr)
      /\ \A c \in F \ {0} : c \in 1 .. HeapEnd /\ h[c].size \in Nat /\ h[c].size >= 1
  BY LooseFacts
<1>2. p \in 1 .. HeapEnd /\ s \in Nat /\ s > n /\ q \in 0 .. HeapEnd /\ p \in 0 .. HeapEnd
  <2>1. p \in 1 .. HeapEnd /\ s \in Nat
    BY <1>1
  <2>2. p \in 0 .. HeapEnd
    BY <2>1
  <2> QED BY <1>1, <2>1, <2>2
<1>3. Tiled(h, B, end) /\ F \cap L = {} /\ Headers(h)
  BY DEF Loose
<1>4. /\ B \subseteq 1 .. end - 1 /\ B \subseteq 0 .. HeapEnd /\ p \in B
      /\ \A c \in B : h[c].size \in Nat /\ h[c].size >= 1 /\ c + h[c].size <= end
      /\ \A c, d \in B : c < d => c + h[c].size <= d
      /\ \A x \in 1 .. end - 1 : \E c \in B : c <= x /\ x < c + h[c].size
  <2>1. p \in B
    OBVIOUS
  <2> HIDE DEF B
  <2>2. B \subseteq 1 .. end - 1
    BY <1>3 DEF Tiled
  <2>3. B \subseteq 0 .. HeapEnd
    BY <2>2
  <2> QED BY <1>1, <1>3, <2>1, <2>2, <2>3 DEF Tiled
<1>5. z = p + (s - n) /\ z \in 1 .. end - 1 /\ z \in 0 .. HeapEnd /\ z > p
  <2>1. p + s <= end
    BY <1>4
  <2> HIDE DEF s
  <2>2. z = p + s - n
    BY DEF s
  <2> QED BY <1>2, <2>1, <2>2
<1>6. z \notin B
  <2> SUFFICES ASSUME z \in B PROVE FALSE
    OBVIOUS
  <2>1. p + s <= z
    BY <1>4, <1>5
  <2> HIDE DEF s
  <2> QED BY <1>2, <1>5, <2>1
<1>7. hp = [ptr |-> q, size |-> s]
  BY <1>1, <1>2, Zenon
<1>8. m = [[h EXCEPT ![p] = [hp EXCEPT !.size = s - n]] EXCEPT ![z] = Z]
  OBVIOUS
<1> HIDE DEF hp, s, q
<1>9. [hp EXCEPT !.size = s - n] = P
  BY <1>7
<1>10. P.ptr = q /\ P.size = s - n /\ Z.size = n
  OBVIOUS
<1>11. P \in [ptr : 0 .. HeapEnd, size : Nat] /\ Z \in [ptr : 0 .. HeapEnd, size : Nat]
  BY <1>2
<1> HIDE DEF P, Z
<1>12. m = [c \in 0 .. HeapEnd |-> IF c = z THEN Z ELSE IF c = p THEN P ELSE h[c]]
  BY <1>1, <1>2, <1>5, <1>8, <1>9
<1>13. m[p] = P /\ m[z] = Z /\ \A c \in 0 .. HeapEnd : c \notin {p, z} => m[c] = h[c]
  BY <1>2, <1>5, <1>12
<1>14. Headers(m)
  <2>1. \A c \in 0 .. HeapEnd : h[c] \in [ptr : 0 .. HeapEnd, size : Nat]
    BY <1>3 DEF Headers
  <2> QED BY <1>11, <1>12, <2>1 DEF Headers
<1>15. \A c \in F : c # z
  BY <1>5, <1>6
<1>16. \A c \in F : m[c].ptr = h[c].ptr
  <2> TAKE c \in F
  <2>1. c \in 0 .. HeapEnd
    BY <1>1
  <2> QED BY <1>10, <1>13, <1>15, <2>1 DEF q
<1>17. Linked(m, F)
  <2>1. 0 # p /\ 0 # z /\ 0 \in 0 .. HeapEnd
    BY <1>5
  <2>2. m[0].size = 0
    BY <1>1, <1>13, <2>1
  <2> QED BY <1>1, <1>16, <2>2 DEF Linked
<1> HIDE DEF B
<1>18. /\ m[p].size = s - n /\ m[z].size = n /\ h[p].size = s
       /\ \A c \in B : c # p => m[c].size = h[c].size
  BY <1>4, <1>6, <1>10, <1>13 DEF s
<1>19. Tiled(m, C, end)
  <2>1. \A c \in C : c \in 1 .. end - 1 /\ m[c].size >= 1 /\ c + m[c].size <= end
    <3> TAKE c \in C
    <3>1. p + s <= end
      BY <1>4, <1>18
    <3>2. CASE c = z
      BY <1>2, <1>5, <1>18, <3>1, <3>2
    <3>3. CASE c = p
      <4>1. p \in 1 .. end - 1
        BY <1>4
      <4> QED BY <1>2, <1>18, <3>1, <3>3, <4>1
    <3>4. CASE c # z /\ c # p
      BY <1>4, <1>18, <3>4
    <3> QED BY <3>2, <3>3, <3>4
  <2>2. ASSUME NEW c \in C, NEW d \in C, c < d PROVE c + m[c].size <= d
    <3>0. c \in Int /\ d \in Int
      BY <1>4, <1>5
    <3>1. CASE c = p /\ d = z
      BY <1>2, <1>5, <1>18, <3>1
    <3>2. CASE c = p /\ d \in B
      <4>1. p + s <= d
        BY <1>4, <1>18, <2>2, <3>2
      <4> QED BY <1>2, <1>18, <3>0, <3>2, <4>1
    <3>3. CASE c = z /\ d \in B
      <4>1. p < d
        BY <1>2, <1>5, <2>2, <3>0, <3>3
      <4>2. p + s <= d
        BY <1>4, <1>18, <3>3, <4>1
      <4> QED BY <1>2, <1>5, <1>18, <3>0, <3>3, <4>2
    <3>4. CASE c \in B /\ c # p /\ d = z
      <4>1. c < p \/ p < c
        BY <1>2, <3>0, <3>4
      <4>2. CASE c < p
        <5>1. c + h[c].size <= p /\ h[c].size \in Nat
          BY <1>4, <3>4, <4>2
        <5>2. m[c].size = h[c].size
          BY <1>18, <3>4
        <5>3. p < z /\ p \in Int /\ z \in Int
          BY <1>2, <1>5
        <5> QED BY <3>0, <3>4, <5>1, <5>2, <5>3
      <4>3. CASE p < c
        <5>1. p + s <= c
          BY <1>4, <1>18, <3>4, <4>3
        <5> QED BY <1>2, <1>5, <2>2, <3>0, <3>4, <5>1
      <4> QED BY <4>1, <4>2, <4>3
    <3>5. CASE c \in B /\ c # p /\ d \in B
      BY <1>4, <1>18, <2>2, <3>5
    <3>6. c # d
      BY <2>2, <3>0
    <3> QED BY <1>4, <3>1, <3>2, <3>3, <3>4, <3>5, <3>6
  <2>3. ASSUME NEW x \in 1 .. end - 1 PROVE \E c \in C : c <= x /\ x < c + m[c].size
    <3>1. PICK c \in B : c <= x /\ x < c + h[c].size
      BY <1>4
    <3>2. CASE c # p
      BY <1>18, <3>1, <3>2
    <3>3. CASE c = p /\ x < z
      BY <1>5, <1>18, <3>1, <3>3
    <3>4. CASE c = p /\ ~ x < z
      <4>1. z <= x /\ x < z + n
        BY <1>2, <1>5, <1>18, <3>1, <3>4
      <4> QED BY <1>18, <4>1
    <3> QED BY <3>2, <3>3, <3>4
  <2> HIDE DEF C
  <2> QED BY <2>1, <2>2, <2>3 DEF Tiled
<1>20. ASSUME NEW c \in F \ {0} PROVE c + m[c].size \notin F
  <2>1. CASE c = p
    <3>1. p + (s - n) = z
      BY <1>5
    <3> QED BY <1>15, <1>18, <2>1, <3>1
  <2>2. CASE c # p
    <3>1. c \in B
      BY DEF B
    <3>2. m[c].size = h[c].size
      BY <1>18, <2>2, <3>1
    <3> QED BY <3>2 DEF Loose
  <2> QED BY <2>1, <2>2
<1>21. F \cap (L \cup {z}) = {}
  BY <1>3, <1>15
<1>22. (F \ {0}) \cup (L \cup {z}) = C
  BY DEF B
<1> HIDE DEF C
<1> QED BY <1>14, <1>17, <1>19, <1>20, <1>21, <1>22 DEF Loose

LEMMA TakeAll ==
  ASSUME HeapEnd \in Nat, NEW h, NEW F, NEW L, NEW end \in 1 .. HeapEnd + 1, Loose(h, F, L, end, {}),
         NEW a \in F, NEW p, p = h[a].ptr, p # 0,
         NEW m, m = [h EXCEPT ![a].ptr = h[p].ptr, ![p].ptr = 0]
  PROVE  Loose(m, F \ {p}, L \cup {p}, end, {})
<1> DEFINE r == h[p].ptr
           G == F \ {p}
           ha == h[a]
           hp == h[p]
           A == [ptr |-> r, size |-> h[a].size]
           P == [ptr |-> 0, size |-> h[p].size]
<1>1. /\ h = [c \in 0 .. HeapEnd |-> h[c]]
      /\ \A c \in 0 .. HeapEnd : /\ h[c].ptr \in 0 .. HeapEnd /\ h[c].size \in Nat
                                 /\ h[c] = [ptr |-> h[c].ptr, size |-> h[c].size]
      /\ F \subseteq 0 .. HeapEnd /\ 0 \in F /\ h[0].size = 0
      /\ \A c \in F : h[c].ptr \in F /\ Follows(F, c, h[c].ptr)
  BY LooseFacts
<1>2. Linked(h, F) /\ Headers(h) /\ F \cap L = {} /\ Tiled(h, (F \ {0}) \cup L, end)
  BY DEF Loose
<1>3. /\ r \in G /\ Follows(G, a, r)
      /\ \A c \in G : c # a => h[c].ptr \in G /\ Follows(G, c, h[c].ptr)
  <2>1. Skips(h, F, a, p)
    BY <1>2, SkipNext
  <2> QED BY <2>1 DEF Skips
<1>4. a \in 0 .. HeapEnd /\ p \in F /\ p \in 0 .. HeapEnd /\ a # p
  <2>1. p \in F /\ Follows(F, a, p) /\ a \in 0 .. HeapEnd
    BY <1>1
  <2>2. p \in 0 .. HeapEnd
    BY <1>1, <2>1
  <2> QED BY <2>1, <2>2 DEF Follows
<1>5. ha = [ptr |-> ha.ptr, size |-> ha.size] /\ hp = [ptr |-> hp.ptr, size |-> hp.size]
  BY <1>1, <1>4, Zenon
<1>6. m = [[h EXCEPT ![a] = [ha EXCEPT !.ptr = r]] EXCEPT ![p] = [hp EXCEPT !.ptr = 0]]
  <2>1. [h EXCEPT ![a] = [ha EXCEPT !.ptr = r]][p] = h[p]
    BY <1>1, <1>4
  <2> QED BY <2>1
<1>7. h[a].size \in Nat /\ h[p].size \in Nat /\ r \in 0 .. HeapEnd
  <2>1. r \in F
    BY <1>3
  <2> HIDE DEF r
  <2> QED BY <1>1, <1>4, <2>1
<1> HIDE DEF ha, hp, r
<1>8. [ha EXCEPT !.ptr = r] = A /\ [hp EXCEPT !.ptr = 0] = P
  <2>1. [ha EXCEPT !.ptr = r] = [ptr |-> r, size |-> ha.size]
    BY <1>5
  <2>2. [hp EXCEPT !.ptr = 0] = [ptr |-> 0, size |-> hp.size]
    BY <1>5
  <2> QED BY <2>1, <2>2 DEF ha, hp
<1>9. A.ptr = r /\ A.size = h[a].size /\ P.size = h[p].size
  OBVIOUS
<1>10. A \in [ptr : 0 .. HeapEnd, size : Nat] /\ P \in [ptr : 0 .. HeapEnd, size : Nat]
  BY <1>7
<1> HIDE DEF A, P
<1>11. m = [c \in 0 .. HeapEnd |-> IF c = p THEN P ELSE IF c = a THEN A ELSE h[c]]
  BY <1>1, <1>4, <1>6, <1>8
<1>12. m[a] = A /\ m[p] = P /\ \A c \in 0 .. HeapEnd : c \notin {a, p} => m[c] = h[c]
  BY <1>4, <1>11
<1>13. Headers(m)
  <2>1. \A c \in 0 .. HeapEnd : h[c] \in [ptr : 0 .. HeapEnd, size : Nat]
    BY <1>2 DEF Headers
  <2> QED BY <1>10, <1>11, <2>1 DEF Headers
<1>14. \A c \in 0 .. HeapEnd : m[c].size = h[c].size
  BY <1>9, <1>12
<1>15. Linked(m, G)
  <2>1. G \subseteq 0 .. HeapEnd /\ 0 \in G
    BY <1>1
  <2>2. m[0].size = 0
    <3>1. 0 \in 0 .. HeapEnd
      OBVIOUS
    <3> QED BY <1>1, <1>14, <3>1
  <2>3. ASSUME NEW c \in G PROVE m[c].ptr \in G /\ Follows(G, c, m[c].ptr)
    <3>1. CASE c = a
      BY <1>3, <1>9, <1>12, <3>1
    <3>2. CASE c # a
      <4>1. c \in 0 .. HeapEnd /\ c \notin {a, p}
        BY <1>1, <3>2
      <4>2. m[c] = h[c]
        BY <1>12, <4>1
      <4> QED BY <1>3, <3>2, <4>2
    <3> QED BY <3>1, <3>2
  <2> HIDE DEF G
  <2> QED BY <2>1, <2>2, <2>3 DEF Linked
<1> DEFINE B == (F \ {0}) \cup L
<1>16. (G \ {0}) \cup (L \cup {p}) = B
  BY <1>4
<1>17. Tiled(m, B, end)
  <2> HIDE DEF B
  <2>1. Tiled(h, B, end)
    BY <1>2 DEF B
  <2>2. \A c \in B : c \in 1 .. end - 1
    BY <2>1 DEF Tiled
  <2>3. \A c \in B : m[c].size = h[c].size
    <3>1. \A c \in B : c \in 0 .. HeapEnd
      BY <2>2
    <3> QED BY <1>14, <3>1
  <2> QED BY <2>1, <2>3 DEF Tiled
<1>18. ASSUME NEW c \in G \ {0} PROVE c + m[c].size \notin G
  <2>1. c \in F \ {0} /\ c \in 0 .. HeapEnd
    BY <1>1
  <2>2. m[c].size = h[c].size
    BY <1>14, <2>1
  <2>3. c + h[c].size \notin F
    BY <2>1 DEF Loose
  <2> QED BY <2>2, <2>3
<1>19. G \cap (L \cup {p}) = {}
  BY <1>2
<1> HIDE DEF B, G
<1> QED BY <1>13, <1>15, <1>16, <1>17, <1>18, <1>19 DEF Loose, G

\* What the search of malloc() finds: a block large enough, and the one
\* before it.
LEMMA FitsIs ==
  ASSUME HeapEnd \in Nat, NEW h, NEW F, Linked(h, F), NEW start \in F,
         NEW n \in Nat, n >= 1, Fits(h, start, n) # {},
         NEW at, at = Nth(h, start), NEW i, i = Min(Fits(h, start, n))
  PROVE  /\ at[i - 1] \in F /\ at[i] = h[at[i - 1]].ptr /\ at[i] \in F
         /\ h[at[i]].size >= n
<1>1. Fits(h, start, n) = {j \in 1 .. Round(h, start) : h[at[j]].size >= n}
  BY DEF Fits, Round
<1>2. Round(h, start) \in 1 .. HeapEnd + 1
  BY RoundIsAll
<1> DEFINE S == Fits(h, start, n)
<1>3. S \subseteq Nat
  BY <1>1, <1>2
<1>4. Min(S) \in S
  BY <1>3, MinOf
<1>5. i \in 1 .. HeapEnd + 1 /\ i - 1 \in 0 .. HeapEnd + 1 /\ i \in 0 .. HeapEnd + 1 /\ h[at[i]].size >= n
  BY <1>1, <1>2, <1>4
<1>6. OnList(at, h, F, start)
  BY WalkOnList
<1> QED BY <1>5, <1>6 DEF OnList

\* A block large enough is found.
LEMMA FitsSome ==
  ASSUME HeapEnd \in Nat, NEW h, NEW F, Linked(h, F), NEW start \in F,
         NEW n \in Nat, NEW y \in F, h[y].size >= n
  PROVE  Fits(h, start, n) # {}
<1>1. Fits(h, start, n) = {j \in 1 .. Round(h, start) : h[Nth(h, start)[j]].size >= n}
  BY DEF Fits, Round
<1>2. PICK j \in 1 .. Round(h, start) : y = Nth(h, start)[j]
  BY RoundIsAll
<1> QED BY <1>1, <1>2

\* The block found loses its end, or leaves the list.
LEMMA TakeHolds ==
  ASSUME HeapEnd \in Nat, NEW h, NEW F, NEW end \in 1 .. HeapEnd + 1, Loose(h, F, live, end, {}),
         NEW start \in F, NEW n \in Nat, n >= 1, Fits(h, start, n) # {}, Take(h, start, n)
  PROVE  \E G : Loose(heap', G, live', end, {}) /\ freep' \in G
<1> DEFINE nth == Nth(h, start)
           i == Min(Fits(h, start, n))
           p == nth[i]
           prev == nth[i - 1]
           at == p + h[p].size - n
<1>1. /\ heap' = IF h[p].size = n THEN [h EXCEPT ![prev].ptr = h[p].ptr, ![p].ptr = 0]
                 ELSE [h EXCEPT ![p].size = h[p].size - n, ![at] = [ptr |-> 0, size |-> n]]
      /\ freep' = prev
      /\ live' = live \cup {at}
  BY DEF Take
<1>2. Linked(h, F) /\ h[0].size = 0
  BY DEF Loose, Linked
<1>3. prev \in F /\ p = h[prev].ptr /\ p \in F /\ h[p].size >= n
  BY <1>2, FitsIs
<1> HIDE DEF p, prev
<1>4. p # 0
  BY <1>2, <1>3
<1>5. /\ F \subseteq 0 .. HeapEnd
      /\ \A a \in F \ {0} : h[a].size \in Nat
  BY LooseFacts
<1>6. p \in Nat /\ h[p].size \in Nat
  <2>1. p \in F \ {0}
    BY <1>3, <1>4
  <2>2. p \in 0 .. HeapEnd
    <3>1. F \subseteq 0 .. HeapEnd
      BY <1>5
    <3> QED BY <2>1, <3>1, Zenon
  <2>3. h[p].size \in Nat
    BY <1>5, <2>1, Zenon
  <2> QED BY <2>2, <2>3
<1>7. CASE h[p].size = n
  <2>1. at = p
    BY <1>6, <1>7
  <2> DEFINE m == [h EXCEPT ![prev].ptr = h[p].ptr, ![p].ptr = 0]
  <2>2. heap' = m
    BY <1>1, <1>7
  <2> HIDE DEF m
  <2>3. Loose(m, F \ {p}, live \cup {p}, end, {})
    BY <1>3, <1>4, TakeAll DEF m
  <2>4. prev \in F \ {p}
    <3>1. Follows(F, prev, p)
      BY <1>2, <1>3 DEF Linked
    <3>2. prev \in Nat
      <4>1. F \subseteq 0 .. HeapEnd /\ prev \in F
        BY <1>3, <1>5
      <4> QED BY <4>1
    <3> QED BY <1>3, <1>4, <1>6, <3>1, <3>2 DEF Follows
  <2> WITNESS F \ {p}
  <2> QED BY <1>1, <2>1, <2>2, <2>3, <2>4
<1>8. CASE h[p].size # n
  <2>1. h[p].size > n
    BY <1>3, <1>6, <1>8
  <2> DEFINE m == [h EXCEPT ![p].size = h[p].size - n, ![at] = [ptr |-> 0, size |-> n]]
  <2>2. heap' = m
    BY <1>1, <1>8
  <2> HIDE DEF m
  <2>3. Loose(m, F, live \cup {at}, end, {})
    BY <1>3, <1>4, <2>1, TakeSplits DEF m
  <2> HIDE DEF at
  <2> WITNESS F
  <2> QED BY <1>1, <1>3, <2>2, <2>3
<1> QED BY <1>7, <1>8

\* morecore() puts a new block at the end of the heap.
Grow(k, h, end, nu) == k = [h EXCEPT ![end] = [ptr |-> 0, size |-> nu]]

LEMMA GrowsHeap ==
  ASSUME HeapEnd \in Nat, NEW h, NEW F, NEW L, NEW end \in 1 .. HeapEnd + 1, Loose(h, F, L, end, {}),
         NEW nu \in Nat, nu >= 1, end + nu - 1 <= HeapEnd,
         NEW m, Grow(m, h, end, nu)
  PROVE  Taken(m, F, L, end, end + nu) /\ m[end].size = nu
<1> DEFINE B == (F \ {0}) \cup L
           C == B \cup {end}
           N == [ptr |-> 0, size |-> nu]
<1>1. /\ h = [c \in 0 .. HeapEnd |-> h[c]]
      /\ F \subseteq 0 .. HeapEnd /\ 0 \in F /\ h[0].size = 0
      /\ \A c \in F : h[c].ptr \in F /\ Follows(F, c, h[c].ptr)
  BY LooseFacts
<1>2. Tiled(h, B, end) /\ F \cap L = {} /\ Headers(h) /\ \A a \in F \ {0} : a + h[a].size \notin F
  BY DEF Loose
<1> HIDE DEF N
<1>3. m = [c \in 0 .. HeapEnd |-> IF c = end THEN N ELSE h[c]]
  BY <1>1 DEF N, Grow
<1>4. end \in 0 .. HeapEnd /\ m[end] = N /\ \A c \in 0 .. HeapEnd : c # end => m[c] = h[c]
  BY <1>3
<1>5. N.size = nu /\ N \in [ptr : 0 .. HeapEnd, size : Nat]
  BY DEF N
<1>6. Headers(m)
  <2>1. \A c \in 0 .. HeapEnd : h[c] \in [ptr : 0 .. HeapEnd, size : Nat]
    BY <1>2 DEF Headers
  <2> QED BY <1>3, <1>5, <2>1 DEF Headers
<1> HIDE DEF B
<1>7. \A c \in B : c \in 1 .. end - 1 /\ c \in 0 .. HeapEnd /\ c # end /\ m[c] = h[c]
  <2> TAKE c \in B
  <2>1. c \in 1 .. end - 1
    BY <1>2 DEF Tiled
  <2>2. c \in 0 .. HeapEnd /\ c # end
    BY <2>1
  <2> QED BY <1>4, <2>1, <2>2
<1>8. end \notin F /\ end \notin L
  <2>1. end \notin B /\ end # 0
    BY <1>7
  <2> QED BY <2>1 DEF B
<1>9. \A c \in F : m[c] = h[c]
  <2> TAKE c \in F
  <2>1. c \in 0 .. HeapEnd /\ c # end
    BY <1>1, <1>8
  <2> QED BY <1>4, <2>1
<1>10. Linked(m, F)
  <2>1. m[0] = h[0]
    BY <1>1, <1>9
  <2> QED BY <1>1, <1>9, <2>1 DEF Linked
<1>11. \A a \in F \ {0} : a + m[a].size \notin F
  BY <1>2, <1>9
<1>12. Tiled(m, C, end + nu)
  <2>1. \A a \in B : a \in 1 .. end - 1 /\ h[a].size \in Int /\ h[a].size >= 1 /\ a + h[a].size <= end
    <3>1. \A a \in B : h[a].size \in Int
      BY <1>2, <1>7 DEF Headers
    <3> QED BY <1>2, <3>1 DEF Tiled
  <2>2. ASSUME NEW a \in C PROVE a \in 1 .. (end + nu) - 1 /\ m[a].size >= 1 /\ a + m[a].size <= end + nu
    <3>1. CASE a \in B
      BY <1>7, <2>1, <3>1
    <3>2. CASE a = end
      BY <1>4, <1>5, <3>2
    <3> QED BY <3>1, <3>2
  <2>3. ASSUME NEW a \in C, NEW b \in C, a < b PROVE a + m[a].size <= b
    <3>1. a \in B
      <4>1. a = end => b \in 1 .. end - 1 \/ b = end
        BY <1>7
      <4> QED BY <2>3, <4>1
    <3>2. CASE b \in B
      <4>1. \A c, d \in B : c < d => c + h[c].size <= d
        BY <1>2 DEF Tiled
      <4> QED BY <1>7, <2>3, <3>1, <3>2, <4>1
    <3>3. CASE b = end
      BY <1>7, <2>1, <3>1, <3>3
    <3> QED BY <3>2, <3>3
  <2>4. ASSUME NEW x \in 1 .. (end + nu) - 1 PROVE \E a \in C : a <= x /\ x < a + m[a].size
    <3>1. CASE x < end
      <4>1. x \in 1 .. end - 1
        BY <3>1
      <4>2. PICK a \in B : a <= x /\ x < a + h[a].size
        BY <1>2, <4>1 DEF Tiled
      <4> QED BY <1>7, <4>2
    <3>2. CASE ~ x < end
      <4>1. end <= x /\ x < end + m[end].size
        BY <1>4, <1>5, <3>2
      <4> QED BY <4>1
    <3> QED BY <3>1, <3>2
  <2> HIDE DEF C
  <2> QED BY <2>2, <2>3, <2>4 DEF Tiled
<1>13. m[end].size = nu
  BY <1>4, <1>5
<1> HIDE DEF C
<1> QED BY <1>2, <1>6, <1>8, <1>10, <1>11, <1>12, <1>13 DEF Taken, B, C

\* The list, the blocks handed out and the end of the heap, as they are.
Held(F) == brk \in 1 .. HeapEnd + 1 /\ Loose(heap, F, live, brk, {})
Walking(F) == freep \in F \/ (freep = -1 /\ brk = 1)

LEMMA HoldsIs ==
  ASSUME NEW F
  PROVE  HeapHolds(F) <=> Held(F) /\ Walking(F)
BY DEF HeapHolds, Held, Walking, Loose, Headers

\* FreeBlocks, found by walking from freep, is the list.
LEMMA BlocksAre ==
  ASSUME HeapEnd \in Nat, NEW F, Held(F), Walking(F)
  PROVE  FreeBlocks \cup {0} = F /\ (freep = -1 => F = {0} /\ live = {})
<1>1. Linked(heap, F) /\ 0 \in F /\ F \subseteq 0 .. HeapEnd /\ Tiled(heap, (F \ {0}) \cup live, brk)
  BY DEF Held, Loose, Linked
<1>2. CASE freep \in F
  <2>1. freep # -1
    BY <1>1, <1>2
  <2>2. F = {Nth(heap, freep)[i] : i \in 0 .. HeapEnd + 1}
    BY <1>1, <1>2, RoundIsAll
  <2> QED BY <1>1, <2>1, <2>2 DEF FreeBlocks
<1>3. CASE freep = -1 /\ brk = 1
  <2> DEFINE B == (F \ {0}) \cup live
  <2>1. B = {}
    <3> HIDE DEF B
    <3>1. \A a \in B : a \in 1 .. 1 - 1
      BY <1>1, <1>3 DEF Tiled, B
    <3> QED BY <3>1
  <2>2. F = {0} /\ live = {}
    BY <1>1, <2>1
  <2> QED BY <1>3, <2>2 DEF FreeBlocks
<1> QED BY <1>2, <1>3 DEF Walking

Keeping == \E F : Held(F) /\ Walking(F)

LEMMA HeapInvIs == HeapInv <=> Keeping
<1> USE UmallocAssumption
<1> SUFFICES HeapInv <=> \E F : Held(F) /\ Walking(F)
  BY DEF Keeping
<1>1. ASSUME HeapInv PROVE \E F : Held(F) /\ Walking(F)
  BY <1>1, HoldsIs DEF HeapInv
<1>2. ASSUME NEW F, Held(F), Walking(F) PROVE HeapInv
  <2>1. HeapHolds(F) /\ FreeBlocks \cup {0} = F
    BY <1>2, HoldsIs, BlocksAre
  <2> QED BY <2>1 DEF HeapInv
<1> QED BY <1>1, <1>2

\* malloc() keeps this: it takes from a block of the list, or first grows the
\* heap and frees the new block, or fails.
LEMMA MallocHolds ==
  ASSUME HeapEnd \in Nat, MinCore \in Nat \ {0}, NEW F, Held(F), Walking(F),
         NEW n \in Nat \ {0}, malloc(n)
  PROVE  \E G : Held(G)' /\ Walking(G)'
<1> DEFINE start == IF freep = -1 THEN 0 ELSE freep
           nu == IF n < MinCore THEN MinCore ELSE n
           more == [heap EXCEPT ![brk] = [ptr |-> 0, size |-> nu]]
           grown == Freed(more, start, brk)
<1>1. start \in F /\ Linked(heap, F) /\ Loose(heap, F, live, brk, {}) /\ brk \in 1 .. HeapEnd + 1
  BY BlocksAre DEF Held, Walking, Loose, Linked
<1>2. nu \in Nat /\ nu >= 1 /\ nu >= n /\ n \in Nat /\ n >= 1
  OBVIOUS
<1>3. \/ Fits(heap, start, n) # {} /\ Take(heap, start, n) /\ brk' = brk
      \/ brk + nu - 1 <= HeapEnd /\ brk' = brk + nu /\ Take(grown.heap, grown.freep, n)
      \/ freep' = start /\ heap' = heap /\ brk' = brk /\ live' = live
  BY DEF malloc
<1> HIDE DEF start, nu, more, grown
<1>4. ASSUME NEW end \in 1 .. HeapEnd + 1, brk' = end,
             \E G : Loose(heap', G, live', end, {}) /\ freep' \in G
      PROVE  \E G : Held(G)' /\ Walking(G)'
  BY <1>4 DEF Held, Walking
<1>5. CASE Fits(heap, start, n) # {} /\ Take(heap, start, n) /\ brk' = brk
  <2>1. \E G : Loose(heap', G, live', brk, {}) /\ freep' \in G
    BY <1>1, <1>2, <1>5, TakeHolds
  <2> QED BY <1>1, <1>4, <1>5, <2>1
<1>6. CASE brk + nu - 1 <= HeapEnd /\ brk' = brk + nu /\ Take(grown.heap, grown.freep, n)
  <2>1. brk \in 1 .. HeapEnd /\ brk + nu \in 1 .. HeapEnd + 1
    BY <1>1, <1>2, <1>6
  <2>2. Taken(more, F, live, brk, brk + nu) /\ more[brk].size = nu
    <3>1. Grow(more, heap, brk, nu)
      BY DEF more, Grow
    <3>2. brk + nu - 1 <= HeapEnd
      BY <1>6
    <3>3. Loose(heap, F, live, brk, {}) /\ brk \in 1 .. HeapEnd + 1 /\ nu \in Nat /\ nu >= 1
      BY <1>1, <1>2
    <3> QED BY <3>1, <3>2, <3>3, GrowsHeap
  <2>3. PICK G : /\ Loose(grown.heap, G, live, brk + nu, {}) /\ grown.freep \in G
                 /\ \E y \in G : y # 0 /\ grown.heap[y].size >= more[brk].size
    BY <1>1, <2>1, <2>2, FreedHolds DEF grown
  <2>4. PICK y \in G : y # 0 /\ grown.heap[y].size >= nu
    BY <2>2, <2>3
  <2>5. grown.heap[y].size >= n
    <3>1. grown.heap[y].size \in Nat
      BY <2>1, <2>3, <2>4, LooseFacts
    <3> QED BY <1>2, <2>4, <3>1
  <2>6. Linked(grown.heap, G)
    BY <2>3 DEF Loose
  <2>7. Fits(grown.heap, grown.freep, n) # {}
    BY <1>2, <2>3, <2>5, <2>6, FitsSome
  <2>8. \E H : Loose(heap', H, live', brk + nu, {}) /\ freep' \in H
    BY <1>2, <1>6, <2>1, <2>3, <2>7, TakeHolds
  <2> QED BY <1>4, <1>6, <2>1, <2>8
<1>7. CASE freep' = start /\ heap' = heap /\ brk' = brk /\ live' = live
  BY <1>1, <1>4, <1>7
<1> QED BY <1>3, <1>5, <1>6, <1>7

\* free() keeps it: the block goes from live to the list.
LEMMA FreeHolds ==
  ASSUME HeapEnd \in Nat, NEW F, Held(F), Walking(F), NEW bp, free(bp)
  PROVE  \E G : Held(G)' /\ Walking(G)'
<1> DEFINE L == live \ {bp}
           B == (F \ {0}) \cup live
           f == Freed(heap, freep, bp)
<1>1. /\ bp \in live /\ heap' = f.heap /\ freep' = f.freep /\ live' = L /\ brk' = brk
  BY DEF free
<1> HIDE DEF f
<1>2. freep \in F
  BY <1>1, BlocksAre DEF Walking
<1>3. /\ Headers(heap) /\ Linked(heap, F) /\ F \cap live = {} /\ Tiled(heap, B, brk)
      /\ brk \in 1 .. HeapEnd + 1 /\ \A a \in F \ {0} : a + heap[a].size \notin F
  BY DEF Held, Loose
<1>4. B = ((F \ {0}) \cup L) \cup {bp}
  BY <1>1
<1>5. bp \in 1 .. HeapEnd
  <2>1. bp \in B
    BY <1>1
  <2> HIDE DEF B
  <2>2. bp \in 1 .. brk - 1
    BY <1>3, <2>1 DEF Tiled
  <2> QED BY <1>3, <2>2
<1> HIDE DEF B
<1>6. Taken(heap, F, L, bp, brk)
  BY <1>1, <1>3, <1>4 DEF Taken
<1> HIDE DEF L
<1>7. PICK G : Loose(f.heap, G, L, brk, {}) /\ f.freep \in G
  BY <1>2, <1>3, <1>5, <1>6, FreedHolds DEF f
<1> QED BY <1>1, <1>3, <1>7 DEF Held, Walking

\* In any order of calls the free blocks are linked in the order of their
\* addresses and round, and with the blocks handed out they make up the heap
\* without a gap: the invariant that malloc() and free() keep.
THEOREM HeapInvariant == UmallocInit /\ [][UmallocNext]_umallocVars => []HeapInv
<1>1. HeapEnd \in Nat /\ MinCore \in Nat \ {0} /\ Units \subseteq Nat \ {0}
  BY UmallocAssumption
<1>2. UmallocInit => HeapInv
  <2> SUFFICES ASSUME UmallocInit PROVE HeapInv
    OBVIOUS
  <2>1. heap = [a \in 0 .. HeapEnd |-> NoHeader] /\ freep = -1 /\ brk = 1 /\ live = {}
    BY DEF UmallocInit
  <2>2. \A a \in 0 .. HeapEnd : heap[a].ptr = 0 /\ heap[a].size = 0
    BY <2>1 DEF NoHeader
  <2>3. Headers(heap)
    BY <1>1, <2>1 DEF Headers, NoHeader
  <2>4. Linked(heap, {0})
    BY <1>1, <2>2 DEF Linked, Follows
  <2>5. Tiled(heap, ({0} \ {0}) \cup live, brk)
    BY <2>1 DEF Tiled
  <2>6. Held({0}) /\ Walking({0})
    BY <1>1, <2>1, <2>3, <2>4, <2>5 DEF Held, Walking, Loose
  <2> QED BY <1>1, <2>6, HeapInvIs DEF Keeping
<1>4. (HeapInv <=> Keeping)'
  BY HeapInvIs, PTL
<1>3. HeapInv /\ [UmallocNext]_umallocVars => HeapInv'
  <2> SUFFICES ASSUME HeapInv, [UmallocNext]_umallocVars PROVE HeapInv'
    OBVIOUS
  <2>1. PICK F : Held(F) /\ Walking(F)
    BY <1>1, HeapInvIs DEF Keeping
  <2>2. \E G : Held(G)' /\ Walking(G)'
    <3>1. ASSUME NEW n \in Units, malloc(n) PROVE \E G : Held(G)' /\ Walking(G)'
      BY <1>1, <2>1, <3>1, MallocHolds
    <3>2. ASSUME NEW bp \in live, free(bp) PROVE \E G : Held(G)' /\ Walking(G)'
      BY <1>1, <2>1, <3>2, FreeHolds
    <3>3. CASE UNCHANGED umallocVars
      BY <2>1, <3>3 DEF umallocVars, Held, Walking
    <3> QED BY <3>1, <3>2, <3>3 DEF UmallocNext
  <2> QED BY <1>1, <1>4, <2>2 DEF Keeping
<1> QED BY <1>2, <1>3, PTL

\* The list comes round at its greatest address, and only there.
LEMMA RoundOnce ==
  ASSUME HeapEnd \in Nat, NEW h, NEW F, Linked(h, F)
  PROVE  Cardinality({a \in F : h[a].ptr <= a}) = 1
<1>1. /\ F \subseteq 0 .. HeapEnd /\ 0 \in F
      /\ \A a \in F : h[a].ptr \in F /\ Follows(F, a, h[a].ptr)
  BY DEF Linked
<1>2. PICK g \in F : \A a \in F : a <= g
  BY <1>1, GreatestOf
<1>3. F \subseteq Nat
  BY <1>1
<1>4. h[g].ptr <= g
  <2>1. h[g].ptr \in F
    BY <1>1
  <2> QED BY <1>2, <2>1
<1>5. ASSUME NEW a \in F, h[a].ptr <= a PROVE a = g
  <2> DEFINE x == h[a].ptr
  <2>1. Follows(F, a, x) /\ x \in F /\ x <= a
    BY <1>1, <1>5
  <2> HIDE DEF x
  <2>2. \A b \in F : b <= a
    BY <1>3, <2>1 DEF Follows
  <2>3. g <= a /\ a <= g /\ a \in Nat /\ g \in Nat
    BY <1>2, <1>3, <2>2
  <2> QED BY <2>3
<1>6. {a \in F : h[a].ptr <= a} = {g}
  BY <1>4, <1>5
<1> QED BY <1>6, FS_Singleton

\* The heap is made up of the blocks of the list and the ones handed out,
\* no two overlap, no two neighbours are left unjoined, and the list goes
\* round once: what malloc() and free() rely on, in any order of calls.
THEOREM HeapStaysSound == UmallocInit /\ [][UmallocNext]_umallocVars => []HeapSound
<1>1. HeapInv => HeapSound
  <2> SUFFICES ASSUME HeapInv PROVE HeapSound
    OBVIOUS
  <2>1. HeapEnd \in Nat
    BY UmallocAssumption
  <2> DEFINE F == FreeBlocks \cup {0}
             B == live \cup FreeBlocks
  <2>2. /\ brk \in 1 .. HeapEnd + 1 /\ Headers(heap) /\ Linked(heap, F)
        /\ Tiled(heap, (F \ {0}) \cup live, brk)
        /\ \A a \in F \ {0} : a + heap[a].size \notin F
    BY DEF HeapInv, HeapHolds, Headers
  <2>3. 0 \notin FreeBlocks
    BY DEF FreeBlocks
  <2>4. (F \ {0}) \cup live = B /\ FreeBlocks = F \ {0}
    BY <2>3
  <2> HIDE DEF F, B
  <2>5. /\ \A a \in B : a \in 1 .. brk - 1 /\ heap[a].size >= 1 /\ a + heap[a].size <= brk
        /\ \A a, b \in B : a < b => a + heap[a].size <= b
        /\ \A x \in 1 .. brk - 1 : \E a \in B : a <= x /\ x < a + heap[a].size
    BY <2>2, <2>4 DEF Tiled
  <2>6. \A a \in B : a \in Nat /\ heap[a].size \in Nat
    <3> TAKE a \in B
    <3>1. a \in 0 .. HeapEnd
      BY <2>1, <2>2, <2>5
    <3> QED BY <2>2, <3>1 DEF Headers
  <2>7. brk \in Nat
    BY <2>2
  <2>8. UNION {Extent(a) : a \in B} = 1 .. brk - 1
    <3>1. ASSUME NEW x \in UNION {Extent(a) : a \in B} PROVE x \in 1 .. brk - 1
      <4>1. PICK a \in B : x \in a .. a + heap[a].size - 1
        BY <3>1 DEF Extent
      <4> QED BY <2>5, <2>6, <2>7, <4>1
    <3>2. ASSUME NEW x \in 1 .. brk - 1 PROVE x \in UNION {Extent(a) : a \in B}
      <4>1. PICK a \in B : a <= x /\ x < a + heap[a].size
        BY <2>5
      <4>2. x \in Extent(a)
        BY <2>6, <4>1 DEF Extent
      <4> QED BY <4>2
    <3> QED BY <3>1, <3>2
  <2>9. ASSUME NEW a \in B, NEW b \in B, a # b PROVE Extent(a) \cap Extent(b) = {}
    <3>1. a + heap[a].size <= b \/ b + heap[b].size <= a
      BY <2>5, <2>6, <2>9
    <3>2. a \in Nat /\ b \in Nat /\ heap[a].size \in Nat /\ heap[b].size \in Nat
      BY <2>6
    <3> QED BY <3>1, <3>2 DEF Extent
  <2>10. \A a \in FreeBlocks : a + heap[a].size \notin FreeBlocks
    BY <2>2, <2>4
  <2>11. Cardinality({a \in F : heap[a].ptr <= a}) = 1
    BY <2>1, <2>2, RoundOnce
  <2> QED BY <2>8, <2>9, <2>10, <2>11 DEF HeapSound, B, F
<1> QED BY <1>1, HeapInvariant, PTL

-----------------------------------------------------------------------------
(* The editor: lines *)

\* No newline among the characters a + 1 to b.
Plain(a, b) == \A i \in a + 1 .. b : text[i] # NL
Newline(i) == text[i] = NL

LEMMA StartIs ==
  ASSUME NEW pos \in Nat
  PROVE  LET s == lineStart(pos)
         IN  s \in 0 .. pos /\ (s # 0 => Newline(s)) /\ Plain(s, pos)
<1> DEFINE S == {0} \cup {i \in 1 .. pos : text[i] = NL}
           s == lineStart(pos)
<1>1. S \subseteq 0 .. pos /\ S # {}
  OBVIOUS
<1>2. s = Max(S)
  BY DEF lineStart
<1> HIDE DEF S
<1>3. Max(S) \in S /\ \A x \in S : Max(S) >= x
  BY <1>1, MaxOf
<1> HIDE DEF s
<1>4. s \in S /\ \A x \in S : s >= x
  BY <1>2, <1>3
<1>5. s \in 0 .. pos /\ (s # 0 => Newline(s))
  BY <1>4 DEF S, Newline
<1>6. Plain(s, pos)
  <2> SUFFICES ASSUME NEW i \in s + 1 .. pos, text[i] = NL PROVE FALSE
    BY DEF Plain
  <2>1. i \in S
    BY <1>5 DEF S
  <2> QED BY <1>4, <1>5, <2>1
<1> QED BY <1>5, <1>6 DEF s

LEMMA StartUnique ==
  ASSUME NEW pos \in Nat, NEW s \in 0 .. pos, s # 0 => Newline(s), Plain(s, pos)
  PROVE  lineStart(pos) = s
<1> DEFINE t == lineStart(pos)
<1>1. t \in 0 .. pos /\ (t # 0 => Newline(t)) /\ Plain(t, pos)
  BY StartIs
<1> HIDE DEF t
<1>2. ~ s < t
  <2> SUFFICES ASSUME s < t PROVE FALSE
    OBVIOUS
  <2>1. t \in s + 1 .. pos /\ t # 0
    BY <1>1
  <2> QED BY <1>1, <2>1 DEF Plain, Newline
<1>3. ~ t < s
  <2> SUFFICES ASSUME t < s PROVE FALSE
    OBVIOUS
  <2>1. s \in t + 1 .. pos /\ s # 0
    BY <1>1
  <2> QED BY <1>1, <2>1 DEF Plain, Newline
<1> QED BY <1>1, <1>2, <1>3 DEF t

LEMMA EndIs ==
  ASSUME NEW n \in Nat, n = Len(text), NEW pos \in 0 .. n
  PROVE  LET e == lineEnd(pos)
         IN  e \in pos .. n /\ (e # n => Newline(e + 1)) /\ Plain(pos, e)
<1> DEFINE S == {n} \cup {i \in pos .. n - 1 : text[i + 1] = NL}
           e == lineEnd(pos)
<1>1. S \subseteq Nat /\ S # {}
  OBVIOUS
<1>2. e = Min(S)
  BY DEF lineEnd
<1> HIDE DEF S
<1>3. Min(S) \in S /\ \A x \in S : Min(S) <= x
  BY <1>1, MinOf
<1> HIDE DEF e
<1>4. e \in S /\ \A x \in S : e <= x
  BY <1>2, <1>3
<1>5. e \in pos .. n /\ (e # n => Newline(e + 1))
  BY <1>4 DEF S, Newline
<1>6. Plain(pos, e)
  <2> SUFFICES ASSUME NEW i \in pos + 1 .. e, text[i] = NL PROVE FALSE
    BY DEF Plain
  <2>1. i - 1 \in pos .. n - 1 /\ (i - 1) + 1 = i
    BY <1>5
  <2>2. i - 1 \in S
    BY <2>1 DEF S
  <2> QED BY <1>4, <1>5, <2>2
<1> QED BY <1>5, <1>6 DEF e

LEMMA EndUnique ==
  ASSUME NEW n \in Nat, n = Len(text), NEW pos \in 0 .. n,
         NEW e \in pos .. n, e # n => Newline(e + 1), Plain(pos, e)
  PROVE  lineEnd(pos) = e
<1> DEFINE f == lineEnd(pos)
<1>1. f \in pos .. n /\ (f # n => Newline(f + 1)) /\ Plain(pos, f)
  BY EndIs
<1> HIDE DEF f
<1>2. ~ e < f
  <2> SUFFICES ASSUME e < f PROVE FALSE
    OBVIOUS
  <2>1. e + 1 \in pos + 1 .. f /\ e # n
    BY <1>1
  <2> QED BY <1>1, <2>1 DEF Plain, Newline
<1>3. ~ f < e
  <2> SUFFICES ASSUME f < e PROVE FALSE
    OBVIOUS
  <2>1. f + 1 \in pos + 1 .. e /\ f # n
    BY <1>1
  <2> QED BY <1>1, <2>1 DEF Plain, Newline
<1> QED BY <1>1, <1>2, <1>3 DEF f

\* The lines above a position, counted by their newlines.
LEMMA LinesFinite ==
  ASSUME NEW pos \in Nat
  PROVE  IsFiniteSet({i \in 1 .. pos : text[i] = NL})
<1>1. IsFiniteSet(1 .. pos)
  BY FS_Interval
<1>2. {i \in 1 .. pos : text[i] = NL} \subseteq 1 .. pos
  OBVIOUS
<1> QED BY <1>1, <1>2, FS_Subset

LEMMA LineNat ==
  ASSUME NEW pos \in Nat
  PROVE  LineNo(pos) \in Nat
BY LinesFinite, FS_CardinalityType DEF LineNo

LEMMA LineZero == LineNo(0) = 0
<1>1. {i \in 1 .. 0 : text[i] = NL} = {}
  OBVIOUS
<1> QED BY <1>1, FS_EmptySet DEF LineNo

LEMMA LinePlain ==
  ASSUME NEW a \in Nat, NEW b \in Nat, a <= b, Plain(a, b)
  PROVE  LineNo(b) = LineNo(a)
<1>1. {i \in 1 .. a : text[i] = NL} = {i \in 1 .. b : text[i] = NL}
  <2>1. ASSUME NEW i \in 1 .. b, text[i] = NL PROVE i \in 1 .. a
    BY <2>1 DEF Plain
  <2> QED BY <2>1
<1> QED BY <1>1 DEF LineNo

LEMMA LineStep ==
  ASSUME NEW a \in Nat, Newline(a + 1)
  PROVE  LineNo(a + 1) = LineNo(a) + 1
<1> DEFINE S == {i \in 1 .. a : text[i] = NL}
<1>1. {i \in 1 .. a + 1 : text[i] = NL} = S \cup {a + 1}
  BY DEF Newline
<1>2. IsFiniteSet(S) /\ a + 1 \notin S
  BY LinesFinite
<1> HIDE DEF S
<1>3. Cardinality(S \cup {a + 1}) = Cardinality(S) + 1
  BY <1>2, FS_AddElement
<1> QED BY <1>1, <1>3 DEF LineNo, S

LEMMA LineMono ==
  ASSUME NEW a \in Nat, NEW b \in Nat, a <= b
  PROVE  LineNo(a) <= LineNo(b)
<1>1. {i \in 1 .. a : text[i] = NL} \subseteq {i \in 1 .. b : text[i] = NL}
  OBVIOUS
<1> QED BY <1>1, LinesFinite, FS_Subset DEF LineNo

\* Where the keys up and down take the cursor.
Upwards(pos, u, n) ==
  /\ u \in 0 .. n
  /\ LineNo(pos) = 0 => u = 0
  /\ LineNo(pos) > 0 => /\ LineNo(u) = LineNo(pos) - 1
                        /\ Column(u) = Least(Column(pos), lineEnd(u) - lineStart(u))

Downwards(pos, d, n) ==
  /\ d \in 0 .. n
  /\ LineNo(pos) >= LineNo(n) => d = n
  /\ LineNo(pos) < LineNo(n) => /\ LineNo(d) = LineNo(pos) + 1
                                /\ Column(d) = Least(Column(pos), lineEnd(d) - lineStart(d))

LEMMA PlainPart ==
  ASSUME NEW a \in Nat, NEW b \in Nat, Plain(a, b), NEW c \in Nat, NEW d \in Nat, a <= c, d <= b
  PROVE  Plain(c, d)
BY DEF Plain

LEMMA UpIs ==
  ASSUME NEW n \in Nat, n = Len(text), NEW pos \in 0 .. n
  PROVE  Upwards(pos, up(pos), n)
<1> DEFINE s == lineStart(pos)
           p == lineStart(s - 1)
           u == IF s = 0 THEN 0 ELSE p + Least(pos - s, s - 1 - p)
<1>1. up(pos) = u
  BY DEF up
<1>2. s \in 0 .. pos /\ (s # 0 => Newline(s)) /\ Plain(s, pos) /\ pos \in Nat
  BY StartIs
<1>3. LineNo(pos) = LineNo(s) /\ LineNo(s) \in Nat /\ LineNo(0) = 0 /\ Column(pos) = pos - s
  BY <1>2, LinePlain, LineNat, LineZero DEF Column
<1>4. CASE s = 0
  <2>1. u = 0 /\ LineNo(pos) = 0
    BY <1>3, <1>4
  <2> HIDE DEF u
  <2> QED BY <1>1, <2>1 DEF Upwards
<1>5. CASE s # 0
  <2>1. s - 1 \in Nat /\ (s - 1) + 1 = s /\ s - 1 < n
    BY <1>2, <1>5
  <2>2. p \in 0 .. s - 1 /\ (p # 0 => Newline(p)) /\ Plain(p, s - 1)
    BY <2>1, StartIs
  <2> HIDE DEF s, p
  <2>3. LineNo(s) = LineNo(s - 1) + 1 /\ LineNo(s - 1) = LineNo(p) /\ LineNo(p) \in Nat
    <3>1. LineNo((s - 1) + 1) = LineNo(s - 1) + 1
      BY <1>2, <1>5, <2>1, LineStep
    <3> QED BY <2>1, <2>2, <3>1, LinePlain, LineNat
  <2>4. u \in p .. s - 1 /\ u \in 0 .. n /\ u - p = Least(pos - s, s - 1 - p)
    BY <1>2, <1>5, <2>1, <2>2 DEF Least
  <2> HIDE DEF u
  <2>5. Plain(p, u) /\ Plain(u, s - 1)
    BY <2>1, <2>2, <2>4, PlainPart
  <2>6. lineStart(u) = p
    BY <2>2, <2>4, <2>5, StartUnique
  <2>7. lineEnd(u) = s - 1
    BY <1>2, <1>5, <2>1, <2>4, <2>5, EndUnique
  <2>8. LineNo(u) = LineNo(p)
    BY <2>2, <2>4, <2>5, LinePlain
  <2>9. LineNo(pos) > 0 /\ LineNo(u) = LineNo(pos) - 1
    BY <1>3, <2>3, <2>8
  <2>10. Column(u) = Least(Column(pos), lineEnd(u) - lineStart(u))
    BY <1>3, <2>4, <2>6, <2>7 DEF Column
  <2> QED BY <1>1, <2>4, <2>9, <2>10 DEF Upwards
<1> QED BY <1>4, <1>5

LEMMA DownIs ==
  ASSUME NEW n \in Nat, n = Len(text), NEW pos \in 0 .. n
  PROVE  Downwards(pos, down(pos), n)
<1> DEFINE s == lineStart(pos)
           e == lineEnd(pos)
           f == lineEnd(e + 1)
           d == IF e = n THEN n ELSE e + 1 + Least(pos - s, f - (e + 1))
<1>1. down(pos) = d
  BY DEF down
<1>2. e \in pos .. n /\ (e # n => Newline(e + 1)) /\ Plain(pos, e) /\ pos \in Nat
  BY EndIs
<1>3. LineNo(e) = LineNo(pos) /\ LineNo(pos) \in Nat /\ LineNo(n) \in Nat /\ Column(pos) = pos - s
  BY <1>2, LinePlain, LineNat, LineZero DEF Column
<1>4. s \in 0 .. pos
  BY <1>2, StartIs
<1>5. CASE e = n
  <2>1. d = n /\ LineNo(pos) = LineNo(n)
    BY <1>3, <1>5
  <2> HIDE DEF d
  <2> QED BY <1>1, <1>3, <2>1 DEF Downwards
<1>6. CASE e # n
  <2>1. e + 1 \in 0 .. n /\ e + 1 \in Nat /\ e \in Nat
    BY <1>2, <1>6
  <2>2. f \in e + 1 .. n /\ (f # n => Newline(f + 1)) /\ Plain(e + 1, f)
    BY <2>1, EndIs
  <2> HIDE DEF s, e, f
  <2>3. LineNo(e + 1) = LineNo(pos) + 1
    BY <1>2, <1>3, <1>6, <2>1, LineStep
  <2>4. d \in e + 1 .. f /\ d \in 0 .. n /\ d - (e + 1) = Least(pos - s, f - (e + 1))
    BY <1>2, <1>4, <1>6, <2>1, <2>2 DEF Least
  <2> HIDE DEF d
  <2>5. Plain(e + 1, d) /\ Plain(d, f)
    BY <2>1, <2>2, <2>4, PlainPart
  <2>6. lineStart(d) = e + 1
    <3>1. d \in Nat /\ e + 1 \in 0 .. d
      BY <2>1, <2>4
    <3> QED BY <1>2, <1>6, <2>5, <3>1, StartUnique
  <2>7. lineEnd(d) = f
    <3>1. f \in d .. n
      BY <2>2, <2>4
    <3> QED BY <2>2, <2>4, <2>5, <3>1, EndUnique
  <2>8. LineNo(d) = LineNo(e + 1)
    BY <2>1, <2>4, <2>5, LinePlain
  <2>9. LineNo(e + 1) <= LineNo(n)
    BY <2>1, LineMono
  <2>10. LineNo(pos) < LineNo(n) /\ LineNo(d) = LineNo(pos) + 1
    BY <1>3, <2>3, <2>8, <2>9
  <2>11. Column(d) = Least(Column(pos), lineEnd(d) - lineStart(d))
    BY <1>3, <2>4, <2>6, <2>7 DEF Column
  <2> QED BY <1>1, <1>3, <2>4, <2>10, <2>11 DEF Downwards
<1> QED BY <1>5, <1>6

\* A page is the key for a line, so many times.
Paged(at, g, pos, k) ==
  /\ at = [i \in 0 .. k |-> at[i]] /\ at[0] = pos
  /\ \A i \in 1 .. k : at[i] = g[at[i - 1]]

LEMMA PagedExists ==
  ASSUME NEW g, NEW pos, NEW n \in Nat
  PROVE  \E at : Paged(at, g, pos, n)
<1> DEFINE S == {m \in 0 .. n : ~ \E at : Paged(at, g, pos, m)}
<1> SUFFICES ASSUME S # {} PROVE FALSE
  OBVIOUS
<1>1. Paged([i \in 0 .. 0 |-> pos], g, pos, 0)
  BY DEF Paged
<1>2. 0 \notin S
  BY <1>1
<1>3. S \subseteq 0 .. n
  OBVIOUS
<1>4. PICK m \in S : m \in 1 .. n /\ m - 1 \in 0 .. n /\ m - 1 \notin S
  <2> HIDE DEF S
  <2> QED BY <1>2, <1>3, FirstFailure
<1>5. PICK at : Paged(at, g, pos, m - 1)
  BY <1>4
<1> DEFINE new == [i \in 0 .. m |-> IF i = m THEN g[at[m - 1]] ELSE at[i]]
<1>6. /\ m \in Nat \ {0} /\ m - 1 \in 0 .. m - 1 /\ 0 \in 0 .. m - 1 /\ 0 \in 0 .. m /\ 0 # m
      /\ \A i \in 0 .. m : i # m => i \in 0 .. m - 1
      /\ \A i \in 1 .. m : /\ i \in 0 .. m /\ i - 1 \in 0 .. m /\ i - 1 # m
                           /\ i # m => i \in 1 .. m - 1
  BY <1>4
<1>7. new[0] = pos
  BY <1>5, <1>6 DEF Paged
<1>8. \A i \in 1 .. m : new[i] = g[new[i - 1]]
  <2> TAKE i \in 1 .. m
  <2>1. new[i - 1] = at[i - 1]
    BY <1>6
  <2>2. CASE i = m
    BY <1>6, <2>1, <2>2
  <2>3. CASE i # m
    <3>1. new[i] = at[i] /\ i \in 1 .. m - 1
      BY <1>6, <2>3
    <3> HIDE DEF new
    <3> QED BY <1>5, <2>1, <3>1 DEF Paged
  <2> QED BY <2>2, <2>3
<1>9. new = [i \in 0 .. m |-> new[i]]
  OBVIOUS
<1>10. Paged(new, g, pos, m)
  <2> HIDE DEF new
  <2> QED BY <1>7, <1>8, <1>9 DEF Paged
<1> QED BY <1>4, <1>10

\* A page stays in the text.
LEMMA PagedIn ==
  ASSUME NEW n \in Nat, NEW g \in [0 .. n -> 0 .. n], NEW pos \in 0 .. n, NEW k \in Nat,
         NEW at, Paged(at, g, pos, k)
  PROVE  \A i \in 0 .. k : at[i] \in 0 .. n
<1> DEFINE S == {i \in 0 .. k : at[i] \notin 0 .. n}
<1>1. S \subseteq 0 .. k /\ 0 \notin S
  BY DEF Paged
<1>2. ASSUME NEW i \in S, i \in 1 .. k, i - 1 \in 0 .. k, i - 1 \notin S PROVE FALSE
  <2>1. at[i - 1] \in 0 .. n /\ at[i] = g[at[i - 1]] /\ at[i] \notin 0 .. n
    BY <1>2 DEF Paged
  <2> QED BY <2>1
<1>3. S = {}
  <2> HIDE DEF S
  <2> QED BY <1>1, <1>2, FirstFailure
<1> QED BY <1>3

LEMMA PgupIs ==
  ASSUME EditorAssumption, NEW n \in Nat, n = Len(text), NEW pos \in 0 .. n
  PROVE  /\ pgup(pos) \in 0 .. n
         /\ LineNo(pos) < PageLines => pgup(pos) = 0
         /\ LineNo(pos) >= PageLines => LineNo(pgup(pos)) = LineNo(pos) - PageLines
<1> DEFINE k == PageLines
           g == [p \in 0 .. n |-> up(p)]
           Eq(f) == f = [i \in 0 .. k |-> IF i = 0 THEN pos ELSE up(f[i - 1])]
           at == CHOOSE f : Eq(f)
<1>1. k \in Nat
  BY EditorAssumption
<1>2. g \in [0 .. n -> 0 .. n]
  BY UpIs DEF Upwards
<1>3. PICK f : Paged(f, g, pos, k)
  BY <1>1, PagedExists
<1>4. \A i \in 0 .. k : f[i] \in 0 .. n
  <2> HIDE DEF g
  <2> QED BY <1>1, <1>2, <1>3, PagedIn
<1>5. Eq(f)
  <2>1. f = [i \in 0 .. k |-> f[i]] /\ f[0] = pos /\ \A i \in 1 .. k : f[i] = g[f[i - 1]]
    BY <1>3 DEF Paged
  <2>2. ASSUME NEW i \in 0 .. k PROVE f[i] = IF i = 0 THEN pos ELSE up(f[i - 1])
    <3>1. CASE i = 0
      BY <2>1, <3>1
    <3>2. CASE i # 0
      <4>1. i \in 1 .. k /\ i - 1 \in 0 .. k
        BY <1>1, <3>2
      <4>2. f[i - 1] \in 0 .. n /\ f[i] = g[f[i - 1]]
        BY <1>4, <2>1, <4>1
      <4> QED BY <3>2, <4>2
    <3> QED BY <3>1, <3>2
  <2> HIDE DEF g
  <2> QED BY <2>1, <2>2
<1>6. Eq(at)
  <2> HIDE DEF Eq
  <2> QED BY <1>5
<1>7. pgup(pos) = at[k]
  BY DEF pgup
<1> HIDE DEF at
<1>8. at[0] = pos /\ \A i \in 1 .. k : at[i] = up(at[i - 1])
  <2>1. \A i \in 0 .. k : at[i] = IF i = 0 THEN pos ELSE up(at[i - 1])
    BY <1>6
  <2> QED BY <1>1, <2>1
<1> HIDE DEF Eq, g
<1> DEFINE Good(i) == /\ at[i] \in 0 .. n
                      /\ LineNo(pos) < i => at[i] = 0
                      /\ LineNo(pos) >= i => LineNo(at[i]) = LineNo(pos) - i
           S == {i \in 0 .. k : ~ Good(i)}
<1>9. LineNo(pos) \in Nat /\ LineNo(0) = 0
  BY LineNat, LineZero
<1>10. S \subseteq 0 .. k /\ 0 \notin S
  BY <1>8, <1>9
<1>11. ASSUME NEW i \in S, i \in 1 .. k, i - 1 \in 0 .. k, i - 1 \notin S PROVE FALSE
  <2> DEFINE a == at[i - 1]
             b == at[i]
  <2>1. Good(i - 1) /\ ~ Good(i)
    BY <1>11
  <2>2. b = up(a) /\ a \in 0 .. n
    BY <1>8, <1>11, <2>1
  <2>3. Upwards(a, b, n)
    BY <2>2, UpIs
  <2>4. /\ LineNo(pos) < i - 1 => a = 0
        /\ LineNo(pos) >= i - 1 => LineNo(a) = LineNo(pos) - (i - 1)
    BY <2>1
  <2>5. ~ (/\ b \in 0 .. n
           /\ LineNo(pos) < i => b = 0
           /\ LineNo(pos) >= i => LineNo(b) = LineNo(pos) - i)
    BY <2>1
  <2> HIDE DEF a, b, Good, S
  <2> QED BY <1>9, <1>11, <2>3, <2>4, <2>5 DEF Upwards
<1>12. S = {}
  <2> HIDE DEF S
  <2> QED BY <1>1, <1>10, <1>11, FirstFailure
<1>13. Good(k)
  BY <1>1, <1>12
<1> QED BY <1>7, <1>13

LEMMA PgdnIs ==
  ASSUME EditorAssumption, NEW n \in Nat, n = Len(text), NEW pos \in 0 .. n
  PROVE  /\ pgdn(pos) \in 0 .. n
         /\ LineNo(pos) + PageLines > LineNo(n) => pgdn(pos) = n
         /\ LineNo(pos) + PageLines <= LineNo(n) => LineNo(pgdn(pos)) = LineNo(pos) + PageLines
<1> DEFINE k == PageLines
           g == [p \in 0 .. n |-> down(p)]
           Eq(f) == f = [i \in 0 .. k |-> IF i = 0 THEN pos ELSE down(f[i - 1])]
           at == CHOOSE f : Eq(f)
<1>1. k \in Nat
  BY EditorAssumption
<1>2. g \in [0 .. n -> 0 .. n]
  BY DownIs DEF Downwards
<1>3. PICK f : Paged(f, g, pos, k)
  BY <1>1, PagedExists
<1>4. \A i \in 0 .. k : f[i] \in 0 .. n
  <2> HIDE DEF g
  <2> QED BY <1>1, <1>2, <1>3, PagedIn
<1>5. Eq(f)
  <2>1. f = [i \in 0 .. k |-> f[i]] /\ f[0] = pos /\ \A i \in 1 .. k : f[i] = g[f[i - 1]]
    BY <1>3 DEF Paged
  <2>2. ASSUME NEW i \in 0 .. k PROVE f[i] = IF i = 0 THEN pos ELSE down(f[i - 1])
    <3>1. CASE i = 0
      BY <2>1, <3>1
    <3>2. CASE i # 0
      <4>1. i \in 1 .. k /\ i - 1 \in 0 .. k
        BY <1>1, <3>2
      <4>2. f[i - 1] \in 0 .. n /\ f[i] = g[f[i - 1]]
        BY <1>4, <2>1, <4>1
      <4> QED BY <3>2, <4>2
    <3> QED BY <3>1, <3>2
  <2> HIDE DEF g
  <2> QED BY <2>1, <2>2
<1>6. Eq(at)
  <2> HIDE DEF Eq
  <2> QED BY <1>5
<1>7. pgdn(pos) = at[k]
  BY DEF pgdn
<1> HIDE DEF at
<1>8. at[0] = pos /\ \A i \in 1 .. k : at[i] = down(at[i - 1])
  <2>1. \A i \in 0 .. k : at[i] = IF i = 0 THEN pos ELSE down(at[i - 1])
    BY <1>6
  <2> QED BY <1>1, <2>1
<1> HIDE DEF Eq, g
<1> DEFINE Good(i) == /\ at[i] \in 0 .. n
                      /\ LineNo(pos) + i > LineNo(n) => at[i] = n
                      /\ LineNo(pos) + i <= LineNo(n) => LineNo(at[i]) = LineNo(pos) + i
           S == {i \in 0 .. k : ~ Good(i)}
<1>9. LineNo(pos) \in Nat /\ LineNo(n) \in Nat /\ LineNo(pos) <= LineNo(n)
  BY LineNat, LineMono
<1>10. S \subseteq 0 .. k /\ 0 \notin S
  BY <1>8, <1>9
<1>11. ASSUME NEW i \in S, i \in 1 .. k, i - 1 \in 0 .. k, i - 1 \notin S PROVE FALSE
  <2> DEFINE a == at[i - 1]
             b == at[i]
  <2>1. Good(i - 1) /\ ~ Good(i)
    BY <1>11
  <2>2. b = down(a) /\ a \in 0 .. n
    BY <1>8, <1>11, <2>1
  <2>3. Downwards(a, b, n)
    BY <2>2, DownIs
  <2>4. /\ LineNo(pos) + (i - 1) > LineNo(n) => a = n
        /\ LineNo(pos) + (i - 1) <= LineNo(n) => LineNo(a) = LineNo(pos) + (i - 1)
    BY <2>1
  <2>5. ~ (/\ b \in 0 .. n
           /\ LineNo(pos) + i > LineNo(n) => b = n
           /\ LineNo(pos) + i <= LineNo(n) => LineNo(b) = LineNo(pos) + i)
    BY <2>1
  <2> HIDE DEF a, b, Good, S
  <2> QED BY <1>9, <1>11, <2>3, <2>4, <2>5 DEF Downwards
<1>12. S = {}
  <2> HIDE DEF S
  <2> QED BY <1>1, <1>10, <1>11, FirstFailure
<1>13. Good(k)
  BY <1>1, <1>12
<1> QED BY <1>7, <1>13

-----------------------------------------------------------------------------
(* The editor: keys *)

\* VerticalMoves of a text t, a key k and a cursor at c.
MovesRight(t, k, c) ==
  LET line(p) == Cardinality({i \in 1 .. p : t[i] = NL})
      start(p) == Max({0} \cup {i \in 1 .. p : t[i] = NL})
      end(p) == Min({Len(t)} \cup {i \in p .. Len(t) - 1 : t[i + 1] = NL})
      last == line(Len(t))
      to == CASE k.key = "up" -> line(k.pos) - 1
              [] k.key = "down" -> line(k.pos) + 1
              [] k.key = "pgup" -> line(k.pos) - PageLines
              [] k.key = "pgdn" -> line(k.pos) + PageLines
  IN
  k.key \in {"up", "down", "pgup", "pgdn"} =>
    IF to < 0 THEN c = 0
    ELSE IF to > last THEN c = Len(t)
    ELSE /\ line(c) = to
         /\ k.key \in {"up", "down"} =>
              c - start(c) = Least(k.pos - start(k.pos), end(c) - start(c))

LEMMA VerticalIs == VerticalMoves <=> MovesRight(text, key, current_pos)
BY DEF VerticalMoves, MovesRight, LineNo, Column, lineStart, lineEnd

LEMMA KeyMoves ==
  ASSUME EditorAssumption, NEW n \in Nat, n = Len(text), current_pos \in 0 .. n, NEW k \in Motions,
         NEW K, K = [key |-> k, pos |-> current_pos, text |-> text]
  PROVE  Moved(k) \in 0 .. n /\ MovesRight(text, K, Moved(k))
<1> DEFINE p == current_pos
           c == Moved(k)
           to == CASE k = "up" -> LineNo(p) - 1
                   [] k = "down" -> LineNo(p) + 1
                   [] k = "pgup" -> LineNo(p) - PageLines
                   [] k = "pgdn" -> LineNo(p) + PageLines
           Goal == IF to < 0 THEN c = 0
                   ELSE IF to > LineNo(n) THEN c = n
                   ELSE /\ LineNo(c) = to
                        /\ k \in {"up", "down"} =>
                             Column(c) = Least(Column(p), lineEnd(c) - lineStart(c))
<1>1. (k \in {"up", "down", "pgup", "pgdn"} => Goal) => MovesRight(text, K, c)
  <2>1. K.key = k /\ K.pos = p
    OBVIOUS
  <2> HIDE DEF c, p
  <2> QED BY <2>1 DEF MovesRight, LineNo, Column, lineStart, lineEnd
<1>2. LineNo(p) \in Nat /\ LineNo(n) \in Nat /\ LineNo(p) <= LineNo(n) /\ PageLines \in Nat /\ p \in 0 .. n
  BY LineNat, LineMono, EditorAssumption
<1>3. CASE k = "up"
  <2>1. c = up(p) /\ to = LineNo(p) - 1
    BY <1>3 DEF Moved
  <2>2. Upwards(p, c, n)
    BY <1>2, <2>1, UpIs
  <2>3. c \in 0 .. n /\ LineNo(c) \in Nat
    BY <2>2, LineNat DEF Upwards
  <2> HIDE DEF c, p, to
  <2>4. Goal
    BY <1>2, <1>3, <2>1, <2>2, <2>3 DEF Upwards
  <2> HIDE DEF Goal
  <2> QED BY <1>1, <2>3, <2>4 DEF c
<1>4. CASE k = "down"
  <2>1. c = down(p) /\ to = LineNo(p) + 1
    BY <1>4 DEF Moved
  <2>2. Downwards(p, c, n)
    BY <1>2, <2>1, DownIs
  <2>3. c \in 0 .. n /\ LineNo(c) \in Nat
    BY <2>2, LineNat DEF Downwards
  <2> HIDE DEF c, p, to
  <2>4. Goal
    BY <1>2, <1>4, <2>1, <2>2, <2>3 DEF Downwards
  <2> HIDE DEF Goal
  <2> QED BY <1>1, <2>3, <2>4 DEF c
<1>5. CASE k = "pgup"
  <2>1. c = pgup(p) /\ to = LineNo(p) - PageLines
    BY <1>5 DEF Moved
  <2>2. /\ c \in 0 .. n
        /\ LineNo(p) < PageLines => c = 0
        /\ LineNo(p) >= PageLines => LineNo(c) = LineNo(p) - PageLines
    BY <1>2, <2>1, PgupIs
  <2> HIDE DEF c, p, to
  <2>4. Goal
    BY <1>2, <1>5, <2>1, <2>2
  <2> HIDE DEF Goal
  <2> QED BY <1>1, <2>2, <2>4 DEF c
<1>6. CASE k = "pgdn"
  <2>1. c = pgdn(p) /\ to = LineNo(p) + PageLines
    BY <1>6 DEF Moved
  <2>2. /\ c \in 0 .. n
        /\ LineNo(p) + PageLines > LineNo(n) => c = n
        /\ LineNo(p) + PageLines <= LineNo(n) => LineNo(c) = LineNo(p) + PageLines
    BY <1>2, <2>1, PgdnIs
  <2> HIDE DEF c, p, to
  <2>4. Goal
    BY <1>2, <1>6, <2>1, <2>2
  <2> HIDE DEF Goal
  <2> QED BY <1>1, <2>2, <2>4 DEF c
<1>7. CASE k \in {"left", "right", "home", "end"}
  <2>1. MovesRight(text, K, c)
    <3> HIDE DEF c, Goal
    <3> QED BY <1>1, <1>7
  <2>2. lineStart(p) \in 0 .. p
    BY <1>2, StartIs
  <2>3. lineEnd(p) \in p .. n
    BY <1>2, EndIs
  <2>4. c \in 0 .. n
    BY <1>2, <1>7, <2>2, <2>3 DEF Moved
  <2> QED BY <2>1, <2>4
<1> QED BY <1>3, <1>4, <1>5, <1>6, <1>7 DEF Motions

LEMMA OtherKey ==
  ASSUME NEW t, NEW c, NEW k, k.key \notin {"up", "down", "pgup", "pgdn"}
  PROVE  MovesRight(t, k, c)
BY DEF MovesRight

\* What is saved is where the file begins.
LEMMA PrefixOf ==
  ASSUME NEW s \in Seq(Chars), NEW u \in Seq(Chars)
  PROVE  /\ s \o u \in Seq(Chars) /\ IsPrefix(s, s \o u)
         /\ IsPrefix(<<>>, s)
<1>1. s \o u \in Seq(Chars) /\ Len(s \o u) = Len(s) + Len(u) /\ Len(s) \in Nat /\ Len(u) \in Nat
  OBVIOUS
<1>2. SubSeq(s, 1, Len(s)) = SubSeq(s \o u, 1, Len(s))
  OBVIOUS
<1>3. SubSeq(<<>>, 1, 0) = SubSeq(s, 1, 0)
  OBVIOUS
<1> QED BY <1>1, <1>2, <1>3 DEF IsPrefix

LEMMA FirstPart ==
  ASSUME NEW s \in Seq(Chars), NEW n \in 0 .. Len(s)
  PROVE  /\ SubSeq(s, 1, n) \in Seq(Chars) /\ Len(SubSeq(s, 1, n)) = n
         /\ IsPrefix(SubSeq(s, 1, n), s)
<1>1. SubSeq(s, 1, n) \in Seq(Chars) /\ Len(SubSeq(s, 1, n)) = n /\ n <= Len(s) /\ n \in Nat
  OBVIOUS
<1>2. SubSeq(SubSeq(s, 1, n), 1, n) = SubSeq(s, 1, n)
  BY <1>1
<1> QED BY <1>1, <1>2 DEF IsPrefix

-----------------------------------------------------------------------------
(* The editor: the steps *)

EditorShape ==
  /\ text \in Seq(Chars) /\ file \in Seq(Chars)
  /\ current_pos \in 0 .. Len(text) /\ Len(text) < MAX_LONG_STRLEN
  /\ isModified \in BOOLEAN /\ filename \in BOOLEAN /\ warned \in BOOLEAN

LEMMA EditorInvIs ==
  EditorInv <=> EditorShape /\ MovesRight(text, key, current_pos) /\ SavedIsOnDisk
<1>1. {isModified, filename, warned} \subseteq BOOLEAN
        <=> isModified \in BOOLEAN /\ filename \in BOOLEAN /\ warned \in BOOLEAN
  OBVIOUS
<1> QED BY <1>1, VerticalIs DEF EditorInv, EditorShape, EditorKeepsFaith

LEMMA InsertStep ==
  ASSUME EditorShape, NEW c \in Chars, insert(c)
  PROVE  EditorShape' /\ (SavedIsOnDisk => SavedIsOnDisk')
<1>1. MAX_LONG_STRLEN \in Nat
  BY EditorAssumption
<1>2. /\ text \in Seq(Chars) /\ current_pos \in 0 .. Len(text) /\ Len(text) \in Nat
      /\ file \in Seq(Chars) /\ Len(text) < MAX_LONG_STRLEN
  BY DEF EditorShape
<1>3. CASE Len(text) < MAX_LONG_STRLEN - 1
  <2> DEFINE t == InsertAt(text, current_pos + 1, c)
  <2>1. /\ text' = t /\ current_pos' = current_pos + 1 /\ isModified' = TRUE
        /\ file' = file /\ filename' = filename /\ warned' = warned
    BY <1>3 DEF insert
  <2>2. t \in Seq(Chars) /\ Len(t) = Len(text) + 1
    BY <1>2, InsertIs
  <2> HIDE DEF t
  <2>3. current_pos + 1 \in 0 .. Len(t) /\ Len(t) < MAX_LONG_STRLEN
    BY <1>1, <1>2, <1>3, <2>2
  <2> QED BY <1>2, <2>1, <2>2, <2>3 DEF EditorShape, SavedIsOnDisk
<1>4. CASE ~ Len(text) < MAX_LONG_STRLEN - 1
  <2>1. UNCHANGED <<text, current_pos, isModified, file, filename, warned>>
    BY <1>4 DEF insert
  <2> QED BY <2>1 DEF EditorShape, SavedIsOnDisk
<1> QED BY <1>3, <1>4

LEMMA DeleteStep ==
  ASSUME EditorShape, backspace_key \/ delete_key
  PROVE  EditorShape' /\ (SavedIsOnDisk => SavedIsOnDisk')
<1>1. MAX_LONG_STRLEN \in Nat
  BY EditorAssumption
<1>2. /\ text \in Seq(Chars) /\ current_pos \in 0 .. Len(text) /\ Len(text) \in Nat
      /\ file \in Seq(Chars) /\ Len(text) < MAX_LONG_STRLEN
  BY DEF EditorShape
<1>3. ASSUME NEW p \in 1 .. Len(text), text' = RemoveAt(text, p), current_pos' \in 0 .. Len(text) - 1,
             isModified' = TRUE, file' = file, filename' = filename, warned' = warned
      PROVE  EditorShape' /\ SavedIsOnDisk'
  <2> DEFINE t == RemoveAt(text, p)
  <2>1. t \in Seq(Chars) /\ Len(t) = Len(text) - 1 /\ text' = t
    BY <1>2, <1>3, RemoveIs
  <2> HIDE DEF t
  <2>2. Len(t) < MAX_LONG_STRLEN
    BY <1>1, <1>2, <2>1
  <2> QED BY <1>2, <1>3, <2>1, <2>2 DEF EditorShape, SavedIsOnDisk
<1>4. CASE backspace_key
  <2>1. current_pos \in 1 .. Len(text) /\ current_pos - 1 \in 0 .. Len(text) - 1
    BY <1>2, <1>4 DEF backspace_key
  <2> QED BY <1>3, <1>4, <2>1 DEF backspace_key
<1>5. CASE delete_key
  <2>1. current_pos + 1 \in 1 .. Len(text) /\ current_pos \in 0 .. Len(text) - 1
    BY <1>2, <1>5 DEF delete_key
  <2> QED BY <1>3, <1>5, <2>1 DEF delete_key
<1> QED BY <1>4, <1>5

LEMMA ClickStepInText ==
  ASSUME EditorShape, NEW x, NEW y, editorInputHandler(x, y)
  PROVE  EditorShape' /\ (SavedIsOnDisk => SavedIsOnDisk')
<1> DEFINE stops == {p \in 0 .. Len(text) - 1 :
                       LineNo(p) = y /\ (Column(p) >= x \/ text[p + 1] = NL)}
           S == stops \cup {Len(text)}
<1>1. current_pos' = Min(S) /\ UNCHANGED <<text, isModified, file, filename, warned>>
  BY DEF editorInputHandler
<1>2. Len(text) \in Nat
  BY DEF EditorShape
<1>3. S \subseteq 0 .. Len(text) /\ S \subseteq Nat /\ S # {}
  BY <1>2
<1> HIDE DEF S
<1>4. Min(S) \in 0 .. Len(text)
  BY <1>3, MinOf
<1> QED BY <1>1, <1>4 DEF EditorShape, SavedIsOnDisk

LEMMA SaveStep ==
  ASSUME EditorShape, saveHandler
  PROVE  EditorShape' /\ SavedIsOnDisk'
<1>1. text \in Seq(Chars) /\ file \in Seq(Chars) /\ Len(text) \in Nat /\ filename \in BOOLEAN
  BY DEF EditorShape
<1>2. PICK n \in 0 .. Len(text) :
        /\ file' = IF filename THEN Written(SubSeq(text, 1, n)) ELSE file
        /\ warned' = (n < Len(text))
  BY DEF saveHandler
<1>3. isModified' = FALSE /\ text' = text /\ current_pos' = current_pos /\ filename' = filename
  BY DEF saveHandler
<1> DEFINE s == SubSeq(text, 1, n)
           u == SubSeq(file, Len(s) + 1, Len(file))
<1>4. s \in Seq(Chars) /\ Len(s) = n
  BY <1>1, FirstPart
<1>5. u \in Seq(Chars)
  BY <1>1, <1>4
<1>6. Written(s) = s \o u
  BY DEF Written
<1> HIDE DEF u
<1>7. Written(s) \in Seq(Chars) /\ IsPrefix(s, Written(s))
  BY <1>4, <1>5, <1>6, PrefixOf
<1>8. n = Len(text) => s = text
  BY <1>1
<1> HIDE DEF s
<1>9. EditorShape'
  <2>1. file' \in Seq(Chars) /\ warned' \in BOOLEAN
    BY <1>1, <1>2, <1>7 DEF s
  <2> QED BY <1>1, <1>3, <2>1 DEF EditorShape
<1>10. SavedIsOnDisk'
  <2> SUFFICES ASSUME filename', ~ warned' PROVE IsPrefix(text', file')
    BY DEF SavedIsOnDisk
  <2>1. n = Len(text)
    <3>1. ~ n < Len(text)
      BY <1>2, Zenon
    <3>2. n \in Nat /\ n <= Len(text) /\ Len(text) \in Nat
      BY <1>1
    <3> QED BY <3>1, <3>2
  <2>2. file' = Written(s)
    BY <1>2, <1>3 DEF s
  <2> QED BY <1>3, <1>7, <1>8, <2>1, <2>2
<1> QED BY <1>9, <1>10

LEMMA EditorStarts == EditorInit => EditorInv
<1> SUFFICES ASSUME EditorInit PROVE EditorInv
  OBVIOUS
<1>1. /\ MAX_LONG_STRLEN \in Nat \ {0} /\ FirstFiles \subseteq Seq(Chars)
  BY EditorAssumption
<1>2. /\ file \in FirstFiles /\ current_pos = Len(text)
      /\ isModified = FALSE /\ filename = TRUE /\ warned = FALSE /\ key.key = "none"
  BY DEF EditorInit
<1> DEFINE n == Least(Len(file), MAX_LONG_STRLEN - 1)
<1>3. text = SubSeq(file, 1, n) \/ text = <<>>
  BY DEF EditorInit
<1>4. file \in Seq(Chars) /\ Len(file) \in Nat
  BY <1>1, <1>2
<1>5. n \in 0 .. Len(file) /\ n < MAX_LONG_STRLEN
  BY <1>1, <1>4 DEF Least
<1> HIDE DEF n
<1>6. text \in Seq(Chars) /\ Len(text) < MAX_LONG_STRLEN /\ IsPrefix(text, file)
  <2>1. CASE text = SubSeq(file, 1, n)
    BY <1>4, <1>5, <2>1, FirstPart
  <2>2. CASE text = <<>>
    <3>1. text \in Seq(Chars) /\ Len(text) = 0
      BY <2>2
    <3> QED BY <1>1, <1>4, <2>2, <3>1, PrefixOf
  <2> QED BY <1>3, <2>1, <2>2
<1>7. MovesRight(text, key, current_pos)
  BY <1>2, OtherKey
<1>8. EditorShape
  <2>1. Len(text) \in Nat
    BY <1>6
  <2>2. current_pos \in 0 .. Len(text)
    BY <1>2, <2>1
  <2>3. isModified \in BOOLEAN /\ filename \in BOOLEAN /\ warned \in BOOLEAN
    BY <1>2
  <2> QED BY <1>4, <1>6, <2>2, <2>3 DEF EditorShape
<1>9. SavedIsOnDisk
  BY <1>6 DEF SavedIsOnDisk
<1> QED BY <1>7, <1>8, <1>9, EditorInvIs

LEMMA EditorStep == EditorInv /\ [EditorNext]_editorVars => EditorInv'
<1>1. (EditorInv <=> EditorShape /\ MovesRight(text, key, current_pos) /\ SavedIsOnDisk)'
  BY EditorInvIs, PTL
<1> SUFFICES ASSUME EditorInv, [EditorNext]_editorVars PROVE EditorInv'
  OBVIOUS
<1>2. EditorShape /\ MovesRight(text, key, current_pos) /\ SavedIsOnDisk
  BY EditorInvIs
<1>3. ASSUME NEW k, k \notin {"up", "down", "pgup", "pgdn"}, Records(k)
      PROVE  MovesRight(text', key', current_pos')
  <2>1. key'.key = k
    BY <1>3 DEF Records
  <2> QED BY <1>3, <2>1, OtherKey
<1>4. ASSUME EditorShape', SavedIsOnDisk', MovesRight(text', key', current_pos')
      PROVE  EditorInv'
  BY <1>1, <1>4
<1>5. ASSUME NEW c \in Chars, insert(c) PROVE EditorInv'
  <2>1. MovesRight(text', key', current_pos')
    BY <1>3, <1>5 DEF insert
  <2> QED BY <1>2, <1>4, <1>5, <2>1, InsertStep
<1>6. CASE backspace_key \/ delete_key
  <2>1. MovesRight(text', key', current_pos')
    BY <1>3, <1>6 DEF backspace_key, delete_key
  <2> QED BY <1>2, <1>4, <1>6, <2>1, DeleteStep
<1>7. ASSUME NEW k \in Motions, move(k) PROVE EditorInv'
  <2> DEFINE K == [key |-> k, pos |-> current_pos, text |-> text]
             c == Moved(k)
  <2>1. /\ text' = text /\ current_pos' = c /\ key' = K
        /\ UNCHANGED <<isModified, file, filename, warned>>
    BY <1>7 DEF move, Records
  <2>2. Len(text) \in Nat /\ current_pos \in 0 .. Len(text)
    BY <1>2 DEF EditorShape
  <2>3. c \in 0 .. Len(text) /\ MovesRight(text, K, c)
    BY <2>2, EditorAssumption, KeyMoves
  <2> HIDE DEF K, c
  <2>4. MovesRight(text', key', current_pos')
    BY <2>1, <2>3
  <2>5. EditorShape' /\ SavedIsOnDisk'
    BY <1>2, <2>1, <2>3 DEF EditorShape, SavedIsOnDisk
  <2> QED BY <1>4, <2>4, <2>5
<1>8. ASSUME NEW x, NEW y, editorInputHandler(x, y) PROVE EditorInv'
  <2>1. MovesRight(text', key', current_pos')
    BY <1>3, <1>8 DEF editorInputHandler
  <2> QED BY <1>2, <1>4, <1>8, <2>1, ClickStepInText
<1>9. CASE saveHandler
  <2>1. MovesRight(text', key', current_pos')
    BY <1>3, <1>9 DEF saveHandler
  <2> QED BY <1>2, <1>4, <1>9, <2>1, SaveStep
<1>10. CASE save_fails
  <2>1. MovesRight(text', key', current_pos')
    BY <1>3, <1>10 DEF save_fails
  <2>2. EditorShape' /\ SavedIsOnDisk'
    BY <1>2, <1>10 DEF save_fails, EditorShape, SavedIsOnDisk
  <2> QED BY <1>4, <2>1, <2>2
<1>11. CASE newHandler
  <2>1. MovesRight(text', key', current_pos')
    BY <1>3, <1>11 DEF newHandler
  <2>2. /\ text' = <<>> /\ current_pos' = 0 /\ filename' = FALSE /\ isModified' = FALSE
        /\ warned' = FALSE /\ file' = file
    BY <1>11 DEF newHandler
  <2>3. <<>> \in Seq(Chars) /\ 0 \in 0 .. Len(<<>>) /\ Len(<<>>) < MAX_LONG_STRLEN
    BY EditorAssumption
  <2>4. EditorShape'
    BY <1>2, <2>2, <2>3 DEF EditorShape
  <2>5. SavedIsOnDisk'
    BY <2>2 DEF SavedIsOnDisk
  <2> QED BY <1>4, <2>1, <2>4, <2>5
<1>12. CASE UNCHANGED editorVars
  <2>1. /\ text' = text /\ current_pos' = current_pos /\ key' = key
        /\ UNCHANGED <<isModified, file, filename, warned>>
    BY <1>12 DEF editorVars
  <2>2. EditorShape' /\ SavedIsOnDisk'
    BY <1>2, <2>1 DEF EditorShape, SavedIsOnDisk
  <2> QED BY <1>2, <1>4, <2>1, <2>2
<1> QED BY <1>5, <1>6, <1>7, <1>8, <1>9, <1>10, <1>11, <1>12 DEF EditorNext

\* Whatever is typed, clicked and saved, the cursor stays in the text and the
\* text in its buffer, the keys for lines and pages find their line and column,
\* and a text that counts as saved is the beginning of its file.
THEOREM EditorInvariant == EditorInit /\ [][EditorNext]_editorVars => []EditorInv
  BY EditorStarts, EditorStep, PTL

\* For any text, any letters, any page and any size of the buffer: the up, down
\* and page keys never slip over a newline, and what counts as saved is on
\* the disk, saves that fail or end early included.
THEOREM EditorStaysFaithful == EditorInit /\ [][EditorNext]_editorVars => []EditorKeepsFaith
<1>1. EditorInv => EditorKeepsFaith
  BY DEF EditorInv
<1> QED BY <1>1, EditorInvariant, PTL

-----------------------------------------------------------------------------
(* Explorer: paths and items *)

LEMMA PathFacts ==
  ASSUME NEW p \in Paths \cup {<<>>}
  PROVE  /\ p \in Seq(Names) /\ Len(p) \in 0 .. MaxDepth
         /\ \A x : Front(Append(p, x)) = p
         /\ \A x, y : Append(p, x) = Append(p, y) => x = y
         /\ \A n \in Names : Len(p) < MaxDepth => Append(p, n) \in Paths
         /\ Len(p) > 1 => Front(p) \in Paths
<1>1. p \in Seq(Names) /\ Len(p) \in 0 .. MaxDepth
  <2>1. CASE p = <<>>
    BY <2>1 DEF MaxDepth
  <2>2. CASE p \in Paths
    <3>1. PICK n \in 1 .. MaxDepth : p \in [1 .. n -> Names]
      BY <2>2 DEF Paths
    <3>2. n \in Nat /\ p \in Seq(Names) /\ Len(p) = n
      BY <3>1 DEF MaxDepth
    <3> QED BY <3>1, <3>2
  <2> QED BY <2>1, <2>2
<1>2. ASSUME NEW x PROVE Front(Append(p, x)) = p
  <2>1. PICK S : S = Names \cup {x}
    OBVIOUS
  <2>2. p \in Seq(S) /\ x \in S
    <3>1. Len(p) \in Nat /\ p \in [1 .. Len(p) -> Names]
      BY <1>1
    <3>2. p \in [1 .. Len(p) -> S]
      BY <2>1, <3>1
    <3> QED BY <2>1, <3>1, <3>2
  <2>3. SubSeq(Append(p, x), 1, Len(Append(p, x)) - 1) = p
    <3>1. Len(Append(p, x)) = Len(p) + 1 /\ Append(p, x) \in Seq(S)
      BY <2>2
    <3> QED BY <2>2, <3>1
  <2> QED BY <2>3 DEF Front
<1>3. ASSUME NEW x, NEW y, Append(p, x) = Append(p, y) PROVE x = y
  <2>1. PICK S : S = Names \cup {x, y}
    OBVIOUS
  <2>2. p \in Seq(S) /\ x \in S /\ y \in S
    <3>1. Len(p) \in Nat /\ p \in [1 .. Len(p) -> Names]
      BY <1>1
    <3>2. p \in [1 .. Len(p) -> S]
      BY <2>1, <3>1
    <3> QED BY <2>1, <3>1, <3>2
  <2>3. Append(p, x)[Len(p) + 1] = x /\ Append(p, y)[Len(p) + 1] = y
    BY <2>2
  <2> QED BY <1>3, <2>3
<1>4. ASSUME NEW n \in Names, Len(p) < MaxDepth PROVE Append(p, n) \in Paths
  <2>1. PICK k : k = Len(p)
    OBVIOUS
  <2>2. k \in Nat /\ k + 1 \in 1 .. MaxDepth
    BY <1>1, <1>4, <2>1 DEF MaxDepth
  <2>3. Append(p, n) \in Seq(Names) /\ Len(Append(p, n)) = k + 1
    BY <1>1, <2>1
  <2>4. Append(p, n) \in [1 .. k + 1 -> Names]
    BY <2>3, LenProperties
  <2> QED BY <2>2, <2>4 DEF Paths
<1>5. ASSUME Len(p) > 1 PROVE Front(p) \in Paths
  <2>1. PICK k : k = Len(p) - 1
    OBVIOUS
  <2>2. k \in Nat /\ k \in 1 .. MaxDepth /\ Len(p) = k + 1
    BY <1>1, <1>5, <2>1 DEF MaxDepth
  <2>3. \A j \in 1 .. k : p[j] \in Names
    BY <1>1, <2>2
  <2>4. SubSeq(p, 1, k) \in [1 .. k -> Names]
    <3>1. SubSeq(p, 1, k) \in Seq(Names) /\ Len(SubSeq(p, 1, k)) = k
      BY <1>1, <2>2, SubSeqProperties
    <3> QED BY <3>1, LenProperties
  <2> QED BY <2>1, <2>2, <2>4 DEF Paths, Front
<1> QED BY <1>1, <1>2, <1>3, <1>4, <1>5

\* The contents of a file are neither None nor Dir.
LEMMA FileContents ==
  ASSUME NEW c \in Contents
  PROVE  c \notin {None, Dir} <=> c \in Seq(FileBlocks)
<1>1. None \notin Seq(FileBlocks) /\ Dir \notin Seq(FileBlocks)
  <2>1. None[1] = "none" /\ Dir[1] = "dir" /\ Len(None) = 1 /\ Len(Dir) = 1
    BY DEF None, Dir
  <2>2. \A s \in Seq(FileBlocks) : Len(s) = 1 => s[1] \in FileBlocks
    OBVIOUS
  <2> QED BY <2>1, <2>2, ExplorerAssumption
<1> QED BY <1>1 DEF Contents

LEMMA SetToSeqType ==
  ASSUME NEW S, IsFiniteSet(S)
  PROVE  Cardinality(S) \in Nat /\ SetToSeq(S) \in [1 .. Cardinality(S) -> S] /\ Len(SetToSeq(S)) = Cardinality(S)
<1>1. PICK n \in Nat : ExistsBijection(1 .. n, S)
  BY FS_NatBijection
<1>2. Cardinality(S) \in Nat /\ Cardinality(S) = n
  BY <1>1, FS_CardinalityType, FS_CountingElements
<1>3. PICK f : f \in Bijection(1 .. n, S)
  BY <1>1 DEF ExistsBijection
<1>4. f \in [1 .. n -> S] /\ IsInjective(f)
  BY <1>3 DEF Bijection, Injection, IsInjective
<1>5. SetToSeq(S) \in [1 .. n -> S]
  BY <1>2, <1>4 DEF SetToSeq
<1> QED BY <1>2, <1>5

LEMMA PrefixPointwise ==
  ASSUME NEW s \in Seq(FileBlocks), NEW t \in Seq(FileBlocks)
  PROVE  IsPrefix(s, t) <=> Len(s) <= Len(t) /\ \A k \in 1 .. Len(s) : s[k] = t[k]
<1>1. ASSUME Len(s) <= Len(t)
      PROVE  SubSeq(s, 1, Len(s)) = SubSeq(t, 1, Len(s)) <=> \A k \in 1 .. Len(s) : s[k] = t[k]
  <2>1. Len(s) \in Nat /\ Len(t) \in Nat
    OBVIOUS
  <2>2. /\ SubSeq(s, 1, Len(s)) \in Seq(FileBlocks) /\ Len(SubSeq(s, 1, Len(s))) = Len(s)
        /\ \A k \in 1 .. Len(s) : SubSeq(s, 1, Len(s))[k] = s[k]
    BY <2>1
  <2>3. /\ SubSeq(t, 1, Len(s)) \in Seq(FileBlocks) /\ Len(SubSeq(t, 1, Len(s))) = Len(s)
        /\ \A k \in 1 .. Len(s) : SubSeq(t, 1, Len(s))[k] = t[k]
    BY <1>1, <2>1
  <2> QED BY <2>2, <2>3, SeqEqual
<1> QED BY <1>1 DEF IsPrefix

LEMMA PrefixReflexive ==
  ASSUME NEW s \in Seq(FileBlocks)
  PROVE  IsPrefix(s, s)
BY PrefixPointwise

-----------------------------------------------------------------------------
(* Explorer: what listing and the dialogs leave alone *)

\* f is e but for its window and its dialog.
SameList(f, e) ==
  /\ DOMAIN f = Fields
  /\ f.path = e.path /\ f.buf = e.buf /\ f.need_refresh = e.need_refresh
  /\ f.items = e.items /\ f.selected = e.selected /\ f.name = e.name /\ f.is_dir = e.is_dir

LEMMA ClearKeeps ==
  ASSUME NEW e, DOMAIN e = Fields
  PROVE  SameList(clearDialog(e), e)
BY DEF clearDialog, SameList, Fields

LEMMA ShowKeeps ==
  ASSUME NEW e, DOMAIN e = Fields, NEW t, NEW onConfirm
  PROVE  SameList(showDialog(e, t, onConfirm), e)
BY ClearKeeps DEF showDialog, SameList, Fields

\* f is e with its directory loaded, if that still exists.
Loaded(f, e) ==
  /\ DOMAIN f = Fields
  /\ f.path = e.path /\ f.buf = e.buf /\ f.need_refresh = e.need_refresh
  /\ f.name = e.name /\ f.is_dir = e.is_dir
  /\ \/ ~DirExists(e.path) /\ f.items = e.items /\ f.selected = e.selected
     \/ /\ f.selected = -1
        /\ f.items \in Seq(Range(f.items))
        /\ \A i \in 1 .. Len(f.items) :
             /\ f.items[i].name \in Names
             /\ f.items[i].is_dir <=> disk[Append(e.path, f.items[i].name)] = Dir

LEMMA Loads ==
  ASSUME NEW e, DOMAIN e = Fields
  PROVE  Loaded(loadFiles(e), e)
<1> DEFINE win == removeAllScrollableWidgets(e.win)
           S == {n \in Names : Shown(n, Append(e.path, n))}
           names == SetToSeq(S)
           total == Min({Len(names), MAX_WIDGET_SIZE - Reserve})
           rows == Rows(win, total)
           id(i) == findNextAvailable(Rows(win, i - 1))
           item(i) == [name |-> names[i], is_dir |-> disk[Append(e.path, names[i])] = Dir,
                       widget_id |-> id(i)]
           items == [i \in 1 .. total |-> item(i)]
<1>1. loadFiles(e) = IF ~DirExists(e.path) THEN [e EXCEPT !.win = win]
                     ELSE [e EXCEPT !.win = rows, !.items = items, !.selected = -1]
  BY Zenon DEF loadFiles
<1>2. total \in Nat /\ \A i \in 1 .. total : names[i] \in Names
  <2>1. IsFiniteSet(S)
    BY ExplorerAssumption, FS_Subset
  <2>2. Len(names) \in Nat /\ names \in [1 .. Len(names) -> S]
    BY <2>1, SetToSeqType, Zenon
  <2> HIDE DEF names
  <2>3. total \in Nat /\ total <= Len(names)
    <3>1. MAX_WIDGET_SIZE - Reserve \in Nat
      BY ExplorerAssumption
    <3> DEFINE a == Len(names)
               b == MAX_WIDGET_SIZE - Reserve
    <3>2. a \in Nat /\ b \in Nat
      BY <2>2, <3>1
    <3> HIDE DEF a, b
    <3>3. Min({a, b}) = IF a <= b THEN a ELSE b
      BY <3>2 DEF Min
    <3> QED BY <3>2, <3>3 DEF a, b
  <2> QED BY <2>2, <2>3
<1> HIDE DEF total
<1>3. items \in Seq(Range(items)) /\ Len(items) = total
  BY <1>2 DEF Range
<1>4. \A i \in 1 .. total :
        /\ items[i].name \in Names
        /\ items[i].is_dir <=> disk[Append(e.path, items[i].name)] = Dir
  <2> SUFFICES ASSUME NEW i \in 1 .. total
               PROVE  /\ items[i].name \in Names
                      /\ items[i].is_dir <=> disk[Append(e.path, items[i].name)] = Dir
    OBVIOUS
  <2>1. items[i] = item(i)
    BY Zenon
  <2>2. item(i).name = names[i] /\ item(i).is_dir = (disk[Append(e.path, names[i])] = Dir)
    BY Zenon
  <2> HIDE DEF item, items, names
  <2> QED BY <1>2, <2>1, <2>2
<1> HIDE DEF items, win, rows
<1> QED BY <1>1, <1>2, <1>3, <1>4 DEF Loaded, Fields


-----------------------------------------------------------------------------
(* Explorer: steps that leave the disk and the rename alone *)

\* A file known by what it holds.
LEMMA FilesKnown ==
  ASSUME disk \in [Paths -> Contents], NEW p \in Paths
  PROVE  /\ disk[p] \notin {None, Dir} <=> disk[p] \in Seq(FileBlocks)
         /\ IsFile(p) <=> disk[p] \in Seq(FileBlocks)
         /\ DirExists(p) /\ p # <<>> => disk[p] = Dir
BY FileContents DEF IsFile, Exists, DirExists

\* Of the explorer's own state the invariant needs this much.
ExOk ==
  /\ DOMAIN ex = Fields
  /\ ex.path \in Paths \cup {<<>>} /\ ex.buf \in Paths \cup {<<>>}
  /\ ex.selected \in Nat \cup {-1}
  /\ ex.items \in Seq(Range(ex.items)) /\ \A i \in 1 .. Len(ex.items) : ex.items[i].name \in Names
  /\ SelectionMatches
  /\ ItemsKnown

DiskOk ==
  /\ disk \in [Paths -> Contents] /\ DOMAIN before = Paths
  /\ renaming.pc \in {"idle", "mkdir", "link", "open", "copy", "unlink", "end"}
  /\ DOMAIN renaming = {"pc", "old", "new", "at"}
  /\ RenameFits
  /\ FilesKept

LEMMA InvParts ==
  ExplorerInv <=> ExOk /\ DiskOk
BY Zenon DEF ExplorerInv, ExplorerShape, ExOk, DiskOk

LEMMA DiskAlone ==
  ASSUME DiskOk, UNCHANGED <<disk, renaming, before>>
  PROVE  DiskOk'
BY DEF DiskOk, RenameFits, FilesKept, OnlyNewTouched, CopiedSoFar, DirExists, IsFile, Exists

LEMMA ExAlone ==
  ASSUME ExOk, UNCHANGED <<disk, renaming, ex>>
  PROVE  ExOk'
BY DEF ExOk, SelectionMatches, Selected, ItemsKnown, DirExists, Exists

\* During a rename, or with the list to be loaded again, ItemsKnown says nothing.
LEMMA SameListOk ==
  ASSUME ExOk, UNCHANGED disk, SameList(ex', ex), renaming'.pc = "idle" => renaming.pc = "idle"
  PROVE  ExOk'
BY DEF ExOk, SameList, SelectionMatches, Selected, ItemsKnown, DirExists, Exists

\* f will have its list loaded again; its selection is that of e, or none.
Stale(f, e) ==
  /\ DOMAIN f = Fields
  /\ f.path \in Paths \cup {<<>>} /\ f.buf \in Paths \cup {<<>>} /\ f.need_refresh
  /\ f.items = e.items /\ f.name = e.name /\ f.is_dir = e.is_dir
  /\ f.selected = e.selected \/ f.selected = -1

LEMMA StaleOk ==
  ASSUME ExOk, Stale(ex', ex)
  PROVE  ExOk'
BY DEF ExOk, Stale, SelectionMatches, Selected, ItemsKnown

LEMMA Backs ==
  ASSUME ExOk, handleBack \/ handleHome
  PROVE  ExOk'
<1>1. getParentPath(ex.path, ex.buf) \in Paths \cup {<<>>}
  BY PathFacts DEF ExOk, getParentPath
<1>2. Stale(ex', ex)
  BY <1>1 DEF ExOk, Stale, Fields, handleBack, handleHome
<1> QED BY <1>2, StaleOk

LEMMA Shows ==
  ASSUME ExOk, handleNewFolder \/ handleNewFile \/ handleRename
  PROVE  ExOk'
<1>1. UNCHANGED <<disk, renaming>>
  BY DEF handleNewFolder, handleNewFile, handleRename, Dialog
<1>2. \E t, c : ex' = showDialog(ex, t, c)
  BY Zenon DEF handleNewFolder, handleNewFile, handleRename, Dialog
<1>3. SameList(ex', ex)
  BY <1>2, ShowKeeps, Zenon DEF ExOk
<1> QED BY <1>1, <1>3, SameListOk

LEMMA OpensOk ==
  ASSUME ExOk, UNCHANGED <<disk, renaming>>, NEW item, item.name \in Names, ex' = Opened(ex, item)
  PROVE  ExOk'
<1>1. CASE item.is_dir /\ Len(ex.path) < MaxDepth
  <2>1. Append(ex.path, item.name) \in Paths
    BY <1>1, PathFacts DEF ExOk
  <2>2. ex' = [ex EXCEPT !.path = Append(ex.path, item.name), !.need_refresh = TRUE]
    BY <1>1 DEF Opened, Enter
  <2>3. Stale(ex', ex)
    BY <2>1, <2>2 DEF ExOk, Stale, Fields
  <2> QED BY <2>3, StaleOk
<1>2. CASE item.is_dir /\ ~(Len(ex.path) < MaxDepth)
  <2>1. ex' = ex
    BY <1>2 DEF Opened, Enter
  <2> QED BY <2>1, ExAlone
<1>3. CASE ~item.is_dir
  <2>1. PICK r : ex' = [ex EXCEPT !.ran = r]
    BY <1>3, Zenon DEF Opened, Launch
  <2>2. SameList(ex', ex)
    BY <2>1 DEF ExOk, SameList, Fields
  <2> QED BY <2>2, SameListOk
<1> QED BY <1>1, <1>2, <1>3

\* The selection moves to an item.
LEMMA SelectsOk ==
  ASSUME ExOk, UNCHANGED <<disk, renaming>>, NEW i \in 0 .. Len(ex.items) - 1,
         ex' = SelectAt(ex, i)
  PROVE  ExOk'
BY DEF ExOk, SelectAt, Fields, SelectionMatches, Selected, ItemsKnown, DirExists, Exists

LEMMA Clicks ==
  ASSUME ExOk, handleFileClick
  PROVE  ExOk'
<1>1. UNCHANGED <<disk, renaming>>
  BY DEF handleFileClick
<1>2. PICK i \in 1 .. Len(ex.items) :
        ex' = SelectAt(ex, i - 1) \/ ex' = Opened(ex, ex.items[i])
  <2>1. PICK i \in 1 .. Len(ex.items) :
          \/ ex' = [ex EXCEPT !.selected = i - 1, !.name = ex.items[i].name,
                              !.is_dir = ex.items[i].is_dir]
          \/ ex' = Opened(ex, ex.items[i])
    BY Zenon DEF handleFileClick
  <2>2. i - 1 + 1 = i
    BY DEF ExOk
  <2> QED BY <2>1, <2>2 DEF SelectAt
<1>3. CASE ex' = SelectAt(ex, i - 1)
  <2>1. i - 1 \in 0 .. Len(ex.items) - 1
    BY DEF ExOk
  <2> QED BY <1>1, <1>3, <2>1, SelectsOk
<1>4. CASE ex' = Opened(ex, ex.items[i])
  BY <1>1, <1>4, OpensOk, Zenon DEF ExOk
<1> QED BY <1>2, <1>3, <1>4

LEMMA Keys ==
  ASSUME ExOk, handleKeyboard
  PROVE  ExOk'
<1>1. UNCHANGED <<disk, renaming>>
  BY DEF handleKeyboard
<1>2. \/ \E i \in 0 .. Len(ex.items) - 1 : ex' = SelectAt(ex, i)
      \/ Selected /\ ex' = Opened(ex, [name |-> ex.name, is_dir |-> ex.is_dir])
  <2>1. CASE ex.selected < Len(ex.items) - 1 /\ ex' = SelectAt(ex, ex.selected + 1)
    <3>1. ex.selected + 1 \in 0 .. Len(ex.items) - 1
      BY <2>1 DEF ExOk
    <3> QED BY <2>1, <3>1
  <2>2. CASE ex.selected > 0 /\ ex.selected <= Len(ex.items) /\ ex' = SelectAt(ex, ex.selected - 1)
    <3>1. ex.selected - 1 \in 0 .. Len(ex.items) - 1
      BY <2>2 DEF ExOk
    <3> QED BY <2>2, <3>1
  <2>3. CASE ex.selected = -1 /\ ex.items # <<>> /\ ex' = SelectAt(ex, 0)
    <3>1. CASE Len(ex.items) > 0
      <4>1. 0 \in 0 .. Len(ex.items) - 1
        BY <3>1 DEF ExOk
      <4> QED BY <2>3, <4>1
    <3>2. CASE ~(Len(ex.items) > 0)
      BY <2>3, <3>2 DEF ExOk
    <3> QED BY <3>1, <3>2
  <2> QED BY <2>1, <2>2, <2>3 DEF handleKeyboard
<1>3. CASE Selected /\ ex' = Opened(ex, [name |-> ex.name, is_dir |-> ex.is_dir])
  <2>1. ex.selected + 1 \in 1 .. Len(ex.items) /\ ex.name = ex.items[ex.selected + 1].name
    BY <1>3 DEF ExOk, Selected, SelectionMatches
  <2>2. ex.name \in Names
    BY <2>1 DEF ExOk
  <2> DEFINE item == [name |-> ex.name, is_dir |-> ex.is_dir]
  <2>3. item.name \in Names /\ ex' = Opened(ex, item)
    BY <1>3, <2>2
  <2> QED BY <1>1, <2>3, OpensOk
<1> QED BY <1>1, <1>2, <1>3, SelectsOk

LEMMA Inputs ==
  ASSUME ExOk, dialogInputHandler \/ cancelDialog
  PROVE  ExOk'
<1>1. UNCHANGED <<disk, renaming>>
  BY DEF dialogInputHandler, cancelDialog
<1>2. SameList(ex', ex)
  BY ClearKeeps DEF ExOk, dialogInputHandler, cancelDialog, SameList, Fields
<1> QED BY <1>1, <1>2, SameListOk

LEMMA Refreshes ==
  ASSUME ExOk, main_refresh
  PROVE  ExOk'
<1>1. UNCHANGED <<disk, renaming>> /\ ex' = [loadFiles(ex) EXCEPT !.need_refresh = FALSE]
  BY DEF main_refresh
<1>2. Loaded(loadFiles(ex), ex)
  BY Loads DEF ExOk
<1> DEFINE f == loadFiles(ex)
<1> HIDE DEF f
<1>3. Loaded(f, ex) /\ ex' = [f EXCEPT !.need_refresh = FALSE]
  BY <1>1, <1>2 DEF f
<1> QED BY <1>1, <1>3 DEF ExOk, Loaded, Fields, SelectionMatches, Selected, ItemsKnown, DirExists, Exists


-----------------------------------------------------------------------------
(* Explorer: steps outside a rename that change the disk *)

\* With nothing recorded by before, any disk will do.
LEMMA NothingRecorded ==
  ASSUME DiskOk, disk' \in [Paths -> Contents], before' = [p \in Paths |-> None],
         renaming.pc = "idle", UNCHANGED renaming
  PROVE  DiskOk'
<1>1. FilesKept'
  BY DEF FilesKept
<1>2. RenameFits'
  BY DEF RenameFits
<1> QED BY <1>1, <1>2 DEF DiskOk

LEMMA UnlinksType ==
  ASSUME disk \in [Paths -> Contents], NEW p
  PROVE  Unlinked(p) \in [Paths -> Contents]
BY DEF Unlinked, Contents

LEMMA Deletes ==
  ASSUME ExOk, DiskOk, handleDelete
  PROVE  ExOk' /\ DiskOk'
<1>1. ExOk'
  <2>1. Stale(ex', ex)
    BY DEF ExOk, handleDelete, Stale, Fields
  <2> QED BY <2>1, StaleOk
<1>2. disk' \in [Paths -> Contents]
  <2>1. \E p : disk' = Unlinked(p) \/ disk' = disk
    BY Zenon DEF handleDelete
  <2> QED BY <2>1, UnlinksType DEF DiskOk
<1>3. before' = [p \in Paths |-> None] /\ renaming.pc = "idle" /\ UNCHANGED renaming
  BY DEF handleDelete, Ready
<1> QED BY <1>1, <1>2, <1>3, NothingRecorded

LEMMA Confirms ==
  ASSUME ExOk, DiskOk, NEW handler, NEW kind \in Contents, Confirm(handler, kind)
  PROVE  ExOk' /\ DiskOk'
<1>1. before' = [p \in Paths |-> None] /\ renaming.pc = "idle" /\ UNCHANGED renaming
  BY DEF Confirm, Ready
<1>2. CASE ex' = clearDialog(ex) /\ UNCHANGED disk
  <2>1. SameList(ex', ex)
    BY <1>2, ClearKeeps DEF ExOk
  <2>2. ExOk'
    BY <1>1, <1>2, <2>1, SameListOk
  <2> QED BY <1>1, <1>2, <2>2, NothingRecorded DEF DiskOk
<1>3. CASE ex' = Done(ex) /\ Created(kind)
  <2>1. Stale(ex', ex)
    BY <1>3, ClearKeeps DEF ExOk, SameList, Done, Stale, Fields
  <2>2. disk' \in [Paths -> Contents]
    BY <1>3 DEF DiskOk, Created
  <2> QED BY <1>1, <2>1, <2>2, StaleOk, NothingRecorded
<1> QED BY <1>2, <1>3 DEF Confirm

LEMMA Creates ==
  ASSUME ExOk, DiskOk, confirmNewFolder \/ confirmNewFile
  PROVE  ExOk' /\ DiskOk'
<1>1. Dir \in Contents /\ <<>> \in Contents
  BY DEF Contents
<1> QED BY <1>1, Confirms, Zenon DEF confirmNewFolder, confirmNewFile

LEMMA OthersUnlink ==
  ASSUME ExOk, DiskOk, others_unlink
  PROVE  ExOk' /\ DiskOk'
<1>1. PICK p \in Paths : disk' = [disk EXCEPT ![p] = None]
  BY DEF others_unlink
<1>2. before' = [q \in Paths |-> None] /\ renaming.pc = "idle" /\ UNCHANGED <<ex, renaming>>
  BY DEF others_unlink
<1>3. disk' \in [Paths -> Contents]
  BY <1>1 DEF DiskOk, Contents
<1>4. DiskOk'
  BY <1>2, <1>3, NothingRecorded
<1>5. \A q \in Paths : disk'[q] # None => disk'[q] = disk[q]
  BY <1>1 DEF DiskOk
<1>6. None # Dir
  BY DEF None, Dir
<1>7. ItemsKnown'
  BY <1>2, <1>5, <1>6 DEF ExOk, ItemsKnown, DirExists, Exists
<1>8. SelectionMatches'
  BY <1>2 DEF ExOk, SelectionMatches, Selected
<1> QED BY <1>2, <1>4, <1>7, <1>8 DEF ExOk

-----------------------------------------------------------------------------
(* Explorer: a rename, call by call *)

\* What has only touched the new name has lost nothing yet.
LEMMA UntouchedKept ==
  ASSUME disk \in [Paths -> Contents], OnlyNewTouched
  PROVE  FilesKept
<1> SUFFICES ASSUME NEW p \in Paths, before[p] \notin {None, Dir}
             PROVE  \E q \in Paths : disk[q] \notin {None, Dir} /\ IsPrefix(before[p], disk[q])
  BY DEF FilesKept
<1>1. before[p] = disk[p]
  BY DEF OnlyNewTouched
<1>2. disk[p] \in Seq(FileBlocks)
  BY <1>1, FilesKnown
<1> QED BY <1>1, <1>2, PrefixReflexive

LEMMA UntouchedKeptNext ==
  OnlyNewTouched' /\ (disk \in [Paths -> Contents])' => FilesKept'
<1>1. OnlyNewTouched /\ disk \in [Paths -> Contents] => FilesKept
  BY UntouchedKept
<1> QED BY <1>1, PTL

LEMMA RenameStarts ==
  ASSUME ExOk, DiskOk, confirmRename
  PROVE  ExOk' /\ DiskOk'
<1>1. UNCHANGED disk /\ renaming.pc = "idle" /\ ~ex.need_refresh /\ Selected
  BY DEF confirmRename, Ready
<1>2. CASE ex' = clearDialog(ex) /\ UNCHANGED <<renaming, before>>
  <2>1. SameList(ex', ex)
    BY <1>2, ClearKeeps DEF ExOk
  <2> QED BY <1>1, <1>2, <2>1, SameListOk, DiskAlone
<1>3. CASE /\ ex.text # ex.name
           /\ renaming' = [pc |-> IF ex.is_dir THEN "mkdir" ELSE "link",
                           old |-> Append(ex.path, ex.name), new |-> Target, at |-> 0]
           /\ before' = [p \in Paths |-> IF p = Target THEN None ELSE disk[p]]
           /\ UNCHANGED ex
  <2> DEFINE old == Append(ex.path, ex.name)
             new == Append(ex.path, ex.text)
  <2>1. old # new /\ Front(old) = ex.path /\ Front(new) = ex.path
    BY <1>3, PathFacts DEF ExOk
  <2>2. OnlyNewTouched'
    BY <1>1, <1>3, <2>1 DEF OnlyNewTouched, Target
  <2>3. ex.is_dir /\ DirExists(ex.path) => ~IsFile(old)
    <3>1. PICK i \in 1 .. Len(ex.items) : ex.name = ex.items[i].name /\ ex.is_dir = ex.items[i].is_dir
      <4>1. ex.selected + 1 \in 1 .. Len(ex.items)
        BY <1>1 DEF ExOk, Selected
      <4> QED BY <1>1, <4>1 DEF ExOk, SelectionMatches
    <3> QED BY <1>1, <3>1 DEF ExOk, ItemsKnown, IsFile
  <2>4. RenameFits'
    <3>1. renaming' = [pc |-> IF ex.is_dir THEN "mkdir" ELSE "link", old |-> old, new |-> new, at |-> 0]
      BY <1>3 DEF Target
    <3>2. (DirExists(Front(renaming.new)) => ~IsFile(renaming.old))' \/ ~ex.is_dir
      BY <1>1, <2>1, <2>3, <3>1 DEF DirExists, IsFile, Exists
    <3> QED BY <2>2, <3>1, <3>2 DEF RenameFits
  <2>5. DiskOk'
    BY <1>1, <1>3, <2>2, <2>4, UntouchedKeptNext DEF DiskOk
  <2>6. ItemsKnown' /\ SelectionMatches'
    BY <1>3, ExAlone DEF ExOk, ItemsKnown, SelectionMatches, Selected
  <2> QED BY <1>3, <2>5, <2>6 DEF ExOk
<1> QED BY <1>2, <1>3 DEF confirmRename

\* Between two calls of a rename the list is not looked at.
LEMMA Renaming ==
  ASSUME ExOk, UNCHANGED ex, renaming'.pc # "idle"
  PROVE  ExOk'
BY DEF ExOk, ItemsKnown, SelectionMatches, Selected

LEMMA Mkdirs ==
  ASSUME DiskOk, rename_mkdir
  PROVE  DiskOk' /\ renaming'.pc # "idle"
<1> DEFINE old == renaming.old
           new == renaming.new
<1>1. renaming.pc = "mkdir" /\ OnlyNewTouched /\ UNCHANGED before
  BY DEF rename_mkdir, DiskOk, RenameFits
<1>2. CASE NewFits /\ ~Exists(new) /\ disk' = [disk EXCEPT ![new] = Dir] /\ Goes("unlink")
  <2>1. renaming' = [renaming EXCEPT !.pc = "unlink"] /\ renaming'.old = old /\ renaming'.new = new
        /\ renaming'.pc = "unlink"
    BY <1>2 DEF Goes, DiskOk
  <2>2. disk' \in [Paths -> Contents]
    BY <1>2 DEF DiskOk, Contents
  <2>3. OnlyNewTouched'
    BY <1>1, <1>2, <2>1 DEF OnlyNewTouched, DiskOk
  <2>4. ~IsFile(old)'
    <3>1. ~IsFile(old)
      BY <1>1, <1>2 DEF DiskOk, RenameFits, NewFits
    <3> QED BY <1>1, <1>2, <2>1, <3>1 DEF IsFile, Exists, OnlyNewTouched, DiskOk
  <2>5. RenameFits'
    BY <2>1, <2>3, <2>4 DEF RenameFits
  <2> QED BY <1>1, <2>1, <2>2, <2>3, <2>5, UntouchedKeptNext DEF DiskOk
<1>3. CASE Goes("end") /\ UNCHANGED disk
  BY <1>1, <1>3 DEF DiskOk, Goes, RenameFits, FilesKept
<1> QED BY <1>2, <1>3 DEF rename_mkdir

LEMMA Links ==
  ASSUME DiskOk, rename_link
  PROVE  DiskOk' /\ renaming'.pc # "idle"
<1> DEFINE old == renaming.old
           new == renaming.new
<1>1. renaming.pc = "link" /\ OnlyNewTouched /\ UNCHANGED before /\ renaming.at = 0
  BY DEF rename_link, DiskOk, RenameFits
<1>2. CASE IsFile(old) /\ NewFits /\ ~Exists(new) /\ disk' = [disk EXCEPT ![new] = disk[old]]
           /\ Goes("unlink")
  <2>1. renaming'.old = old /\ renaming'.new = new /\ renaming'.pc = "unlink"
        /\ DOMAIN renaming' = {"pc", "old", "new", "at"}
    BY <1>2 DEF Goes, DiskOk
  <2>2. old \in Paths /\ new \in Paths /\ disk[old] \in Seq(FileBlocks) /\ old # new
    BY <1>1, <1>2, FilesKnown DEF IsFile, Exists, NewFits, DiskOk, OnlyNewTouched
  <2>3. disk' \in [Paths -> Contents] /\ disk'[old] = disk[old] /\ disk'[new] = disk[old]
    BY <1>2, <2>2 DEF DiskOk
  <2>4. OnlyNewTouched'
    BY <1>1, <1>2, <2>1 DEF OnlyNewTouched, DiskOk
  <2>5. RenameFits'
    <3>1. disk'[new] \notin {None, Dir}
      <4>1. disk[old] \notin {None, Dir}
        BY <1>2 DEF IsFile, Exists
      <4> QED BY <2>3, <4>1
    <3>2. IsPrefix(disk'[old], disk'[new])
      BY <2>2, <2>3, PrefixReflexive
    <3>3. (IsFile(renaming.new) /\ IsPrefix(disk[renaming.old], disk[renaming.new]))'
      BY <2>1, <2>2, <3>1, <3>2 DEF IsFile, Exists
    <3> QED BY <2>1, <2>4, <3>3 DEF RenameFits
  <2> QED BY <1>1, <2>1, <2>3, <2>4, <2>5, UntouchedKeptNext DEF DiskOk
<1>3. CASE Goes("open") /\ UNCHANGED disk
  <2>1. renaming'.old = old /\ renaming'.new = new /\ renaming'.pc = "open" /\ renaming'.at = 0
        /\ DOMAIN renaming' = {"pc", "old", "new", "at"}
    BY <1>1, <1>3 DEF Goes, DiskOk
  <2>2. OnlyNewTouched'
    BY <1>1, <1>3, <2>1 DEF OnlyNewTouched
  <2> QED BY <1>1, <1>3, <2>1, <2>2 DEF DiskOk, RenameFits, FilesKept
<1> QED BY <1>2, <1>3 DEF rename_link


LEMMA Opens ==
  ASSUME DiskOk, copy_open
  PROVE  DiskOk' /\ renaming'.pc # "idle"
<1> DEFINE old == renaming.old
           new == renaming.new
<1>1. renaming.pc = "open" /\ OnlyNewTouched /\ UNCHANGED before /\ renaming.at = 0
  BY DEF copy_open, DiskOk, RenameFits
<1>2. CASE /\ IsFile(old) /\ NewFits /\ disk[new] # Dir
           /\ disk' = IF Exists(new) THEN disk ELSE [disk EXCEPT ![new] = <<>>]
           /\ Goes("copy")
  <2>1. renaming'.old = old /\ renaming'.new = new /\ renaming'.pc = "copy" /\ renaming'.at = 0
        /\ DOMAIN renaming' = {"pc", "old", "new", "at"}
    BY <1>1, <1>2 DEF Goes, DiskOk
  <2>2. old \in Paths /\ new \in Paths /\ disk[old] \in Seq(FileBlocks) /\ old # new
    BY <1>1, <1>2, FilesKnown DEF IsFile, Exists, NewFits, DiskOk, OnlyNewTouched
  <2>3. disk' \in [Paths -> Contents] /\ disk'[old] = disk[old] /\ disk'[new] \in Seq(FileBlocks)
    <3>1. CASE Exists(new)
      BY <1>2, <2>2, <3>1, FilesKnown DEF DiskOk, Exists
    <3>2. CASE ~Exists(new)
      BY <1>2, <2>2, <3>2 DEF DiskOk, Contents
    <3> QED BY <3>1, <3>2
  <2>4. OnlyNewTouched'
    BY <1>1, <1>2, <2>1 DEF OnlyNewTouched, DiskOk
  <2>5. CopiedSoFar'
    BY <2>1, <2>2, <2>3 DEF CopiedSoFar
  <2>6. RenameFits'
    BY <2>1, <2>4, <2>5 DEF RenameFits
  <2> QED BY <1>1, <2>1, <2>3, <2>4, <2>6, UntouchedKeptNext DEF DiskOk
<1>3. CASE Goes("end") /\ UNCHANGED disk
  BY <1>1, <1>3 DEF DiskOk, Goes, RenameFits, FilesKept
<1> QED BY <1>2, <1>3 DEF copy_open

\* One block more: the copy stays as long, or grows by it.
LEMMA OverwritesNext ==
  ASSUME NEW s \in Seq(FileBlocks), NEW k \in 1 .. Len(s) + 1, NEW b \in FileBlocks
  PROVE  /\ Overwritten(s, k, b) \in Seq(FileBlocks)
         /\ Len(Overwritten(s, k, b)) \in Nat /\ Len(Overwritten(s, k, b)) >= k
         /\ Overwritten(s, k, b)[k] = b
         /\ \A j \in 1 .. k - 1 : Overwritten(s, k, b)[j] = s[j]
<1>1. CASE k <= Len(s)
  <2>1. Overwritten(s, k, b) = [s EXCEPT ![k] = b]
    BY <1>1 DEF Overwritten
  <2>2. [s EXCEPT ![k] = b] \in Seq(FileBlocks) /\ Len([s EXCEPT ![k] = b]) = Len(s)
    BY <1>1, ExceptSeq
  <2>3. [s EXCEPT ![k] = b][k] = b /\ \A j \in 1 .. k - 1 : [s EXCEPT ![k] = b][j] = s[j]
    BY <1>1
  <2>4. Len(s) \in Nat
    OBVIOUS
  <2> QED BY <1>1, <2>1, <2>2, <2>3, <2>4
<1>2. CASE ~(k <= Len(s))
  <2>1. Overwritten(s, k, b) = Append(s, b) /\ k = Len(s) + 1
    BY <1>2 DEF Overwritten
  <2>2. /\ Append(s, b) \in Seq(FileBlocks) /\ Len(Append(s, b)) = Len(s) + 1
        /\ Append(s, b)[Len(s) + 1] = b /\ \A j \in 1 .. Len(s) : Append(s, b)[j] = s[j]
    OBVIOUS
  <2>3. PICK n : n = Len(s) /\ n \in Nat /\ k = n + 1
    BY <2>1
  <2>4. PICK o : o = Append(s, b)
    OBVIOUS
  <2>5. o \in Seq(FileBlocks) /\ Len(o) = n + 1 /\ o[n + 1] = b /\ \A j \in 1 .. n : o[j] = s[j]
    BY <2>2, <2>3, <2>4
  <2>6. k - 1 = n
    BY <2>3
  <2>7. Overwritten(s, k, b) = o
    BY <2>1, <2>4
  <2> QED BY <2>3, <2>5, <2>6, <2>7
<1> QED BY <1>1, <1>2

LEMMA Copies ==
  ASSUME DiskOk, copy_block
  PROVE  DiskOk' /\ renaming'.pc # "idle"
<1> DEFINE old == renaming.old
           new == renaming.new
           src == disk[old]
           at == renaming.at
<1>1. renaming.pc = "copy" /\ OnlyNewTouched /\ CopiedSoFar
  BY DEF copy_block, DiskOk, RenameFits
<1>2. /\ old \in Paths /\ new \in Paths /\ old # new
      /\ src \in Seq(FileBlocks) /\ disk[new] \in Seq(FileBlocks)
      /\ at \in 0 .. Len(src) /\ at <= Len(disk[new])
      /\ \A k \in 1 .. at : disk[new][k] = src[k]
  BY <1>1 DEF CopiedSoFar, OnlyNewTouched
<1>3. CASE /\ at + 1 <= Len(src)
           /\ disk' = [disk EXCEPT ![new] = Overwritten(@, at + 1, src[at + 1])]
           /\ renaming' = [renaming EXCEPT !.at = at + 1]
           /\ UNCHANGED before
  <2> DEFINE to == Overwritten(disk[new], at + 1, src[at + 1])
  <2>1. renaming'.old = old /\ renaming'.new = new /\ renaming'.pc = "copy" /\ renaming'.at = at + 1
        /\ DOMAIN renaming' = {"pc", "old", "new", "at"}
    BY <1>1, <1>3 DEF DiskOk
  <2>2. src[at + 1] \in FileBlocks /\ at + 1 \in 1 .. Len(disk[new]) + 1
    BY <1>2, <1>3
  <2>3. /\ to \in Seq(FileBlocks) /\ Len(to) \in Nat /\ Len(to) >= at + 1
        /\ to[at + 1] = src[at + 1] /\ \A j \in 1 .. at : to[j] = disk[new][j]
    <3>1. PICK s, k, b : s = disk[new] /\ k = at + 1 /\ b = src[at + 1]
      OBVIOUS
    <3>2. s \in Seq(FileBlocks) /\ k \in 1 .. Len(s) + 1 /\ b \in FileBlocks
      BY <1>2, <2>2, <3>1
    <3>3. k - 1 = at
      BY <1>2, <3>1
    <3>4. to = Overwritten(s, k, b)
      BY <3>1, Zenon
    <3>5. /\ Overwritten(s, k, b) \in Seq(FileBlocks)
          /\ Len(Overwritten(s, k, b)) \in Nat /\ Len(Overwritten(s, k, b)) >= k
          /\ Overwritten(s, k, b)[k] = b
          /\ \A j \in 1 .. k - 1 : Overwritten(s, k, b)[j] = s[j]
      BY <3>2, OverwritesNext, Zenon
    <3> HIDE DEF to
    <3>6. /\ to \in Seq(FileBlocks) /\ Len(to) \in Nat /\ Len(to) >= k /\ to[k] = b
          /\ \A j \in 1 .. at : to[j] = s[j]
      BY <3>3, <3>4, <3>5
    <3> QED BY <3>1, <3>6
  <2>4. disk' = [disk EXCEPT ![new] = to]
    BY <1>3
  <2> HIDE DEF to
  <2>5. disk' \in [Paths -> Contents] /\ disk'[old] = src /\ disk'[new] = to
    BY <1>2, <2>3, <2>4 DEF DiskOk, Contents
  <2>6. OnlyNewTouched'
    BY <1>1, <1>3, <2>1, <2>4 DEF OnlyNewTouched, DiskOk
  <2>7. \A k \in 1 .. at + 1 : to[k] = src[k]
    BY <1>2, <2>3
  <2>8. CopiedSoFar'
    BY <1>2, <1>3, <2>1, <2>3, <2>5, <2>7 DEF CopiedSoFar
  <2>9. RenameFits'
    BY <2>1, <2>6, <2>8 DEF RenameFits
  <2> QED BY <1>3, <2>1, <2>5, <2>6, <2>9, UntouchedKeptNext DEF DiskOk
<1>4. CASE Goes("end") /\ UNCHANGED <<disk, before>>
  BY <1>1, <1>4 DEF DiskOk, Goes, RenameFits, FilesKept
<1>5. CASE at + 1 > Len(src) /\ Goes("unlink") /\ UNCHANGED <<disk, before>>
  <2>1. renaming'.old = old /\ renaming'.new = new /\ renaming'.pc = "unlink"
        /\ DOMAIN renaming' = {"pc", "old", "new", "at"}
    BY <1>5 DEF DiskOk, Goes
  <2>2. OnlyNewTouched'
    BY <1>1, <1>5, <2>1 DEF OnlyNewTouched
  <2>3. at = Len(src)
    BY <1>2, <1>5
  <2>4. IsPrefix(src, disk[new])
    BY <1>2, <2>3, PrefixPointwise
  <2>5. IsFile(new)
    BY <1>2, FilesKnown DEF DiskOk
  <2>6. (IsFile(renaming.new) /\ IsPrefix(disk[renaming.old], disk[renaming.new]))'
    BY <1>5, <2>1, <2>4, <2>5 DEF IsFile, Exists
  <2>7. RenameFits'
    BY <2>1, <2>2, <2>6 DEF RenameFits
  <2> QED BY <1>5, <2>1, <2>2, <2>7, UntouchedKeptNext DEF DiskOk
<1>6. CASE Goes("unlink") /\ UNCHANGED disk /\ before' = [before EXCEPT ![old] = None]
  <2>1. renaming'.old = old /\ renaming'.new = new /\ renaming'.pc = "unlink"
        /\ DOMAIN renaming' = {"pc", "old", "new", "at"}
    BY <1>6 DEF DiskOk, Goes
  <2>2. DOMAIN before' = Paths /\ before'[old] = None /\ \A p \in Paths : p # old => before'[p] = before[p]
    BY <1>2, <1>6 DEF DiskOk
  <2>3. OnlyNewTouched'
    BY <1>1, <1>6, <2>1, <2>2 DEF OnlyNewTouched
  <2>4. RenameFits'
    BY <2>1, <2>2, <2>3 DEF RenameFits
  <2> QED BY <1>6, <2>1, <2>2, <2>3, <2>4, UntouchedKeptNext DEF DiskOk
<1> QED BY <1>3, <1>4, <1>5, <1>6 DEF copy_block

\* The last call: what the old name held is the beginning of the new one.
LEMMA Unlinks ==
  ASSUME DiskOk, rename_unlink
  PROVE  DiskOk' /\ renaming'.pc # "idle"
<1> DEFINE old == renaming.old
           new == renaming.new
<1>1. renaming.pc = "unlink" /\ OnlyNewTouched /\ UNCHANGED before
      /\ (IsFile(old) /\ before[old] # None => IsFile(new) /\ IsPrefix(disk[old], disk[new]))
  BY DEF rename_unlink, DiskOk, RenameFits
<1>2. renaming'.pc = "end" /\ DOMAIN renaming' = {"pc", "old", "new", "at"}
  BY DEF rename_unlink, Goes, DiskOk
<1>3. disk' = disk \/ disk' = [disk EXCEPT ![old] = None]
  BY DEF rename_unlink, Unlinked
<1>4. disk' \in [Paths -> Contents] /\ \A q \in Paths : q # old => disk'[q] = disk[q]
  BY <1>3 DEF DiskOk, Contents
<1>5. FilesKept'
  <2>1. CASE disk' = disk
    BY <1>1, <2>1 DEF DiskOk, FilesKept
  <2>2. CASE disk' = [disk EXCEPT ![old] = None]
    <3> SUFFICES ASSUME NEW p \in Paths, before[p] \notin {None, Dir}
                 PROVE  \E q \in Paths : disk'[q] \notin {None, Dir} /\ IsPrefix(before[p], disk'[q])
      BY <1>1 DEF FilesKept
    <3>1. before[p] = disk[p] /\ p # new
      BY <1>1 DEF OnlyNewTouched
    <3>2. CASE p = old
      <4>1. IsFile(old)
        BY <3>1, <3>2 DEF IsFile, Exists
      <4>2. new \in Paths /\ disk[new] \notin {None, Dir} /\ IsPrefix(disk[old], disk[new])
        BY <1>1, <3>2, <4>1 DEF IsFile, Exists
      <4>3. disk'[new] = disk[new]
        BY <1>4, <3>1, <3>2, <4>2
      <4> QED BY <3>1, <3>2, <4>2, <4>3
    <3>3. CASE p # old
      <4>1. disk'[p] = disk[p] /\ disk[p] \in Seq(FileBlocks)
        BY <1>4, <3>1, <3>3, FilesKnown DEF DiskOk
      <4>2. IsPrefix(disk[p], disk[p])
        BY <4>1, PrefixReflexive
      <4> QED BY <3>1, <4>1, <4>2
    <3> QED BY <3>2, <3>3
  <2> QED BY <1>3, <2>1, <2>2
<1>6. RenameFits'
  BY <1>2 DEF RenameFits
<1> QED BY <1>1, <1>2, <1>4, <1>5, <1>6 DEF DiskOk

LEMMA Ends ==
  ASSUME ExOk, DiskOk, rename_end
  PROVE  ExOk' /\ DiskOk'
<1>1. ex' = [Done(ex) EXCEPT !.selected = -1] /\ renaming' = NotRenaming /\ UNCHANGED <<disk, before>>
  BY DEF rename_end
<1>2. Stale(ex', ex)
  BY <1>1, ClearKeeps DEF ExOk, SameList, Done, Stale, Fields
<1> QED BY <1>1, <1>2, StaleOk DEF DiskOk, NotRenaming, RenameFits, FilesKept

\* What an explorer that was just started is known to hold.
Started(f) ==
  /\ DOMAIN f = Fields /\ f.path = <<>> /\ f.buf = <<>> /\ f.selected = -1
  /\ f.items \in Seq(Range(f.items))
  /\ \A i \in 1 .. Len(f.items) :
       /\ f.items[i].name \in Names
       /\ f.items[i].is_dir <=> disk[Append(<<>>, f.items[i].name)] = Dir

LEMMA FreshStarted == Started(Fresh)
<1> DEFINE e == [win |-> initUI, path |-> <<>>, buf |-> <<>>, selected |-> -1, items |-> <<>>, name |-> "",
                 is_dir |-> FALSE, active |-> FALSE, dialog |-> NoDialog, text |-> "",
                 need_refresh |-> FALSE, ran |-> "", wild |-> FALSE]
<1>1. DOMAIN e = Fields /\ e.path = <<>> /\ e.buf = <<>>
  BY DEF Fields
<1>2. Fresh = loadFiles(e)
  BY DEF Fresh
<1>3. Loaded(Fresh, e)
  <2> HIDE DEF e
  <2> QED BY <1>1, <1>2, Loads
<1>4. DirExists(e.path)
  BY <1>1 DEF DirExists
<1> HIDE DEF e
<1> QED BY <1>1, <1>3, <1>4 DEF Loaded, Started

LEMMA FreshOk ==
  ASSUME ex = Fresh
  PROVE  ExOk
<1>1. Started(ex)
  BY FreshStarted
<1>2. SelectionMatches
  BY <1>1 DEF Started, SelectionMatches, Selected
<1>3. ItemsKnown
  BY <1>1 DEF Started, ItemsKnown
<1> QED BY <1>1, <1>2, <1>3 DEF Started, ExOk

LEMMA Restarts ==
  ASSUME DiskOk, restart
  PROVE  ExOk' /\ DiskOk'
<1>1. ex' = [Fresh EXCEPT !.wild = ex.wild] /\ renaming' = NotRenaming /\ UNCHANGED <<disk, before>>
  BY DEF restart
<1>2. PICK f : f = Fresh
  OBVIOUS
<1>3. Started(f) /\ ex' = [f EXCEPT !.wild = ex.wild]
  BY <1>1, <1>2, FreshStarted
<1>4. Started(ex')
  BY <1>3 DEF Started, Fields
<1>5. ExOk'
  <2>1. SelectionMatches'
    BY <1>4 DEF Started, SelectionMatches, Selected
  <2>2. ItemsKnown'
    BY <1>1, <1>4 DEF Started, ItemsKnown
  <2> QED BY <1>4, <2>1, <2>2 DEF Started, ExOk
<1> QED BY <1>1, <1>5 DEF DiskOk, NotRenaming, RenameFits, FilesKept

LEMMA Starts ==
  ASSUME ExplorerInit
  PROVE  ExOk /\ DiskOk
<1>1. disk \in [Paths -> Contents]
  BY ExplorerAssumption DEF ExplorerInit
<1>2. before = [p \in Paths |-> None] /\ renaming = NotRenaming
  BY DEF ExplorerInit
<1>3. FilesKept
  BY <1>2 DEF FilesKept
<1> QED BY <1>1, <1>2, <1>3, FreshOk DEF ExplorerInit, DiskOk, NotRenaming, RenameFits

-----------------------------------------------------------------------------

\* The inductive invariant of the explorer: its list is of the directory it
\* shows, and between two calls of a rename only the new name was touched, and
\* the copy so far is the beginning of the file.
THEOREM ExplorerInvariant == ExplorerSpec => []ExplorerInv
<1>1. ExplorerInit => ExOk /\ DiskOk
  BY Starts
<1>2. ExOk /\ DiskOk /\ [ExplorerNext]_explorerVars => (ExOk /\ DiskOk)'
  <2> SUFFICES ASSUME ExOk, DiskOk, [ExplorerNext]_explorerVars
               PROVE  ExOk' /\ DiskOk'
    OBVIOUS
  <2>1. CASE handleBack \/ handleHome
    <3>1. UNCHANGED <<disk, renaming, before>>
      BY <2>1 DEF handleBack, handleHome
    <3> QED BY <2>1, <3>1, Backs, DiskAlone
  <2>2. CASE handleNewFolder \/ handleNewFile \/ handleRename
    <3>1. UNCHANGED <<disk, renaming, before>>
      BY <2>2 DEF handleNewFolder, handleNewFile, handleRename, Dialog
    <3> QED BY <2>2, <3>1, Shows, DiskAlone
  <2>3. CASE handleFileClick \/ handleKeyboard
    <3>1. UNCHANGED <<disk, renaming, before>>
      BY <2>3 DEF handleFileClick, handleKeyboard
    <3> QED BY <2>3, <3>1, Clicks, Keys, DiskAlone
  <2>4. CASE dialogInputHandler \/ cancelDialog
    <3>1. UNCHANGED <<disk, renaming, before>>
      BY <2>4 DEF dialogInputHandler, cancelDialog
    <3> QED BY <2>4, <3>1, Inputs, DiskAlone
  <2>5. CASE main_refresh
    <3>1. UNCHANGED <<disk, renaming, before>>
      BY <2>5 DEF main_refresh
    <3> QED BY <2>5, <3>1, Refreshes, DiskAlone
  <2>6. CASE handleDelete
    BY <2>6, Deletes
  <2>7. CASE confirmNewFolder \/ confirmNewFile
    BY <2>7, Creates
  <2>8. CASE others_unlink
    BY <2>8, OthersUnlink
  <2>9. CASE confirmRename
    BY <2>9, RenameStarts
  <2>10. CASE rename_mkdir \/ rename_link \/ copy_open \/ copy_block \/ rename_unlink
    <3>1. DiskOk' /\ renaming'.pc # "idle"
      BY <2>10, Mkdirs, Links, Opens, Copies, Unlinks
    <3>2. UNCHANGED ex
      BY <2>10 DEF rename_mkdir, rename_link, copy_open, copy_block, rename_unlink
    <3> QED BY <3>1, <3>2, Renaming
  <2>11. CASE rename_end
    BY <2>11, Ends
  <2>12. CASE restart
    BY <2>12, Restarts
  <2>13. CASE UNCHANGED explorerVars
    BY <2>13, ExAlone, DiskAlone DEF explorerVars
  <2> QED BY <2>1, <2>2, <2>3, <2>4, <2>5, <2>6, <2>7, <2>8, <2>9, <2>10, <2>11, <2>12, <2>13
          DEF ExplorerNext
<1>3. ExOk /\ DiskOk => ExplorerInv
  BY InvParts
<1> QED BY <1>1, <1>2, <1>3, PTL DEF ExplorerSpec

\* A rename loses no file, whichever of its calls fails or is the last before
\* the machine stops, for any names, any directories and files of any length,
\* with the exceptions that RenameKeepsFiles names: an overwritten file, one of
\* which a read() fails, and whatever follows a key in freed memory.
THEOREM RenameLosesNoFile == ExplorerSpec => []RenameKeepsFiles
<1>1. ExplorerInv => RenameKeepsFiles
  BY DEF ExplorerInv, RenameKeepsFiles
<1> QED BY <1>1, ExplorerInvariant, PTL

=============================================================================
