---------------------------- MODULE WindowProofs ----------------------------
(***************************************************************************)
(* Proofs about the window list, for any number of windows and programs.   *)
(***************************************************************************)
EXTENDS WindowManager, TLAPS, WellFoundedInduction, FiniteSetTheorems

-----------------------------------------------------------------------------
(* Windows, and loops over the links *)

LEMMA Constants ==
  /\ MaxWindows \in Nat \ {0} /\ Nil \notin Ids /\ Ids \subseteq Nat
  /\ Clients \subseteq Procs /\ Menus \subseteq Procs /\ Clients \cap Menus = {} /\ Desktop \in Clients
  BY WindowAssumption DEF Ids, Nil, Clients, Procs

\* f[k] is what a loop from start has reached after k rounds.
Follows(f, start, link) ==
  /\ f = [n \in 0..MaxWindows |-> f[n]]
  /\ f[0] = start
  /\ \A n \in 1..MaxWindows : f[n] = IF f[n-1] = Nil THEN Nil ELSE link[f[n-1]]

\* A loop is determined by where it starts and the links it follows.
LEMMA WalkIs ==
  ASSUME NEW start, NEW link, NEW f, Follows(f, start, link)
  PROVE  Walk(start, link) = f
<1> USE DEF Follows
<1> DEFINE Loop(g) == g = [n \in 0..MaxWindows |->
                             IF n = 0 THEN start ELSE LET w == g[n-1] IN IF w = Nil THEN Nil ELSE link[w]]
           at == Walk(start, link)
<1>1. MaxWindows \in Nat
  BY Constants
<1>2. Loop(f)
  <2> DEFINE h == [n \in 0..MaxWindows |->
                    IF n = 0 THEN start ELSE LET w == f[n-1] IN IF w = Nil THEN Nil ELSE link[w]]
  <2>1. ASSUME NEW n \in 0..MaxWindows PROVE h[n] = f[n]
    <3>1. CASE n = 0
      BY <3>1
    <3>2. CASE n # 0
      <4>1. n \in 1..MaxWindows
        BY <1>1, <3>2
      <4> QED BY <3>2, <4>1
    <3> QED BY <3>1, <3>2
  <2>2. h = [n \in 0..MaxWindows |-> h[n]]
    OBVIOUS
  <2> HIDE DEF h
  <2>3. h = f
    BY <2>1, <2>2
  <2> QED BY <2>3 DEF h
<1>3. at = CHOOSE g : Loop(g)
  BY DEF Walk
<1>8. \E g : Loop(g)
  BY <1>2
<1> HIDE DEF Loop, at
<1>4. Loop(at)
  BY <1>3, <1>8
<1> USE DEF Loop
<1>5. at = [n \in 0..MaxWindows |-> at[n]]
  BY <1>4
<1>6. \A n \in 0..MaxWindows : at[n] = f[n]
  <2> DEFINE S == {n \in 0..MaxWindows : at[n] # f[n]}
  <2> SUFFICES ASSUME S # {} PROVE FALSE
    OBVIOUS
  <2>1. S \subseteq Nat
    BY <1>1
  <2>2. PICK i \in S : \A j \in S : ~(<<j, i>> \in OpToRel(<, Nat))
    BY <2>1, NatLessThanWellFounded, WFMin
  <2>3. i \in 0..MaxWindows /\ at[i] # f[i]
    OBVIOUS
  <2>4. i # 0
    BY <1>1, <1>4, <2>3
  <2>5. i-1 \in 0..MaxWindows /\ i \in 1..MaxWindows /\ i-1 < i
    BY <1>1, <2>3, <2>4
  <2>6. i-1 \notin S
    <3>1. i-1 \in S => <<i-1, i>> \in OpToRel(<, Nat)
      <4>1. <<i-1, i>> \in Nat \X Nat /\ <<i-1, i>>[1] < <<i-1, i>>[2]
        BY <1>1, <2>5
      <4> QED BY <4>1 DEF OpToRel
    <3> QED BY <2>2, <3>1
  <2>7. at[i-1] = f[i-1]
    BY <2>5, <2>6
  <2>8. at[i] = IF at[i-1] = Nil THEN Nil ELSE link[at[i-1]]
    BY <1>4, <2>3, <2>4
  <2>9. f[i] = IF f[i-1] = Nil THEN Nil ELSE link[f[i-1]]
    BY <2>5
  <2> QED BY <2>3, <2>7, <2>8, <2>9
<1>7. at = f
  BY <1>5, <1>6
<1> QED BY <1>7 DEF at

-----------------------------------------------------------------------------
(* The windows in their order *)

\* A list without repetition is no longer than the array.
LEMMA OrderFits ==
  ASSUME NEW n \in Nat, NEW s \in [1..n -> Ids],
         \A i, j \in 1..n : s[i] = s[j] => i = j
  PROVE  /\ n <= MaxWindows
         /\ \A w \in Ids : (\A i \in 1..n : s[i] # w) => n < MaxWindows
<1>1. IsFiniteSet(Ids) /\ Cardinality(Ids) = MaxWindows
  BY Constants, FS_Interval DEF Ids
<1>2. IsFiniteSet(1..n) /\ Cardinality(1..n) = n
  BY FS_Interval
<1>3. s \in Injection(1..n, Ids)
  BY DEF Injection, IsInjective
<1>4. n <= MaxWindows
  BY <1>1, <1>2, <1>3, FS_Injection
<1>5. ASSUME NEW w \in Ids, \A i \in 1..n : s[i] # w PROVE n < MaxWindows
  <2> DEFINE T == Ids \ {w}
  <2>1. IsFiniteSet(T) /\ Cardinality(T) = MaxWindows - 1
    BY <1>1, FS_RemoveElement
  <2>2. s \in [1..n -> T]
    BY <1>5
  <2>3. s \in Injection(1..n, T)
    BY <1>3, <2>2 DEF Injection, IsInjective
  <2> HIDE DEF T
  <2>4. n <= MaxWindows - 1
    BY <1>2, <2>1, <2>3, FS_Injection
  <2> QED BY <2>4, Constants
<1> QED BY <1>4, <1>5

\* What the loops over the links of an ordered list see.
LEMMA WalksOrder ==
  ASSUME NEW l, NEW n \in 0..MaxWindows, NEW s \in [1..n -> Ids], Order(l, n, s)
  PROVE  /\ NextFrom(l) = [k \in 0..MaxWindows |-> IF k < n THEN s[k+1] ELSE Nil]
         /\ PrevFrom(l) = [k \in 0..MaxWindows |-> IF k < n THEN s[n-k] ELSE Nil]
<1>1. MaxWindows \in Nat /\ n \in Nat /\ \A i \in 1..n : s[i] \in Ids /\ s[i] # Nil
  BY Constants
<1>2. ASSUME NEW f, f = [k \in 0..MaxWindows |-> IF k < n THEN s[k+1] ELSE Nil]
      PROVE  NextFrom(l) = f
  <2>1. f = [k \in 0..MaxWindows |-> f[k]]
    BY <1>2
  <2>2. \A k \in 0..MaxWindows : f[k] = IF k < n THEN s[k+1] ELSE Nil
    BY <1>2
  <2>3. f[0] = l.head
    BY <1>1, <2>2 DEF Order
  <2>4. ASSUME NEW k \in 1..MaxWindows
        PROVE  f[k] = IF f[k-1] = Nil THEN Nil ELSE l.next[f[k-1]]
    <3>1. k-1 \in 0..MaxWindows /\ k \in 0..MaxWindows
      BY <1>1
    <3>2. CASE k-1 < n
      <4>1. f[k-1] = s[k] /\ k \in 1..n
        BY <1>1, <2>2, <3>1, <3>2
      <4>2. l.next[s[k]] = IF k = n THEN Nil ELSE s[k+1]
        BY <4>1 DEF Order
      <4> QED BY <1>1, <2>2, <3>1, <4>1, <4>2
    <3>3. CASE ~(k-1 < n)
      BY <1>1, <2>2, <3>1, <3>3
    <3> QED BY <3>2, <3>3
  <2>5. Follows(f, l.head, l.next)
    BY <2>1, <2>3, <2>4 DEF Follows
  <2> QED BY <2>5, WalkIs DEF NextFrom
<1>3. ASSUME NEW f, f = [k \in 0..MaxWindows |-> IF k < n THEN s[n-k] ELSE Nil]
      PROVE  PrevFrom(l) = f
  <2>1. f = [k \in 0..MaxWindows |-> f[k]]
    BY <1>3
  <2>2. \A k \in 0..MaxWindows : f[k] = IF k < n THEN s[n-k] ELSE Nil
    BY <1>3
  <2>3. f[0] = l.tail
    BY <1>1, <2>2 DEF Order
  <2>4. ASSUME NEW k \in 1..MaxWindows
        PROVE  f[k] = IF f[k-1] = Nil THEN Nil ELSE l.prev[f[k-1]]
    <3>1. k-1 \in 0..MaxWindows /\ k \in 0..MaxWindows
      BY <1>1
    <3>2. CASE k-1 < n
      <4> DEFINE i == n - (k-1)
      <4>1. f[k-1] = s[i] /\ i \in 1..n /\ i-1 = n-k
        BY <1>1, <2>2, <3>1, <3>2
      <4>2. l.prev[s[i]] = IF i = 1 THEN Nil ELSE s[i-1]
        BY <4>1 DEF Order
      <4> QED BY <1>1, <2>2, <3>1, <4>1, <4>2
    <3>3. CASE ~(k-1 < n)
      BY <1>1, <2>2, <3>1, <3>3
    <3> QED BY <3>2, <3>3
  <2>5. Follows(f, l.tail, l.prev)
    BY <2>1, <2>3, <2>4 DEF Follows
  <2> QED BY <2>5, WalkIs DEF PrevFrom
<1> QED BY <1>2, <1>3

\* In an ordered list a window is in use just if it has a place.
LEMMA PlacedInUse ==
  ASSUME NEW l, NEW n \in Nat, NEW s \in [1..n -> Ids], Order(l, n, s), NEW i \in 1..n
  PROVE  ~IsFree(l, s[i])
  BY Constants DEF Order, IsFree

\* The stacking order of an ordered list, and the windows in it.
LEMMA OrderStacked ==
  ASSUME NEW l, NEW n \in 0..MaxWindows, NEW s \in [1..n -> Ids], Order(l, n, s)
  PROVE  /\ Stacked(l) = s
         /\ \A w \in Visited(NextFrom(l)) : \E i \in 1..n : s[i] = w
<1> DEFINE walk == NextFrom(l)
           K == {k \in DOMAIN walk : walk[k] # Nil}
<1>1. walk = [k \in 0..MaxWindows |-> IF k < n THEN s[k+1] ELSE Nil]
  BY WalksOrder
<1>2. MaxWindows \in Nat /\ n \in Nat /\ \A i \in 1..n : s[i] \in Ids /\ s[i] # Nil
  BY Constants
<1>3. K = 0..(n-1)
  BY <1>1, <1>2
<1>4. 0 \in Int /\ n-1 \in Int
  BY <1>2
<1>5. Cardinality(0..(n-1)) = IF 0 > n-1 THEN 0 ELSE (n-1)-0+1
  BY <1>4, FS_Interval
<1>6. Cardinality(K) = n
  <2> HIDE DEF K
  <2> QED BY <1>2, <1>3, <1>5
<1>7. Stacked(l) = [i \in 1..Cardinality(K) |-> walk[i-1]]
  BY DEF Stacked
<1>8. ASSUME NEW i \in 1..n PROVE walk[i-1] = s[i]
  <2>1. i-1 \in 0..MaxWindows /\ i-1 < n /\ (i-1)+1 = i
    BY <1>2
  <2> QED BY <1>1, <2>1
<1>9. ASSUME NEW w \in Visited(walk) PROVE \E i \in 1..n : s[i] = w
  <2>1. PICK k \in 0..MaxWindows : w = walk[k] /\ w # Nil
    BY <1>1 DEF Visited
  <2>2. k+1 \in 1..n /\ w = s[k+1]
    BY <1>1, <1>2, <2>1
  <2> QED BY <2>2
<1>11. s = [i \in 1..n |-> s[i]]
  OBVIOUS
<1> HIDE DEF K, walk
<1>10. Stacked(l) = s
  BY <1>6, <1>7, <1>8, <1>11
<1> QED BY <1>9, <1>10 DEF walk

\* Ordered is what ListWellFormed asks for.
LEMMA OrderedWellFormed == Ordered(list) => ListWellFormed
<1> SUFFICES ASSUME Ordered(list) PROVE ListWellFormed
  OBVIOUS
<1>0. PICK n \in 0..MaxWindows : \E s \in [1..n -> Ids] :
        /\ Order(list, n, s)
        /\ \A w \in Ids : IsFree(list, w) \/ \E i \in 1..n : s[i] = w
  BY DEF Ordered
<1>1. PICK s \in [1..n -> Ids] :
        /\ Order(list, n, s)
        /\ \A w \in Ids : IsFree(list, w) \/ \E i \in 1..n : s[i] = w
  BY <1>0
<1>2. /\ NextFrom(list) = [k \in 0..MaxWindows |-> IF k < n THEN s[k+1] ELSE Nil]
      /\ PrevFrom(list) = [k \in 0..MaxWindows |-> IF k < n THEN s[n-k] ELSE Nil]
  BY <1>1, WalksOrder
<1>3. MaxWindows \in Nat /\ n \in Nat /\ \A i \in 1..n : s[i] \in Ids /\ s[i] # Nil
  BY Constants
<1>4. Ends(NextFrom(list)) /\ Ends(PrevFrom(list))
  BY <1>2, <1>3 DEF Ends
<1>5. Visited(NextFrom(list)) = InUse
  <2>1. ASSUME NEW w \in Visited(NextFrom(list)) PROVE w \in InUse
    <3>1. PICK k \in 0..MaxWindows : w = NextFrom(list)[k] /\ w # Nil
      BY <1>2 DEF Visited
    <3>2. k+1 \in 1..n /\ w = s[k+1]
      BY <1>2, <1>3, <3>1
    <3> QED BY <1>1, <1>3, <3>2, PlacedInUse DEF InUse
  <2>2. ASSUME NEW w \in InUse PROVE w \in Visited(NextFrom(list))
    <3>1. PICK i \in 1..n : s[i] = w
      BY <1>1 DEF InUse
    <3>2. i-1 \in 0..MaxWindows /\ i-1 < n /\ (i-1)+1 = i
      BY <1>3
    <3>3. NextFrom(list)[i-1] = w /\ w # Nil
      BY <1>2, <1>3, <3>1, <3>2
    <3> QED BY <1>2, <3>2, <3>3 DEF Visited
  <2> QED BY <2>1, <2>2
<1>6. ZOrder = s
  BY <1>1, OrderStacked DEF ZOrder
<1>7. /\ Len(ZOrder) = n
      /\ \A i \in 1..n : PrevFrom(list)[n - i] = ZOrder[i]
  <2>1. Len(ZOrder) = n
    BY <1>3, <1>6
  <2>2. ASSUME NEW i \in 1..n PROVE PrevFrom(list)[n - i] = ZOrder[i]
    <3>1. n-i \in 0..MaxWindows /\ n-i < n /\ n-(n-i) = i
      BY <1>3
    <3> QED BY <1>2, <1>6, <3>1
  <2> QED BY <2>1, <2>2
<1> QED BY <1>4, <1>5, <1>7 DEF ListWellFormed

-----------------------------------------------------------------------------
(* What the operations do to the order *)

\* The order with w on top, and the order without its kth window.
Added(s, n, w) == [i \in 1..(n+1) |-> IF i = n+1 THEN w ELSE s[i]]
Dropped(s, n, k) == [i \in 1..(n-1) |-> IF i < k THEN s[i] ELSE s[i+1]]

\* OneMoves, for a step that turns the list l into m.
Moves(l, m) ==
  \/ Stacked(m) = Stacked(l)
  \/ \E w \in Ids : /\ SameBut(Stacked(m), Stacked(l), w)
                    /\ w \in Visited(NextFrom(m)) => m.tail = w

\* Neither Added nor Dropped disturbs the order of the other windows.
LEMMA AddedSame ==
  ASSUME NEW n \in Nat, NEW s \in [1..n -> Ids], NEW w \in Ids
  PROVE  SameBut(Added(s, n, w), s, w)
<1> DEFINE t == Added(s, n, w)
<1>1. DOMAIN t = 1..(n+1) /\ DOMAIN s = 1..n /\ t[n+1] = w /\ \A i \in 1..n : i \in 1..(n+1) /\ t[i] = s[i]
  BY DEF Added
<1>2. \A i \in 1..(n+1) : i = n+1 \/ i \in 1..n
  OBVIOUS
<1> HIDE DEF t
<1>3. ASSUME NEW x \in Ids \ {w}, NEW y \in Ids \ {w} PROVE Below(t, x, y) <=> Below(s, x, y)
  <2>1. ASSUME Below(t, x, y) PROVE Below(s, x, y)
    <3>1. PICK i \in 1..(n+1), j \in 1..(n+1) : i <= j /\ t[i] = x /\ t[j] = y
      BY <1>1, <2>1 DEF Below
    <3>2. i \in 1..n /\ j \in 1..n /\ s[i] = x /\ s[j] = y
      BY <1>1, <1>2, <3>1
    <3> QED BY <1>1, <3>1, <3>2 DEF Below
  <2>2. ASSUME Below(s, x, y) PROVE Below(t, x, y)
    <3>1. PICK i \in 1..n, j \in 1..n : i <= j /\ s[i] = x /\ s[j] = y
      BY <1>1, <2>2 DEF Below
    <3>2. i \in 1..(n+1) /\ j \in 1..(n+1) /\ t[i] = x /\ t[j] = y
      BY <1>1, <3>1
    <3> QED BY <1>1, <3>1, <3>2 DEF Below
  <2> QED BY <2>1, <2>2
<1> QED BY <1>3 DEF SameBut, t

LEMMA DroppedSame ==
  ASSUME NEW n \in Nat, NEW s \in [1..n -> Ids], NEW k \in 1..n
  PROVE  SameBut(Dropped(s, n, k), s, s[k])
<1> DEFINE d == Dropped(s, n, k)
           Old(i) == IF i < k THEN i ELSE i+1
           New(i) == IF i < k THEN i ELSE i-1
<1>1. DOMAIN d = 1..(n-1) /\ DOMAIN s = 1..n /\ \A i \in 1..(n-1) : d[i] = s[Old(i)]
  BY DEF Dropped
<1>2. \A i, j \in 1..(n-1) : Old(i) \in 1..n /\ (i <= j => Old(i) <= Old(j))
  OBVIOUS
<1>3. \A i, j \in (1..n) \ {k} : New(i) \in 1..(n-1) /\ Old(New(i)) = i /\ (i <= j => New(i) <= New(j))
  OBVIOUS
<1> HIDE DEF d, Old, New
<1>4. ASSUME NEW x \in Ids \ {s[k]}, NEW y \in Ids \ {s[k]} PROVE Below(d, x, y) <=> Below(s, x, y)
  <2>1. ASSUME Below(d, x, y) PROVE Below(s, x, y)
    <3>1. PICK i \in 1..(n-1), j \in 1..(n-1) : i <= j /\ d[i] = x /\ d[j] = y
      BY <1>1, <2>1 DEF Below
    <3>2. Old(i) \in DOMAIN s /\ Old(j) \in DOMAIN s /\ Old(i) <= Old(j) /\ s[Old(i)] = x /\ s[Old(j)] = y
      BY <1>1, <1>2, <3>1
    <3> QED BY <3>2 DEF Below
  <2>2. ASSUME Below(s, x, y) PROVE Below(d, x, y)
    <3>1. PICK i \in 1..n, j \in 1..n : i <= j /\ s[i] = x /\ s[j] = y
      BY <1>1, <2>2 DEF Below
    <3>2. i \in (1..n) \ {k} /\ j \in (1..n) \ {k}
      BY <3>1
    <3>3. New(i) \in DOMAIN d /\ New(j) \in DOMAIN d /\ New(i) <= New(j) /\ d[New(i)] = x /\ d[New(j)] = y
      BY <1>1, <1>3, <3>1, <3>2
    <3> QED BY <3>3 DEF Below
  <2> QED BY <2>1, <2>2
<1> QED BY <1>4 DEF SameBut, d

LEMMA SameThen ==
  ASSUME NEW s, NEW t, NEW u, NEW w, SameBut(s, t, w), SameBut(t, u, w)
  PROVE  SameBut(s, u, w)
  BY DEF SameBut

LEMMA AddType ==
  ASSUME NEW l \in Lists, NEW w \in Ids
  PROVE  addToWindowList(l, w) \in Lists
  BY DEF Lists, addToWindowList

LEMMA AddOrder ==
  ASSUME NEW l \in Lists, NEW n \in Nat \ {0}, NEW s \in [1..n -> Ids], Order(l, n, s),
         NEW w \in Ids, \A i \in 1..n : s[i] # w
  PROVE  /\ Added(s, n, w) \in [1..(n+1) -> Ids]
         /\ Order(addToWindowList(l, w), n+1, Added(s, n, w))
         /\ \A x \in Ids : x # w /\ (\A i \in 1..n : s[i] # x) =>
              IsFree(addToWindowList(l, w), x) = IsFree(l, x)
<1> DEFINE m == addToWindowList(l, w)
           t == Added(s, n, w)
<1>1. /\ \A i \in 1..(n+1) : t[i] = IF i = n+1 THEN w ELSE s[i]
      /\ t \in [1..(n+1) -> Ids]
  BY DEF Added
<1>2. /\ n \in 1..n /\ 1 \in 1..n /\ l.tail = s[n] /\ l.head = s[1] /\ s[n] # w /\ s[n] \in Ids
      /\ \A i, j \in 1..n : s[i] = s[j] => i = j
      /\ \A i \in 1..n : /\ l.next[s[i]] = IF i = n THEN Nil ELSE s[i+1]
                         /\ l.prev[s[i]] = IF i = 1 THEN Nil ELSE s[i-1]
  BY DEF Order
<1>3. /\ m.next = [[l.next EXCEPT ![w] = Nil] EXCEPT ![s[n]] = w]
      /\ m.prev = [l.prev EXCEPT ![w] = s[n]]
      /\ m.head = s[1] /\ m.tail = w
  BY <1>2, Constants DEF addToWindowList, Lists
<1>4. /\ \A x \in Ids : m.next[x] = IF x = s[n] THEN w ELSE IF x = w THEN Nil ELSE l.next[x]
      /\ \A x \in Ids : m.prev[x] = IF x = w THEN s[n] ELSE l.prev[x]
  BY <1>2, <1>3 DEF Lists
<1> HIDE DEF m, t
<1>5. ASSUME NEW i \in 1..(n+1), NEW j \in 1..(n+1), t[i] = t[j] PROVE i = j
  <2>1. \A k \in 1..(n+1) : k # n+1 => k \in 1..n /\ t[k] = s[k] /\ t[k] # w
    BY <1>1
  <2>2. t[n+1] = w
    BY <1>1
  <2>3. (i = n+1 => t[i] = w) /\ (j = n+1 => t[j] = w)
    BY <2>2
  <2>4. (i # n+1 => i \in 1..n /\ t[i] = s[i] /\ t[i] # w) /\ (j # n+1 => j \in 1..n /\ t[j] = s[j] /\ t[j] # w)
    BY <2>1
  <2>5. CASE i # n+1 /\ j # n+1
    BY <1>2, <1>5, <2>4, <2>5
  <2> QED BY <1>5, <2>3, <2>4, <2>5
<1>6. m.head = t[1] /\ m.tail = t[n+1]
  BY <1>1, <1>2, <1>3
<1>7. ASSUME NEW i \in 1..(n+1)
      PROVE  /\ m.next[t[i]] = IF i = n+1 THEN Nil ELSE t[i+1]
             /\ m.prev[t[i]] = IF i = 1 THEN Nil ELSE t[i-1]
  <2>1. CASE i = n+1
    <3>1. t[i] = w /\ t[i-1] = s[n] /\ i # 1
      BY <1>1, <1>2, <2>1
    <3> QED BY <1>2, <1>4, <2>1, <3>1
  <2>2. CASE i # n+1
    <3>1. /\ i \in 1..n /\ i+1 \in 1..(n+1) /\ t[i] = s[i] /\ s[i] \in Ids /\ s[i] # w
          /\ i # 1 => i-1 \in 1..(n+1) /\ t[i-1] = s[i-1]
          /\ t[i+1] = IF i = n THEN w ELSE s[i+1]
      BY <1>1, <2>2
    <3>2. s[i] = s[n] => i = n
      BY <1>2, <3>1
    <3>3. m.next[s[i]] = t[i+1]
      BY <1>2, <1>4, <3>1, <3>2
    <3>4. m.prev[s[i]] = IF i = 1 THEN Nil ELSE t[i-1]
      BY <1>2, <1>4, <3>1
    <3> QED BY <2>2, <3>1, <3>3, <3>4
  <2> QED BY <2>1, <2>2
<1>8. Order(m, n+1, t)
  BY <1>5, <1>6, <1>7 DEF Order
<1>9. \A x \in Ids : x # w /\ (\A i \in 1..n : s[i] # x) => IsFree(m, x) = IsFree(l, x)
  BY <1>2, <1>4 DEF IsFree
<1> QED BY <1>1, <1>8, <1>9 DEF m, t

\* createWindow() on an empty list.
LEMMA AddFirst ==
  ASSUME NEW l \in Lists, NEW s \in [1..0 -> Ids], Order(l, 0, s), NEW w \in Ids
  PROVE  LET m == addToWindowList([l EXCEPT !.head = w], w) IN
           /\ Order(m, 1, [i \in 1..1 |-> w])
           /\ \A x \in Ids : x # w => IsFree(m, x) = IsFree(l, x)
<1> DEFINE m == addToWindowList([l EXCEPT !.head = w], w)
<1>1. l.tail = Nil
  BY DEF Order
<1>2. /\ m.next = [l.next EXCEPT ![w] = Nil] /\ m.prev = [l.prev EXCEPT ![w] = Nil]
      /\ m.head = w /\ m.tail = w
  BY <1>1 DEF addToWindowList, Lists
<1>3. m.next[w] = Nil /\ m.prev[w] = Nil /\ \A x \in Ids \ {w} : m.next[x] = l.next[x] /\ m.prev[x] = l.prev[x]
  BY <1>2 DEF Lists
<1> HIDE DEF m
<1>4. Order(m, 1, [i \in 1..1 |-> w])
  BY <1>2, <1>3 DEF Order
<1>5. \A x \in Ids : x # w => IsFree(m, x) = IsFree(l, x)
  BY <1>3 DEF IsFree
<1> QED BY <1>4, <1>5 DEF m

\* m is l with the neighbours of the kth window, and the ends, joined over it.
Unlinked(m, l, n, s, k) ==
  /\ m.head = IF k = 1 THEN (IF n = 1 THEN Nil ELSE s[2]) ELSE l.head
  /\ m.tail = IF k = n THEN (IF n = 1 THEN Nil ELSE s[n-1]) ELSE l.tail
  /\ \A x \in Ids \ {s[k]} :
       /\ m.next[x] = IF k > 1 /\ x = s[k-1] THEN (IF k = n THEN Nil ELSE s[k+1]) ELSE l.next[x]
       /\ m.prev[x] = IF k < n /\ x = s[k+1] THEN (IF k = 1 THEN Nil ELSE s[k-1]) ELSE l.prev[x]

LEMMA UnlinkOrder ==
  ASSUME NEW l, NEW n \in Nat, NEW s \in [1..n -> Ids], Order(l, n, s),
         NEW k \in 1..n, NEW m, Unlinked(m, l, n, s, k)
  PROVE  /\ Dropped(s, n, k) \in [1..(n-1) -> Ids]
         /\ \A i \in 1..(n-1) : Dropped(s, n, k)[i] # s[k]
         /\ \A i \in 1..n : i = k \/ \E j \in 1..(n-1) : Dropped(s, n, k)[j] = s[i]
         /\ Order(m, n-1, Dropped(s, n, k))
<1> DEFINE d == Dropped(s, n, k)
<1>1. \A i \in 1..(n-1) : d[i] = IF i < k THEN s[i] ELSE s[i+1]
  BY DEF Dropped
<1>2. /\ \A i, j \in 1..n : s[i] = s[j] => i = j
      /\ l.head = s[1] /\ l.tail = s[n]
      /\ \A i \in 1..n : /\ l.next[s[i]] = IF i = n THEN Nil ELSE s[i+1]
                         /\ l.prev[s[i]] = IF i = 1 THEN Nil ELSE s[i-1]
  BY DEF Order
<1>3. d \in [1..(n-1) -> Ids]
  <2>1. ASSUME NEW i \in 1..(n-1) PROVE (IF i < k THEN s[i] ELSE s[i+1]) \in Ids
    <3>1. i \in 1..n /\ i+1 \in 1..n
      OBVIOUS
    <3> QED BY <3>1
  <2> QED BY <2>1 DEF Dropped
<1> HIDE DEF d
<1>4. \A i \in 1..(n-1) : d[i] # s[k]
  <2> TAKE i \in 1..(n-1)
  <2>1. CASE i < k
    BY <1>1, <1>2, <2>1
  <2>2. CASE ~(i < k)
    <3>1. i+1 \in 1..n /\ i+1 # k /\ d[i] = s[i+1]
      BY <1>1, <2>2
    <3> QED BY <1>2, <3>1
  <2> QED BY <2>1, <2>2
<1>5. ASSUME NEW i \in 1..n, i # k PROVE \E j \in 1..(n-1) : d[j] = s[i]
  <2>1. CASE i < k
    <3>1. i \in 1..(n-1) /\ d[i] = s[i]
      BY <1>1, <2>1
    <3> QED BY <3>1
  <2>2. CASE i > k
    <3>1. i-1 \in 1..(n-1) /\ ~(i-1 < k) /\ (i-1)+1 = i
      BY <2>2
    <3>2. d[i-1] = s[i]
      BY <1>1, <3>1
    <3> QED BY <3>1, <3>2
  <2> QED BY <1>5, <2>1, <2>2
<1>6. ASSUME NEW i \in 1..(n-1), NEW j \in 1..(n-1), d[i] = d[j] PROVE i = j
  <2> DEFINE a == IF i < k THEN i ELSE i+1
             b == IF j < k THEN j ELSE j+1
  <2>1. a \in 1..n /\ b \in 1..n /\ (a = b => i = j)
    OBVIOUS
  <2>2. d[i] = s[a] /\ d[j] = s[b]
    BY <1>1
  <2> HIDE DEF a, b
  <2>3. s[a] = s[b] => a = b
    BY <1>2, <2>1
  <2> QED BY <1>6, <2>1, <2>2, <2>3
<1>7. /\ m.head = IF n-1 = 0 THEN Nil ELSE d[1]
      /\ m.tail = IF n-1 = 0 THEN Nil ELSE d[n-1]
  <2>1. CASE n = 1
    BY <2>1 DEF Unlinked
  <2>2. CASE n # 1
    <3>1. d[1] = (IF k = 1 THEN s[2] ELSE s[1]) /\ d[n-1] = (IF k = n THEN s[n-1] ELSE s[n])
      BY <1>1, <2>2
    <3> QED BY <1>2, <2>2, <3>1 DEF Unlinked
  <2> QED BY <2>1, <2>2
<1>8. ASSUME NEW i \in 1..(n-1)
      PROVE  /\ m.next[d[i]] = IF i = n-1 THEN Nil ELSE d[i+1]
             /\ m.prev[d[i]] = IF i = 1 THEN Nil ELSE d[i-1]
  <2>1. /\ d[i] \in Ids \ {s[k]}
        /\ k > 1 => k-1 \in 1..n
        /\ k < n => k+1 \in 1..n
    BY <1>3, <1>4
  <2>2. /\ m.next[d[i]] = IF k > 1 /\ d[i] = s[k-1] THEN (IF k = n THEN Nil ELSE s[k+1]) ELSE l.next[d[i]]
        /\ m.prev[d[i]] = IF k < n /\ d[i] = s[k+1] THEN (IF k = 1 THEN Nil ELSE s[k-1]) ELSE l.prev[d[i]]
    BY <2>1 DEF Unlinked
  <2>3. CASE i < k
    <3>1. /\ d[i] = s[i] /\ i \in 1..n /\ i # n
          /\ k > 1 /\ (s[i] = s[k-1] <=> i = k-1)
          /\ ~(k < n /\ s[i] = s[k+1])
      BY <1>1, <1>2, <2>1, <2>3
    <3>2. l.next[s[i]] = s[i+1] /\ l.prev[s[i]] = IF i = 1 THEN Nil ELSE s[i-1]
      BY <1>2, <3>1
    <3>3. i # 1 => d[i-1] = s[i-1]
      BY <1>1, <2>3
    <3>4. i # k-1 => i # n-1 /\ d[i+1] = s[i+1]
      BY <1>1, <2>3
    <3>5. i = k-1 => (i = n-1 <=> k = n) /\ (k # n => d[i+1] = s[k+1])
      BY <1>1, <2>3
    <3> QED BY <2>2, <3>1, <3>2, <3>3, <3>4, <3>5
  <2>4. CASE ~(i < k)
    <3>1. /\ d[i] = s[i+1] /\ i+1 \in 1..n
          /\ ~(k > 1 /\ s[i+1] = s[k-1])
          /\ k < n /\ (s[i+1] = s[k+1] <=> i = k)
      BY <1>1, <1>2, <2>1, <2>4
    <3>2. /\ l.next[s[i+1]] = IF i+1 = n THEN Nil ELSE s[(i+1)+1]
          /\ l.prev[s[i+1]] = s[i]
      BY <1>2, <3>1
    <3>3. i # n-1 => d[i+1] = s[(i+1)+1]
      BY <1>1, <2>4
    <3>4. i # k => i # 1 /\ d[i-1] = s[i]
      <4>1. i # k => i-1 \in 1..(n-1) /\ ~(i-1 < k) /\ (i-1)+1 = i
        BY <2>4
      <4> QED BY <1>1, <4>1
    <3>5. i = k => (i = 1 <=> k = 1) /\ (k # 1 => d[i-1] = s[k-1])
      BY <1>1, <2>4
    <3> QED BY <2>2, <3>1, <3>2, <3>3, <3>4, <3>5
  <2> QED BY <2>3, <2>4
<1>9. Order(m, n-1, d)
  BY <1>6, <1>7, <1>8 DEF Order
<1> QED BY <1>3, <1>4, <1>5, <1>9 DEF d

\* A window that is put on top of an ordered list is in use, as those were
\* that had a place before, and these keep their order.
LEMMA AddOrdered ==
  ASSUME NEW l \in Lists, NEW n \in Nat \ {0}, NEW s \in [1..n -> Ids], Order(l, n, s),
         NEW w \in Ids, \A i \in 1..n : s[i] # w,
         \A x \in Ids : x = w \/ IsFree(l, x) \/ \E i \in 1..n : s[i] = x
  PROVE  LET m == addToWindowList(l, w) IN
           /\ m \in Lists /\ Ordered(m) /\ m.head # Nil
           /\ ~IsFree(m, w) /\ \A i \in 1..n : ~IsFree(m, s[i])
           /\ SameBut(Stacked(m), s, w) /\ m.tail = w
<1> DEFINE m == addToWindowList(l, w)
           t == Added(s, n, w)
<1>1. /\ t \in [1..(n+1) -> Ids]
      /\ Order(m, n+1, t)
      /\ \A x \in Ids : x # w /\ (\A i \in 1..n : s[i] # x) => IsFree(m, x) = IsFree(l, x)
  BY AddOrder
<1>2. m \in Lists
  BY AddType
<1>3. \A i \in 1..(n+1) : t[i] = IF i = n+1 THEN w ELSE s[i]
  BY DEF Added
<1>4. n+1 \in 0..MaxWindows
  <2>2. \A i, j \in 1..n : s[i] = s[j] => i = j
    BY DEF Order
  <2>1. n < MaxWindows
    BY <2>2, OrderFits
  <2> QED BY <2>1, Constants
<1> HIDE DEF m, t
<1>5. t[n+1] = w /\ \A i \in 1..n : i \in 1..(n+1) /\ t[i] = s[i]
  BY <1>3
<1>6. ASSUME NEW x \in Ids PROVE IsFree(m, x) \/ \E i \in 1..(n+1) : t[i] = x
  <2>1. CASE x = w
    BY <1>5, <2>1
  <2>2. CASE \E i \in 1..n : s[i] = x
    BY <1>5, <2>2
  <2>3. CASE x # w /\ \A i \in 1..n : s[i] # x
    BY <1>1, <2>3
  <2> QED BY <2>1, <2>2, <2>3
<1>7. Ordered(m)
  BY <1>1, <1>4, <1>6 DEF Ordered
<1>8. \A i \in 1..(n+1) : ~IsFree(m, t[i])
  BY <1>1, PlacedInUse
<1>9. m.head # Nil
  <2>1. m.head = t[1] /\ t[1] \in Ids
    BY <1>1 DEF Order
  <2> QED BY <2>1, Constants
<1>10. SameBut(Stacked(m), s, w)
  <2>1. Stacked(m) = t
    BY <1>1, <1>4, OrderStacked
  <2>2. SameBut(t, s, w)
    BY AddedSame DEF t
  <2> QED BY <2>1, <2>2
<1>11. m.tail = w
  <2>1. n+1 # 0
    OBVIOUS
  <2> QED BY <1>1, <1>5, <2>1 DEF Order
<1> QED BY <1>2, <1>5, <1>7, <1>8, <1>9, <1>10, <1>11 DEF m

\* Whatever the links are, focusWindow() leaves indices in them.
LEMMA FocusType ==
  ASSUME NEW l \in Lists, NEW w \in Ids \cup {Nil}
  PROVE  focusWindow(l, w) \in Lists
<1>1. CASE w = Nil \/ w = l.tail \/ FocusIsWild(l, w)
  BY <1>1 DEF focusWindow
<1>2. CASE ~(w = Nil \/ w = l.tail \/ FocusIsWild(l, w))
  <2> DEFINE p == l.prev[w]
             n == l.next[w]
             out == IF w = l.head
                    THEN [l EXCEPT !.prev[n] = Nil, !.head = n]
                    ELSE LET cut == [l EXCEPT !.next[p] = n] IN [cut EXCEPT !.prev[n] = p]
  <2>1. focusWindow(l, w) = addToWindowList(out, w)
    BY <1>2 DEF focusWindow
  <2>2. w \in Ids /\ n \in Ids /\ p \in Ids \cup {Nil} /\ (w # l.head => p \in Ids)
    BY <1>2 DEF Lists, FocusIsWild
  <2> HIDE DEF p, n
  <2>3. out \in Lists
    BY <2>2 DEF Lists
  <2> HIDE DEF out
  <2> QED BY <2>1, <2>2, <2>3, AddType
<1> QED BY <1>1, <1>2

\* focusWindow() raises a window that has a place, and puts one on top that
\* has none; no window is lost, and the others keep their order.
LEMMA FocusOrdered ==
  ASSUME NEW l \in Lists, Ordered(l), NEW w \in Ids \cup {Nil},
         w # Nil /\ IsFree(l, w) => l.head # Nil
  PROVE  LET m == focusWindow(l, w) IN
           /\ m \in Lists /\ Ordered(m) /\ (l.head # Nil => m.head # Nil)
           /\ \A x \in Ids : ~IsFree(l, x) => ~IsFree(m, x)
           /\ Moves(l, m)
<1> DEFINE m == focusWindow(l, w)
<1>1. CASE w = Nil \/ w = l.tail
  <2>1. m = l
    BY <1>1 DEF focusWindow
  <2> HIDE DEF m
  <2>2. Moves(l, m)
    BY <2>1 DEF Moves
  <2> QED BY <2>1, <2>2 DEF m
<1>2. CASE ~(w = Nil \/ w = l.tail)
  <2>1. PICK n \in 0..MaxWindows : \E s \in [1..n -> Ids] :
          /\ Order(l, n, s)
          /\ \A x \in Ids : IsFree(l, x) \/ \E i \in 1..n : s[i] = x
    BY DEF Ordered
  <2>2. PICK s \in [1..n -> Ids] :
          /\ Order(l, n, s)
          /\ \A x \in Ids : IsFree(l, x) \/ \E i \in 1..n : s[i] = x
    BY <2>1
  <2>3. n \in Nat /\ w \in Ids /\ w # Nil /\ \A i \in 1..n : s[i] \in Ids /\ s[i] # Nil
    BY <1>2, Constants
  <2>4. /\ \A i, j \in 1..n : s[i] = s[j] => i = j
        /\ l.head = IF n = 0 THEN Nil ELSE s[1]
        /\ l.tail = IF n = 0 THEN Nil ELSE s[n]
        /\ \A i \in 1..n : /\ l.next[s[i]] = IF i = n THEN Nil ELSE s[i+1]
                           /\ l.prev[s[i]] = IF i = 1 THEN Nil ELSE s[i-1]
    BY <2>2 DEF Order
  <2>7. Stacked(l) = s
    BY <2>2, OrderStacked
  <2>5. CASE IsFree(l, w)
    <3>1. \A i \in 1..n : s[i] # w
      BY <2>2, <2>3, <2>5, PlacedInUse
    <3>2. n # 0 /\ l.head # w
      BY <2>3, <2>4, <2>5, <3>1
    <3>3. m = addToWindowList(l, w)
      <4>1. l.next[w] = w /\ l.prev[w] = w
        BY <2>5 DEF IsFree
      <4>2. ~FocusIsWild(l, w)
        BY <2>3, <4>1 DEF FocusIsWild
      <4>3. [[l EXCEPT !.next[w] = w] EXCEPT !.prev[w] = w] = l
        BY <2>3, <4>1 DEF Lists
      <4> QED BY <1>2, <3>2, <4>1, <4>2, <4>3 DEF focusWindow
    <3>4. /\ m \in Lists /\ Ordered(m) /\ m.head # Nil
          /\ ~IsFree(m, w) /\ \A i \in 1..n : ~IsFree(m, s[i])
          /\ SameBut(Stacked(m), s, w) /\ m.tail = w
      BY <2>2, <2>3, <3>1, <3>2, <3>3, AddOrdered
    <3>5. \A x \in Ids : ~IsFree(l, x) => ~IsFree(m, x)
      BY <2>2, <3>4
    <3> HIDE DEF m
    <3>6. Moves(l, m)
      BY <2>3, <2>7, <3>4 DEF Moves
    <3> QED BY <3>4, <3>5, <3>6 DEF m
  <2>6. CASE ~IsFree(l, w)
    <3>1. PICK k \in 1..n : s[k] = w
      BY <2>2, <2>3, <2>6
    <3>2. k # n /\ n # 0 /\ k+1 \in 1..n /\ (k # 1 => k-1 \in 1..n) /\ n-1 \in Nat \ {0}
      BY <1>2, <2>3, <2>4, <3>1
    <3>3. l.next[w] = s[k+1] /\ l.prev[w] = (IF k = 1 THEN Nil ELSE s[k-1]) /\ (w = l.head <=> k = 1)
      <4>1. 1 \in 1..n
        BY <2>3, <3>2
      <4> QED BY <2>4, <3>1, <3>2, <4>1
    <3>4. ~FocusIsWild(l, w)
      BY <2>3, <3>2, <3>3 DEF FocusIsWild
    <3> DEFINE out == IF w = l.head
                      THEN [l EXCEPT !.prev[l.next[w]] = Nil, !.head = l.next[w]]
                      ELSE LET cut == [l EXCEPT !.next[l.prev[w]] = l.next[w]]
                           IN  [cut EXCEPT !.prev[l.next[w]] = l.prev[w]]
    <3>5. m = addToWindowList(out, w)
      BY <1>2, <3>4 DEF focusWindow
    <3>6. /\ out \in Lists
          /\ out.head = (IF k = 1 THEN s[2] ELSE l.head) /\ out.tail = l.tail
          /\ \A x \in Ids : out.next[x] = IF k # 1 /\ x = s[k-1] THEN s[k+1] ELSE l.next[x]
          /\ \A x \in Ids : out.prev[x] = IF x = s[k+1] THEN (IF k = 1 THEN Nil ELSE s[k-1]) ELSE l.prev[x]
      <4>1. CASE k = 1
        <5>1. out = [l EXCEPT !.prev[s[2]] = Nil, !.head = s[2]] /\ s[2] \in Ids
          BY <2>3, <3>2, <3>3, <4>1
        <5> HIDE DEF out
        <5>2. /\ out.next = l.next /\ out.tail = l.tail /\ out.head = s[2]
              /\ out.prev = [l.prev EXCEPT ![s[2]] = Nil] /\ out \in Lists
          BY <5>1 DEF Lists
        <5> QED BY <4>1, <5>1, <5>2 DEF Lists
      <4>2. CASE k # 1
        <5>1. out = [[l EXCEPT !.next[s[k-1]] = s[k+1]] EXCEPT !.prev[s[k+1]] = s[k-1]]
          BY <3>3, <4>2
        <5>2. s[k-1] \in Ids /\ s[k+1] \in Ids
          BY <2>3, <3>2, <4>2
        <5> HIDE DEF out
        <5>3. /\ out.next = [l.next EXCEPT ![s[k-1]] = s[k+1]]
              /\ out.prev = [l.prev EXCEPT ![s[k+1]] = s[k-1]]
              /\ out.tail = l.tail /\ out.head = l.head /\ out \in Lists
          BY <5>1, <5>2 DEF Lists
        <5> QED BY <4>2, <5>2, <5>3 DEF Lists
      <4> QED BY <4>1, <4>2
    <3> HIDE DEF out
    <3>7. Unlinked(out, l, n, s, k)
      BY <3>2, <3>6 DEF Unlinked
    <3> DEFINE d == Dropped(s, n, k)
    <3>12. /\ d \in [1..(n-1) -> Ids]
           /\ \A i \in 1..(n-1) : d[i] # s[k]
           /\ \A i \in 1..n : i = k \/ \E j \in 1..(n-1) : d[j] = s[i]
           /\ Order(out, n-1, d)
      BY <2>2, <2>3, <3>7, UnlinkOrder
    <3>8. /\ d \in [1..(n-1) -> Ids]
          /\ \A i \in 1..(n-1) : d[i] # w
          /\ \A i \in 1..n : i = k \/ \E j \in 1..(n-1) : d[j] = s[i]
          /\ Order(out, n-1, d)
      BY <3>1, <3>12
    <3> HIDE DEF d
    <3>9. ASSUME NEW x \in Ids PROVE x = w \/ IsFree(out, x) \/ \E i \in 1..(n-1) : d[i] = x
      <4>1. CASE \E i \in 1..n : s[i] = x
        BY <3>1, <3>8, <4>1
      <4>2. CASE \A i \in 1..n : s[i] # x
        <5>1. IsFree(l, x) /\ x # s[k+1] /\ (k # 1 => x # s[k-1])
          BY <2>2, <3>2, <4>2
        <5> QED BY <3>6, <5>1 DEF IsFree
      <4> QED BY <4>1, <4>2
    <3>13. PICK q \in Nat \ {0} : q = n-1
      BY <3>2
    <3>14. d \in [1..q -> Ids] /\ Order(out, q, d) /\ \A i \in 1..q : d[i] # w
      BY <3>8, <3>13
    <3>15. \A x \in Ids : x = w \/ IsFree(out, x) \/ \E i \in 1..q : d[i] = x
      BY <3>9, <3>13
    <3>10. /\ m \in Lists /\ Ordered(m) /\ m.head # Nil
           /\ ~IsFree(m, w) /\ \A i \in 1..(n-1) : ~IsFree(m, d[i])
           /\ SameBut(Stacked(m), d, w) /\ m.tail = w
      <4>1. out \in Lists /\ w \in Ids
        BY <2>3, <3>6
      <4>2. LET g == addToWindowList(out, w) IN
              /\ g \in Lists /\ Ordered(g) /\ g.head # Nil
              /\ ~IsFree(g, w) /\ \A i \in 1..q : ~IsFree(g, d[i])
              /\ SameBut(Stacked(g), d, w) /\ g.tail = w
        BY <4>1, <3>14, <3>15, AddOrdered
      <4> QED BY <4>2, <3>5, <3>13
    <3> HIDE DEF m
    <3>11. \A x \in Ids : ~IsFree(l, x) => ~IsFree(m, x)
      BY <2>2, <3>1, <3>8, <3>10
    <3>16. SameBut(d, s, w)
      BY <2>3, <3>1, DroppedSame DEF d
    <3>17. SameBut(Stacked(m), s, w)
      BY <3>10, <3>16, SameThen
    <3>18. Moves(l, m)
      BY <2>3, <2>7, <3>10, <3>17 DEF Moves
    <3> QED BY <3>10, <3>11, <3>18 DEF m
  <2> QED BY <2>5, <2>6
<1> QED BY <1>1, <1>2

\* closeWindow(): what removeFromWindowList() and the two assignments after it
\* leave, and what the list is when closeWindow() returns.
Freed(l, w) == [removeFromWindowList(l, w) EXCEPT !.prev[w] = w, !.next[w] = w]
Closed(l, w) == IF w = Freed(l, w).tail THEN focusWindow(Freed(l, w), Freed(l, w).prev[w]) ELSE Freed(l, w)

LEMMA CloseType ==
  ASSUME NEW l \in Lists, NEW w \in Ids
  PROVE  Freed(l, w) \in Lists /\ Closed(l, w) \in Lists
<1>1. removeFromWindowList(l, w) \in Lists
  <2> DEFINE p == l.prev[w]
             n == l.next[w]
             tailed == IF l.tail = w THEN [l EXCEPT !.tail = p] ELSE l
             before == IF p = Nil THEN tailed ELSE [tailed EXCEPT !.next[p] = n]
  <2>1. p \in Ids \cup {Nil} /\ n \in Ids \cup {Nil}
    BY DEF Lists
  <2>2. removeFromWindowList(l, w) = IF n = Nil THEN before ELSE [before EXCEPT !.prev[n] = p]
    BY DEF removeFromWindowList
  <2> HIDE DEF p, n
  <2>3. tailed \in Lists
    BY <2>1 DEF Lists
  <2> HIDE DEF tailed
  <2>4. before \in Lists
    BY <2>1, <2>3 DEF Lists
  <2> HIDE DEF before
  <2> QED BY <2>1, <2>2, <2>4 DEF Lists
<1>2. Freed(l, w) \in Lists
  BY <1>1 DEF Freed, Lists
<1>3. Freed(l, w).prev[w] \in Ids \cup {Nil}
  BY <1>2 DEF Lists
<1> QED BY <1>2, <1>3, FocusType DEF Closed

\* Closing any window but the one at the head takes just that window out.
LEMMA CloseOrdered ==
  ASSUME NEW l \in Lists, Ordered(l), NEW w \in Ids, ~IsFree(l, w), w # l.head
  PROVE  /\ Ordered(Closed(l, w)) /\ Closed(l, w).head # Nil
         /\ \A x \in Ids \ {w} : ~IsFree(l, x) => ~IsFree(Closed(l, w), x)
         /\ Moves(l, Closed(l, w))
<1>1. PICK n \in 0..MaxWindows : \E s \in [1..n -> Ids] :
        /\ Order(l, n, s)
        /\ \A x \in Ids : IsFree(l, x) \/ \E i \in 1..n : s[i] = x
  BY DEF Ordered
<1>2. PICK s \in [1..n -> Ids] :
        /\ Order(l, n, s)
        /\ \A x \in Ids : IsFree(l, x) \/ \E i \in 1..n : s[i] = x
  BY <1>1
<1>3. n \in Nat /\ w # Nil /\ \A i \in 1..n : s[i] \in Ids /\ s[i] # Nil
  BY Constants
<1>4. /\ \A i, j \in 1..n : s[i] = s[j] => i = j
      /\ l.head = IF n = 0 THEN Nil ELSE s[1]
      /\ l.tail = IF n = 0 THEN Nil ELSE s[n]
      /\ \A i \in 1..n : /\ l.next[s[i]] = IF i = n THEN Nil ELSE s[i+1]
                         /\ l.prev[s[i]] = IF i = 1 THEN Nil ELSE s[i-1]
  BY <1>2 DEF Order
<1>5. PICK k \in 1..n : s[k] = w
  BY <1>2
<1>6. k # 1 /\ n # 0 /\ k-1 \in 1..n /\ 1 \in 1..n /\ n \in 1..n /\ (k # n => k+1 \in 1..n)
  BY <1>3, <1>4, <1>5
<1> DEFINE f == Freed(l, w)
           nx == IF k = n THEN Nil ELSE s[k+1]
<1>7. l.prev[w] = s[k-1] /\ l.next[w] = nx /\ s[k-1] \in Ids /\ s[k-1] # w /\ nx \in Ids \cup {Nil} /\ nx # w
  BY <1>3, <1>4, <1>5, <1>6
<1>8. l.tail = w <=> k = n
  BY <1>4, <1>5, <1>6
<1>9. /\ f.head = l.head
      /\ f.tail = IF k = n THEN s[k-1] ELSE l.tail
      /\ \A x \in Ids \ {w} : f.next[x] = IF x = s[k-1] THEN nx ELSE l.next[x]
      /\ \A x \in Ids \ {w} : f.prev[x] = IF x = nx THEN s[k-1] ELSE l.prev[x]
      /\ f.next[w] = w /\ f.prev[w] = w
  <2> DEFINE tailed == IF l.tail = w THEN [l EXCEPT !.tail = s[k-1]] ELSE l
             before == [tailed EXCEPT !.next[s[k-1]] = nx]
             r == IF nx = Nil THEN before ELSE [before EXCEPT !.prev[nx] = s[k-1]]
  <2>1. removeFromWindowList(l, w) = r
    <3> HIDE DEF nx
    <3> QED BY <1>3, <1>6, <1>7 DEF removeFromWindowList
  <2>2. f = [r EXCEPT !.prev[w] = w, !.next[w] = w]
    BY <2>1 DEF Freed
  <2> HIDE DEF f, nx
  <2>3. /\ tailed.next = l.next /\ tailed.prev = l.prev /\ tailed.head = l.head
        /\ tailed.tail = IF k = n THEN s[k-1] ELSE l.tail
        /\ tailed \in Lists
    BY <1>7, <1>8 DEF Lists
  <2> HIDE DEF tailed
  <2>4. /\ before.next = [l.next EXCEPT ![s[k-1]] = nx] /\ before.prev = l.prev /\ before.head = l.head
        /\ before.tail = tailed.tail /\ before \in Lists
    BY <1>7, <2>3 DEF Lists
  <2> HIDE DEF before
  <2>5. /\ r.next = before.next /\ r.head = l.head /\ r.tail = tailed.tail /\ r \in Lists
        /\ \A x \in Ids : r.prev[x] = IF x = nx THEN s[k-1] ELSE l.prev[x]
    <3>1. CASE nx = Nil
      BY <1>3, <2>4, <3>1, Constants
    <3>2. CASE nx # Nil
      <4>1. nx \in Ids /\ r = [before EXCEPT !.prev[nx] = s[k-1]]
        BY <1>7, <3>2
      <4> HIDE DEF r
      <4>2. r.next = before.next /\ r.head = l.head /\ r.tail = tailed.tail /\ r \in Lists
        BY <1>7, <2>4, <4>1 DEF Lists
      <4>3. r.prev = [l.prev EXCEPT ![nx] = s[k-1]]
        BY <2>4, <4>1 DEF Lists
      <4> QED BY <4>1, <4>2, <4>3 DEF Lists
    <3> QED BY <3>1, <3>2
  <2> HIDE DEF r
  <2>6. f.head = r.head /\ f.tail = r.tail /\ f.next = [r.next EXCEPT ![w] = w] /\ f.prev = [r.prev EXCEPT ![w] = w]
    BY <2>2, <2>5 DEF Lists
  <2> QED BY <1>7, <2>3, <2>4, <2>5, <2>6 DEF Lists
<1>10. Closed(l, w) = f
  <2>1. f.tail # w
    BY <1>4, <1>6, <1>7, <1>8, <1>9
  <2> HIDE DEF f
  <2> QED BY <2>1 DEF Closed, f
<1> HIDE DEF f
<1>11. Unlinked(f, l, n, s, k)
  <2>1. ASSUME NEW x \in Ids \ {s[k]}
        PROVE  /\ f.next[x] = IF k > 1 /\ x = s[k-1] THEN (IF k = n THEN Nil ELSE s[k+1]) ELSE l.next[x]
               /\ f.prev[x] = IF k < n /\ x = s[k+1] THEN (IF k = 1 THEN Nil ELSE s[k-1]) ELSE l.prev[x]
    <3>1. k > 1 /\ (k < n <=> k # n) /\ x # Nil /\ x \in Ids \ {w}
      BY <1>3, <1>5, <1>6, Constants
    <3> QED BY <1>9, <3>1
  <2>2. f.head = l.head /\ f.tail = (IF k = n THEN s[n-1] ELSE l.tail) /\ (k = n => n # 1) /\ k # 1
    BY <1>6, <1>9
  <2> QED BY <2>1, <2>2 DEF Unlinked
<1> DEFINE d == Dropped(s, n, k)
<1>12. /\ d \in [1..(n-1) -> Ids]
       /\ \A i \in 1..(n-1) : d[i] # s[k]
       /\ \A i \in 1..n : i = k \/ \E j \in 1..(n-1) : d[j] = s[i]
       /\ Order(f, n-1, d)
  BY <1>2, <1>3, <1>11, UnlinkOrder
<1> HIDE DEF d
<1>13. PICK q \in 0..MaxWindows : q = n-1
  BY <1>3, <1>6, Constants
<1>14. d \in [1..q -> Ids] /\ Order(f, q, d)
  BY <1>12, <1>13
<1>15. ASSUME NEW x \in Ids PROVE IsFree(f, x) \/ \E i \in 1..q : d[i] = x
  <2>1. CASE x = w
    BY <1>9, <2>1 DEF IsFree
  <2>2. CASE x # w /\ \E i \in 1..n : s[i] = x
    BY <1>5, <1>12, <1>13, <2>2
  <2>3. CASE \A i \in 1..n : s[i] # x
    <3>1. IsFree(l, x) /\ x # s[k-1] /\ x # nx /\ x # w
      BY <1>2, <1>3, <1>5, <1>6, <2>3, Constants
    <3> QED BY <1>9, <3>1 DEF IsFree
  <2> QED BY <2>1, <2>2, <2>3
<1>16. Ordered(f)
  BY <1>14, <1>15 DEF Ordered
<1>17. f.head # Nil
  BY <1>3, <1>4, <1>6, <1>9
<1>18. ASSUME NEW x \in Ids \ {w}, ~IsFree(l, x) PROVE ~IsFree(f, x)
  <2>1. PICK i \in 1..n : s[i] = x
    BY <1>2, <1>18
  <2>2. PICK j \in 1..q : d[j] = x
    BY <1>5, <1>12, <1>13, <1>18, <2>1
  <2> QED BY <1>13, <1>14, <2>2, PlacedInUse
<1>19. Moves(l, f)
  <2>1. Stacked(l) = s
    BY <1>2, OrderStacked
  <2>2. Stacked(f) = d /\ \A x \in Visited(NextFrom(f)) : \E i \in 1..q : d[i] = x
    BY <1>14, OrderStacked
  <2>3. SameBut(d, s, w)
    BY <1>3, <1>5, DroppedSame DEF d
  <2>4. w \notin Visited(NextFrom(f))
    BY <1>5, <1>12, <1>13, <2>2
  <2> QED BY <2>1, <2>2, <2>3, <2>4 DEF Moves
<1> QED BY <1>10, <1>16, <1>17, <1>18, <1>19

\* What a loop over an ordered list comes across, and what lies below a
\* window of it, is in use.
LEMMA SeenInUse ==
  ASSUME NEW l, Ordered(l)
  PROVE  /\ \A x \in Visited(NextFrom(l)) \cup Visited(PrevFrom(l)) : x \in Ids /\ ~IsFree(l, x)
         /\ \A x \in Ids : ~IsFree(l, x) /\ l.prev[x] # Nil => ~IsFree(l, l.prev[x])
<1>1. PICK n \in 0..MaxWindows : \E s \in [1..n -> Ids] :
        /\ Order(l, n, s)
        /\ \A x \in Ids : IsFree(l, x) \/ \E i \in 1..n : s[i] = x
  BY DEF Ordered
<1>2. PICK s \in [1..n -> Ids] :
        /\ Order(l, n, s)
        /\ \A x \in Ids : IsFree(l, x) \/ \E i \in 1..n : s[i] = x
  BY <1>1
<1>3. n \in Nat /\ \A i \in 1..n : s[i] \in Ids /\ ~IsFree(l, s[i])
  BY <1>2, PlacedInUse, Constants
<1>4. /\ NextFrom(l) = [k \in 0..MaxWindows |-> IF k < n THEN s[k+1] ELSE Nil]
      /\ PrevFrom(l) = [k \in 0..MaxWindows |-> IF k < n THEN s[n-k] ELSE Nil]
  BY <1>2, WalksOrder
<1>5. ASSUME NEW x \in Visited(NextFrom(l)) PROVE x \in Ids /\ ~IsFree(l, x)
  <2>1. PICK k \in 0..MaxWindows : x = NextFrom(l)[k] /\ x # Nil
    BY <1>4 DEF Visited
  <2>2. k+1 \in 1..n /\ x = s[k+1]
    BY <1>3, <1>4, <2>1, Constants
  <2> QED BY <1>3, <2>2
<1>6. ASSUME NEW x \in Visited(PrevFrom(l)) PROVE x \in Ids /\ ~IsFree(l, x)
  <2>1. PICK k \in 0..MaxWindows : x = PrevFrom(l)[k] /\ x # Nil
    BY <1>4 DEF Visited
  <2>2. n-k \in 1..n /\ x = s[n-k]
    BY <1>3, <1>4, <2>1, Constants
  <2> QED BY <1>3, <2>2
<1>7. ASSUME NEW x \in Ids, ~IsFree(l, x), l.prev[x] # Nil PROVE ~IsFree(l, l.prev[x])
  <2>1. PICK i \in 1..n : s[i] = x
    BY <1>2, <1>7
  <2>2. l.prev[x] = IF i = 1 THEN Nil ELSE s[i-1]
    BY <1>2, <2>1 DEF Order
  <2>3. i-1 \in 1..n /\ l.prev[x] = s[i-1]
    BY <1>3, <1>7, <2>2
  <2> QED BY <1>3, <2>3
<1> QED BY <1>5, <1>6, <1>7

-----------------------------------------------------------------------------
(* The steps *)

Queues == [Ids -> Seq({"input", "close", "min", "max"})]
PopupQueues == Seq({"input", "close"})

LEMMA PutType ==
  /\ \A q \in Seq({"input", "close", "min", "max"}), m \in {"input", "close", "min", "max"} :
       Put(q, m) \in Seq({"input", "close", "min", "max"})
  /\ \A q \in PopupQueues, m \in {"input", "close"} : Put(q, m) \in PopupQueues
  BY DEF Put, PopupQueues

LEMMA DispatchType ==
  ASSUME NEW q \in Queues, NEW w, NEW m \in {"input", "close", "min", "max"}
  PROVE  dispatchMessage(q, w, m) \in Queues
<1>1. \A x \in Ids : Put(q[x], m) \in Seq({"input", "close", "min", "max"})
  BY PutType DEF Queues
<1>2. dispatchMessage(q, w, m) = [q EXCEPT ![w] = Put(q[w], m)]
  BY DEF dispatchMessage
<1> QED BY <1>1, <1>2 DEF Queues

LEMMA InitInv == Init => WindowInv
<1> SUFFICES ASSUME Init PROVE WindowInv
  OBVIOUS
<1>1. WindowShape
  <2>1. list \in Lists
    BY DEF Init, Lists
  <2>2. queue \in Queues /\ popup.queue \in PopupQueues
    BY DEF Init, Queues, PopupQueues
  <2>3. /\ desktopId \in Ids \cup {Nil}
        /\ status \in [Procs -> {"free", "open", "nowin", "zombie"}]
        /\ handler \in [Clients -> Ids \cup {Nil}]
        /\ todo \in [Procs -> {"loop", "close", "min", "max"}]
        /\ headClosed \in BOOLEAN
    BY DEF Init
  <2> QED BY <2>1, <2>2, <2>3 DEF WindowShape, Queues, PopupQueues
<1>2. Ordered(list)
  <2>1. PICK s : s = [i \in 1..0 |-> 0]
    OBVIOUS
  <2>2. s \in [1..0 -> Ids] /\ 0 \in 0..MaxWindows
    BY <2>1, Constants
  <2>3. Order(list, 0, s)
    BY DEF Init, Order
  <2>4. \A x \in Ids : IsFree(list, x)
    BY DEF Init, IsFree
  <2> QED BY <2>2, <2>3, <2>4 DEF Ordered
<1> QED BY <1>1, <1>2, Constants DEF Init, WindowInv, HandlersHold

\* What a step has to keep, if it opens no window.
LEMMA KeepsInv ==
  ASSUME WindowInv,
         list' \in Lists, queue' \in Queues, popup'.queue \in PopupQueues,
         status' \in [Procs -> {"free", "open", "nowin", "zombie"}],
         handler' \in [Clients -> Ids \cup {Nil}],
         todo' \in [Procs -> {"loop", "close", "min", "max"}],
         headClosed' \in BOOLEAN, desktopId' = desktopId,
         \A p \in Procs : todo'[p] # "loop" => status'[p] = "open",
         \A p \in Clients : status'[p] = "open" => status[p] = "open" /\ handler'[p] = handler[p],
         ~headClosed' => /\ ~headClosed
                         /\ Ordered(list')
                         /\ list.head # Nil => list'.head # Nil
                         /\ \A p \in Clients : status'[p] = "open" => ~IsFree(list', handler[p])
  PROVE  WindowInv'
<1>1. WindowShape'
  BY DEF WindowInv, WindowShape, Queues, PopupQueues
<1>2. \A p \in Clients : status'[p] = "open" => handler'[p] # Nil
  BY DEF WindowInv
<1>3. ~headClosed' => HandlersHold'
  BY DEF WindowInv, HandlersHold
<1>4. ~headClosed' => (desktopId' # Nil => list'.head # Nil)
  BY DEF WindowInv
<1> QED BY <1>1, <1>2, <1>3, <1>4 DEF WindowInv

\* A step that raises a window, if any, and passes messages on.
LEMMA RaiseInv ==
  ASSUME WindowInv, NEW w \in Ids \cup {Nil},
         ~headClosed => (w # Nil /\ IsFree(list, w) => list.head # Nil),
         list' = focusWindow(list, w),
         queue' \in Queues, popup'.queue \in PopupQueues,
         todo' \in [Procs -> {"loop", "close", "min", "max"}],
         \A p \in Procs : todo'[p] # "loop" => status[p] = "open",
         UNCHANGED <<desktopId, status, handler, headClosed>>
  PROVE  WindowInv'
<1>1. list' \in Lists
  BY FocusType DEF WindowInv, WindowShape
<1>2. ASSUME ~headClosed'
      PROVE  /\ ~headClosed /\ Ordered(list') /\ (list.head # Nil => list'.head # Nil)
             /\ \A p \in Clients : status'[p] = "open" => ~IsFree(list', handler[p])
  <2>1. ~headClosed /\ Ordered(list) /\ HandlersHold /\ list \in Lists
    BY <1>2 DEF WindowInv, WindowShape
  <2>2. /\ Ordered(list') /\ (list.head # Nil => list'.head # Nil)
        /\ \A x \in Ids : ~IsFree(list, x) => ~IsFree(list', x)
    BY <2>1, FocusOrdered
  <2>3. \A p \in Clients : status[p] = "open" => handler[p] \in Ids
    BY DEF WindowInv, WindowShape
  <2> QED BY <2>1, <2>2, <2>3 DEF HandlersHold
<1>3. /\ status' \in [Procs -> {"free", "open", "nowin", "zombie"}]
      /\ handler' \in [Clients -> Ids \cup {Nil}] /\ headClosed' \in BOOLEAN
  BY DEF WindowInv, WindowShape
<1> QED BY <1>1, <1>2, <1>3, KeepsInv

\* A step that leaves the list alone and passes messages on.
LEMMA QuietInv ==
  ASSUME WindowInv, queue' \in Queues, popup'.queue \in PopupQueues,
         todo' \in [Procs -> {"loop", "close", "min", "max"}],
         \A p \in Procs : todo'[p] # "loop" => status[p] = "open",
         UNCHANGED <<list, desktopId, status, handler, headClosed>>
  PROVE  WindowInv'
<1>1. list' = focusWindow(list, Nil)
  BY DEF focusWindow
<1> QED BY <1>1, RaiseInv

\* What the invariant says of the variables, in the words the steps use.
LEMMA Facts ==
  ASSUME WindowInv
  PROVE  /\ list \in Lists /\ desktopId \in Ids \cup {Nil} /\ headClosed \in BOOLEAN
         /\ queue \in Queues /\ popup.queue \in PopupQueues
         /\ status \in [Procs -> {"free", "open", "nowin", "zombie"}]
         /\ handler \in [Clients -> Ids \cup {Nil}]
         /\ todo \in [Procs -> {"loop", "close", "min", "max"}]
         /\ \A p \in Procs : todo[p] # "loop" => status[p] = "open"
         /\ \A p \in Clients : status[p] = "open" => handler[p] \in Ids
         /\ ~headClosed => \A p \in Clients : status[p] = "open" => ~IsFree(list, handler[p])
  BY DEF WindowInv, WindowShape, Queues, PopupQueues, HandlersHold

LEMMA GetMessageInv ==
  ASSUME WindowInv, NEW p \in Clients, getMessage(p)
  PROVE  WindowInv'
<1> DEFINE w == handler[p]
           m == Head(queue[w])
<1>1. /\ status[p] = "open" /\ queue[w] # <<>>
      /\ todo' = [todo EXCEPT ![p] = updateWindow(p, m)]
      /\ queue' = [queue EXCEPT ![w] = Tail(queue[w])]
      /\ UNCHANGED <<list, desktopId, popup, status, handler, headClosed>>
  BY DEF getMessage, wins
<1>2. p \in Procs /\ w \in Ids /\ queue[w] \in Seq({"input", "close", "min", "max"})
  BY <1>1, Facts, Constants DEF Queues
<1>3. m \in {"input", "close", "min", "max"} /\ Tail(queue[w]) \in Seq({"input", "close", "min", "max"})
  BY <1>1, <1>2
<1> HIDE DEF m
<1>4. updateWindow(p, m) \in {"loop", "close", "min", "max"}
  BY <1>3 DEF updateWindow
<1> HIDE DEF w
<1>5. queue' \in Queues
  BY <1>1, <1>3, Facts DEF Queues
<1>6. todo' \in [Procs -> {"loop", "close", "min", "max"}]
  BY <1>1, <1>4, Facts
<1>7. \A q \in Procs : todo'[q] # "loop" => status[q] = "open"
  BY <1>1, Facts
<1> QED BY <1>1, <1>5, <1>6, <1>7, Facts, QuietInv

LEMMA GetPopupMessageInv ==
  ASSUME WindowInv, NEW p \in Menus, getPopupMessage(p)
  PROVE  WindowInv'
<1> DEFINE m == Head(popup.queue)
<1>1. /\ status[p] = "open" /\ popup.queue # <<>>
      /\ todo' = [todo EXCEPT ![p] = updatePopupWindow(m)]
      /\ popup' = [popup EXCEPT !.queue = Tail(@)]
      /\ UNCHANGED <<list, desktopId, queue, status, handler, headClosed>>
  BY DEF getPopupMessage, wins
<1>2. Tail(popup.queue) \in PopupQueues
  BY <1>1, Facts DEF PopupQueues
<1>3. updatePopupWindow(m) \in {"loop", "close"}
  BY DEF updatePopupWindow
<1> HIDE DEF m
<1>4. popup'.queue \in PopupQueues
  BY <1>1, <1>2, Facts
<1>5. todo' \in [Procs -> {"loop", "close", "min", "max"}]
  BY <1>1, <1>3, Facts
<1>6. \A q \in Procs : todo'[q] # "loop" => status[q] = "open"
  BY <1>1, Facts
<1> QED BY <1>1, <1>4, <1>5, <1>6, Facts, QuietInv

\* A window is minimized by its program: what is below it is raised.
LEMMA MinimizeInv ==
  ASSUME WindowInv, NEW p \in Clients, minimizeWindow(p)
  PROVE  WindowInv'
<1> DEFINE w == handler[p]
           f == IF w = list.tail THEN list.prev[w] ELSE Nil
<1>1. /\ todo[p] = "min"
      /\ list' = focusWindow(list, f)
      /\ todo' = [todo EXCEPT ![p] = "loop"]
      /\ UNCHANGED <<desktopId, queue, popup, status, handler, headClosed>>
  BY DEF minimizeWindow
<1>2. p \in Procs /\ status[p] = "open" /\ w \in Ids
  BY <1>1, Facts, Constants
<1>3. f \in Ids \cup {Nil}
  BY <1>2, Facts DEF Lists
<1>4. ~headClosed => (f # Nil => ~IsFree(list, f))
  BY <1>2, Facts, SeenInUse DEF WindowInv
<1> HIDE DEF f
<1>5. /\ todo' \in [Procs -> {"loop", "close", "min", "max"}]
      /\ \A q \in Procs : todo'[q] # "loop" => status[q] = "open"
  BY <1>1, Facts
<1>6. queue' \in Queues /\ popup'.queue \in PopupQueues
  BY <1>1, Facts
<1> QED BY <1>1, <1>3, <1>4, <1>5, <1>6, RaiseInv

LEMMA MaximizeInv ==
  ASSUME WindowInv, NEW p \in Clients, maximizeWindow(p)
  PROVE  WindowInv'
<1> DEFINE w == handler[p]
<1>1. /\ todo[p] = "max"
      /\ list' = focusWindow(list, w)
      /\ todo' = [todo EXCEPT ![p] = "loop"]
      /\ UNCHANGED <<desktopId, queue, popup, status, handler, headClosed>>
  BY DEF maximizeWindow
<1>2. p \in Procs /\ status[p] = "open" /\ w \in Ids
  BY <1>1, Facts, Constants
<1>3. ~headClosed => ~IsFree(list, w)
  BY <1>2, Facts
<1>4. /\ todo' \in [Procs -> {"loop", "close", "min", "max"}]
      /\ \A q \in Procs : todo'[q] # "loop" => status[q] = "open"
  BY <1>1, Facts
<1>5. queue' \in Queues /\ popup'.queue \in PopupQueues
  BY <1>1, Facts
<1> HIDE DEF w
<1> QED BY <1>1, <1>2, <1>3, <1>4, <1>5, RaiseInv

\* A program closes its own window: those of the others stay in use.
LEMMA CloseInv ==
  ASSUME WindowInv, NEW p \in Clients, closeWindow(p)
  PROVE  WindowInv'
<1> DEFINE w == handler[p]
<1>1. /\ todo[p] = "close"
      /\ list' = Closed(list, w)
      /\ queue' = [queue EXCEPT ![w] = <<>>]
      /\ headClosed' = (headClosed \/ w = list.head)
      /\ handler' = [handler EXCEPT ![p] = Nil]
      /\ status' = [status EXCEPT ![p] = "zombie"]
      /\ todo' = [todo EXCEPT ![p] = "loop"]
      /\ UNCHANGED <<desktopId, popup>>
  BY DEF closeWindow, Closed, Freed, Exits
<1>2. p \in Procs /\ status[p] = "open" /\ w \in Ids
  BY <1>1, Facts, Constants
<1>3. list' \in Lists
  BY <1>1, <1>2, Facts, CloseType
<1>4. queue' \in Queues
  <2>1. <<>> \in Seq({"input", "close", "min", "max"})
    OBVIOUS
  <2>2. queue' = [queue EXCEPT ![w] = <<>>] /\ queue \in [Ids -> Seq({"input", "close", "min", "max"})]
    BY <1>1, Facts DEF Queues
  <2> HIDE DEF w
  <2> QED BY <2>1, <2>2 DEF Queues
<1>5. /\ status' \in [Procs -> {"free", "open", "nowin", "zombie"}]
      /\ handler' \in [Clients -> Ids \cup {Nil}]
      /\ todo' \in [Procs -> {"loop", "close", "min", "max"}]
      /\ headClosed' \in BOOLEAN
      /\ popup'.queue \in PopupQueues
  BY <1>1, Facts
<1>6. \A q \in Procs : todo'[q] # "loop" => status'[q] = "open"
  BY <1>1, Facts
<1>7. \A q \in Clients : status'[q] = "open" => status[q] = "open" /\ handler'[q] = handler[q] /\ q # p
  BY <1>1, <1>2, Facts, Constants
<1>8. ASSUME ~headClosed'
      PROVE  /\ ~headClosed /\ Ordered(list') /\ list'.head # Nil
             /\ \A q \in Clients : status'[q] = "open" => ~IsFree(list', handler[q])
  <2>1. ~headClosed /\ w # list.head
    BY <1>1, <1>8
  <2>2. list \in Lists /\ Ordered(list) /\ HandlersHold /\ ~IsFree(list, w)
    BY <1>2, <2>1, Facts DEF WindowInv
  <2> HIDE DEF w
  <2>3. /\ Ordered(list') /\ list'.head # Nil
        /\ \A x \in Ids \ {w} : ~IsFree(list, x) => ~IsFree(list', x)
    BY <1>1, <1>2, <2>1, <2>2, CloseOrdered
  <2>4. ASSUME NEW q \in Clients, status'[q] = "open" PROVE ~IsFree(list', handler[q])
    <3>1. status[q] = "open" /\ q # p /\ handler[q] \in Ids
      BY <1>7, <2>4, Facts
    <3>2. handler[q] # w /\ ~IsFree(list, handler[q])
      BY <1>2, <2>2, <3>1 DEF HandlersHold, w
    <3> QED BY <2>3, <3>1, <3>2
  <2> QED BY <2>1, <2>3, <2>4
<1> HIDE DEF w
<1>9. desktopId' = desktopId
  BY <1>1
<1> QED BY <1>3, <1>4, <1>5, <1>6, <1>7, <1>8, <1>9, KeepsInv

\* The slot that createWindow() takes is a free one.
LEMMA FirstFree ==
  ASSUME NEW S, S \subseteq Ids, S # {}
  PROVE  (CHOOSE i \in S : \A j \in S : i <= j) \in S
<1>1. S \subseteq Nat
  BY Constants
<1>2. PICK i \in S : \A j \in S : ~(<<j, i>> \in OpToRel(<, Nat))
  BY <1>1, NatLessThanWellFounded, WFMin
<1>3. \A j \in S : i <= j
  <2> SUFFICES ASSUME NEW j \in S, j < i PROVE FALSE
    BY <1>1
  <2>1. <<j, i>> \in Nat \X Nat /\ <<j, i>>[1] < <<j, i>>[2]
    BY <1>1
  <2>2. <<j, i>> \in OpToRel(<, Nat)
    BY <2>1 DEF OpToRel
  <2> QED BY <1>2, <2>2
<1> QED BY <1>2, <1>3

\* A new window is on top, and its program alone takes messages from it.
LEMMA CreateInv ==
  ASSUME WindowInv, NEW p \in Clients, createWindow(p)
  PROVE  WindowInv'
<1> DEFINE free == {x \in Ids : IsFree(list, x)}
           w == CHOOSE i \in free : \A j \in free : i <= j
           headed == IF list.head = Nil THEN [list EXCEPT !.head = w] ELSE list
<1>1. /\ status[p] = "free" /\ p \in Procs
      /\ UNCHANGED <<popup, todo, headClosed>>
  BY Constants DEF createWindow
<1>2. todo[p] = "loop"
  BY <1>1, Facts
<1>3. CASE free = {}
  <2>1. status' = [status EXCEPT ![p] = "nowin"] /\ UNCHANGED <<list, desktopId, queue, handler>>
    BY <1>3 DEF createWindow, wins
  <2>2. status' \in [Procs -> {"free", "open", "nowin", "zombie"}]
    BY <2>1, Facts
  <2>3. /\ \A q \in Procs : todo'[q] # "loop" => status'[q] = "open"
        /\ \A q \in Clients : status'[q] = "open" => status[q] = "open" /\ handler'[q] = handler[q]
    BY <1>1, <1>2, <2>1, Facts, Constants
  <2>4. ~headClosed' => /\ ~headClosed /\ Ordered(list')
                        /\ (list.head # Nil => list'.head # Nil)
                        /\ \A q \in Clients : status'[q] = "open" => ~IsFree(list', handler[q])
    BY <1>1, <2>1, <2>3, Facts DEF WindowInv
  <2>5. /\ list' \in Lists /\ queue' \in Queues /\ popup'.queue \in PopupQueues
        /\ handler' \in [Clients -> Ids \cup {Nil}]
        /\ todo' \in [Procs -> {"loop", "close", "min", "max"}]
        /\ headClosed' \in BOOLEAN /\ desktopId' = desktopId
    BY <1>1, <2>1, Facts
  <2> QED BY <2>2, <2>3, <2>4, <2>5, KeepsInv
<1>4. CASE free # {}
  <2>1. w \in Ids /\ IsFree(list, w)
    <3>1. free \subseteq Ids
      OBVIOUS
    <3> HIDE DEF free
    <3>2. w \in free
      BY <1>4, <3>1, FirstFree
    <3> HIDE DEF w
    <3> QED BY <3>2 DEF free
  <2>2. /\ list' = addToWindowList(headed, w)
        /\ desktopId' = IF desktopId = Nil THEN w ELSE desktopId
        /\ queue' = [queue EXCEPT ![w] = <<>>]
        /\ handler' = [handler EXCEPT ![p] = w]
        /\ status' = [status EXCEPT ![p] = "open"]
    BY <1>4 DEF createWindow
  <2> HIDE DEF w
  <2>3. headed \in Lists
    BY <2>1, Facts DEF Lists
  <2>4. WindowShape'
    <3>1. list' \in Lists
      BY <2>1, <2>2, <2>3, AddType
    <3>2. queue' \in Queues
      <4>1. <<>> \in Seq({"input", "close", "min", "max"})
        OBVIOUS
      <4> QED BY <2>2, <4>1, Facts DEF Queues
    <3>3. /\ desktopId' \in Ids \cup {Nil}
          /\ status' \in [Procs -> {"free", "open", "nowin", "zombie"}]
          /\ handler' \in [Clients -> Ids \cup {Nil}]
      BY <2>1, <2>2, Facts
    <3>4. /\ popup'.queue \in PopupQueues
          /\ todo' \in [Procs -> {"loop", "close", "min", "max"}]
          /\ headClosed' \in BOOLEAN
      BY <1>1, Facts
    <3> QED BY <3>1, <3>2, <3>3, <3>4 DEF WindowShape, Queues, PopupQueues
  <2>5. \A q \in Procs : todo'[q] # "loop" => status'[q] = "open"
    BY <1>1, <1>2, <2>2, Facts
  <2>6. \A q \in Clients : /\ q # p => status'[q] = status[q] /\ handler'[q] = handler[q]
                           /\ q = p => handler'[q] = w
    BY <1>1, <2>2, Facts, Constants
  <2>7. ASSUME NEW q \in Clients, status'[q] = "open" PROVE handler'[q] # Nil
    <3>1. CASE q = p
      BY <2>1, <2>6, <3>1, Constants
    <3>2. CASE q # p
      BY <2>6, <2>7, <3>2 DEF WindowInv
    <3> QED BY <3>1, <3>2
  <2>8. ASSUME ~headClosed'
        PROVE  Ordered(list') /\ HandlersHold' /\ list'.head # Nil
    <3>1. ~headClosed /\ Ordered(list) /\ HandlersHold /\ list \in Lists
      BY <1>1, <2>8, Facts DEF WindowInv
    <3>2. PICK n \in 0..MaxWindows : \E s \in [1..n -> Ids] :
            /\ Order(list, n, s)
            /\ \A x \in Ids : IsFree(list, x) \/ \E i \in 1..n : s[i] = x
      BY <3>1 DEF Ordered
    <3>3. PICK s \in [1..n -> Ids] :
            /\ Order(list, n, s)
            /\ \A x \in Ids : IsFree(list, x) \/ \E i \in 1..n : s[i] = x
      BY <3>2
    <3>4. n \in Nat /\ \A i \in 1..n : s[i] \in Ids /\ ~IsFree(list, s[i]) /\ s[i] # w
      BY <2>1, <3>3, PlacedInUse, Constants
    <3>5. /\ Ordered(list') /\ list'.head # Nil /\ ~IsFree(list', w)
          /\ \A i \in 1..n : ~IsFree(list', s[i])
      <4>1. CASE n = 0
        <5>1. list.head = Nil
          BY <3>3, <4>1 DEF Order
        <5>2. headed = [list EXCEPT !.head = w]
          BY <5>1
        <5> HIDE DEF headed
        <5> DEFINE u == [i \in 1..1 |-> w]
        <5>3. s \in [1..0 -> Ids] /\ Order(list, 0, s)
          BY <3>3, <4>1
        <5>4. /\ Order(list', 1, u)
              /\ \A x \in Ids : x # w => IsFree(list', x) = IsFree(list, x)
          BY <2>1, <2>2, <3>1, <5>2, <5>3, AddFirst
        <5>5. u \in [1..1 -> Ids] /\ u[1] = w /\ 1 \in 1..1 /\ 1 \in 0..MaxWindows
          BY <2>1, Constants
        <5> HIDE DEF u
        <5>6. \A x \in Ids : IsFree(list', x) \/ \E i \in 1..1 : u[i] = x
          BY <3>3, <4>1, <5>4, <5>5
        <5>7. Ordered(list')
          BY <5>4, <5>5, <5>6 DEF Ordered
        <5>8. list'.head # Nil
          BY <2>1, <5>4, <5>5, Constants DEF Order
        <5>9. ~IsFree(list', w)
          BY <5>4, <5>5, PlacedInUse
        <5> QED BY <4>1, <5>7, <5>8, <5>9
      <4>2. CASE n # 0
        <5>1. headed = list
          <6>1. list.head = s[1] /\ s[1] \in Ids
            BY <3>3, <3>4, <4>2 DEF Order
          <6> QED BY <6>1, Constants
        <5>2. list' = addToWindowList(list, w)
          BY <2>2, <5>1
        <5> HIDE DEF headed
        <5>3. n \in Nat \ {0} /\ (\A i \in 1..n : s[i] # w)
              /\ \A x \in Ids : x = w \/ IsFree(list, x) \/ \E i \in 1..n : s[i] = x
          BY <3>3, <3>4, <4>2
        <5> QED BY <2>1, <3>1, <3>3, <5>2, <5>3, AddOrdered
      <4> QED BY <4>1, <4>2
    <3>6. HandlersHold'
      <4>1. \A q \in Clients : q # p /\ status'[q] = "open" =>
              /\ handler'[q] = handler[q] /\ status[q] = "open" /\ handler[q] \in Ids
              /\ ~IsFree(list, handler[q]) /\ handler[q] # w
        <5> TAKE q \in Clients
        <5> HAVE q # p /\ status'[q] = "open"
        <5>1. handler'[q] = handler[q] /\ status[q] = "open"
          BY <2>6
        <5>2. handler[q] \in Ids
          BY <5>1, Facts
        <5>3. ~IsFree(list, handler[q])
          BY <3>1, <5>1 DEF HandlersHold
        <5> QED BY <2>1, <5>1, <5>2, <5>3
      <4>2. \A q \in Clients : q # p /\ status'[q] = "open" => ~IsFree(list', handler'[q])
        BY <3>3, <3>5, <4>1
      <4>3. handler'[p] = w /\ ~IsFree(list', handler'[p])
        BY <2>6, <3>5
      <4>4. ASSUME NEW q \in Clients, NEW r \in Clients, q # r, status'[q] = "open", status'[r] = "open"
            PROVE  handler'[q] # handler'[r]
        <5>1. CASE q = p
          BY <4>1, <4>3, <4>4, <5>1
        <5>2. CASE r = p
          BY <4>1, <4>3, <4>4, <5>2
        <5>3. CASE q # p /\ r # p
          BY <3>1, <4>1, <4>4, <5>3 DEF HandlersHold
        <5> QED BY <5>1, <5>2, <5>3
      <4> QED BY <4>2, <4>3, <4>4 DEF HandlersHold
    <3> QED BY <3>5, <3>6
  <2> QED BY <2>4, <2>5, <2>7, <2>8 DEF WindowInv
<1> QED BY <1>3, <1>4

\* The popup's calls, and the end of a program that says nothing.
LEMMA PopupAndEndInv ==
  ASSUME WindowInv,
         \/ \E p \in Menus : createPopupWindow(p) \/ closePopupWindow(p)
         \/ \E p \in Procs : die(p) \/ reap(p)
  PROVE  WindowInv'
<1>1. PICK p \in Procs :
        \/ p \in Menus /\ (createPopupWindow(p) \/ closePopupWindow(p))
        \/ die(p) \/ reap(p)
  BY Constants
<1>2. UNCHANGED <<list, desktopId, queue, headClosed>>
  BY <1>1 DEF createPopupWindow, closePopupWindow, die, reap, wins
<1>3. popup'.queue \in PopupQueues
  <2>1. <<>> \in PopupQueues
    BY DEF PopupQueues
  <2>2. popup' = popup \/ popup'.queue = <<>> \/ popup' = [popup EXCEPT !.caller = Nil, !.queue = <<>>]
    BY <1>1 DEF createPopupWindow, closePopupWindow, die, reap
  <2>3. popup' = [popup EXCEPT !.caller = Nil, !.queue = <<>>] => popup'.queue \in {<<>>, popup.queue}
    OBVIOUS
  <2> QED BY <2>1, <2>2, <2>3, Facts
<1>4. /\ \E x \in {"free", "open", "zombie"} :
           /\ status' = [status EXCEPT ![p] = x]
           /\ x = "open" => p \in Menus /\ todo' = todo
           /\ x = "free" => status[p] = "zombie" /\ todo' = todo
           /\ x = "zombie" => todo' = [todo EXCEPT ![p] = "loop"]
      /\ handler' = handler \/ (p \notin Menus /\ handler' = [q \in Clients |-> IF q = p THEN Nil ELSE handler[q]]
                               /\ status' = [status EXCEPT ![p] = "zombie"])
  <2>1. CASE p \in Menus /\ createPopupWindow(p)
    BY <2>1 DEF createPopupWindow
  <2>2. CASE p \in Menus /\ closePopupWindow(p)
    BY <2>2 DEF closePopupWindow, Exits
  <2>3. CASE die(p)
    BY <2>3, Constants DEF die, Exits, Clients
  <2>4. CASE reap(p)
    BY <2>4 DEF reap
  <2> QED BY <1>1, <2>1, <2>2, <2>3, <2>4
<1>5. PICK x \in {"free", "open", "zombie"} :
        /\ status' = [status EXCEPT ![p] = x]
        /\ x = "open" => p \in Menus /\ todo' = todo
        /\ x = "free" => status[p] = "zombie" /\ todo' = todo
        /\ x = "zombie" => todo' = [todo EXCEPT ![p] = "loop"]
  BY <1>4
<1>6. /\ status' \in [Procs -> {"free", "open", "nowin", "zombie"}]
      /\ todo' \in [Procs -> {"loop", "close", "min", "max"}]
      /\ handler' \in [Clients -> Ids \cup {Nil}]
  BY <1>4, <1>5, Facts
<1>7. ASSUME NEW q \in Procs, todo'[q] # "loop" PROVE status'[q] = "open"
  <2>1. todo[q] # "loop" /\ status[q] = "open" /\ (q = p => x = "open")
    BY <1>5, <1>7, Facts
  <2> QED BY <1>5, <2>1, Facts
<1>8. ASSUME NEW q \in Clients, status'[q] = "open" PROVE status[q] = "open" /\ handler'[q] = handler[q]
  <2>1. q # p
    BY <1>5, <1>8, Facts, Constants
  <2> QED BY <1>4, <1>5, <1>8, <2>1, Facts, Constants
<1>9. /\ list' \in Lists /\ queue' \in Queues /\ headClosed' \in BOOLEAN /\ desktopId' = desktopId
      /\ ~headClosed' => /\ ~headClosed /\ Ordered(list')
                         /\ (list.head # Nil => list'.head # Nil)
                         /\ \A q \in Clients : status'[q] = "open" => ~IsFree(list', handler[q])
  BY <1>2, <1>8, Facts DEF WindowInv
<1> QED BY <1>3, <1>6, <1>7, <1>8, <1>9, KeepsInv

\* The desktop's two loops over all windows change no link.
LEMMA ScreenInv ==
  ASSUME WindowInv, turnoffScreen \/ updateScreen
  PROVE  WindowInv'
<1>1. UNCHANGED <<list, desktopId, popup, status, handler, todo, headClosed>>
  BY DEF turnoffScreen, updateScreen, wins, procs
<1>2. queue' \in Queues
  <2>1. CASE turnoffScreen
    <3> DEFINE V == Visited(NextFrom(list))
    <3>1. queue' = [w \in Ids |-> IF w \in V THEN Put(queue[w], "close") ELSE queue[w]]
      BY <2>1 DEF turnoffScreen
    <3> HIDE DEF V
    <3> QED BY <3>1, Facts, PutType DEF Queues
  <2>2. CASE updateScreen
    BY <2>2, Facts DEF updateScreen
  <2> QED BY <2>1, <2>2
<1> QED BY <1>1, <1>2, Facts, QuietInv

LEMMA ToTailType ==
  ASSUME WindowInv, NEW m \in {"input", "close", "min", "max"}, ToTail(list, m)
  PROVE  queue' \in Queues
  BY Facts, DispatchType DEF ToTail

\* Mouse and keyboard messages that raise nothing.
LEMMA PassedOnInv ==
  ASSUME WindowInv,
         \/ mouse_move \/ down_popup \/ mouse_up \/ click_popup \/ click_content \/ key
         \/ dock_showDesktop \/ dock_start \/ dock_beside
  PROVE  WindowInv'
<1>1. UNCHANGED <<list, desktopId, status, handler, todo, headClosed>>
  BY DEF mouse_move, down_popup, mouse_up, click_popup, click_content, key,
         dock_showDesktop, dock_start, dock_beside, DockDone, wins, procs
<1>2. popup'.queue \in PopupQueues
  <2>1. popup' = popup \/ popup' = [popup EXCEPT !.queue = Put(@, "input")]
    BY DEF mouse_move, down_popup, mouse_up, click_popup, click_content, key,
           dock_showDesktop, dock_start, dock_beside, DockDone
  <2>2. Put(popup.queue, "input") \in PopupQueues
    BY Facts, PutType
  <2>3. popup' = [popup EXCEPT !.queue = Put(@, "input")] => popup'.queue \in {Put(popup.queue, "input"), popup.queue}
    OBVIOUS
  <2> QED BY <2>1, <2>2, <2>3, Facts
<1>3. queue' \in Queues
  <2>1. CASE mouse_move \/ mouse_up \/ click_popup \/ click_content \/ key
    <3>1. ToTail(list, "input") \/ queue' = queue
      BY <2>1 DEF mouse_move, mouse_up, click_popup, click_content, key
    <3> QED BY <3>1, ToTailType, Facts
  <2>2. CASE dock_showDesktop
    <3> DEFINE V == Visited(NextFrom(list)) \ {desktopId}
    <3>1. queue' = [w \in Ids |-> IF w \in V /\ ~minimized[w] THEN Put(queue[w], "min") ELSE queue[w]]
      BY <2>2 DEF dock_showDesktop
    <3> HIDE DEF V
    <3> QED BY <3>1, Facts, PutType DEF Queues
  <2>3. CASE dock_start
    <3>1. queue' = queue \/ queue' = dispatchMessage(queue, desktopId, "input")
      BY <2>3 DEF dock_start
    <3> QED BY <3>1, Facts, DispatchType
  <2>4. CASE down_popup \/ dock_beside
    BY <2>4, Facts DEF down_popup, dock_beside
  <2> QED BY <2>1, <2>2, <2>3, <2>4
<1> QED BY <1>1, <1>2, <1>3, Facts, QuietInv

\* A click in the dock raises a window of the list, or tells it to.
LEMMA DockInv ==
  ASSUME WindowInv, NEW w \in Ids, dock_window(w)
  PROVE  WindowInv'
<1>1. /\ w \in Visited(NextFrom(list))
      /\ UNCHANGED <<desktopId, popup, status, handler, todo, headClosed>>
  BY DEF dock_window, DockDone, procs
<1>2. /\ queue' = queue \/ queue' = dispatchMessage(queue, w, "max")
      /\ list' = list \/ list' = focusWindow(list, w)
  BY DEF dock_window
<1>3. queue' \in Queues
  BY <1>2, Facts, DispatchType
<1>4. CASE list' = list
  BY <1>1, <1>3, <1>4, Facts, QuietInv
<1>5. CASE list' = focusWindow(list, w)
  <2>1. ~headClosed => ~IsFree(list, w)
    BY <1>1, SeenInUse DEF WindowInv
  <2> QED BY <1>1, <1>3, <1>5, <2>1, Facts, RaiseInv
<1> QED BY <1>2, <1>4, <1>5

\* A press raises the window under the mouse or else the desktop, which has a
\* slot only if a window was opened: the list is not empty.
LEMMA DownInv ==
  ASSUME WindowInv, NEW top \in Ids \cup {Nil}, NEW bar \in {"none", "close", "min", "drag"},
         NEW content \in BOOLEAN, down(top, bar, content)
  PROVE  WindowInv'
<1> DEFINE target == IF top = Nil THEN desktopId ELSE top
           w == focusWindow(list, target).tail
           q == IF bar \in {"close", "min"} THEN dispatchMessage(queue, w, bar) ELSE queue
<1>1. /\ top \in Pressable \cup {Nil}
      /\ popup' = [popup EXCEPT !.queue = Put(@, "close")]
      /\ list' = focusWindow(list, target)
      /\ queue' = IF w = Nil THEN queue ELSE IF content THEN dispatchMessage(q, w, "input") ELSE q
      /\ UNCHANGED <<desktopId, status, handler, todo, headClosed>>
  BY DEF down, procs
<1>2. target \in Ids \cup {Nil}
  BY Facts
<1>3. ~headClosed => (target # Nil /\ IsFree(list, target) => list.head # Nil)
  <2>1. CASE top = Nil
    BY <2>1 DEF WindowInv
  <2>2. CASE top # Nil
    <3>1. top \in Visited(PrevFrom(list))
      BY <1>1, <2>2 DEF Pressable
    <3> QED BY <2>2, <3>1, SeenInUse DEF WindowInv
  <2> QED BY <2>1, <2>2
<1> HIDE DEF target, w
<1>4. q \in Queues
  <2>1. CASE bar \in {"close", "min"}
    BY <2>1, Facts, DispatchType
  <2>2. CASE bar \notin {"close", "min"}
    BY <2>2, Facts
  <2> QED BY <2>1, <2>2
<1> HIDE DEF q
<1>5. queue' \in Queues
  BY <1>1, <1>4, Facts, DispatchType
<1>6. popup'.queue \in PopupQueues
  <2>1. Put(popup.queue, "close") \in PopupQueues
    BY Facts, PutType
  <2>2. popup'.queue \in {Put(popup.queue, "close"), popup.queue}
    BY <1>1
  <2> QED BY <2>1, <2>2, Facts
<1> QED BY <1>1, <1>2, <1>3, <1>5, <1>6, Facts, RaiseInv

LEMMA StepInv == WindowInv /\ [Next]_vars => WindowInv'
<1> SUFFICES ASSUME WindowInv, [Next]_vars PROVE WindowInv'
  OBVIOUS
<1>1. ASSUME NEW p \in Clients, ClientStep(p) PROVE WindowInv'
  BY <1>1, GetMessageInv, CreateInv, CloseInv, MinimizeInv, MaximizeInv DEF ClientStep
<1>2. ASSUME NEW p \in Menus, MenuStep(p) PROVE WindowInv'
  BY <1>2, GetPopupMessageInv, PopupAndEndInv DEF MenuStep
<1>3. ASSUME NEW p \in Procs, die(p) \/ reap(p) PROVE WindowInv'
  BY <1>3, PopupAndEndInv
<1>4. CASE turnoffScreen \/ updateScreen
  BY <1>4, ScreenInv
<1>5. CASE Event
  BY <1>5, PassedOnInv, DockInv, DownInv DEF Event
<1>6. CASE UNCHANGED vars
  <2>1. UNCHANGED <<list, desktopId, queue, popup, status, handler, todo, headClosed>>
    BY <1>6 DEF vars, wins, procs
  <2> QED BY <2>1, Facts, QuietInv
<1> QED BY <1>1, <1>2, <1>3, <1>4, <1>5, <1>6 DEF Next, Halted

\* The invariant of window_manager.c: as long as nobody closed the window at
\* the head, the links describe one order of the windows in use, and every
\* program that has a window open holds one of them by itself.
THEOREM WindowInvariant == Spec => []WindowInv
  BY InitInv, StepInv, PTL DEF Spec

\* Drawing, which follows next from the head, and hit-testing, which follows
\* prev from the tail, see the same windows in opposite orders, and both end.
THEOREM ListStaysWellFormed == Spec => []ListWellFormed
<1>1. WindowInv => ListWellFormed
  BY OrderedWellFormed DEF WindowInv, ListWellFormed
<1> QED BY <1>1, WindowInvariant, PTL

-----------------------------------------------------------------------------
(* The stacking order *)

LEMMA StaysPut ==
  ASSUME UNCHANGED list
  PROVE  Moves(list, list')
  BY DEF Moves

\* A step that raises a window, if any.
LEMMA RaiseMoves ==
  ASSUME WindowInv, ~headClosed, NEW w \in Ids \cup {Nil},
         w # Nil /\ IsFree(list, w) => list.head # Nil,
         list' = focusWindow(list, w)
  PROVE  Moves(list, list')
  BY Facts, FocusOrdered DEF WindowInv

LEMMA MinimizeMoves ==
  ASSUME WindowInv, ~headClosed, NEW p \in Clients, minimizeWindow(p)
  PROVE  Moves(list, list')
<1> DEFINE w == handler[p]
           f == IF w = list.tail THEN list.prev[w] ELSE Nil
<1>1. todo[p] = "min" /\ list' = focusWindow(list, f)
  BY DEF minimizeWindow
<1>2. status[p] = "open" /\ w \in Ids
  BY <1>1, Facts, Constants
<1>3. f \in Ids \cup {Nil}
  BY <1>2, Facts DEF Lists
<1>4. f # Nil => ~IsFree(list, f)
  BY <1>2, Facts, SeenInUse DEF WindowInv
<1> HIDE DEF f
<1> QED BY <1>1, <1>3, <1>4, RaiseMoves

LEMMA MaximizeMoves ==
  ASSUME WindowInv, ~headClosed, NEW p \in Clients, maximizeWindow(p)
  PROVE  Moves(list, list')
<1>1. todo[p] = "max" /\ list' = focusWindow(list, handler[p])
  BY DEF maximizeWindow
<1>2. handler[p] \in Ids /\ ~IsFree(list, handler[p])
  BY <1>1, Facts, Constants
<1> QED BY <1>1, <1>2, RaiseMoves

LEMMA CloseMoves ==
  ASSUME WindowInv, ~headClosed', NEW p \in Clients, closeWindow(p)
  PROVE  Moves(list, list')
<1> DEFINE w == handler[p]
<1>1. /\ todo[p] = "close"
      /\ list' = Closed(list, w)
      /\ headClosed' = (headClosed \/ w = list.head)
  BY DEF closeWindow, Closed, Freed
<1>2. w \in Ids /\ ~IsFree(list, w) /\ w # list.head
  BY <1>1, Facts, Constants
<1>3. list \in Lists /\ Ordered(list)
  BY <1>1, Facts DEF WindowInv
<1> HIDE DEF w
<1> QED BY <1>1, <1>2, <1>3, CloseOrdered

LEMMA CreateMoves ==
  ASSUME WindowInv, ~headClosed, NEW p \in Clients, createWindow(p)
  PROVE  Moves(list, list')
<1> DEFINE free == {x \in Ids : IsFree(list, x)}
           w == CHOOSE i \in free : \A j \in free : i <= j
           headed == IF list.head = Nil THEN [list EXCEPT !.head = w] ELSE list
<1>1. CASE free = {}
  BY <1>1, StaysPut DEF createWindow, wins
<1>2. CASE free # {}
  <2>1. w \in Ids /\ IsFree(list, w)
    <3>1. free \subseteq Ids
      OBVIOUS
    <3> HIDE DEF free
    <3>2. w \in free
      BY <1>2, <3>1, FirstFree
    <3> HIDE DEF w
    <3> QED BY <3>2 DEF free
  <2>2. list' = addToWindowList(headed, w)
    BY <1>2 DEF createWindow
  <2> HIDE DEF w
  <2>3. list \in Lists /\ Ordered(list)
    BY Facts DEF WindowInv
  <2>4. PICK n \in 0..MaxWindows : \E s \in [1..n -> Ids] :
          /\ Order(list, n, s)
          /\ \A x \in Ids : IsFree(list, x) \/ \E i \in 1..n : s[i] = x
    BY <2>3 DEF Ordered
  <2>5. PICK s \in [1..n -> Ids] :
          /\ Order(list, n, s)
          /\ \A x \in Ids : IsFree(list, x) \/ \E i \in 1..n : s[i] = x
    BY <2>4
  <2>6. n \in Nat /\ \A i \in 1..n : s[i] \in Ids /\ s[i] # w
    BY <2>1, <2>5, PlacedInUse, Constants
  <2>7. Stacked(list) = s
    BY <2>5, OrderStacked
  <2>8. SameBut(Stacked(list'), s, w) /\ list'.tail = w
    <3>1. CASE n = 0
      <4>1. headed = [list EXCEPT !.head = w]
        BY <2>5, <3>1 DEF Order
      <4> HIDE DEF headed
      <4> DEFINE u == [i \in 1..1 |-> w]
      <4>2. s \in [1..0 -> Ids] /\ Order(list, 0, s)
        BY <2>5, <3>1
      <4>3. Order(list', 1, u)
        BY <2>1, <2>2, <2>3, <4>1, <4>2, AddFirst
      <4>4. u \in [1..1 -> Ids] /\ 1 \in 0..MaxWindows
        BY <2>1, Constants
      <4>5. u = Added(s, 0, w) /\ u[1] = w
        BY DEF Added
      <4> HIDE DEF u
      <4>6. Stacked(list') = Added(s, 0, w)
        BY <4>3, <4>4, <4>5, OrderStacked
      <4>7. SameBut(Added(s, 0, w), s, w)
        BY <2>1, <4>2, AddedSame
      <4>8. list'.tail = w
        BY <4>3, <4>5 DEF Order
      <4> QED BY <4>6, <4>7, <4>8
    <3>2. CASE n # 0
      <4>1. headed = list
        <5>1. list.head = s[1] /\ s[1] \in Ids
          BY <2>5, <2>6, <3>2 DEF Order
        <5> QED BY <5>1, Constants
      <4>2. list' = addToWindowList(list, w)
        BY <2>2, <4>1
      <4> HIDE DEF headed
      <4>3. n \in Nat \ {0} /\ (\A i \in 1..n : s[i] # w)
            /\ \A x \in Ids : x = w \/ IsFree(list, x) \/ \E i \in 1..n : s[i] = x
        BY <2>5, <2>6, <3>2
      <4> QED BY <2>1, <2>3, <2>5, <4>2, <4>3, AddOrdered
    <3> QED BY <3>1, <3>2
  <2> QED BY <2>1, <2>7, <2>8 DEF Moves
<1> QED BY <1>1, <1>2

LEMMA DockMoves ==
  ASSUME WindowInv, ~headClosed, NEW w \in Ids, dock_window(w)
  PROVE  Moves(list, list')
<1>1. /\ w \in Visited(NextFrom(list))
      /\ UNCHANGED list \/ list' = focusWindow(list, w)
  BY DEF dock_window
<1>2. ~IsFree(list, w)
  BY <1>1, SeenInUse DEF WindowInv
<1> QED BY <1>1, <1>2, RaiseMoves, StaysPut

LEMMA DownMoves ==
  ASSUME WindowInv, ~headClosed, NEW top \in Ids \cup {Nil}, NEW bar, NEW content,
         down(top, bar, content)
  PROVE  Moves(list, list')
<1> DEFINE target == IF top = Nil THEN desktopId ELSE top
<1>1. top \in Pressable \cup {Nil} /\ list' = focusWindow(list, target)
  BY DEF down
<1>2. target \in Ids \cup {Nil}
  BY Facts
<1>3. target # Nil /\ IsFree(list, target) => list.head # Nil
  <2>1. CASE top = Nil
    BY <2>1 DEF WindowInv
  <2>2. CASE top # Nil
    <3>1. top \in Visited(PrevFrom(list))
      BY <1>1, <2>2 DEF Pressable
    <3> QED BY <2>2, <3>1, SeenInUse DEF WindowInv
  <2> QED BY <2>1, <2>2
<1> HIDE DEF target
<1> QED BY <1>1, <1>2, <1>3, RaiseMoves

LEMMA MovesStep == WindowInv /\ [Next]_vars => headClosed' \/ Moves(list, list')
<1> SUFFICES ASSUME WindowInv, [Next]_vars, ~headClosed' PROVE Moves(list, list')
  OBVIOUS
<1>1. ASSUME NEW p \in Clients, ClientStep(p) PROVE Moves(list, list')
  <2>1. CASE closeWindow(p)
    BY <2>1, CloseMoves
  <2>2. CASE getMessage(p)
    BY <2>2, StaysPut DEF getMessage, wins
  <2>3. CASE createWindow(p)
    <3>1. ~headClosed
      BY <2>3 DEF createWindow
    <3> QED BY <2>3, <3>1, CreateMoves
  <2>4. CASE minimizeWindow(p)
    <3>1. ~headClosed
      BY <2>4 DEF minimizeWindow
    <3> QED BY <2>4, <3>1, MinimizeMoves
  <2>5. CASE maximizeWindow(p)
    <3>1. ~headClosed
      BY <2>5 DEF maximizeWindow
    <3> QED BY <2>5, <3>1, MaximizeMoves
  <2> QED BY <1>1, <2>1, <2>2, <2>3, <2>4, <2>5 DEF ClientStep
<1>2. ASSUME NEW p \in Menus, MenuStep(p) PROVE Moves(list, list')
  <2>1. UNCHANGED list
    BY <1>2 DEF MenuStep, getPopupMessage, createPopupWindow, closePopupWindow, wins
  <2> QED BY <2>1, StaysPut
<1>3. ASSUME NEW p \in Procs, die(p) \/ reap(p) PROVE Moves(list, list')
  <2>1. UNCHANGED list
    BY <1>3 DEF die, reap, wins
  <2> QED BY <2>1, StaysPut
<1>4. CASE turnoffScreen \/ updateScreen
  <2>1. UNCHANGED list
    BY <1>4 DEF turnoffScreen, updateScreen, wins
  <2> QED BY <2>1, StaysPut
<1>5. CASE Event
  <2>1. CASE \E w \in Ids : dock_window(w)
    <3>1. PICK w \in Ids : dock_window(w)
      BY <2>1
    <3>2. ~headClosed
      BY <3>1 DEF dock_window, DockDone
    <3> QED BY <3>1, <3>2, DockMoves
  <2>2. CASE \E top \in Ids \cup {Nil}, bar \in {"none", "close", "min", "drag"}, content \in BOOLEAN :
               down(top, bar, content)
    <3>1. PICK top \in Ids \cup {Nil}, bar \in {"none", "close", "min", "drag"}, content \in BOOLEAN :
            down(top, bar, content)
      BY <2>2
    <3>2. ~headClosed
      BY <3>1 DEF down
    <3> QED BY <3>1, <3>2, DownMoves
  <2>3. CASE mouse_move \/ down_popup \/ mouse_up \/ click_popup \/ click_content \/ key
    <3>1. UNCHANGED list
      BY <2>3 DEF mouse_move, down_popup, mouse_up, click_popup, click_content, key, wins
    <3> QED BY <3>1, StaysPut
  <2>4. CASE dock_showDesktop \/ dock_start \/ dock_beside
    <3>1. UNCHANGED list
      BY <2>4 DEF dock_showDesktop, dock_start, dock_beside
    <3> QED BY <3>1, StaysPut
  <2> QED BY <1>5, <2>1, <2>2, <2>3, <2>4 DEF Event
<1>6. CASE UNCHANGED vars
  BY <1>6, StaysPut DEF vars, wins
<1> QED BY <1>1, <1>2, <1>3, <1>4, <1>5, <1>6 DEF Next, Halted

\* Of focusWindow(), addToWindowList() and closeWindow(), none drops or swaps
\* a window on the way: until somebody closes the window at the head, a step
\* moves one window at most, and only to the top or out.
THEOREM StackingHolds == Spec => StackingSteps
<1>1. WindowInv /\ [Next]_vars => [headClosed' \/ OneMoves]_vars
  BY MovesStep DEF Moves, OneMoves, ZOrder
<1> QED BY <1>1, WindowInvariant, PTL DEF Spec, StackingSteps
=============================================================================
